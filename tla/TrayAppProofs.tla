--------------------------- MODULE TrayAppProofs ---------------------------
(***************************************************************************)
(* Theorems about TrayApp, checked by TLAPS, for any number of tokens,     *)
(* directories, edits, reloads, faults and restarts.                       *)
(***************************************************************************)
EXTENDS TrayApp, TLAPS

\* The part of TypeOK about the memory of the process.
MemoryOK ==
    /\ life \in {"down", "prompt", "asked", "save", "up"}
    /\ config \in Config
    /\ configError \in BOOLEAN /\ paused \in BOOLEAN /\ heartbeatOk \in BOOLEAN \cup {None}
    /\ answer \in Tokens \cup {None}
    /\ watcher \in Nat \cup {None} /\ watching \subseteq Nat \X Dirs
    /\ sender \in Sender \cup {None} /\ open \subseteq Sender
    /\ beat \in [at : {"wait", "sent", "answered"}, by : Sender \cup {None}, ok : BOOLEAN]
    /\ window \in Config \cup {None}
    /\ pc \in [Reloaders -> {"idle", "load", "assign", "start", "take", "swap", "close"}]
    /\ new \in [Reloaders -> Config] /\ old \in [Reloaders -> Sender \cup {None}]
    /\ overlapped \in BOOLEAN
    /\ built \in Nat

\* The rest of it.
OutsideOK ==
    /\ registered \subseteq Tokens /\ revoked \subseteq registered
    /\ file \in Config \cup {None, Broken}
    /\ edits \in Nat /\ starts \in Nat /\ troubles \in Nat

\* What Init and a process that ends leave behind has its type.
LEMMA DefaultType == Default \in Config /\ Idle \in [Reloaders -> {"idle"}]
BY DEF Default, Config, Idle

\* What is loaded is a config, whatever the file holds.
LEMMA LoadedType == ASSUME OutsideOK PROVE Loaded \in Config
BY DefaultType DEF OutsideOK, Loaded

\* A process that ended keeps the types.
LEMMA VanishType == ASSUME Vanish PROVE MemoryOK'
BY DefaultType DEF Vanish, MemoryOK, Idle, NoBeat

\* A start of the tray keeps them.
LEMMA RunTrayType ==
    ASSUME MemoryOK, NEW cfg \in Config, RunTray(cfg)
    PROVE  MemoryOK'
<1>1. CASE Vanish
  BY <1>1, VanishType
<1>2. CASE ~Vanish
  <2> DEFINE first == [number |-> 0, token |-> cfg.token]
  <2>1. first \in Sender
    BY DEF Sender, Config
  <2>2. cfg.dir # None => cfg.dir \in Dirs
    BY DEF Config
  <2>3. (life = "down" /\ ParseFails) \in BOOLEAN
    OBVIOUS
  <2>4. configError' \in BOOLEAN
    BY <1>2, <2>3 DEF RunTray
  <2> QED
    BY <1>2, <2>1, <2>2, <2>4 DEF RunTray, MemoryOK, reloadVars
<1> QED
  BY <1>1, <1>2

\* A step of a reload keeps the types.
LEMMA ReloadType ==
    ASSUME TypeOK, NEW r \in Reloaders, Reload(r) PROVE TypeOK'
<1>1. MemoryOK /\ OutsideOK
  BY DEF TypeOK, MemoryOK, OutsideOK
<1>2. UNCHANGED aside
  BY DEF Reload, Load, Assign, StartWatcher, TakeOld, Swap, CloseOld
<1>3. OutsideOK'
  BY <1>1, <1>2 DEF OutsideOK, aside, atHome, serverVars, boundVars
<1>4. MemoryOK'
  <2> USE <1>1
      DEF MemoryOK, aside, atHome, Goto, Done, statusVars, watchVars, senderVars
  <2>1. CASE Load(r)
    <3>1. Loaded \in Config
      BY <1>1, LoadedType
    <3>2. CASE ParseFails /\ Done(r)
      BY <2>1, <3>2, DefaultType DEF Load
    <3>3. CASE ~ParseFails
      BY <2>1, <3>1, <3>3, DefaultType DEF Load
    <3> QED
      BY <2>1, <3>2, <3>3 DEF Load
  <2>2. CASE Assign(r)
    BY <2>2 DEF Assign, StopObserver
  <2>3. CASE StartWatcher(r)
    <3>1. config.dir # None => config.dir \in Dirs
      BY DEF Config
    <3>2. built + 1 \in Nat
      OBVIOUS
    <3> QED
      BY <2>3, <3>1, <3>2, DefaultType DEF StartWatcher, StartObserver
  <2>4. CASE TakeOld(r)
    BY <2>4 DEF TakeOld
  <2>5. CASE Swap(r)
    <3>1. built' \in Nat /\ [number |-> built', token |-> new[r].token] \in Sender
      BY <2>5 DEF Swap, Sender, Config
    <3> QED
      BY <2>5, <3>1 DEF Swap
  <2>6. CASE CloseOld(r)
    BY <2>6, DefaultType DEF CloseOld
  <2> QED
    BY <2>1, <2>2, <2>3, <2>4, <2>5, <2>6 DEF Reload
<1> QED
  BY <1>3, <1>4 DEF TypeOK, MemoryOK, OutsideOK

\* The type invariant, by a step for each action.
LEMMA TypeAlways == Spec => []TypeOK
<1>1. Init => TypeOK
  <2>1. Default \in Config /\ Idle \in [Reloaders -> {"idle"}]
    BY DefaultType
  <2>2. NoBeat \in [at : {"wait", "sent", "answered"}, by : Sender \cup {None}, ok : BOOLEAN]
    BY DEF NoBeat
  <2>3. ASSUME Init PROVE OutsideOK
    BY <2>3 DEF Init, OutsideOK
  <2>4. ASSUME Init PROVE MemoryOK
    BY <2>1, <2>2, <2>4 DEF Init, MemoryOK, Idle
  <2> QED
    BY <2>3, <2>4 DEF TypeOK, MemoryOK, OutsideOK
<1>2. ASSUME TypeOK, [Next]_vars PROVE TypeOK'
  <2>1. MemoryOK /\ OutsideOK
    BY <1>2 DEF TypeOK, MemoryOK, OutsideOK
  <2>2. Loaded \in Config
    BY <2>1, LoadedType
  <2>3. SUFFICES MemoryOK' /\ OutsideOK'
    BY DEF TypeOK, MemoryOK, OutsideOK
  <2>4. CASE Start
    <3>1. OutsideOK'
      BY <2>1, <2>4 DEF Start, OutsideOK, serverVars
    <3>2. CASE RunTray(Loaded)
      BY <2>1, <2>2, <3>1, <3>2, RunTrayType
    <3>3. CASE ~RunTray(Loaded)
      BY <2>1, <2>2, <2>4, <3>1, <3>3
         DEF Start, NoTray, MemoryOK, statusVars, watchVars, senderVars, reloadVars
    <3> QED
      BY <3>1, <3>2, <3>3
  <2>5. CASE Exit
    BY <2>1, <2>5, VanishType DEF Exit, OutsideOK, serverVars, boundVars
  <2>6. CASE Cancel
    <3>1. MemoryOK'
      BY <2>1, <2>6, RunTrayType DEF Cancel, MemoryOK
    <3> QED
      BY <2>1, <2>6, <3>1 DEF Cancel, OutsideOK, serverVars, boundVars
  <2>7. CASE Ask
    BY <2>1, <2>7
       DEF Ask, MemoryOK, OutsideOK, NoTray, serverVars, boundVars, statusVars,
           watchVars, senderVars, reloadVars
  <2>8. CASE Register
    BY <2>1, <2>8
       DEF Register, FreshTokens, MemoryOK, OutsideOK, NoTray, boundVars, statusVars,
           watchVars, senderVars, reloadVars
  <2>9. CASE RegistrationFails
    <3>1. MemoryOK'
      BY <2>1, <2>9, RunTrayType DEF RegistrationFails, MemoryOK
    <3>2. troubles' \in Nat
      BY <2>1, <2>9 DEF RegistrationFails, OutsideOK
    <3> QED
      BY <2>1, <2>9, <3>1, <3>2 DEF RegistrationFails, OutsideOK, serverVars
  <2>10. CASE Registered
    <3>1. config' \in Config
      BY <2>1, <2>10 DEF Registered, MemoryOK, Config
    <3> QED
      BY <2>1, <2>10, <3>1
         DEF Registered, MemoryOK, OutsideOK, NoTray, serverVars, boundVars, statusVars,
             watchVars, senderVars, reloadVars
  <2>11. CASE SaveRegistration
    <3>1. MemoryOK'
      BY <2>1, <2>11, RunTrayType, VanishType DEF SaveRegistration, MemoryOK
    <3> QED
      BY <2>1, <2>11, <3>1 DEF SaveRegistration, MemoryOK, OutsideOK, serverVars, boundVars
  <2>12. CASE PauseResume \/ OpenSettings \/ CloseSettings \/ ReloadConfig
    BY <2>1, <2>12
       DEF PauseResume, OpenSettings, CloseSettings, ReloadConfig, BeginReload, Goto,
           MemoryOK, OutsideOK, atHome, serverVars, boundVars, statusVars, watchVars,
           senderVars, reloadVars
  <2>13. ASSUME NEW d \in Dirs \cup {None}, Save(d) PROVE MemoryOK' /\ OutsideOK'
    <3>1. file' \in Config
      BY <2>1, <2>13 DEF Save, MemoryOK, Config
    <3> QED
      BY <2>1, <2>13, <3>1
         DEF Save, BeginReload, Goto, MemoryOK, OutsideOK, atHome, serverVars, boundVars,
             statusVars, watchVars, senderVars
  <2>14. ASSUME NEW r \in Reloaders, Reload(r) PROVE MemoryOK' /\ OutsideOK'
    <3>1. TypeOK'
      BY <1>2, <2>14, ReloadType
    <3> QED
      BY <3>1 DEF TypeOK, MemoryOK, OutsideOK
  <2>15. CASE Beat \/ Beaten \/ SetHeartbeatResult
    <3>1. \A t : Accepts(t) \in BOOLEAN
      BY DEF Accepts
    <3>2. troubles' \in Nat
      BY <2>1, <2>15 DEF Beat, Beaten, SetHeartbeatResult, OutsideOK
    <3>3. beat' \in [at : {"wait", "sent", "answered"}, by : Sender \cup {None}, ok : BOOLEAN]
      <4>1. CASE Beat
        BY <2>1, <4>1 DEF Beat, MemoryOK
      <4>2. CASE Beaten
        <5>1. Accepts(beat.by.token) \in BOOLEAN
          BY <3>1
        <5> QED
          BY <2>1, <4>2, <5>1 DEF Beaten, MemoryOK
      <4>3. CASE SetHeartbeatResult
        BY <2>1, <4>3 DEF SetHeartbeatResult, NoBeat, MemoryOK
      <4> QED
        BY <2>15, <4>1, <4>2, <4>3
    <3>4. heartbeatOk' \in BOOLEAN \cup {None}
      BY <2>1, <2>15 DEF Beat, Beaten, SetHeartbeatResult, MemoryOK
    <3>5. UNCHANGED quiet
      BY <2>15 DEF Beat, Beaten, SetHeartbeatResult
    <3> QED
      BY <2>1, <3>2, <3>3, <3>4, <3>5
         DEF quiet, MemoryOK, OutsideOK, serverVars, watchVars, senderVars, reloadVars
  <2>16. CASE RevokeAgent \/ EditFile
    <3>1. UNCHANGED agentVars
      BY <2>16 DEF RevokeAgent, EditFile
    <3>2. MemoryOK'
      BY <2>1, <3>1
         DEF agentVars, MemoryOK, statusVars, watchVars, senderVars, reloadVars
    <3>3. OutsideOK'
      BY <2>1, <2>16
         DEF RevokeAgent, EditFile, OutsideOK, Config, serverVars, boundVars
    <3> QED
      BY <3>2, <3>3
  <2>17. CASE UNCHANGED vars
    BY <2>1, <2>17
       DEF vars, MemoryOK, OutsideOK, serverVars, boundVars, statusVars, watchVars,
           senderVars, reloadVars
  <2> QED
    BY <1>2, <2>4, <2>5, <2>6, <2>7, <2>8, <2>9, <2>10, <2>11, <2>12, <2>13, <2>14,
       <2>15, <2>16, <2>17 DEF Next
<1> QED
  BY <1>1, <1>2, PTL DEF Spec

\* Every variable keeps its type, however reloads, the heartbeat and the
\* registration interleave.
THEOREM TypeCorrect == Spec => []TypeOK
BY TypeAlways

-----------------------------------------------------------------------------
(* The sender in use, whatever the reloads do *)

\* Numbers are given in order, so what is built is new, and a sender about to
\* be closed is not the one in use.
SenderHeld ==
    /\ life = "up" => sender \in open
    /\ life # "up" => pc = Idle
    /\ \A m \in open : m.number <= built
    /\ \A r \in Reloaders :
           /\ pc[r] \in {"swap", "close"} => old[r] \in Sender /\ old[r].number <= built
           /\ pc[r] = "close" => old[r] # sender

\* A process that ended has no sender.
LEMMA VanishHeld == ASSUME Vanish PROVE SenderHeld'
BY DEF Vanish, SenderHeld, Idle

\* A start of the tray opens one.
LEMMA RunTrayHeld ==
    ASSUME TypeOK, SenderHeld, life # "up", NEW cfg, RunTray(cfg) PROVE SenderHeld'
<1>1. CASE Vanish
  BY <1>1, VanishHeld
<1>2. CASE ~Vanish
  <2>1. life' = "up" /\ pc' = Idle /\ built' = built /\ built \in Nat
    BY <1>2 DEF RunTray, SenderHeld, reloadVars, TypeOK
  <2>2. sender'.number = 0 /\ open' = {sender'}
    BY <1>2 DEF RunTray
  <2> QED
    BY <2>1, <2>2 DEF SenderHeld, Idle
<1> QED
  BY <1>1, <1>2

\* What touches no sender and moves no reload.
LEMMA StillHeld ==
    ASSUME SenderHeld, UNCHANGED <<senderVars, pc, old, built>>, life' = "up" <=> life = "up"
    PROVE  SenderHeld'
BY DEF SenderHeld, senderVars

\* A reload that begins has touched no sender yet.
LEMMA BeginHeld ==
    ASSUME TypeOK, SenderHeld, NEW r \in Reloaders, BeginReload(r),
           UNCHANGED <<life, senderVars, old, built>>
    PROVE  SenderHeld'
<1>1. /\ life = "up" /\ pc' = [pc EXCEPT ![r] = "load"]
      /\ pc \in [Reloaders -> {"idle", "load", "assign", "start", "take", "swap", "close"}]
  BY DEF BeginReload, Goto, TypeOK
<1>2. \A s \in Reloaders : pc'[s] = pc[s] \/ pc'[s] = "load"
  BY <1>1
<1> QED
  BY <1>1, <1>2 DEF SenderHeld, senderVars

\* Each step of a reload.
LEMMA ReloadHeld ==
    ASSUME TypeOK, SenderHeld, NEW r \in Reloaders, Reload(r) PROVE SenderHeld'
<1>1. /\ pc \in [Reloaders -> {"idle", "load", "assign", "start", "take", "swap", "close"}]
      /\ old \in [Reloaders -> Sender \cup {None}] /\ built \in Nat /\ open \subseteq Sender
  BY DEF TypeOK
<1>2. life' = life /\ pc[r] # "idle"
  BY DEF Reload, Load, Assign, StartWatcher, TakeOld, Swap, CloseOld, aside, atHome
<1>3. life = "up" /\ sender \in open
  BY <1>2 DEF SenderHeld, Idle
<1> USE <1>1, <1>2, <1>3 DEF SenderHeld, Goto, Done
<1>4. CASE Load(r)
  BY <1>4 DEF Load, senderVars
<1>5. CASE Assign(r)
  BY <1>5 DEF Assign, senderVars
<1>6. CASE StartWatcher(r)
  <2>1. /\ pc'[r] \in {"take", "idle"} /\ UNCHANGED <<sender, open>>
        /\ \A s \in Reloaders : s # r => pc'[s] = pc[s] /\ old'[s] = old[s]
    BY <1>6 DEF StartWatcher, senderVars
  <2>2. built' \in {built, built + 1}
    BY <1>6 DEF StartWatcher
  <2>3. \A n \in Nat : n <= built => n <= built'
    BY <2>2
  <2>4. \A m \in Sender : m.number \in Nat
    BY DEF Sender
  <2> QED
    BY <2>1, <2>3, <2>4
<1>7. CASE TakeOld(r)
  BY <1>7 DEF TakeOld, senderVars
<1>8. CASE Swap(r)
  <2>1. /\ sender'.number = built + 1 /\ built' = built + 1 /\ open' = open \cup {sender'}
        /\ old' = old /\ \A s \in Reloaders : s # r => pc'[s] = pc[s]
        /\ pc'[r] = "close" /\ pc[r] = "swap"
    BY <1>8 DEF Swap
  <2>2. \A m \in Sender : m.number <= built => m # sender' /\ m.number <= built'
    BY <2>1 DEF Sender
  <2>3. \A s \in Reloaders : pc'[s] \in {"swap", "close"} => pc[s] \in {"swap", "close"}
    BY <2>1
  <2> QED
    BY <2>1, <2>2, <2>3
<1>9. CASE CloseOld(r)
  BY <1>9 DEF CloseOld
<1> QED
  BY <1>4, <1>5, <1>6, <1>7, <1>8, <1>9 DEF Reload

LEMMA HeldAlways == Spec => []SenderHeld
<1>1. Init => SenderHeld
  BY DEF Init, SenderHeld, Idle
<1>2. ASSUME TypeOK, SenderHeld, [Next]_vars PROVE SenderHeld'
  <2>1. CASE Start
    <3>1. CASE RunTray(Loaded)
      BY <1>2, <2>1, <3>1, RunTrayHeld DEF Start
    <3>2. CASE ~RunTray(Loaded)
      BY <1>2, <2>1, <3>2, StillHeld DEF Start, NoTray, reloadVars
    <3> QED
      BY <3>1, <3>2
  <2>2. CASE Exit
    BY <2>2, VanishHeld DEF Exit
  <2>3. CASE Cancel \/ RegistrationFails
    BY <1>2, <2>3, RunTrayHeld DEF Cancel, RegistrationFails
  <2>4. CASE Ask \/ Register \/ Registered
    BY <1>2, <2>4, StillHeld DEF Ask, Register, Registered, NoTray, reloadVars
  <2>5. CASE SaveRegistration
    BY <1>2, <2>5, RunTrayHeld, VanishHeld DEF SaveRegistration
  <2>6. CASE PauseResume \/ OpenSettings \/ CloseSettings
    BY <1>2, <2>6, StillHeld
       DEF PauseResume, OpenSettings, CloseSettings, atHome, reloadVars
  <2>7. CASE ReloadConfig
    BY <1>2, <2>7, BeginHeld DEF ReloadConfig, Reloaders, atHome
  <2>8. ASSUME NEW d \in Dirs \cup {None}, Save(d) PROVE SenderHeld'
    BY <1>2, <2>8, BeginHeld DEF Save, Reloaders, atHome
  <2>9. ASSUME NEW r \in Reloaders, Reload(r) PROVE SenderHeld'
    BY <1>2, <2>9, ReloadHeld
  <2>10. CASE Beat \/ Beaten \/ SetHeartbeatResult
    BY <1>2, <2>10, StillHeld DEF Beat, Beaten, SetHeartbeatResult, quiet, reloadVars
  <2>11. CASE RevokeAgent \/ EditFile
    BY <1>2, <2>11, StillHeld DEF RevokeAgent, EditFile, agentVars, reloadVars
  <2>12. CASE UNCHANGED vars
    BY <1>2, <2>12, StillHeld DEF vars, reloadVars
  <2> QED
    BY <1>2, <2>1, <2>2, <2>3, <2>4, <2>5, <2>6, <2>7, <2>8, <2>9, <2>10, <2>11, <2>12
       DEF Next
<1> QED
  BY <1>1, <1>2, TypeAlways, PTL DEF Spec

-----------------------------------------------------------------------------
(* While reloads take turns *)

OneReload == \A r, s \in Reloaders : pc[r] # "idle" /\ pc[s] # "idle" => r = s

\* Numbers are given in order, so what is built is new.
Numbered ==
    /\ watcher # None => watcher <= built
    /\ \A m \in open : m.number <= built

\* What a reload's position says of the watchers and the senders: from the
\* stop to the start nothing is watched, and the sender about to be closed is
\* the one in use until the new one is there, and another one then.
ReloadOK ==
    \A r \in Reloaders :
        /\ pc[r] = "start" => watching = {}
        /\ pc[r] \in {"swap", "close"} => old[r] \in open
        /\ pc[r] = "swap" => old[r] = sender
        /\ pc[r] = "close" => old[r] # sender
        /\ pc[r] \notin {"swap", "close"} => old[r] = None

\* There is a tray, or nothing of it.
NoLeftovers == life # "up" => pc = Idle /\ watching = {} /\ open = {}

OwnWatchers == \A w \in watching : w[1] = watcher

OwnSenders ==
    /\ life = "up" => sender \in open
    /\ open \subseteq {sender} \cup {old[r] : r \in Reloaders}

\* What holds of reloads that take turns; types apart.
InTurn ==
    /\ OneReload /\ Numbered /\ ReloadOK /\ NoLeftovers
    /\ OwnWatchers /\ OwnSenders

\* A process that ended leaves nothing behind.
LEMMA VanishInTurn == ASSUME Vanish PROVE InTurn'
BY DEF Vanish, InTurn, OneReload, Numbered, ReloadOK, NoLeftovers, OwnWatchers,
       OwnSenders, Idle

\* A start of the tray finds nothing of an earlier one.
LEMMA RunTrayInTurn ==
    ASSUME TypeOK, InTurn, life # "up", NEW cfg, RunTray(cfg) PROVE InTurn'
<1>1. CASE Vanish
  BY <1>1, VanishInTurn
<1>2. CASE ~Vanish
  <2>1. life' = "up" /\ pc' = Idle /\ UNCHANGED <<old, built>>
    BY <1>2 DEF RunTray, InTurn, NoLeftovers, reloadVars
  <2>2. built \in Nat /\ \A r \in Reloaders : old[r] = None
    BY DEF TypeOK, InTurn, NoLeftovers, ReloadOK, Idle
  <2>3. OneReload' /\ ReloadOK' /\ NoLeftovers'
    BY <2>1, <2>2 DEF OneReload, ReloadOK, NoLeftovers, Idle
  <2>4. Numbered' /\ OwnWatchers' /\ OwnSenders'
    BY <1>2, <2>1, <2>2 DEF RunTray, Numbered, OwnWatchers, OwnSenders
  <2> QED
    BY <2>3, <2>4 DEF InTurn
<1> QED
  BY <1>1, <1>2

\* What neither touches the tray's objects nor a reload keeps all of it.
LEMMA StillInTurn ==
    ASSUME InTurn, UNCHANGED <<watchVars, senderVars, pc, old, built>>,
           life' = "up" <=> life = "up"
    PROVE  InTurn'
BY DEF InTurn, OneReload, Numbered, ReloadOK, NoLeftovers, OwnWatchers, OwnSenders,
       watchVars, senderVars

\* A reload starts when there is none.
LEMMA GotoInTurn ==
    ASSUME TypeOK, InTurn, NEW r \in Reloaders, life = "up", pc = Idle,
           Goto(r, "load"), UNCHANGED <<life, watchVars, senderVars, old, built>>
    PROVE  InTurn'
<1>1. pc = Idle /\ life = "up"
  OBVIOUS
<1>2. pc' = [Idle EXCEPT ![r] = "load"]
  BY <1>1 DEF Goto
<1>3. OneReload' /\ ReloadOK' /\ NoLeftovers'
  BY <1>1, <1>2 DEF InTurn, OneReload, ReloadOK, NoLeftovers, Idle
<1> QED
  BY <1>3 DEF InTurn, Numbered, OwnWatchers, OwnSenders, watchVars, senderVars

\* Each step of a reload.
LEMMA ReloadInTurn ==
    ASSUME TypeOK, InTurn, NEW r \in Reloaders, Reload(r) PROVE InTurn'
<1>1. pc \in [Reloaders -> {"idle", "load", "assign", "start", "take", "swap", "close"}]
      /\ old \in [Reloaders -> Sender \cup {None}] /\ built \in Nat /\ open \subseteq Sender
      /\ watcher \in Nat \cup {None} /\ sender \in Sender \cup {None}
  BY DEF TypeOK
<1>2. life' = life
  BY DEF Reload, Load, Assign, StartWatcher, TakeOld, Swap, CloseOld, aside, atHome
<1>3. pc[r] # "idle"
  BY DEF Reload, Load, Assign, StartWatcher, TakeOld, Swap, CloseOld
<1>4. life = "up" /\ \A s \in Reloaders : s # r => pc[s] = "idle" /\ old[s] = None
  BY <1>3 DEF InTurn, NoLeftovers, OneReload, ReloadOK, Idle
<1>5. \A s \in Reloaders : s # r => pc'[s] = pc[s] /\ old'[s] = old[s]
  BY <1>1 DEF Reload, Load, Assign, StartWatcher, TakeOld, Swap, CloseOld, Done, Goto
<1>6. OneReload' /\ NoLeftovers'
  BY <1>2, <1>4, <1>5 DEF OneReload, NoLeftovers
<1>7. Numbered' /\ ReloadOK' /\ OwnWatchers' /\ OwnSenders'
  <2> USE <1>1, <1>2, <1>4, <1>5 DEF InTurn, Goto, Done
  <2>1. CASE Load(r)
    BY <2>1 DEF Load, Numbered, ReloadOK, OwnWatchers, OwnSenders, watchVars,
               senderVars
  <2>2. CASE Assign(r)
    BY <2>2 DEF Assign, StopObserver, Numbered, ReloadOK, OwnWatchers, OwnSenders,
               senderVars
  <2>3. CASE StartWatcher(r)
    <3>1. watching = {}
      BY <2>3 DEF StartWatcher, ReloadOK
    <3>2. watching' = {} \/ watching' = {<<watcher', config.dir>>}
      BY <2>3, <3>1 DEF StartWatcher, StartObserver
    <3>3. OwnWatchers'
      BY <3>2 DEF OwnWatchers
    <3>4. (watcher' = None /\ built' = built) \/ (watcher' = built + 1 /\ built' = built + 1)
      BY <2>3 DEF StartWatcher
    <3>5. open' = open
      BY <2>3 DEF StartWatcher, senderVars
    <3>6. \A m \in open : m.number \in Nat /\ m.number <= built
      BY DEF Numbered, Sender
    <3>7. Numbered'
      BY <3>4, <3>5, <3>6 DEF Numbered
    <3>8. ReloadOK' /\ OwnSenders'
      BY <2>3 DEF StartWatcher, ReloadOK, OwnSenders, senderVars
    <3> QED
      BY <3>3, <3>7, <3>8
  <2>4. CASE TakeOld(r)
    <3>1. UNCHANGED <<watcher, watching, sender, open, built>>
      BY <2>4 DEF TakeOld, watchVars, senderVars
    <3>2. Numbered' /\ OwnWatchers'
      BY <3>1 DEF Numbered, OwnWatchers
    <3>3. sender \in open /\ open \subseteq {sender} \cup {old[s] : s \in Reloaders}
      BY DEF OwnSenders
    <3>4. pc'[r] = "swap" /\ old'[r] = sender
      BY <2>4 DEF TakeOld
    <3>5. ReloadOK'
      BY <3>1, <3>3, <3>4 DEF ReloadOK
    <3>6. old[r] = None
      BY <2>4 DEF TakeOld, ReloadOK
    <3>7. \E s \in Reloaders : old'[s] = None
      BY DEF Reloaders
    <3>8. \A s \in Reloaders : old[s] \in {None, sender}
      BY <3>6
    <3>9. open' \subseteq {sender'} \cup {old'[s] : s \in Reloaders}
      BY <3>1, <3>3, <3>7, <3>8
    <3>10. OwnSenders'
      BY <3>1, <3>3, <3>9 DEF OwnSenders
    <3> QED
      BY <3>2, <3>5, <3>10
  <2>5. CASE Swap(r)
    <3>1. sender'.number = built + 1 /\ built' = built + 1 /\ open' = open \cup {sender'}
      BY <2>5 DEF Swap
    <3>2. \A m \in open : m.number # built + 1
      BY DEF Numbered, Sender
    <3>3. sender' \notin open
      BY <3>1, <3>2
    <3>4. Numbered' /\ OwnWatchers'
      BY <2>5, <3>1 DEF Swap, Numbered, OwnWatchers, watchVars, Sender
    <3>5. ReloadOK' /\ OwnSenders'
      BY <2>5, <3>1, <3>3 DEF Swap, ReloadOK, OwnSenders
    <3> QED
      BY <3>4, <3>5
  <2>6. CASE CloseOld(r)
    BY <2>6 DEF CloseOld, Numbered, ReloadOK, OwnWatchers, OwnSenders, watchVars
  <2> QED
    BY <2>1, <2>2, <2>3, <2>4, <2>5, <2>6 DEF Reload
<1> QED
  BY <1>6, <1>7 DEF InTurn

\* The invariant: reloads that took turns so far have kept things in turn, and
\* a process that ended takes all of the mess with it.
Owned ==
    /\ life # "up" => ~overlapped
    /\ ~overlapped => InTurn

LEMMA OwnedAlways == Spec => []Owned
<1>1. Init => Owned
  BY DEF Init, Owned, InTurn, OneReload, Numbered, ReloadOK, NoLeftovers, OwnWatchers,
         OwnSenders, Idle
<1>2. ASSUME TypeOK, Owned, [Next]_vars PROVE Owned'
  <2>1. ASSUME Vanish PROVE Owned'
    BY <2>1, VanishInTurn DEF Owned, Vanish
  <2>2. ASSUME life # "up", NEW cfg, RunTray(cfg) PROVE Owned'
    <3>1. InTurn'
      BY <1>2, <2>2, RunTrayInTurn DEF Owned
    <3>2. ~overlapped'
      BY <1>2, <2>2 DEF Owned, RunTray, reloadVars, Vanish
    <3> QED
      BY <3>1, <3>2 DEF Owned
  <2>3. ASSUME UNCHANGED <<watchVars, senderVars, pc, old, overlapped, built>>,
               life' = "up" <=> life = "up"
        PROVE  Owned'
    BY <1>2, <2>3, StillInTurn DEF Owned
  <2>4. ASSUME NEW r \in Reloaders, BeginReload(r),
               UNCHANGED <<life, watchVars, senderVars, old, built>>
        PROVE  Owned'
    <3>1. life' = "up" /\ (~overlapped' => ~overlapped /\ pc = Idle)
      BY <2>4 DEF BeginReload
    <3>2. ~overlapped' => InTurn'
      BY <1>2, <2>4, <3>1, GotoInTurn DEF Owned, BeginReload
    <3> QED
      BY <3>1, <3>2 DEF Owned
  <2>5. ASSUME NEW r \in Reloaders, Reload(r) PROVE Owned'
    <3>1. life' = life /\ overlapped' = overlapped
      BY <2>5 DEF Reload, Load, Assign, StartWatcher, TakeOld, Swap, CloseOld, aside, atHome
    <3>2. ~overlapped => InTurn'
      BY <1>2, <2>5, ReloadInTurn DEF Owned
    <3> QED
      BY <1>2, <3>1, <3>2 DEF Owned
  <2>6. CASE Start
    <3>1. CASE RunTray(Loaded)
      BY <2>2, <2>6, <3>1 DEF Start
    <3>2. CASE ~RunTray(Loaded)
      BY <2>3, <2>6, <3>2 DEF Start, NoTray, reloadVars
    <3> QED
      BY <3>1, <3>2
  <2>7. CASE Exit
    BY <2>1, <2>7 DEF Exit
  <2>8. CASE Cancel \/ RegistrationFails
    BY <2>2, <2>8 DEF Cancel, RegistrationFails
  <2>9. CASE Ask \/ Register \/ Registered
    BY <2>3, <2>9 DEF Ask, Register, Registered, NoTray, reloadVars
  <2>10. CASE SaveRegistration
    BY <2>1, <2>2, <2>10 DEF SaveRegistration
  <2>11. CASE PauseResume \/ OpenSettings \/ CloseSettings
    BY <2>3, <2>11 DEF PauseResume, OpenSettings, CloseSettings, atHome, reloadVars
  <2>12. CASE ReloadConfig
    BY <2>4, <2>12 DEF ReloadConfig, Reloaders, atHome
  <2>13. ASSUME NEW d \in Dirs \cup {None}, Save(d) PROVE Owned'
    BY <2>4, <2>13 DEF Save, Reloaders, atHome
  <2>14. CASE Beat \/ Beaten \/ SetHeartbeatResult
    BY <2>3, <2>14 DEF Beat, Beaten, SetHeartbeatResult, quiet, reloadVars
  <2>15. CASE RevokeAgent \/ EditFile
    BY <2>3, <2>15 DEF RevokeAgent, EditFile, agentVars, reloadVars
  <2>16. CASE UNCHANGED vars
    BY <2>3, <2>16 DEF vars, reloadVars
  <2> QED
    BY <1>2, <2>5, <2>6, <2>7, <2>8, <2>9, <2>10, <2>11, <2>12, <2>13, <2>14, <2>15,
       <2>16 DEF Next
<1> QED
  BY <1>1, <1>2, TypeAlways, PTL DEF Spec

\* As long as no reload began during another one, no observer is left behind:
\* the one that runs is the tray's, for any number of reloads, failed starts
\* and restarts.
THEOREM WatchersStayOwned == Spec => []WatchersAreOwned
<1>1. Owned => WatchersAreOwned
  BY DEF Owned, InTurn, OwnWatchers, WatchersAreOwned
<1> QED
  BY <1>1, OwnedAlways, PTL

\* The sender in use is open, however reloads overlap; and as long as none
\* began during another one every other sender is closed, except for the one
\* a reload is about to close.
THEOREM SendersStayOwned == Spec => []SendersAreOwned
<1>1. Owned /\ SenderHeld => SendersAreOwned
  BY DEF Owned, InTurn, OwnSenders, SenderHeld, SendersAreOwned
<1> QED
  BY <1>1, OwnedAlways, HeldAlways, PTL

-----------------------------------------------------------------------------
(* What the copies of the config have in common *)

\* The observer that runs watches the configured directory.
Watched == watching = IF config.dir = None THEN {} ELSE {<<watcher, config.dir>>}

Copies == (watcher # None /\ watching = {}) \/ (sender.token = config.token /\ Watched)

\* Up to the assignment of the new config the copies are as they were; then
\* the watcher follows it, and last the sender.
CopiesInv ==
    life = "up" =>
        /\ \A r \in Reloaders :
               /\ pc[r] \in {"start", "take", "swap", "close"} => config = new[r]
               /\ pc[r] \in {"take", "swap", "close"} => Watched
               /\ pc[r] = "close" => sender.token = config.token
        /\ (\A r \in Reloaders : pc[r] \in {"idle", "load", "assign"}) => Copies

\* A start of the tray gives the config to the sender and to the watcher.
LEMMA RunTrayCopies ==
    ASSUME InTurn, life # "up", NEW cfg, RunTray(cfg) PROVE CopiesInv'
<1>1. CASE Vanish
  BY <1>1 DEF Vanish, CopiesInv
<1>2. CASE ~Vanish
  <2>1. pc' = Idle
    BY <1>2 DEF RunTray, InTurn, NoLeftovers, reloadVars
  <2>2. config' = cfg /\ sender'.token = cfg.token
    BY <1>2 DEF RunTray
  <2>3. Watched'
    BY <1>2 DEF RunTray, Watched
  <2> QED
    BY <2>1, <2>2, <2>3 DEF CopiesInv, Copies, Idle
<1> QED
  BY <1>1, <1>2

\* What touches none of the copies keeps them.
LEMMA StillCopies ==
    ASSUME CopiesInv, UNCHANGED <<config, watchVars, senderVars, pc, new>>,
           life' = "up" => life = "up"
    PROVE  CopiesInv'
BY DEF CopiesInv, Copies, Watched, watchVars, senderVars

\* A reload that starts has changed nothing.
LEMMA GotoCopies ==
    ASSUME TypeOK, InTurn, CopiesInv, NEW r \in Reloaders, life = "up", pc = Idle,
           Goto(r, "load"), UNCHANGED <<life, config, watchVars, senderVars, new>>
    PROVE  CopiesInv'
<1>1. pc = Idle /\ life = "up"
  OBVIOUS
<1>2. pc' = [Idle EXCEPT ![r] = "load"]
  BY <1>1 DEF Goto
<1>3. Copies
  BY <1>1 DEF CopiesInv, Idle
<1>4. Copies'
  BY <1>3 DEF Copies, Watched, watchVars, senderVars
<1> QED
  BY <1>2, <1>4 DEF CopiesInv, Idle

\* Each step of a reload.
LEMMA ReloadCopies ==
    ASSUME TypeOK, InTurn, CopiesInv, NEW r \in Reloaders, Reload(r) PROVE CopiesInv'
<1>1. pc \in [Reloaders -> {"idle", "load", "assign", "start", "take", "swap", "close"}]
      /\ new \in [Reloaders -> Config] /\ built \in Nat
  BY DEF TypeOK
<1>2. pc[r] # "idle"
  BY DEF Reload, Load, Assign, StartWatcher, TakeOld, Swap, CloseOld
<1>3. life = "up" /\ \A s \in Reloaders : s # r => pc[s] = "idle"
  BY <1>2 DEF InTurn, NoLeftovers, OneReload, Idle
<1>4. \A s \in Reloaders : s # r => pc'[s] = "idle"
  BY <1>1, <1>3 DEF Reload, Load, Assign, StartWatcher, TakeOld, Swap, CloseOld, Done, Goto
<1>5. /\ pc[r] \in {"start", "take", "swap", "close"} => config = new[r]
      /\ pc[r] \in {"take", "swap", "close"} => Watched
      /\ pc[r] = "close" => sender.token = config.token
      /\ pc[r] \in {"load", "assign"} => Copies
  BY <1>3 DEF CopiesInv
<1>6. SUFFICES /\ pc'[r] \in {"start", "take", "swap", "close"} => config' = new'[r]
               /\ pc'[r] \in {"take", "swap", "close"} => Watched'
               /\ pc'[r] = "close" => sender'.token = config'.token
               /\ pc'[r] \in {"idle", "load", "assign"} => Copies'
  BY <1>4 DEF CopiesInv
<1> USE <1>1, <1>5 DEF Goto, Done
<1>7. CASE Load(r)
  BY <1>7 DEF Load, Copies, Watched, watchVars, senderVars
<1>8. CASE Assign(r)
  BY <1>8 DEF Assign
<1>9. CASE StartWatcher(r)
  <2>1. watching = {} /\ config = new[r] /\ UNCHANGED <<config, sender>>
    BY <1>9 DEF StartWatcher, InTurn, ReloadOK, senderVars
  <2>2. CASE pc'[r] = "take"
    <3>1. new' = new
      BY <1>9, <2>2 DEF StartWatcher
    <3>2. Watched'
      BY <1>9, <2>1, <2>2 DEF StartWatcher, StartObserver, Watched
    <3> QED
      BY <2>1, <2>2, <3>1, <3>2
  <2>3. CASE pc'[r] # "take"
    <3>1. pc'[r] = "idle" /\ watching' = {} /\ watcher' = built + 1
      BY <1>9, <2>1, <2>3 DEF StartWatcher
    <3>2. watcher' # None
      BY <3>1, NoneAssumption
    <3> QED
      BY <3>1, <3>2 DEF Copies
  <2> QED
    BY <2>2, <2>3
<1>10. CASE TakeOld(r)
  BY <1>10 DEF TakeOld, Watched, watchVars, senderVars
<1>11. CASE Swap(r)
  <2>1. sender'.token = config'.token /\ UNCHANGED <<config, new, watcher, watching>>
    BY <1>11 DEF Swap, watchVars
  <2>2. Watched'
    BY <1>11, <2>1 DEF Swap, Watched
  <2> QED
    BY <1>11, <2>1, <2>2 DEF Swap
<1>12. CASE CloseOld(r)
  BY <1>12 DEF CloseOld, Copies, Watched, watchVars
<1> QED
  BY <1>7, <1>8, <1>9, <1>10, <1>11, <1>12 DEF Reload

\* As long as no reload began during another one, the sender has the token of
\* the tray's config and the observer its directory, whenever no reload is
\* under way, unless the last watcher did not start.
THEOREM CopiesStayAgreed == Spec => []CopiesAgree
<1> DEFINE CopiesHold == ~overlapped => CopiesInv
<1>1. Init => CopiesHold
  BY DEF Init, CopiesInv
<1>2. ASSUME TypeOK, Owned, CopiesHold, [Next]_vars PROVE CopiesHold'
  <2> SUFFICES ASSUME ~overlapped' PROVE CopiesInv'
    OBVIOUS
  <2>1. ASSUME Vanish PROVE CopiesInv'
    BY <2>1 DEF Vanish, CopiesInv
  <2>2. ASSUME life # "up", NEW cfg, RunTray(cfg) PROVE CopiesInv'
    BY <1>2, <2>2, RunTrayCopies DEF Owned
  <2>3. ASSUME UNCHANGED <<config, watchVars, senderVars, pc, new, overlapped>>,
               life' = "up" => life = "up"
        PROVE  CopiesInv'
    BY <1>2, <2>3, StillCopies
  <2>4. ASSUME NEW r \in Reloaders, BeginReload(r),
               UNCHANGED <<life, config, watchVars, senderVars, new>>
        PROVE  CopiesInv'
    <3>1. ~overlapped /\ pc = Idle /\ life = "up" /\ Goto(r, "load")
      BY <2>4 DEF BeginReload
    <3> QED
      BY <1>2, <2>4, <3>1, GotoCopies DEF Owned
  <2>5. ASSUME NEW r \in Reloaders, Reload(r) PROVE CopiesInv'
    <3>1. overlapped' = overlapped
      BY <2>5 DEF Reload, Load, Assign, StartWatcher, TakeOld, Swap, CloseOld, aside
    <3> QED
      BY <1>2, <2>5, <3>1, ReloadCopies DEF Owned
  <2>6. CASE Start
    <3>1. CASE RunTray(Loaded)
      BY <2>2, <2>6, <3>1 DEF Start
    <3>2. CASE ~RunTray(Loaded)
      BY <2>6, <3>2 DEF Start, CopiesInv
    <3> QED
      BY <3>1, <3>2
  <2>7. CASE Exit
    BY <2>1, <2>7 DEF Exit
  <2>8. CASE Cancel \/ RegistrationFails
    BY <2>2, <2>8 DEF Cancel, RegistrationFails
  <2>9. CASE Ask \/ Register \/ Registered
    BY <2>9 DEF Ask, Register, Registered, CopiesInv
  <2>10. CASE SaveRegistration
    BY <2>1, <2>2, <2>10 DEF SaveRegistration
  <2>11. CASE PauseResume \/ OpenSettings \/ CloseSettings
    BY <2>3, <2>11 DEF PauseResume, OpenSettings, CloseSettings, atHome, reloadVars
  <2>12. CASE ReloadConfig
    BY <2>4, <2>12 DEF ReloadConfig, Reloaders, atHome
  <2>13. ASSUME NEW d \in Dirs \cup {None}, Save(d) PROVE CopiesInv'
    BY <2>4, <2>13 DEF Save, Reloaders, atHome
  <2>14. CASE Beat \/ Beaten \/ SetHeartbeatResult
    BY <2>3, <2>14 DEF Beat, Beaten, SetHeartbeatResult, quiet, reloadVars
  <2>15. CASE RevokeAgent \/ EditFile
    BY <2>3, <2>15 DEF RevokeAgent, EditFile, agentVars, reloadVars
  <2>16. CASE UNCHANGED vars
    BY <2>3, <2>16 DEF vars, reloadVars
  <2> QED
    BY <1>2, <2>5, <2>6, <2>7, <2>8, <2>9, <2>10, <2>11, <2>12, <2>13, <2>14, <2>15,
       <2>16 DEF Next
<1>3. CopiesHold => CopiesAgree
  BY DEF CopiesInv, CopiesAgree, Copies, Watched, Idle
<1> QED
  BY <1>1, <1>2, <1>3, TypeAlways, OwnedAlways, PTL DEF Spec

-----------------------------------------------------------------------------
(* The token in the file *)

\* Without a tray there is neither a reload nor a settings window.
Tidy == life # "up" => pc = Idle /\ window = None

\* Until somebody edits the file, every copy of the token is the file's, and
\* a registration is under way only while the file has none.
TokensAgree ==
    /\ file # Broken
    /\ life \in {"prompt", "asked", "save"} => Loaded.token = None
    /\ life \in {"prompt", "asked", "up"} => config.token = Loaded.token
    /\ window # None => window.token = Loaded.token
    /\ \A r \in Reloaders : pc[r] = "assign" => new[r].token = Loaded.token

TokenInv == Tidy /\ (edits = 0 => TokensAgree)

\* A start of the tray with a config that has the file's token.
LEMMA RunTrayTokens ==
    ASSUME Tidy, life # "up", NEW cfg, RunTray(cfg), edits' = edits,
           edits = 0 => file' # Broken /\ cfg.token = Loaded'.token
    PROVE  TokenInv'
<1>1. CASE Vanish
  BY <1>1 DEF Vanish, TokenInv, Tidy, TokensAgree, Idle
<1>2. CASE ~Vanish
  <2>1. /\ life' = "up" /\ config' = cfg /\ pc' = Idle /\ window' = None
    BY <1>2 DEF RunTray, Tidy, reloadVars
  <2> QED
    BY <2>1 DEF TokenInv, Tidy, TokensAgree, Idle
<1> QED
  BY <1>1, <1>2

\* What changes none of the copies keeps them.
LEMMA StillTokens ==
    ASSUME TokenInv, UNCHANGED <<life, file, config, window, pc, new, edits>>
    PROVE  TokenInv'
BY DEF TokenInv, Tidy, TokensAgree, Loaded, ParseFails

\* Each step of a reload.
LEMMA ReloadTokens ==
    ASSUME TypeOK, TokenInv, NEW r \in Reloaders, Reload(r) PROVE TokenInv'
<1>1. /\ pc \in [Reloaders -> {"idle", "load", "assign", "start", "take", "swap", "close"}]
      /\ new \in [Reloaders -> Config]
  BY DEF TypeOK
<1>2. /\ pc[r] # "idle" /\ UNCHANGED <<life, file, edits>>
      /\ \A s \in Reloaders : s # r => pc'[s] = pc[s] /\ new'[s] = new[s]
      /\ window' \in {window, None}
  BY <1>1 DEF Reload, Load, Assign, StartWatcher, TakeOld, Swap, CloseOld, Done, Goto,
       aside, atHome, boundVars
<1>3. life = "up" /\ Tidy'
  BY <1>2 DEF TokenInv, Tidy, Idle
<1>4. Loaded' = Loaded
  BY <1>2 DEF Loaded, ParseFails
<1>5. pc'[r] = "assign" => new'[r] = Loaded
  BY <1>1 DEF Reload, Load, Assign, StartWatcher, TakeOld, Swap, CloseOld, Done, Goto
<1>6. config' = config \/ (pc[r] = "assign" /\ config' = new[r])
  BY DEF Reload, Load, Assign, StartWatcher, TakeOld, Swap, CloseOld
<1> QED
  BY <1>2, <1>3, <1>4, <1>5, <1>6 DEF TokenInv, TokensAgree

LEMMA TokenInvStep == TypeOK /\ TokenInv /\ [Next]_vars => TokenInv'
<1> SUFFICES ASSUME TypeOK, TokenInv, [Next]_vars PROVE TokenInv'
  OBVIOUS
<1>0. file \in Config \cup {None, Broken}
  BY DEF TypeOK
<1>1. CASE Start
  <2>1. file' = file /\ edits' = edits /\ Loaded' = Loaded
    BY <1>1 DEF Start, Loaded, ParseFails
  <2>2. CASE RunTray(Loaded)
    BY <1>1, <2>1, <2>2, RunTrayTokens DEF Start, TokenInv, TokensAgree
  <2>3. CASE ~RunTray(Loaded)
    <3>1. life' = "prompt" /\ config' = Loaded /\ Loaded.token = None
      BY <1>1, <2>3 DEF Start
    <3>2. UNCHANGED <<window, pc, new>>
      BY <1>1, <2>3 DEF Start, NoTray, reloadVars
    <3> QED
      BY <1>1, <2>1, <3>1, <3>2 DEF Start, TokenInv, Tidy, TokensAgree
  <2> QED
    BY <2>2, <2>3
<1>2. CASE Exit
  <2>1. Vanish /\ file' = file /\ edits' = edits
    BY <1>2 DEF Exit, boundVars
  <2> QED
    BY <2>1 DEF Vanish, TokenInv, Tidy, TokensAgree, Idle
<1>3. CASE Cancel \/ RegistrationFails
  <2>1. /\ life \in {"prompt", "asked"} /\ RunTray(config)
        /\ file' = file /\ edits' = edits /\ Loaded' = Loaded
    BY <1>3 DEF Cancel, RegistrationFails, boundVars, Loaded, ParseFails
  <2> QED
    BY <2>1, RunTrayTokens DEF TokenInv, TokensAgree
<1>4. CASE Ask \/ Register \/ Registered
  <2>1. /\ UNCHANGED <<file, edits, window, pc, new>>
        /\ life \in {"prompt", "asked"} /\ life' \in {"asked", "save"}
        /\ life' = "asked" => config' = config
        /\ Loaded' = Loaded
    BY <1>4
    DEF Ask, Register, Registered, NoTray, reloadVars, boundVars, Loaded, ParseFails
  <2> QED
    BY <2>1 DEF TokenInv, Tidy, TokensAgree
<1>5. CASE SaveRegistration
  <2>1. CASE file' = config /\ RunTray(config)
    <3>1. config \in Config /\ edits' = edits /\ life # "up"
      BY <1>5 DEF TypeOK, SaveRegistration, boundVars
    <3>2. file' # None /\ file' # Broken
      BY <2>1, <3>1, NoneAssumption
    <3>3. Loaded' = config
      BY <2>1, <3>2 DEF Loaded
    <3> QED
      BY <2>1, <3>1, <3>2, <3>3, RunTrayTokens DEF TokenInv
  <2>2. CASE file' = file /\ Vanish
    BY <1>5, <2>2 DEF SaveRegistration, boundVars, Vanish, TokenInv, Tidy, TokensAgree, Idle
  <2> QED
    BY <1>5, <2>1, <2>2 DEF SaveRegistration
<1>6. CASE PauseResume \/ CloseSettings \/ Beat \/ Beaten \/ SetHeartbeatResult \/ RevokeAgent
  <2>1. UNCHANGED <<life, file, config, pc, new, edits>> /\ window' \in {window, None}
    BY <1>6
    DEF PauseResume, CloseSettings, Beat, Beaten, SetHeartbeatResult, RevokeAgent,
        quiet, agentVars, atHome, reloadVars, boundVars
  <2> QED
    BY <2>1 DEF TokenInv, Tidy, TokensAgree, Loaded, ParseFails
<1>7. CASE OpenSettings
  <2>1. UNCHANGED <<life, file, config, pc, new, edits>> /\ window' = config /\ life = "up"
    BY <1>7 DEF OpenSettings, MenuFree, atHome, reloadVars, boundVars
  <2> QED
    BY <2>1 DEF TokenInv, Tidy, TokensAgree, Loaded, ParseFails
<1>8. CASE ReloadConfig
  <2>1. /\ UNCHANGED <<life, file, config, new, edits, window>> /\ life = "up"
        /\ \A r \in Reloaders : pc'[r] = "assign" => pc[r] = "assign"
    BY <1>8 DEF ReloadConfig, BeginReload, Goto, atHome, boundVars, TypeOK, Reloaders
  <2> QED
    BY <2>1 DEF TokenInv, Tidy, TokensAgree, Loaded, ParseFails
<1>9. ASSUME NEW d \in Dirs \cup {None}, Save(d) PROVE TokenInv'
  <2>1. /\ UNCHANGED <<life, config, new, edits, window>> /\ life = "up" /\ window # None
        /\ \A r \in Reloaders : pc'[r] = "assign" => pc[r] = "assign"
        /\ file' = [token |-> window.token, dir |-> d]
    BY <1>9 DEF Save, BeginReload, Goto, atHome, boundVars, TypeOK, Reloaders
  <2>2. file' \in Config /\ file'.token = window.token
    BY <2>1 DEF TypeOK, Config
  <2>3. file' # None /\ file' # Broken
    BY <2>2, NoneAssumption
  <2>4. Loaded'.token = window.token
    BY <2>2, <2>3 DEF Loaded
  <2> QED
    BY <2>1, <2>3, <2>4 DEF TokenInv, Tidy, TokensAgree
<1>10. ASSUME NEW r \in Reloaders, Reload(r) PROVE TokenInv'
  BY <1>10, ReloadTokens
<1>11. CASE EditFile
  <2>1. edits' # 0 /\ UNCHANGED <<life, window, pc>>
    BY <1>11 DEF EditFile, agentVars, reloadVars, TypeOK
  <2> QED
    BY <2>1 DEF TokenInv, Tidy
<1>12. CASE UNCHANGED vars
  BY <1>12, StillTokens DEF vars, reloadVars, boundVars
<1> QED
  BY <1>1, <1>2, <1>3, <1>4, <1>5, <1>6, <1>7, <1>8, <1>9, <1>10, <1>11, <1>12 DEF Next

\* As long as nobody edits the file, a token once saved stays, through any
\* restarts, settings, overlapping reloads and failed registrations.
THEOREM TokensAreKept == Spec => TokenIsKept
<1> DEFINE Kept == edits' = 0 /\ file # None /\ file.token # None
                      => file' # None /\ file'.token = file.token
<1>1. Init => TokenInv
  BY NoneAssumption DEF Init, TokenInv, Tidy, TokensAgree, Idle
<1>2. ASSUME TypeOK, TokenInv, [Next]_vars PROVE [Kept]_vars
  <2> SUFFICES ASSUME Next, edits' = 0, file # None, file.token # None, file' # file
               PROVE  file' # None /\ file'.token = file.token
    BY <1>2
  <2>1. edits = 0
    BY <1>2
    DEF Next, Start, Exit, Cancel, Ask, Register, RegistrationFails, Registered,
        SaveRegistration, PauseResume, OpenSettings, CloseSettings, ReloadConfig, Save,
        Reload, Load, Assign, StartWatcher, TakeOld, Swap, CloseOld, Beat, Beaten,
        SetHeartbeatResult, RevokeAgent, EditFile, boundVars, atHome, aside, quiet, TypeOK
  <2>2. TokensAgree /\ Loaded = file
    BY <1>2, <2>1 DEF TokenInv, TokensAgree, Loaded
  <2>3. \/ life = "save"
        \/ \E d \in Dirs \cup {None} : Save(d)
    BY <2>1
    DEF Next, Start, Exit, Cancel, Ask, Register, RegistrationFails, Registered,
        SaveRegistration, PauseResume, OpenSettings, CloseSettings, ReloadConfig,
        Reload, Load, Assign, StartWatcher, TakeOld, Swap, CloseOld, Beat, Beaten,
        SetHeartbeatResult, RevokeAgent, EditFile, boundVars, atHome, aside, quiet
  <2>4. life # "save"
    BY <2>2 DEF TokensAgree
  <2>5. PICK d \in Dirs \cup {None} : Save(d)
    BY <2>3, <2>4
  <2>6. file' = [token |-> window.token, dir |-> d] /\ window.token = file.token
    BY <2>2, <2>5 DEF Save, TokensAgree
  <2>7. file' \in Config
    BY <1>2, <2>5, <2>6 DEF Save, TypeOK, Config
  <2> QED
    BY <2>6, <2>7, NoneAssumption
<1> QED
  BY <1>1, <1>2, TokenInvStep, TypeAlways, PTL DEF Spec, TokenIsKept
=============================================================================
