------------------------------ MODULE TrayApp -------------------------------
(***************************************************************************)
(* The agent's configuration and what lives by it: the first-run           *)
(* registration (agent/main.py), config.toml (agent/config.py), the        *)
(* settings window, and the tray application (agent/tray.py) with its      *)
(* watcher, its sender and its heartbeat, against the server's register,   *)
(* heartbeat and revoke endpoints (app/api/agent.py, app/api/admin.py).    *)
(*                                                                         *)
(* A configuration is the token, which stands for agent_id and api_token,  *)
(* and the log directory: what the settings window carries over and what   *)
(* it edits.  reload_config runs on the menu's thread and on the settings  *)
(* window's, and nothing keeps the two apart; an action is the code        *)
(* between two points where the other one or the heartbeat thread can      *)
(* notice.  last_seen is left out.                                         *)
(***************************************************************************)
EXTENDS Naturals

CONSTANTS
    Tokens,      \* tokens the server can issue
    Dirs,        \* log directories
    None,        \* an empty string of the config, a missing file, no object
    Broken,      \* a config.toml that does not parse
    Faults,      \* kinds of fault that may happen, of FaultKinds
    MaxEdits,    \* bound: changes of the file by hand
    MaxStarts,   \* bound: starts of the agent
    MaxBuilt,    \* bound: watchers and senders built in one run of the agent
    MaxTroubles  \* bound: requests that fail on the way

\* "save": the registered config cannot be written; "watch": the observer
\* does not start.
FaultKinds == {"save", "watch"}

Config == [token : Tokens \cup {None}, dir : Dirs \cup {None}]
Reloaders == {"menu", "window"}

ASSUME BoundsAssumption ==
    MaxEdits \in Nat /\ MaxStarts \in Nat /\ MaxBuilt \in Nat /\ MaxTroubles \in Nat
ASSUME FaultsAssumption == Faults \subseteq FaultKinds
ASSUME NoneAssumption ==
    /\ None \notin Tokens \cup Dirs \cup Nat /\ None # Broken
    /\ None \notin Config /\ Broken \notin Config

VARIABLES
    registered,  \* tokens of committed rows of agent_registrations
    revoked,     \* those with a revoked_at
    file,        \* config.toml
    life,        \* "down", "prompt", "asked", "save", "up"
    config,      \* TrayApp._config
    configError, \* TrayApp._config_error is set
    paused,      \* _paused
    heartbeatOk, \* _last_heartbeat_ok
    answer,      \* register's answer, while life = "asked" or "save"
    watcher,     \* _watcher: the number it was built with
    watching,    \* the watchers whose observer runs, with their directory
    sender,      \* _sender: the number and the token it was built with
    open,        \* the senders whose client is open
    beat,        \* the heartbeat thread: at "wait", "sent" or "answered"
    window,      \* the config the settings window was opened with
    pc,          \* where each reload is
    new,         \* new_config of each reload
    old,         \* old_sender of each reload
    overlapped,  \* history: in this run of the agent a reload began during another
    built,       \* numbers given to watchers and senders
    edits, starts, troubles  \* how much of each bound is used

serverVars == <<registered, revoked>>
statusVars == <<configError, paused, heartbeatOk>>
watchVars == <<watcher, watching>>
senderVars == <<sender, open>>
reloadVars == <<pc, new, old, overlapped>>
boundVars == <<edits, starts, troubles>>
vars == <<serverVars, file, life, config, statusVars, answer, watchVars,
          senderVars, beat, window, reloadVars, built, boundVars>>

-----------------------------------------------------------------------------
(* The process *)

Default == [token |-> None, dir |-> None]
Sender == [number : Nat, token : Tokens \cup {None}]
Idle == [r \in Reloaders |-> "idle"]
NoBeat == [at |-> "wait", by |-> None, ok |-> FALSE]

Init ==
    /\ registered = {} /\ revoked = {}
    /\ file = None
    /\ life = "down" /\ config = Default
    /\ configError = FALSE /\ paused = FALSE /\ heartbeatOk = None
    /\ answer = None
    /\ watcher = None /\ watching = {}
    /\ sender = None /\ open = {}
    /\ beat = NoBeat
    /\ window = None
    /\ pc = Idle
    /\ new = [r \in Reloaders |-> Default]
    /\ old = [r \in Reloaders |-> None]
    /\ overlapped = FALSE
    /\ built = 0
    /\ edits = 0 /\ starts = 0 /\ troubles = 0

\* The process ends, because the user quits or because it dies: its memory is
\* gone, config.toml and the server's rows are not.
Vanish ==
    /\ life' = "down" /\ config' = Default
    /\ configError' = FALSE /\ paused' = FALSE /\ heartbeatOk' = None
    /\ answer' = None
    /\ watcher' = None /\ watching' = {}
    /\ sender' = None /\ open' = {}
    /\ beat' = NoBeat
    /\ window' = None
    /\ pc' = Idle
    /\ new' = [r \in Reloaders |-> Default]
    /\ old' = [r \in Reloaders |-> None]
    /\ overlapped' = FALSE
    /\ built' = 0

Exit ==
    /\ life # "down"
    /\ Vanish
    /\ UNCHANGED <<serverVars, file, boundVars>>

ParseFails == file = Broken

\* load_config_or_error: a file that is missing or does not parse gives the
\* defaults, the latter with an error.
Loaded == IF file \in {None, Broken} THEN Default ELSE file

\* The rest of main() and TrayApp.run: the sender, the watcher of the log
\* directory if there is one, the heartbeat thread.  The config error is that
\* of a file just loaded; a run that came through the dialogs has none.  A
\* watcher that does not start ends the process.
RunTray(cfg) ==
    LET first == [number |-> 0, token |-> cfg.token] IN
    \/ /\ life' = "up"
       /\ config' = cfg /\ configError' = (life = "down" /\ ParseFails)
       /\ answer' = None
       /\ sender' = first /\ open' = {first}
       /\ watcher' = IF cfg.dir = None THEN None ELSE 0
       /\ watching' = IF cfg.dir = None THEN {} ELSE {<<0, cfg.dir>>}
       /\ UNCHANGED <<paused, heartbeatOk, beat, window, reloadVars, built>>
    \/ "watch" \in Faults /\ cfg.dir # None /\ Vanish

\* What the registration leaves alone.
NoTray == UNCHANGED <<statusVars, watchVars, senderVars, beat, window, reloadVars, built>>

\* The user starts the agent.  A config without a token asks the user to
\* register, but not one that did not parse.
Start ==
    /\ life = "down" /\ starts < MaxStarts
    /\ starts' = starts + 1
    /\ \/ /\ ~ParseFails /\ Loaded.token = None
          /\ life' = "prompt" /\ config' = Loaded
          /\ UNCHANGED answer /\ NoTray
       \/ /\ ParseFails \/ Loaded.token # None
          /\ RunTray(Loaded)
    /\ UNCHANGED <<serverVars, file, edits, troubles>>

-----------------------------------------------------------------------------
(* Registration *)

\* The user cancels a dialog.
Cancel ==
    /\ life = "prompt"
    /\ RunTray(config)
    /\ UNCHANGED <<serverVars, file, boundVars>>

\* sender.register posts the credentials.
Ask ==
    /\ life = "prompt"
    /\ life' = "asked"
    /\ UNCHANGED <<serverVars, file, config, answer, boundVars>> /\ NoTray

\* generate_token: no token is given out twice.
FreshTokens == Tokens \ registered

\* The server commits a registration under a new token.
Register ==
    /\ life = "asked" /\ answer = None
    /\ \E t \in FreshTokens :
           registered' = registered \cup {t} /\ answer' = t
    /\ UNCHANGED <<revoked, file, life, config, boundVars>> /\ NoTray

\* 401, a request that did not arrive, or an answer that was lost: the agent
\* goes on without a token.
RegistrationFails ==
    /\ life = "asked"
    /\ \/ answer = None /\ UNCHANGED troubles
       \/ answer # None /\ troubles < MaxTroubles /\ troubles' = troubles + 1
    /\ RunTray(config)
    /\ UNCHANGED <<serverVars, file, edits, starts>>

\* The answer arrives; an empty log directory is looked for.
Registered ==
    /\ life = "asked" /\ answer # None
    /\ life' = "save"
    /\ \E d \in IF config.dir = None THEN Dirs \cup {None} ELSE {config.dir} :
           config' = [token |-> answer, dir |-> d]
    /\ UNCHANGED <<serverVars, file, answer, boundVars>> /\ NoTray

\* save_config replaces the file or fails, which ends the process.
SaveRegistration ==
    /\ life = "save"
    /\ \/ file' = config /\ RunTray(config)
       \/ "save" \in Faults /\ file' = file /\ Vanish
    /\ UNCHANGED <<serverVars, boundVars>>

-----------------------------------------------------------------------------
(* The tray's menu and the settings window *)

\* What the menu and the settings window leave alone.
atHome == <<serverVars, life, answer, boundVars>>

\* The menu runs one handler at a time.
MenuFree == life = "up" /\ pc["menu"] = "idle"

Goto(r, label) == pc' = [pc EXCEPT ![r] = label]

\* A thread enters reload_config, whether or not the other one is in it.
BeginReload(r) ==
    /\ life = "up" /\ pc[r] = "idle"
    /\ built < MaxBuilt
    /\ Goto(r, "load")
    /\ overlapped' = (overlapped \/ pc # Idle)

PauseResume ==
    /\ MenuFree
    /\ paused' = ~paused
    /\ UNCHANGED <<atHome, file, config, configError, heartbeatOk, watchVars,
                   senderVars, beat, window, reloadVars, built>>

\* Mutant: the window reads the file itself.
OpenSettingsFromFile ==
    /\ MenuFree /\ window = None
    /\ window' = file
    /\ UNCHANGED <<atHome, file, config, statusVars, watchVars, senderVars, beat,
                   reloadVars, built>>

\* "Settings...": the window keeps the config the tray had when it opened.
OpenSettings ==
    /\ MenuFree /\ window = None
    /\ window' = config
    /\ UNCHANGED <<atHome, file, config, statusVars, watchVars, senderVars, beat,
                   reloadVars, built>>

\* "Cancel", or the window is closed.
CloseSettings ==
    /\ window # None /\ pc["window"] = "idle"
    /\ window' = None
    /\ UNCHANGED <<atHome, file, config, statusVars, watchVars, senderVars, beat,
                   reloadVars, built>>

\* Mutant: what the window does not show is not carried over.
SaveShownOnly(d) ==
    /\ window # None
    /\ file' = [token |-> None, dir |-> d]
    /\ BeginReload("window")
    /\ UNCHANGED <<atHome, config, statusVars, watchVars, senderVars, beat, window,
                   new, old, built>>

\* "Save": the file is written from the fields and the window's config, and
\* on_save reloads it.  (A save that fails changes nothing.)
Save(d) ==
    /\ window # None
    /\ file' = [token |-> window.token, dir |-> d]
    /\ BeginReload("window")
    /\ UNCHANGED <<atHome, config, statusVars, watchVars, senderVars, beat, window,
                   new, old, built>>

\* "Reload Config".
ReloadConfig ==
    /\ BeginReload("menu")
    /\ UNCHANGED <<atHome, file, config, statusVars, watchVars, senderVars, beat, window,
                   new, old, built>>

-----------------------------------------------------------------------------
(* reload_config *)

\* What a reload leaves alone.
aside == <<atHome, file, statusVars, beat, overlapped>>

\* The reload is over, and with it the settings window it came from.
Done(r) ==
    /\ Goto(r, "idle")
    /\ new' = [new EXCEPT ![r] = Default]
    /\ old' = [old EXCEPT ![r] = None]
    /\ window' = IF r = "window" THEN None ELSE window

\* The tray's observer stops.
StopObserver == watching' = {w \in watching : w[1] # watcher}

\* The observer of watcher n starts on directory d.
StartObserver(n, d) == watching' = watching \cup {<<n, d>>}

\* load_config; a file that does not parse ends the reload.
Load(r) ==
    /\ pc[r] = "load"
    /\ \/ ParseFails /\ Done(r)
       \/ /\ ~ParseFails
          /\ new' = [new EXCEPT ![r] = Loaded]
          /\ Goto(r, "assign")
          /\ UNCHANGED <<old, window>>
    /\ UNCHANGED <<aside, config, watchVars, senderVars, built>>

\* Mutant: the old watcher is not stopped.
AssignOnly(r) ==
    /\ pc[r] = "assign"
    /\ config' = new[r]
    /\ Goto(r, "start")
    /\ UNCHANGED <<aside, watchVars, senderVars, window, new, old, built>>

\* The new config, and _stop_watcher: the old observer is stopped and joined,
\* which takes a while, before the tray drops it.
Assign(r) ==
    /\ pc[r] = "assign"
    /\ config' = new[r]
    /\ StopObserver
    /\ Goto(r, "start")
    /\ UNCHANGED <<aside, watcher, senderVars, window, new, old, built>>

\* _start_watcher; an observer that does not start ends the reload, with the
\* watcher built and the sender as it was.
StartWatcher(r) ==
    /\ pc[r] = "start"
    /\ \/ /\ config.dir = None
          /\ watcher' = None
          /\ Goto(r, "take")
          /\ UNCHANGED <<watching, built, new, old, window>>
       \/ /\ config.dir # None
          /\ built' = built + 1
          /\ watcher' = built'
          /\ \/ /\ StartObserver(built', config.dir)
                /\ Goto(r, "take")
                /\ UNCHANGED <<new, old, window>>
             \/ "watch" \in Faults /\ watching' = watching /\ Done(r)
    /\ UNCHANGED <<aside, config, senderVars>>

\* old_sender = self._sender
TakeOld(r) ==
    /\ pc[r] = "take"
    /\ old' = [old EXCEPT ![r] = sender]
    /\ Goto(r, "swap")
    /\ UNCHANGED <<aside, config, watchVars, senderVars, window, new, built>>

\* Mutant: the new sender gets the old one's token.
SwapSameToken(r) ==
    /\ pc[r] = "swap"
    /\ built' = built + 1
    /\ sender' = [number |-> built', token |-> sender.token]
    /\ open' = open \cup {sender'}
    /\ Goto(r, "close")
    /\ UNCHANGED <<aside, config, watchVars, window, new, old>>

\* A sender is built from the new config and takes the old one's place.
Swap(r) ==
    /\ pc[r] = "swap"
    /\ built' = built + 1
    /\ sender' = [number |-> built', token |-> new[r].token]
    /\ open' = open \cup {sender'}
    /\ Goto(r, "close")
    /\ UNCHANGED <<aside, config, watchVars, window, new, old>>

\* Mutant: the sender in use is closed.
CloseCurrent(r) ==
    /\ pc[r] = "close"
    /\ open' = open \ {sender}
    /\ Done(r)
    /\ UNCHANGED <<aside, config, watchVars, sender, built>>

CloseOld(r) ==
    /\ pc[r] = "close"
    /\ open' = open \ {old[r]}
    /\ Done(r)
    /\ UNCHANGED <<aside, config, watchVars, sender, built>>

Reload(r) ==
    Load(r) \/ Assign(r) \/ StartWatcher(r) \/ TakeOld(r) \/ Swap(r) \/ CloseOld(r)

-----------------------------------------------------------------------------
(* The heartbeat thread *)

\* What a heartbeat leaves alone.
quiet == <<serverVars, life, answer, file, config, configError, paused, watchVars,
           senderVars, window, reloadVars, built, edits, starts>>

\* An interval is over, and the sender of the moment posts.
Beat ==
    /\ life = "up" /\ beat.at = "wait"
    /\ ~paused /\ config.token # None
    /\ beat' = [at |-> "sent", by |-> sender, ok |-> FALSE]
    /\ UNCHANGED <<quiet, heartbeatOk, troubles>>

\* Mutant: revoked_at is not looked at.
AcceptsRevoked(token) == token \in registered

\* get_current_agent knows the token.
Accepts(token) == token \in registered \ revoked

\* The server answers; or the request fails, as it does on a closed client.
Beaten ==
    /\ beat.at = "sent"
    /\ \/ /\ beat.by \in open
          /\ beat' = [beat EXCEPT !.at = "answered", !.ok = Accepts(beat.by.token)]
          /\ UNCHANGED troubles
       \/ /\ beat.by \in open => troubles < MaxTroubles
          /\ troubles' = IF beat.by \in open THEN troubles + 1 ELSE troubles
          /\ beat' = [beat EXCEPT !.at = "answered"]
    /\ UNCHANGED <<quiet, heartbeatOk>>

\* Mutant: a result is only stored when there was none.
SetFirstResult ==
    /\ beat.at = "answered"
    /\ heartbeatOk' = IF heartbeatOk = None THEN beat.ok ELSE heartbeatOk
    /\ beat' = NoBeat
    /\ UNCHANGED <<quiet, troubles>>

\* _set_heartbeat_result.
SetHeartbeatResult ==
    /\ beat.at = "answered"
    /\ heartbeatOk' = beat.ok
    /\ beat' = NoBeat
    /\ UNCHANGED <<quiet, troubles>>

\* connection_status.
ConnectionStatus ==
    CASE configError -> "config-error"
      [] ~configError /\ config.token = None -> "not-registered"
      [] ~configError /\ config.token # None /\ paused -> "paused"
      [] OTHER ->
             IF heartbeatOk = None THEN "unknown"
             ELSE IF heartbeatOk THEN "connected" ELSE "offline"

-----------------------------------------------------------------------------
(* The outside *)

\* What the agent has.
agentVars == <<life, config, statusVars, answer, watchVars, senderVars, beat, window,
               reloadVars, built>>

\* An administrator revokes a registration.
RevokeAgent ==
    /\ \E t \in registered \ revoked : revoked' = revoked \cup {t}
    /\ UNCHANGED <<agentVars, registered, file, boundVars>>

\* The user changes the file by hand, deletes it or breaks it.
EditFile ==
    /\ edits < MaxEdits
    /\ edits' = edits + 1
    /\ file' \in {None, Broken} \cup [token : registered \cup {None}, dir : Dirs \cup {None}]
    /\ file' # file
    /\ UNCHANGED <<agentVars, serverVars, starts, troubles>>

-----------------------------------------------------------------------------
Next ==
    \/ Start \/ Exit
    \/ Cancel \/ Ask \/ Register \/ RegistrationFails \/ Registered \/ SaveRegistration
    \/ PauseResume \/ OpenSettings \/ CloseSettings \/ ReloadConfig
    \/ \E d \in Dirs \cup {None} : Save(d)
    \/ \E r \in Reloaders : Reload(r)
    \/ Beat \/ Beaten \/ SetHeartbeatResult
    \/ RevokeAgent \/ EditFile

Spec == Init /\ [][Next]_vars

\* The heartbeat thread goes on, and a request ends within its 30 seconds.
FairSpec ==
    /\ Spec
    /\ WF_vars(Beat) /\ WF_vars(Beaten) /\ WF_vars(SetHeartbeatResult)
    /\ \A r \in Reloaders : WF_vars(Reload(r))

-----------------------------------------------------------------------------
(* Properties *)

TypeOK ==
    /\ registered \subseteq Tokens /\ revoked \subseteq registered
    /\ file \in Config \cup {None, Broken}
    /\ life \in {"down", "prompt", "asked", "save", "up"}
    /\ config \in Config
    /\ configError \in BOOLEAN /\ paused \in BOOLEAN /\ heartbeatOk \in BOOLEAN \cup {None}
    /\ answer \in Tokens \cup {None}
    /\ watcher \in Nat \cup {None} /\ watching \subseteq Nat \X Dirs
    /\ sender \in Sender \cup {None} /\ open \subseteq Sender
    /\ beat \in [at : {"wait", "sent", "answered"}, by : Sender \cup {None}, ok : BOOLEAN]
    /\ window \in Config \cup {None}
    /\ pc \in [Reloaders -> {"idle", "load", "assign", "start", "take", "swap", "close"}]
    /\ new \in [Reloaders -> Config] /\ old \in [Reloaders -> Sender \cup {None}]
    /\ overlapped \in BOOLEAN
    /\ built \in Nat /\ edits \in Nat /\ starts \in Nat /\ troubles \in Nat

\* As long as no reload has begun during another one, every observer that
\* runs is the tray's own: none is left behind where nothing could stop it.
\* (reload_config has no lock: two at a time do leave one behind.)
WatchersAreOwned == ~overlapped => \A w \in watching : w[1] = watcher

\* The sender in use is open, whatever reloads do to each other.  As long as
\* none has begun during another one, no other sender is open, except for the
\* one that a reload is about to close.  (Two at a time can take the same old
\* sender, and the first one's new sender is then never closed.)
SendersAreOwned ==
    /\ life = "up" => sender \in open
    /\ ~overlapped => open \subseteq {sender} \cup {old[r] : r \in Reloaders}

\* Between reloads, of which none has begun during another one, the sender
\* and the watcher work with the tray's config, unless the last watcher did
\* not start: tray.py 519 then leaves the old sender in place.
CopiesAgree ==
    life = "up" /\ pc = Idle /\ ~overlapped =>
        \/ watcher # None /\ watching = {}
        \/ /\ sender.token = config.token
           /\ watching = IF config.dir = None THEN {} ELSE {<<watcher, config.dir>>}

\* As long as nobody edits the file, a token once saved stays: through
\* restarts, settings, reloads and registrations that failed before.
TokenIsKept ==
    [][ edits' = 0 /\ file # None /\ file.token # None
        => file' # None /\ file'.token = file.token ]_vars

\* A running agent whose registration is revoked does not stay "connected".
RevocationShows ==
    life = "up" /\ sender.token \in revoked
        ~> \/ life # "up" \/ sender.token \notin revoked
           \/ ConnectionStatus # "connected"

\* A running agent with a valid token gets to "connected", whatever was
\* refused, lost or closed under it before, unless its config did not parse
\* when it started.
ConnectsAgain ==
    life = "up" /\ sender.token \in registered \ revoked
        ~> \/ life # "up" \/ sender.token \notin registered \ revoked
           \/ ConnectionStatus \in {"connected", "config-error", "not-registered", "paused"}
=============================================================================
