--------------------------- MODULE ShippingProofs ---------------------------
(***************************************************************************)
(* Theorems about Shipping, for any files, contents, requests and bounds.  *)
(* They rest on the invariants proved for the two components, which the    *)
(* composition instantiates.  E and S name the components' actions as      *)
(* Shipping uses them, EP and SP the same ones as the proofs do.           *)
(***************************************************************************)
EXTENDS Shipping, TLAPS

EP == INSTANCE GameLogArchiveProofs WITH pc <- stage
SP == INSTANCE RawShipperProofs WITH archived <- Archived

-----------------------------------------------------------------------------
(* The components under their two names *)

LEMMA SameEndpoint ==
    /\ E!Init <=> EP!Init
    /\ E!Next <=> EP!Next
    /\ E!vars = EP!vars
    /\ E!Upload = EP!Upload
<1>1. E!Init <=> EP!Init
  BY DEF E!Init, EP!Init, E!NoAnswer, EP!NoAnswer, E!Answer, EP!Answer, E!Path, EP!Path
<1>2. E!Next <=> EP!Next
  BY DEF E!Next, EP!Next, E!Step, EP!Step, E!Upload, EP!Upload,
     E!Receive, EP!Receive, E!Lookup, EP!Lookup, E!TouchExisting, EP!TouchExisting,
     E!Attribute, EP!Attribute, E!WriteFile, EP!WriteFile,
     E!CommitSucceeds, EP!CommitSucceeds, E!Refresh, EP!Refresh,
     E!CommitCollides, EP!CommitCollides, E!CommitFails, EP!CommitFails,
     E!AfterCollision, EP!AfterCollision, E!RemoveFile, EP!RemoveFile,
     E!Revoke, EP!Revoke, E!Crash, EP!Crash, E!Finish, EP!Finish, E!Goto, EP!Goto,
     E!Answer, EP!Answer, E!RowsOf, EP!RowsOf, E!NewRow, EP!NewRow,
     E!StoredPath, EP!StoredPath, E!Insert, EP!Insert, E!InFlight, EP!InFlight,
     E!BodyMatches, EP!BodyMatches
<1>3. E!vars = EP!vars /\ E!Upload = EP!Upload
  BY DEF E!vars, EP!vars, E!Upload, EP!Upload
<1> QED
  BY <1>1, <1>2, <1>3

LEMMA SameShipper ==
    /\ S!Init <=> SP!Init
    /\ S!Next <=> SP!Next
    /\ S!vars = SP!vars
<1>1. S!Init <=> SP!Init
  BY DEF S!Init, SP!Init, S!NoJob, SP!NoJob
<1> QED
  BY <1>1
  DEF S!Next, SP!Next, S!vars, SP!vars, S!worldVars, SP!worldVars, S!ownerVars, SP!ownerVars,
      S!workVars, SP!workVars, S!Change, SP!Change, S!NeedsEvent, SP!NeedsEvent,
      S!Touch, SP!Touch, S!Rename, SP!Rename, S!Start, SP!Start, S!Owner, SP!Owner, S!Crash, SP!Crash,
      S!StartObserver, SP!StartObserver, S!NoObserver, SP!NoObserver,
      S!ObserverRaises, SP!ObserverRaises, S!StopFlag, SP!StopFlag,
      S!StopObserver, SP!StopObserver, S!StopWake, SP!StopWake, S!StopClose, SP!StopClose,
      S!Exit, SP!Exit, S!Vanish, SP!Vanish, S!NoJob, SP!NoJob,
      S!Worker, SP!Worker, S!ScanOne, SP!ScanOne, S!ScanEnd, SP!ScanEnd,
      S!ScanRaises, SP!ScanRaises, S!Loop, SP!Loop, S!Get, SP!Get, S!Drop, SP!Drop,
      S!RecordFails, SP!RecordFails, S!Hash, SP!Hash, S!FirstStat, SP!FirstStat,
      S!Settle, SP!Settle, S!Read, SP!Read, S!Measure, SP!Measure, S!Post, SP!Post,
      S!Uploaded, SP!Uploaded, S!Retry, SP!Retry, S!Rejected, SP!Rejected,
      S!NetworkError, SP!NetworkError, S!TryAgain, SP!TryAgain, S!Record, SP!Record,
      S!RecordNothing, SP!RecordNothing, S!NextItem, SP!NextItem, S!Leave, SP!Leave,
      S!Missing, SP!Missing, S!Stopping, SP!Stopping, S!DbOpen, SP!DbOpen,
      S!WellFormed, SP!WellFormed, S!Server, SP!Server, S!ServerStores, SP!ServerStores,
      S!ServerRefuses, SP!ServerRefuses, S!ServerTroubles, SP!ServerTroubles,
      S!StoredElsewhere, SP!StoredElsewhere, S!Answered, SP!Answered

LEMMA EndpointAssumes ==
    /\ OwnerOf \in [Agents -> Users]
    /\ SizeOf \in [Contents -> Nat]
    /\ CommitFaults \subseteq {"refused", "unheard"} /\ MaxCrashes \in Nat
    /\ None \notin Contents /\ None \notin Agents
    /\ None \notin EP!Upload /\ None \notin EP!Row
BY EndpointAssumption, NoneAssumption DEF E!Upload, EP!Upload, E!Row, EP!Row, E!Path, EP!Path

LEMMA ShipperAssumes ==
    /\ MaxAttempts \in Nat \ {0}
    /\ MaxChurn \in Nat /\ MaxWrites \in Nat
    /\ MaxTroubles \in Nat /\ MaxStarts \in Nat
    /\ Faults \subseteq SP!FaultKinds
    /\ None \notin Paths /\ None \notin Contents
    /\ None \notin SP!Status /\ None \notin SP!Answers
BY ShipperAssumption, NoneAssumption
DEF S!FaultKinds, SP!FaultKinds, S!Status, SP!Status, S!Answers, SP!Answers

-----------------------------------------------------------------------------
(* The invariant *)

\* What the endpoint holds of a request is what was sent, and the client that
\* waits is still at the job it sent.
NetInv ==
    /\ sent \in [Requests -> EP!Upload \cup {None}]
    /\ \A r \in Requests : stage[r] # "idle" => upload[r] = sent[r]
    /\ current # None => current \in Requests /\ pc = "wait" /\ sent[current] = Posted

EndInv == EP!FileInv /\ EP!VerdictsMatch /\ SP!RecordInv /\ NetInv

\* What the invariants of the components say here.
LEMMA Parts ==
    ASSUME EndInv
    PROVE  /\ upload \in [Requests -> EP!Upload \cup {None}]
           /\ stage \in [Requests -> {"idle", "done", "gone"} \cup EP!InFlight]
           /\ \A row \in rows : files[row.path] = row.sha \/ EP!Removed(row.path)
           /\ \A r \in Requests : stage[r] = "idle" => answer[r].status = 0
           /\ \A r \in Requests :
                 answer[r].status \in {200, 201} => \E row \in rows : row.sha = upload[r].body
           /\ job \in SP!Job
           /\ pc \in {"post", "wait"} =>
                 job.sha \in Contents /\ job.data \in Contents /\ job.size \in Contents
BY DEF EndInv, EP!FileInv, EP!RowInv, EP!TypeInv, EP!TypeOK, EP!InFlightOK, EP!NoAnswer,
   EP!Answer, EP!RowHasFile, EP!AnswerOK, EP!Succeeded, EP!Success,
   SP!RecordInv, SP!TypeInv, SP!TypeOK, SP!JobOK, SP!Busy

LEMMA EndInvInit == Init => EndInv
<1> SUFFICES ASSUME Init PROVE EndInv
  OBVIOUS
<1>1. EP!FileInv
  BY SameEndpoint, EP!FileInvInit, EndpointAssumes DEF Init
<1>2. EP!VerdictsMatch
  BY SameEndpoint
  DEF Init, EP!Init, EP!VerdictsMatch, EP!NoAnswer, EP!Answer, EP!Success
<1>3. SP!RecordInv
  BY SameShipper, SP!RecordInvInit, ShipperAssumes DEF Init
<1>4. NetInv
  BY SameEndpoint DEF Init, NetInv, EP!Init
<1> QED
  BY <1>1, <1>2, <1>3, <1>4 DEF EndInv

\* What the shipper posts is an upload.
LEMMA PostedType ==
    ASSUME EndInv, pc \in {"post", "wait"}
    PROVE  Posted \in EP!Upload
BY Parts, SelfAssumption, MonthOfAssumption DEF Posted, EP!Upload

\* The server accepts what the shipper posted exactly if it is well formed.
LEMMA PostedMatches ==
    ASSUME EndInv, pc = "wait"
    PROVE  EP!BodyMatches(Posted) <=> S!WellFormed
<1>1. /\ job.sha \in Contents /\ job.data \in Contents /\ job.size \in Contents
  BY Parts
<1> QED
  BY <1>1, SizeOfInjective DEF Posted, EP!BodyMatches, S!WellFormed

-----------------------------------------------------------------------------
(* Each component's steps are steps of its own module *)

LEMMA EndpointSteps == NetInv /\ [Next]_vars => [EP!Next]_(EP!vars)
<1> SUFFICES ASSUME NetInv, [Next]_vars PROVE E!Next \/ UNCHANGED E!vars
  BY SameEndpoint DEF E!vars, EP!vars
<1>1. CASE Agent \/ (\E r \in Requests : Send(r)) \/ Hear \/ ProxyAnswers
  BY <1>1 DEF Agent, Send, Hear, ProxyAnswers, serverVars, E!vars
<1>2. ASSUME NEW r \in Requests, Deliver(r) PROVE E!Next
  <2>1. sent[r] \in E!Upload
    BY <1>2, SameEndpoint DEF Deliver, NetInv
  <2> QED
    BY <1>2, <2>1 DEF Deliver, E!Next, E!Step
<1>3. CASE Server
  BY <1>3 DEF Server, E!Next, E!Step
<1>4. CASE UNCHANGED vars
  BY <1>4 DEF vars, serverVars, E!vars
<1> QED
  BY <1>1, <1>2, <1>3, <1>4 DEF Next

\* The endpoint's steps are StoredElsewhere to the shipper, or nothing.
LEMMA ServerToShipper ==
    ASSUME EndInv, (\E r \in Requests : Deliver(r)) \/ Server
    PROVE  [S!Next]_(S!vars)
<1>1. /\ Archived = {row.sha : row \in rows}
      /\ Archived' = {row.sha : row \in rows'}
  BY DEF Archived
<1>2. UNCHANGED shipperVars
  BY DEF Deliver, Server
<1>3. CASE rows' = rows
  <2>1. Archived' = Archived
    BY <1>1, <1>3
  <2> QED
    BY <1>2, <2>1 DEF S!vars, shipperVars
<1>4. ASSUME NEW r \in Requests, stage[r] = "commit", E!Insert(r) PROVE S!Next
  <2>1. rows' = rows \cup {E!NewRow(r)} /\ stage[r] = "commit"
    BY <1>4 DEF E!Insert
  <2>2. upload[r].sha \in Contents
    BY <2>1
    DEF EndInv, EP!FileInv, EP!RowInv, EP!TypeInv, EP!InFlightOK, EP!InFlight, EP!Upload
  <2>3. Archived' = Archived \cup {upload[r].sha}
    <3>1. E!NewRow(r).sha = upload[r].sha
      BY DEF E!NewRow
    <3>2. Archived' = {row.sha : row \in rows} \cup {E!NewRow(r).sha}
      BY <1>1, <2>1
    <3> QED
      BY <1>1, <3>1, <3>2
  <2>4. S!StoredElsewhere(upload[r].sha)
    BY <1>2, <2>3 DEF S!StoredElsewhere, S!ownerVars, S!workVars, shipperVars
  <2> QED
    BY <2>2, <2>4 DEF S!Next
<1> QED
  BY <1>3, <1>4
  DEF Deliver, Server, E!Receive, E!Lookup, E!TouchExisting, E!Attribute, E!WriteFile,
      E!CommitSucceeds, E!Refresh, E!CommitCollides, E!CommitFails, E!AfterCollision,
      E!RemoveFile, E!Revoke, E!Crash

\* The answer the client hears is one RawShipper lets its server give.
LEMMA AnswerToShipper ==
    ASSUME EndInv, Hear
    PROVE  S!Next
<1> DEFINE status == answer[current].status
<1>1. /\ current \in Requests /\ pc = "wait" /\ status # 0
      /\ sent[current] = Posted
      /\ S!Answered(KindOf(status))
  BY DEF Hear, EndInv, NetInv
<1>2. upload[current] = Posted
  BY <1>1, Parts DEF EndInv, NetInv
<1>3. Archived' = Archived
  BY DEF Hear, serverVars, Archived
<1>4. CASE status \in {200, 201}
  <2>1. S!WellFormed
    BY <1>1, <1>2, <1>4, PostedMatches DEF EndInv, EP!VerdictsMatch, EP!Success
  <2>2. PICK row \in rows : row.sha = job.data
    <3>1. Posted.body = job.data
      BY DEF Posted
    <3> QED
      BY <1>1, <1>2, <1>4, <3>1, Parts
  <2>3. job.sha \in Archived
    BY <2>1, <2>2, Parts DEF S!WellFormed, Archived
  <2>4. S!Answered("stored") /\ troubles' = troubles
    BY <1>1, <1>4 DEF KindOf, Hear
  <2>5. S!ServerStores
    BY <1>3, <2>1, <2>3, <2>4 DEF S!ServerStores
  <2> QED
    BY <2>5 DEF S!Next, S!Server
<1>5. CASE status = 400
  <2>1. ~S!WellFormed
    BY <1>1, <1>2, <1>5, PostedMatches DEF EndInv, EP!VerdictsMatch
  <2>2. S!Answered("rejected") /\ troubles' = troubles
    BY <1>1, <1>5 DEF KindOf, Hear
  <2>3. S!ServerRefuses
    BY <1>3, <2>1, <2>2 DEF S!ServerRefuses
  <2> QED
    BY <2>3 DEF S!Next, S!Server
<1>6. CASE status \in {401, 500}
  <2>1. S!Answered("rejected") \/ S!Answered("retry")
    BY <1>1, <1>6 DEF KindOf
  <2>2. troubles < MaxTroubles /\ troubles' = troubles + 1
    BY <1>6 DEF Hear
  <2>3. S!ServerTroubles
    BY <1>3, <2>1, <2>2 DEF S!ServerTroubles
  <2> QED
    BY <2>3 DEF S!Next, S!Server
<1>7. status \in {200, 201, 400, 401, 500}
  BY DEF Hear
<1> QED
  BY <1>4, <1>5, <1>6, <1>7

\* The composition behaves, to the shipper, as the server RawShipper assumes.
LEMMA ShipperSteps ==
    ASSUME EndInv, [Next]_vars
    PROVE  [S!Next]_(S!vars)
<1>1. CASE Agent
  BY <1>1 DEF Agent, S!Next
<1>2. CASE \E r \in Requests : Send(r)
  BY <1>2 DEF Send, S!Next, S!Worker
<1>3. CASE (\E r \in Requests : Deliver(r)) \/ Server
  BY <1>3, ServerToShipper
<1>4. CASE Hear
  BY <1>4, AnswerToShipper
<1>5. CASE ProxyAnswers
  <2>1. Archived' = Archived
    BY <1>5 DEF ProxyAnswers, serverVars, Archived
  <2>2. S!ServerTroubles
    BY <1>5, <2>1 DEF ProxyAnswers, S!ServerTroubles
  <2> QED
    BY <2>2 DEF S!Next, S!Server
<1>6. CASE UNCHANGED vars
  <2>1. Archived' = Archived
    BY <1>6 DEF vars, serverVars, Archived
  <2> QED
    BY <1>6, <2>1 DEF vars, shipperVars, S!vars
<1> QED
  BY <1>1, <1>2, <1>3, <1>4, <1>5, <1>6 DEF Next

-----------------------------------------------------------------------------
(* The network keeps what was sent *)

\* A client that goes on waiting is still at the same job.
LEMMA WaitStays ==
    ASSUME Agent, pc' = "wait"
    PROVE  pc = "wait" /\ Posted' = Posted
<1>1. pc = "wait" /\ job' = job
  BY DEF Agent, S!Touch, S!Rename, S!Change, S!ownerVars, S!workVars, S!Start, S!Owner,
     S!StartObserver, S!NoObserver, S!ObserverRaises, S!StopFlag, S!StopObserver,
     S!StopWake, S!StopClose, S!Exit, S!Crash, S!Vanish, S!Worker, S!ScanOne, S!ScanEnd,
     S!ScanRaises, S!Loop, S!Get, S!Drop, S!RecordFails, S!Leave, S!NextItem, S!Hash,
     S!FirstStat, S!Settle, S!Read, S!Measure, S!Post, S!Uploaded, S!Retry, S!Rejected,
     S!NetworkError, S!TryAgain, S!Stopping
<1> QED
  BY <1>1 DEF Posted

LEMMA NetInvStep == EndInv /\ [Next]_vars => NetInv'
<1> SUFFICES ASSUME EndInv, [Next]_vars PROVE NetInv'
  OBVIOUS
<1>1. CASE Agent
  BY <1>1, WaitStays DEF Agent, EndInv, NetInv, serverVars
<1>2. ASSUME NEW r \in Requests, Send(r) PROVE NetInv'
  <2>1. Posted \in EP!Upload /\ Posted # None
    BY <1>2, PostedType, EndpointAssumes DEF Send, S!Post
  <2>2. pc' = "wait" /\ job' = [job EXCEPT !.answer = None]
    BY <1>2, ShipperAssumes DEF Send, S!Post, S!NextItem
  <2>3. Posted' = Posted
    BY <2>2, Parts DEF Posted, SP!Job
  <2>4. sent' = [sent EXCEPT ![r] = Posted] /\ current' = r /\ sent[r] = None
    BY <1>2 DEF Send
  <2>5. \A s \in Requests : stage'[s] # "idle" => upload'[s] = sent'[s]
    <3>1. stage[r] = "idle"
      BY <2>4, EndpointAssumes DEF EndInv, NetInv, EP!VerdictsMatch
    <3> QED
      BY <1>2, <2>4, <3>1 DEF Send, serverVars, EndInv, NetInv
  <2> QED
    BY <2>1, <2>2, <2>3, <2>4, <2>5 DEF EndInv, NetInv
<1>3. ASSUME NEW r \in Requests, Deliver(r) PROVE NetInv'
  <2>1. /\ sent' = sent /\ current' = current /\ pc' = pc /\ job' = job
        /\ upload' = [upload EXCEPT ![r] = sent[r]]
        /\ \A s \in Requests : s # r => stage'[s] = stage[s]
    BY <1>3, Parts DEF Deliver, shipperVars, E!Receive, E!Finish, E!Goto
  <2>2. Posted' = Posted
    BY <2>1 DEF Posted
  <2> QED
    BY <2>1, <2>2, Parts DEF EndInv, NetInv
<1>4. CASE Server
  <2>1. /\ sent' = sent /\ current' = current /\ pc' = pc /\ job' = job
        /\ upload' = upload
    BY <1>4
    DEF Server, shipperVars, E!Lookup, E!TouchExisting, E!Attribute, E!WriteFile,
        E!CommitSucceeds, E!Refresh, E!CommitCollides, E!CommitFails, E!AfterCollision,
        E!RemoveFile, E!Revoke, E!Crash
  <2>2. \A s \in Requests : stage'[s] # "idle" => stage[s] # "idle"
    BY <1>4, Parts
    DEF Server, E!Lookup, E!TouchExisting, E!Attribute, E!WriteFile, E!InFlight,
        E!CommitSucceeds, E!Refresh, E!CommitCollides, E!CommitFails, E!AfterCollision,
        E!RemoveFile, E!Revoke, E!Crash, E!Goto, E!Finish
  <2>3. Posted' = Posted
    BY <2>1 DEF Posted
  <2> QED
    BY <2>1, <2>2, <2>3 DEF EndInv, NetInv
<1>5. CASE Hear \/ ProxyAnswers
  <2>1. PICK a : S!Answered(a)
    BY <1>5 DEF Hear, ProxyAnswers
  <2>2. pc' = pc /\ job' = [job EXCEPT !.answer = a]
    BY <2>1 DEF S!Answered
  <2>3. Posted' = Posted
    BY <2>2, Parts DEF Posted, SP!Job
  <2> QED
    BY <1>5, <2>2, <2>3 DEF Hear, ProxyAnswers, serverVars, EndInv, NetInv
<1>6. CASE UNCHANGED vars
  BY <1>6 DEF vars, shipperVars, serverVars, EndInv, NetInv, Posted
<1> QED
  BY <1>1, <1>2, <1>3, <1>4, <1>5, <1>6 DEF Next

-----------------------------------------------------------------------------
(* The theorems *)

LEMMA EndInvStep == EndInv /\ [Next]_vars => EndInv' /\ [S!Next]_(S!vars)
<1> SUFFICES ASSUME EndInv, [Next]_vars PROVE EndInv' /\ [S!Next]_(S!vars)
  OBVIOUS
<1>1. [EP!Next]_(EP!vars)
  BY EndpointSteps DEF EndInv
<1>2. EP!FileInv'
  BY <1>1, EP!FileInvStep, EndpointAssumes DEF EndInv
<1>3. EP!VerdictsMatch'
  BY <1>1, EP!VerdictsMatchStep, EndpointAssumes DEF EndInv, EP!FileInv, EP!RowInv
<1>4. [S!Next]_(S!vars)
  BY ShipperSteps
<1>5. [SP!Next]_(SP!vars)
  BY <1>4, SameShipper DEF S!vars, SP!vars
<1>6. SP!RecordInv'
  BY <1>5, SP!RecordInvStep, ShipperAssumes DEF EndInv
<1> QED
  BY <1>2, <1>3, <1>4, <1>6, NetInvStep DEF EndInv

\* In the company of the server the shipper behaves as its own module says,
\* for any number of files and requests: the endpoint is the server that
\* RawShipper assumes.
THEOREM ShipperKeepsItsWord == Spec => ShipperSpec
<1>1. Init => S!Init
  BY DEF Init
<1> QED
  BY <1>1, EndInvInit, EndInvStep, PTL DEF Spec, ShipperSpec, S!Spec

\* A file the agent's table calls uploaded is on the server with a committed
\* row and its bytes, whichever process died and whichever request was late,
\* unless a post of it that was answered 500 has taken the bytes away.
THEOREM StoredEndToEnd == Spec => []RecordedIsStored
<1>1. ASSUME EndInv PROVE RecordedIsStored
  <2>1. \A row \in rows : files[row.path] = row.sha \/ E!Removed(row.path)
    BY <1>1, Parts DEF E!Removed, EP!Removed, E!StoredPath, EP!StoredPath
  <2> QED
    BY <1>1, <2>1 DEF EndInv, SP!RecordInv, SP!UploadedIsArchived, Archived, RecordedIsStored
<1> QED
  BY <1>1, EndInvInit, EndInvStep, PTL DEF Spec

\* The endpoint's contract under its two names.
LEMMA SameContract ==
    /\ E!C!Init <=> EP!C!Init
    /\ [E!C!Next]_(E!C!vars) <=> [EP!C!Next]_(EP!C!vars)
<1>1. E!Wants = EP!Wants /\ E!Wants' = EP!Wants'
  BY DEF E!Wants, EP!Wants
<1>2. E!Receipt = EP!Receipt /\ E!Receipt' = EP!Receipt'
  BY DEF E!Receipt, EP!Receipt, E!ReceiptOf, EP!ReceiptOf, E!RowsOf, EP!RowsOf
<1>3. E!Held = EP!Held /\ E!Held' = EP!Held'
  BY DEF E!Held, EP!Held, E!RowsOf, EP!RowsOf
<1>4. E!Verdicts = EP!Verdicts /\ E!Verdicts' = EP!Verdicts'
  BY DEF E!Verdicts, EP!Verdicts, E!VerdictOn, EP!VerdictOn, E!Succeeded, EP!Succeeded,
     E!Success, EP!Success
<1>5. E!Row = EP!Row
  BY DEF E!Row, EP!Row, E!Path, EP!Path
<1>6. E!C!Init <=> EP!C!Init
  BY <1>1, <1>2, <1>3, <1>4 DEF E!C!Init, EP!C!Init, E!C!Silent, EP!C!Silent
<1>7. E!C!Next <=> EP!C!Next
  BY <1>1, <1>2, <1>3, <1>4, <1>5
  DEF E!C!Next, EP!C!Next, E!C!Ask, EP!C!Ask, E!C!Archive, EP!C!Archive,
      E!C!Restore, EP!C!Restore, E!C!Grant, EP!C!Grant, E!C!Refuse, EP!C!Refuse,
      E!C!Silent, EP!C!Silent, E!C!Refused, EP!C!Refused, E!C!Granted, EP!C!Granted
<1>8. UNCHANGED E!C!vars <=> UNCHANGED EP!C!vars
  BY <1>1, <1>2, <1>3, <1>4 DEF E!C!vars, EP!C!vars
<1> QED
  BY <1>6, <1>7, <1>8

LEMMA EndInvHolds == Spec => []EndInv
BY EndInvInit, EndInvStep, PTL DEF Spec

\* Where commits fail on the unique constraint alone the bytes are always there.
THEOREM NothingLostEndToEnd ==
    ASSUME CommitFaults = {}
    PROVE  Spec => [](\A c \in Contents : db[c] = "uploaded" =>
                          \E row \in rows : row.sha = c /\ files[row.path] = c)
<1>1. RecordedIsStored => \A c \in Contents : db[c] = "uploaded" =>
                              \E row \in rows : row.sha = c /\ files[row.path] = c
  BY DEF RecordedIsStored, E!Removed
<1> QED
  BY <1>1, StoredEndToEnd, PTL

\* In the company of the shipper the endpoint is the one of its own module,
\* contract included: the two specifications assume nothing of each other that
\* the other does not keep.
THEOREM ServerKeepsItsWord == Spec => E!Spec /\ E!Contract
<1>1. Init => E!Init /\ E!C!Init
  <2>1. Init => EP!Init
    BY SameEndpoint DEF Init
  <2>2. EP!Init => EP!C!Init
    BY EP!ContractInit, EndpointAssumes
  <2> QED
    BY <2>1, <2>2, SameEndpoint, SameContract
<1>2. EndInv /\ [Next]_vars => [E!Next]_(E!vars) /\ [E!C!Next]_(E!C!vars)
  <2>1. EndInv /\ [Next]_vars => [EP!C!Next]_(EP!C!vars)
    BY EndpointSteps, EP!ContractStep, EndpointAssumes DEF EndInv
  <2>2. EndInv /\ [Next]_vars => [E!Next]_(E!vars)
    BY EndpointSteps, SameEndpoint DEF EndInv, E!vars, EP!vars
  <2> QED
    BY <2>1, <2>2, SameContract
<1> QED
  BY <1>1, <1>2, EndInvHolds, PTL DEF Spec, E!Spec, E!Contract, E!C!Spec

\* A content the agent's table calls uploaded has one row, the same for ever,
\* and stays recorded: no late request, retry or second start of either
\* process gives it another upload_id or stored_path.
KeepsRecorded ==
    \A c \in Contents : db[c] = "uploaded" =>
        /\ db'[c] = "uploaded"
        /\ \E row \in rows : E!RowsOf(c) = {row} /\ E!RowsOf(c)' = {row}

THEOREM RecordedForGood == Spec => [][KeepsRecorded]_vars
<1>1. ASSUME EndInv, EndInv', [Next]_vars,
             NEW c \in Contents, db[c] = "uploaded"
      PROVE  /\ db'[c] = "uploaded"
             /\ \E row \in rows : E!RowsOf(c) = {row} /\ E!RowsOf(c)' = {row}
  <2>1. rows \subseteq rows'
    BY <1>1, EndpointSteps, EP!RowsGrow, EndpointAssumes DEF EndInv
  <2>2. EP!OneRowPerSha /\ EP!OneRowPerSha'
    BY <1>1 DEF EndInv, EP!FileInv, EP!RowInv
  <2>3. PICK row \in rows : row.sha = c
    BY <1>1 DEF EndInv, SP!RecordInv, SP!UploadedIsArchived, Archived
  <2>4. E!RowsOf(c) = {row} /\ E!RowsOf(c)' = {row}
    BY <2>1, <2>2, <2>3 DEF E!RowsOf, EP!OneRowPerSha
  <2>5. [SP!Next]_(SP!vars)
    BY <1>1, EndInvStep, SameShipper DEF S!vars, SP!vars
  <2>6. db'[c] = "uploaded"
    BY <1>1, <2>5, SP!RecordInvStep, ShipperAssumes
    DEF EndInv, SP!Kept, SP!vars
  <2> QED
    BY <2>4, <2>6
<1>2. EndInv /\ EndInv' /\ [Next]_vars => [KeepsRecorded]_vars
  BY <1>1 DEF KeepsRecorded
<1> QED
  BY <1>2, EndInvHolds, PTL DEF Spec
=============================================================================
