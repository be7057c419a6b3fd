------------------------ MODULE GameLogArchiveProofs ------------------------
(***************************************************************************)
(* Theorems about GameLogArchive, for any number of requests, agents,      *)
(* users, contents, months and crashes.                                    *)
(***************************************************************************)
EXTENDS GameLogArchive, TLAPS

-----------------------------------------------------------------------------
(* Type correctness *)

\* The path of a well-formed upload is a path.
LEMMA StoredPathType ==
    ASSUME NEW r \in Requests, upload[r] \in Upload
    PROVE  StoredPath(r) \in Path
BY OwnerOfAssumption DEF StoredPath, Upload, Path

\* A request in flight carries a well-formed upload whose body matched, and
\* has not been answered; nor has one that has not arrived.
InFlightOK ==
    \A r \in Requests :
        /\ pc[r] \in InFlight => upload[r] \in Upload /\ BodyMatches(upload[r])
        /\ pc[r] \in InFlight \cup {"idle"} => answer[r] = NoAnswer

\* The types, with what the handler's position says of the upload.
TypeInv == TypeOK /\ InFlightOK

\* Every answer the handler gives is one.
LEMMA AnswerType ==
    ASSUME NEW status \in Statuses \cup {0}, NEW row \in Row \cup {None}
    PROVE  Answer(status, row) \in Reply
BY DEF Answer, Reply

LEMMA StatusesHold ==
    200 \in Statuses /\ 201 \in Statuses /\ 400 \in Statuses
    /\ 401 \in Statuses /\ 500 \in Statuses
BY DEF Statuses

LEMMA TypeInvInit == Init => TypeInv
BY AnswerType DEF Init, TypeInv, TypeOK, InFlightOK, InFlight, NoAnswer

LEMMA NewRowType ==
    ASSUME TypeInv, NEW r \in Requests, pc[r] = "commit"
    PROVE  NewRow(r) \in Row
<1>1. upload[r] \in Upload
  BY DEF TypeInv, InFlightOK, InFlight
<1>2. upload[r].sha \in Contents /\ upload[r].size \in Nat
  BY <1>1, SizeOfAssumption DEF Upload
<1>3. StoredPath(r) \in Path
  BY <1>1, StoredPathType
<1>4. nextId \in Nat /\ device[r] \in Agents \cup {None}
  BY DEF TypeInv, TypeOK
<1> QED
  BY <1>2, <1>3, <1>4 DEF NewRow, Row

LEMMA TypeInvStep == TypeInv /\ [Next]_vars => TypeInv'
<1> SUFFICES ASSUME TypeInv, [Next]_vars PROVE TypeInv'
  OBVIOUS
<1> USE DEF TypeInv, TypeOK, InFlightOK, InFlight
<1>1. ASSUME NEW r \in Requests, NEW u \in Upload, Receive(r, u) PROVE TypeInv'
  BY <1>1, AnswerType, StatusesHold DEF Receive, Finish, Goto, NoAnswer
<1>2. ASSUME NEW r \in Requests, Lookup(r) PROVE TypeInv'
  BY <1>2 DEF Lookup, Goto, RowsOf
<1>3. ASSUME NEW r \in Requests, TouchExisting(r) PROVE TypeInv'
  <2>1. upload[r].agent \in Agents
    BY <1>3 DEF TouchExisting, Upload
  <2> QED
    BY <1>3, <2>1, AnswerType, StatusesHold DEF TouchExisting, Finish
<1>4. ASSUME NEW r \in Requests, Attribute(r) PROVE TypeInv'
  <2>1. upload[r].agent_id \in Agents \cup {None}
    BY <1>4 DEF Attribute, Upload
  <2> QED
    BY <1>4, <2>1 DEF Attribute, Goto
<1>5. ASSUME NEW r \in Requests, WriteFile(r) PROVE TypeInv'
  <2>1. upload[r] \in Upload
    BY <1>5 DEF WriteFile
  <2>2. StoredPath(r) \in Path /\ upload[r].body \in Contents
    BY <2>1, StoredPathType DEF Upload
  <2> QED
    BY <1>5, <2>2, AnswerType, StatusesHold DEF WriteFile, Finish, Goto
<1>6. ASSUME NEW r \in Requests, CommitSucceeds(r) PROVE TypeInv'
  <2>1. NewRow(r) \in Row
    BY <1>6, NewRowType DEF CommitSucceeds
  <2>2. upload[r].agent \in Agents
    BY <1>6 DEF CommitSucceeds, Upload
  <2> QED
    BY <1>6, <2>1, <2>2 DEF CommitSucceeds, Insert, Goto
<1>7. ASSUME NEW r \in Requests, Refresh(r) PROVE TypeInv'
  BY <1>7, AnswerType, StatusesHold DEF Refresh, Finish
<1>8. ASSUME NEW r \in Requests, CommitCollides(r) PROVE TypeInv'
  BY <1>8 DEF CommitCollides, Goto
<1>9. ASSUME NEW r \in Requests, CommitFails(r) PROVE TypeInv'
  <2>1. NewRow(r) \in Row
    BY <1>9, NewRowType DEF CommitFails
  <2>2. upload[r].agent \in Agents
    BY <1>9 DEF CommitFails, Upload
  <2> QED
    BY <1>9, <2>1, <2>2 DEF CommitFails, Insert, Goto
<1>10. ASSUME NEW r \in Requests, AfterCollision(r) PROVE TypeInv'
  BY <1>10, AnswerType, StatusesHold DEF AfterCollision, RowsOf, Finish, Goto
<1>11. ASSUME NEW r \in Requests, RemoveFile(r) PROVE TypeInv'
  <2>1. upload[r] \in Upload
    BY <1>11 DEF RemoveFile
  <2>2. StoredPath(r) \in Path
    BY <2>1, StoredPathType
  <2> QED
    BY <1>11, <2>2, AnswerType, StatusesHold DEF RemoveFile, Finish
<1>12. ASSUME NEW a \in Agents, Revoke(a) PROVE TypeInv'
  BY <1>12 DEF Revoke
<1>13. ASSUME Crash PROVE TypeInv'
  BY <1>13 DEF Crash
<1>14. ASSUME UNCHANGED vars PROVE TypeInv'
  BY <1>14 DEF vars
<1> QED
  BY <1>1, <1>2, <1>3, <1>4, <1>5, <1>6, <1>7, <1>8, <1>9, <1>10, <1>11,
     <1>12, <1>13, <1>14
  DEF Next, Step

\* Every variable keeps its type, in every behaviour of the endpoint.
THEOREM TypeCorrect == Spec => []TypeOK
<1>1. Spec => []TypeInv
  BY TypeInvInit, TypeInvStep, PTL DEF Spec
<1>2. TypeInv => TypeOK
  BY DEF TypeInv
<1> QED
  BY <1>1, <1>2, PTL

-----------------------------------------------------------------------------
(* One row per content, and answers that agree *)

\* The row a request is about to answer with is committed and is the one of
\* the content it uploaded.
FoundOK ==
    \A r \in Requests : pc[r] \in {"touch", "refresh"} =>
        found[r] \in rows /\ found[r].sha = upload[r].body

\* Ids come from a sequence that has passed every id in use.
IdsBelow == \A row \in rows : row.id < nextId

\* A success was answered with the committed row of the uploaded content.
AnswerOK ==
    \A r \in Requests : Succeeded(r) =>
        answer[r].row \in rows /\ answer[r].row.sha = upload[r].body

RowInv == TypeInv /\ FoundOK /\ IdsBelow /\ OneRowPerSha /\ AnswerOK

LEMMA RowInvInit == Init => RowInv
<1> SUFFICES ASSUME Init PROVE RowInv
  OBVIOUS
<1>1. TypeInv
  BY TypeInvInit
<1>2. FoundOK /\ IdsBelow /\ OneRowPerSha
  BY DEF Init, FoundOK, IdsBelow, OneRowPerSha
<1>3. AnswerOK
  BY DEF Init, AnswerOK, Succeeded, Success, NoAnswer, Answer
<1> QED
  BY <1>1, <1>2, <1>3 DEF RowInv

\* An insert keeps rows and ids unique and takes no row away.
LEMMA InsertKeepsUnique ==
    ASSUME RowInv, NEW r \in Requests, pc[r] = "commit", Insert(r)
    PROVE  /\ OneRowPerSha' /\ IdsBelow'
           /\ rows \subseteq rows'
           /\ NewRow(r) \in rows' /\ NewRow(r).sha = upload[r].body
<1> DEFINE new == NewRow(r)
<1>1. new.id = nextId /\ new.sha = upload[r].sha
  BY DEF NewRow
<1>2. upload[r].sha = upload[r].body
  BY DEF RowInv, TypeInv, InFlightOK, InFlight, BodyMatches
<1>3. rows' = rows \cup {new} /\ nextId' = nextId + 1
  BY DEF Insert
<1>4. \A row \in rows : row.sha # new.sha
  BY <1>1 DEF Insert, RowsOf
<1>5. /\ nextId \in Nat
      /\ \A row \in rows : row.id \in Nat /\ row.id < nextId
  BY DEF RowInv, TypeInv, TypeOK, IdsBelow, Row
<1> HIDE DEF new
<1>6. \A row \in rows : row.id # new.id
  BY <1>1, <1>5
<1>7. OneRowPerSha'
  BY <1>3, <1>4, <1>6 DEF RowInv, OneRowPerSha
<1>8. IdsBelow'
  BY <1>1, <1>3, <1>5 DEF IdsBelow
<1> QED
  BY <1>1, <1>2, <1>3, <1>7, <1>8 DEF new

\* A step that leaves the table alone keeps what concerns only the table.
LEMMA SameRows ==
    ASSUME RowInv, rows' = rows, nextId' \in {nextId, nextId + 1}
    PROVE  OneRowPerSha' /\ IdsBelow'
<1>1. /\ nextId \in Nat
      /\ \A row \in rows : row.id \in Nat /\ row.id < nextId
  BY DEF RowInv, TypeInv, TypeOK, IdsBelow, Row
<1>2. IdsBelow'
  BY <1>1 DEF IdsBelow
<1> QED
  BY <1>2 DEF RowInv, OneRowPerSha

\* A request that ends with an error, or without an answer, or goes on.
LEMMA RowInvStep == RowInv /\ [Next]_vars => RowInv'
<1> SUFFICES ASSUME RowInv, [Next]_vars PROVE RowInv'
  OBVIOUS
<1>0. TypeInv'
  BY TypeInvStep DEF RowInv
<1> USE DEF FoundOK, AnswerOK, Succeeded, Success
<1> DEFINE Goal == FoundOK' /\ IdsBelow' /\ OneRowPerSha' /\ AnswerOK'
<1> SUFFICES Goal
  BY <1>0 DEF RowInv
<1>a. /\ FoundOK /\ AnswerOK
      /\ pc \in [Requests -> {"idle", "done", "gone"} \cup InFlight]
      /\ answer \in [Requests -> Reply] /\ DOMAIN found = Requests
      /\ DOMAIN upload = Requests
      /\ \A r \in Requests :
            /\ pc[r] \in InFlight => BodyMatches(upload[r])
            /\ pc[r] \in InFlight \cup {"idle"} => answer[r].status = 0
  BY DEF RowInv, TypeInv, TypeOK, InFlightOK, NoAnswer, Answer
<1>1. ASSUME NEW r \in Requests, NEW u \in Upload, Receive(r, u) PROVE Goal
  <2>1. OneRowPerSha' /\ IdsBelow'
    BY <1>1, SameRows DEF Receive
  <2>2. answer'[r].status \notin {200, 201}
    BY <1>1, <1>a DEF Receive, Finish, Goto, Answer
  <2> QED
    BY <1>1, <1>a, <2>1, <2>2 DEF Receive, Finish, Goto
<1>2. ASSUME NEW r \in Requests, Lookup(r) PROVE Goal
  <2>1. OneRowPerSha' /\ IdsBelow'
    BY <1>2, SameRows DEF Lookup
  <2>2. upload[r].sha = upload[r].body
    BY <1>2, <1>a DEF Lookup, InFlight, BodyMatches
  <2> QED
    BY <1>2, <1>a, <2>1, <2>2 DEF Lookup, Goto, RowsOf
<1>3. ASSUME NEW r \in Requests, TouchExisting(r) PROVE Goal
  <2>1. OneRowPerSha' /\ IdsBelow'
    BY <1>3, SameRows DEF TouchExisting
  <2> QED
    BY <1>3, <1>a, <2>1 DEF TouchExisting, Finish, Answer
<1>4. ASSUME NEW r \in Requests, Attribute(r) PROVE Goal
  <2>1. OneRowPerSha' /\ IdsBelow'
    BY <1>4, SameRows DEF Attribute
  <2> QED
    BY <1>4, <1>a, <2>1 DEF Attribute, Goto
<1>5. ASSUME NEW r \in Requests, WriteFile(r) PROVE Goal
  <2>1. OneRowPerSha' /\ IdsBelow'
    BY <1>5, SameRows DEF WriteFile
  <2> QED
    BY <1>5, <1>a, <2>1 DEF WriteFile, Finish, Goto, Answer
<1>6. ASSUME NEW r \in Requests, CommitSucceeds(r) PROVE Goal
  <2>1. /\ OneRowPerSha' /\ IdsBelow' /\ rows \subseteq rows'
        /\ NewRow(r) \in rows' /\ NewRow(r).sha = upload[r].body
    BY <1>6, InsertKeepsUnique DEF CommitSucceeds
  <2> QED
    BY <1>6, <1>a, <2>1 DEF CommitSucceeds, Goto
<1>7. ASSUME NEW r \in Requests, Refresh(r) PROVE Goal
  <2>1. OneRowPerSha' /\ IdsBelow'
    BY <1>7, SameRows DEF Refresh
  <2> QED
    BY <1>7, <1>a, <2>1 DEF Refresh, Finish, Answer
<1>8. ASSUME NEW r \in Requests, CommitCollides(r) PROVE Goal
  <2>1. OneRowPerSha' /\ IdsBelow'
    BY <1>8, SameRows DEF CommitCollides
  <2> QED
    BY <1>8, <1>a, <2>1 DEF CommitCollides, Goto
<1>9. ASSUME NEW r \in Requests, CommitFails(r) PROVE Goal
  <2>1. OneRowPerSha' /\ IdsBelow' /\ rows \subseteq rows'
    BY <1>9, InsertKeepsUnique, SameRows DEF CommitFails
  <2> QED
    BY <1>9, <1>a, <2>1 DEF CommitFails, Goto
<1>10. ASSUME NEW r \in Requests, AfterCollision(r) PROVE Goal
  <2>1. OneRowPerSha' /\ IdsBelow'
    BY <1>10, SameRows DEF AfterCollision
  <2>2. upload[r].sha = upload[r].body
    BY <1>10, <1>a DEF AfterCollision, InFlight, BodyMatches
  <2> QED
    BY <1>10, <1>a, <2>1, <2>2 DEF AfterCollision, Finish, Goto, Answer, RowsOf
<1>11. ASSUME NEW r \in Requests, RemoveFile(r) PROVE Goal
  <2>1. OneRowPerSha' /\ IdsBelow'
    BY <1>11, SameRows DEF RemoveFile
  <2> QED
    BY <1>11, <1>a, <2>1 DEF RemoveFile, Finish, Answer
<1>12. ASSUME NEW a \in Agents, Revoke(a) PROVE Goal
  <2>1. OneRowPerSha' /\ IdsBelow'
    BY <1>12, SameRows DEF Revoke
  <2> QED
    BY <1>12, <1>a, <2>1 DEF Revoke
<1>13. ASSUME Crash PROVE Goal
  <2>1. OneRowPerSha' /\ IdsBelow'
    BY <1>13, SameRows DEF Crash
  <2> QED
    BY <1>13, <1>a, <2>1 DEF Crash
<1>14. ASSUME UNCHANGED vars PROVE Goal
  <2>1. OneRowPerSha' /\ IdsBelow'
    BY <1>14, SameRows DEF vars
  <2> QED
    BY <1>14, <1>a, <2>1 DEF vars
<1> QED
  BY <1>1, <1>2, <1>3, <1>4, <1>5, <1>6, <1>7, <1>8, <1>9, <1>10, <1>11,
     <1>12, <1>13, <1>14
  DEF Next, Step

LEMMA RowInvHolds == Spec => []RowInv
BY RowInvInit, RowInvStep, PTL DEF Spec

\* However requests race, crash and fail to commit, a content has one row
\* and an id names one row.
THEOREM UniqueRows == Spec => []OneRowPerSha
<1>1. RowInv => OneRowPerSha
  BY DEF RowInv
<1> QED
  BY <1>1, RowInvHolds, PTL

\* However requests race, crash and fail to commit, all successful uploads
\* of the same bytes are given the same committed row.
THEOREM AnswersAlwaysAgree == Spec => []AnswersAgree
<1>1. RowInv => AnswersAgree
  BY DEF RowInv, AnswerOK, AnswersAgree, OneRowPerSha
<1> QED
  BY <1>1, RowInvHolds, PTL

-----------------------------------------------------------------------------
(* What an answer says of its upload *)

\* A request that has not arrived carries nothing.
NotYetAsked == \A r \in Requests : pc[r] = "idle" => upload[r] = None

LEMMA NotYetAskedStep == TypeOK /\ NotYetAsked /\ [Next]_vars => NotYetAsked'
<1> SUFFICES ASSUME TypeOK, NotYetAsked, [Next]_vars PROVE NotYetAsked'
  OBVIOUS
<1>1. \A r \in Requests : pc'[r] = "idle" => pc[r] = "idle" /\ upload'[r] = upload[r]
  BY DEF Next, Step, vars, TypeOK, InFlight, Receive, Lookup, TouchExisting,
         Attribute, WriteFile, CommitSucceeds, Refresh, CommitCollides,
         CommitFails, AfterCollision, RemoveFile, Revoke, Crash, Finish, Goto
<1> QED
  BY <1>1 DEF NotYetAsked

\* A request's upload, once there, is the one its answer is about.
LEMMA UploadStays ==
    ASSUME TypeInv, [Next]_vars, NEW r \in Requests, pc[r] # "idle"
    PROVE  upload'[r] = upload[r] /\ pc'[r] # "idle"
BY DEF Next, Step, vars, TypeInv, TypeOK, InFlight, Receive, Lookup, TouchExisting,
       Attribute, WriteFile, CommitSucceeds, Refresh, CommitCollides,
       CommitFails, AfterCollision, RemoveFile, Revoke, Crash, Finish, Goto

\* An answered request carried a well-formed upload; a success carried one
\* whose body matched, and a 400 one whose body did not.
VerdictsMatch ==
    \A r \in Requests :
        /\ pc[r] # "idle" => upload[r] \in Upload
        /\ answer[r].status \in Success => BodyMatches(upload[r])
        /\ answer[r].status = 400 => ~BodyMatches(upload[r])

LEMMA VerdictsMatchStep == TypeInv /\ VerdictsMatch /\ [Next]_vars => VerdictsMatch'
<1> SUFFICES ASSUME TypeInv, VerdictsMatch, [Next]_vars PROVE VerdictsMatch'
  OBVIOUS
<1> SUFFICES ASSUME NEW r \in Requests
             PROVE  /\ pc'[r] # "idle" => upload'[r] \in Upload
                    /\ answer'[r].status \in Success => BodyMatches(upload'[r])
                    /\ answer'[r].status = 400 => ~BodyMatches(upload'[r])
  BY DEF VerdictsMatch, BodyMatches
<1>1. CASE \E u \in Upload : Receive(r, u)
  BY <1>1 DEF Receive, Finish, Goto, Answer, NoAnswer, TypeInv, TypeOK, InFlightOK, Success
<1>2. CASE \/ Lookup(r) \/ TouchExisting(r) \/ Attribute(r) \/ WriteFile(r)
           \/ CommitSucceeds(r) \/ Refresh(r) \/ CommitCollides(r)
           \/ CommitFails(r) \/ AfterCollision(r) \/ RemoveFile(r)
  <2>1. pc[r] \in InFlight
    BY <1>2
    DEF InFlight, Lookup, TouchExisting, Attribute, WriteFile, CommitSucceeds, Refresh,
        CommitCollides, CommitFails, AfterCollision, RemoveFile
  <2>2. upload[r] \in Upload /\ BodyMatches(upload[r]) /\ pc[r] # "idle"
    BY <2>1 DEF TypeInv, InFlightOK, InFlight
  <2>3. upload'[r] = upload[r]
    BY <2>2, UploadStays
  <2>4. answer'[r] = answer[r] \/ answer'[r].status # 400
    BY <1>2
    DEF TypeInv, TypeOK, Lookup, TouchExisting, Attribute, WriteFile, CommitSucceeds,
        Refresh, CommitCollides, CommitFails, AfterCollision, RemoveFile, Finish, Goto, Answer
  <2> QED
    BY <2>2, <2>3, <2>4 DEF VerdictsMatch
<1>3. CASE pc'[r] \in {pc[r], "gone"} /\ upload'[r] = upload[r] /\ answer'[r] = answer[r]
  <2>1. pc'[r] # "idle" => pc[r] # "idle"
    BY <1>3 DEF Next, Step, vars, TypeInv, TypeOK, InFlight, Receive, Lookup, TouchExisting,
       Attribute, WriteFile, CommitSucceeds, Refresh, CommitCollides,
       CommitFails, AfterCollision, RemoveFile, Revoke, Crash, Finish, Goto
  <2> QED
    BY <1>3, <2>1 DEF VerdictsMatch
<1> QED
  BY <1>1, <1>2, <1>3
  DEF Next, Step, vars, TypeInv, TypeOK, InFlight, Receive, Lookup, TouchExisting,
      Attribute, WriteFile, CommitSucceeds, Refresh, CommitCollides,
      CommitFails, AfterCollision, RemoveFile, Revoke, Crash, Finish, Goto

-----------------------------------------------------------------------------
(* Heartbeats, devices, collisions and orphans *)

\* The stamp is committed before the handler goes on to answer.
SeenInv ==
    /\ SuccessIsSeen
    /\ \A r \in Requests : pc[r] = "refresh" => upload[r].agent \in seen

LEMMA SeenInvStep == TypeInv /\ SeenInv /\ [Next]_vars => SeenInv'
<1> SUFFICES ASSUME TypeInv, SeenInv, [Next]_vars, NEW r \in Requests
             PROVE  /\ Succeeded(r)' => upload'[r].agent \in seen'
                    /\ pc'[r] = "refresh" => upload'[r].agent \in seen'
  BY DEF SeenInv, SuccessIsSeen
<1>1. seen \subseteq seen'
  BY DEF Next, Step, vars, Receive, Lookup, TouchExisting, Attribute, WriteFile,
         CommitSucceeds, Refresh, CommitCollides, CommitFails, AfterCollision,
         RemoveFile, Revoke, Crash, Insert
<1>2. CASE \E u \in Upload : Receive(r, u)
  BY <1>2
  DEF Receive, Finish, Goto, Answer, NoAnswer, TypeInv, TypeOK, InFlightOK, Succeeded, Success
<1>3. CASE TouchExisting(r) \/ CommitSucceeds(r) \/ Refresh(r)
  BY <1>1, <1>3
  DEF TouchExisting, CommitSucceeds, Insert, Refresh, Finish, Goto, Answer, TypeInv,
      TypeOK, SeenInv, SuccessIsSeen, Succeeded, Success
<1>4. CASE /\ upload'[r] = upload[r] /\ (pc'[r] = "refresh" => pc[r] = "refresh")
           /\ answer'[r] = answer[r] \/ answer'[r].status \notin Success
  BY <1>1, <1>4 DEF SeenInv, SuccessIsSeen, Succeeded
<1> QED
  BY <1>2, <1>3, <1>4
  DEF Next, Step, vars, TypeInv, TypeOK, InFlight, Receive, Lookup, TouchExisting,
      Attribute, WriteFile, CommitSucceeds, Refresh, CommitCollides,
      CommitFails, AfterCollision, RemoveFile, Revoke, Crash, Finish, Goto, Answer, Success

\* A successful upload has stamped its agent's last_seen, also when it lost
\* the race and its first stamp was rolled back.
THEOREM SuccessesAreSeen == Spec => []SuccessIsSeen
<1>1. Init => SeenInv
  BY DEF Init, SeenInv, SuccessIsSeen, Succeeded, Success, NoAnswer, Answer
<1>2. RowInv => TypeInv
  BY DEF RowInv
<1>3. SeenInv => SuccessIsSeen
  BY DEF SeenInv
<1> QED
  BY <1>1, <1>2, <1>3, SeenInvStep, RowInvHolds, PTL DEF Spec

\* What a request was attributed to is a device of its sender's user.
DeviceInv ==
    /\ DeviceIsOwners
    /\ \A r \in Requests :
          pc[r] \in {"write", "commit"} /\ device[r] # None =>
              OwnerOf[device[r]] = OwnerOf[upload[r].agent]

LEMMA DeviceInvStep == TypeInv /\ DeviceInv /\ [Next]_vars => DeviceInv'
<1> SUFFICES ASSUME TypeInv, DeviceInv, [Next]_vars PROVE DeviceInv'
  OBVIOUS
<1>1. ASSUME NEW r \in Requests, pc'[r] \in {"write", "commit"}, device'[r] # None
      PROVE  OwnerOf[device'[r]] = OwnerOf[upload'[r].agent]
  <2>1. CASE Attribute(r)
    BY <1>1, <2>1 DEF Attribute, TypeInv, TypeOK
  <2>2. CASE /\ pc[r] \in {"write", "commit"} /\ device'[r] = device[r]
             /\ upload'[r] = upload[r]
    BY <1>1, <2>2 DEF DeviceInv
  <2> QED
    BY <1>1, <2>1, <2>2
    DEF Next, Step, vars, TypeInv, TypeOK, InFlight, Receive, Lookup, TouchExisting,
        Attribute, WriteFile, CommitSucceeds, Refresh, CommitCollides,
        CommitFails, AfterCollision, RemoveFile, Revoke, Crash, Finish, Goto
<1>2. DeviceIsOwners'
  <2>1. CASE rows' = rows
    BY <2>1 DEF DeviceInv, DeviceIsOwners
  <2>2. ASSUME NEW r \in Requests, pc[r] = "commit", Insert(r) PROVE DeviceIsOwners'
    <3>1. rows' = rows \cup {NewRow(r)}
      BY <2>2 DEF Insert
    <3>2. /\ NewRow(r).device = device[r]
          /\ NewRow(r).path.user = OwnerOf[upload[r].agent]
      BY DEF NewRow, StoredPath
    <3> QED
      BY <2>2, <3>1, <3>2 DEF DeviceInv, DeviceIsOwners
  <2> QED
    BY <2>1, <2>2
    DEF Next, Step, vars, Receive, Lookup, TouchExisting, Attribute, WriteFile,
        CommitSucceeds, Refresh, CommitCollides, CommitFails, AfterCollision,
        RemoveFile, Revoke, Crash
<1> QED
  BY <1>1, <1>2 DEF DeviceInv

\* No row is attributed to a device of another user than the one it is filed
\* under, whatever agent_id the metadata claims.
THEOREM DevicesAreOwners == Spec => []DeviceIsOwners
<1>1. Init => DeviceInv
  BY DEF Init, DeviceInv, DeviceIsOwners
<1>2. RowInv => TypeInv
  BY DEF RowInv
<1>3. DeviceInv => DeviceIsOwners
  BY DEF DeviceInv
<1> QED
  BY <1>1, <1>2, <1>3, DeviceInvStep, RowInvHolds, PTL DEF Spec

\* No row is ever taken away.
LEMMA RowsGrow == [Next]_vars => rows \subseteq rows'
BY DEF Next, Step, vars, Receive, Lookup, TouchExisting, Attribute, WriteFile,
       CommitSucceeds, Refresh, CommitCollides, CommitFails, AfterCollision,
       RemoveFile, Revoke, Crash, Insert

\* Where a request is that explains a file.
Explains(r, p) ==
    /\ upload[r] # None
    /\ StoredPath(r) = p
    /\ pc[r] \in {"commit", "failed", "gone"} \/ answer[r].status = 500

LEMMA ExplainsStep ==
    ASSUME TypeInv, VerdictsMatch, NotYetAsked, [Next]_vars,
           NEW r \in Requests, NEW p \in Path, Explains(r, p)
    PROVE  Explains(r, p)' \/ RowsOf(p.sha)' # {}
<1>1. pc[r] # "idle" /\ upload[r] \in Upload
  BY DEF Explains, NotYetAsked, VerdictsMatch
<1>2. upload'[r] = upload[r] /\ StoredPath(r)' = StoredPath(r) /\ p.sha = upload[r].sha
  BY <1>1, UploadStays DEF StoredPath, Explains
<1>3. CASE CommitSucceeds(r)
  <2>1. NewRow(r) \in rows' /\ NewRow(r).sha = p.sha
    BY <1>2, <1>3 DEF CommitSucceeds, Insert, NewRow
  <2> QED
    BY <2>1 DEF RowsOf
<1>4. CASE CommitCollides(r)
  BY <1>2, <1>4, RowsGrow DEF CommitCollides, RowsOf
<1>5. CASE RemoveFile(r) \/ CommitFails(r)
  BY <1>2, <1>5
  DEF RemoveFile, CommitFails, Finish, Goto, Answer, Explains, TypeInv, TypeOK
<1>6. CASE Crash
  BY <1>2, <1>6 DEF Crash, Explains
<1>7. CASE pc'[r] = pc[r] /\ answer'[r] = answer[r]
  BY <1>2, <1>7 DEF Explains
<1>8. pc[r] \in {"commit", "failed", "gone", "done"}
  BY DEF Explains, TypeInv, TypeOK, InFlightOK, NoAnswer, Answer
<1> QED
  BY <1>3, <1>4, <1>5, <1>6, <1>7, <1>8
  DEF Next, Step, vars, TypeInv, TypeOK, InFlight, Receive, Lookup, TouchExisting,
      Attribute, WriteFile, CommitSucceeds, Refresh, CommitCollides,
      CommitFails, AfterCollision, RemoveFile, Revoke, Crash, Finish, Goto

LEMMA OrphansStep ==
    TypeInv /\ VerdictsMatch /\ NotYetAsked /\ OrphansExplained /\ [Next]_vars
        => OrphansExplained'
<1> SUFFICES ASSUME TypeInv, VerdictsMatch, NotYetAsked, OrphansExplained, [Next]_vars,
                    NEW p \in Path, files'[p] # None, RowsOf(p.sha)' = {}
             PROVE  \E r \in Requests : Explains(r, p)'
  BY DEF OrphansExplained, Explains
<1>1. RowsOf(p.sha) = {}
  BY RowsGrow DEF RowsOf
<1>2. CASE files[p] # None
  <2>1. PICK r \in Requests : Explains(r, p)
    BY <1>1, <1>2 DEF OrphansExplained, Explains
  <2> QED
    BY <2>1, ExplainsStep
<1>3. CASE files[p] = None
  <2>1. PICK r \in Requests :
            /\ WriteFile(r) /\ Goto(r, "commit")
            /\ files' = [files EXCEPT ![StoredPath(r)] = upload[r].body]
    BY <1>3
    DEF Next, Step, vars, TypeInv, TypeOK, Receive, Lookup, TouchExisting, Attribute,
        WriteFile, CommitSucceeds, Refresh, CommitCollides, CommitFails,
        AfterCollision, RemoveFile, Revoke, Crash
  <2>2. StoredPath(r) = p
    BY <1>3, <2>1 DEF TypeInv, TypeOK
  <2>3. upload' = upload /\ upload[r] # None
    BY <2>1, NoneAssumption DEF WriteFile, TypeInv, InFlightOK, InFlight
  <2>4. pc'[r] = "commit" /\ StoredPath(r)' = p
    BY <2>1, <2>2, <2>3 DEF Goto, TypeInv, TypeOK, StoredPath
  <2> QED
    BY <2>3, <2>4 DEF Explains
<1> QED
  BY <1>2, <1>3

\* A file whose content has no row belongs to a request that is still running,
\* died, or was answered 500, however commits fail and whatever dies.
THEOREM OrphansAreExplained == Spec => []OrphansExplained
<1>1. Init => OrphansExplained /\ NotYetAsked /\ VerdictsMatch
  BY DEF Init, OrphansExplained, NotYetAsked, VerdictsMatch, NoAnswer, Answer, Success
<1>2. RowInv => TypeInv /\ TypeOK
  BY DEF RowInv, TypeInv
<1> QED
  BY <1>1, <1>2, NotYetAskedStep, VerdictsMatchStep, OrphansStep, RowInvHolds, PTL DEF Spec

-----------------------------------------------------------------------------
(* A row's file is there, or was removed by a failed commit *)

\* A request that was answered is not answered again.
LEMMA AnswerStays ==
    ASSUME TypeInv, [Next]_vars, NEW r \in Requests, answer[r].status # 0
    PROVE  pc[r] # "idle" /\ answer'[r] = answer[r]
<1>1. pc[r] \notin InFlight \cup {"idle"}
  BY DEF TypeInv, InFlightOK, NoAnswer, Answer
<1> QED
  BY <1>1
  DEF Next, Step, vars, TypeInv, TypeOK, InFlight, Receive, Lookup, TouchExisting,
      Attribute, WriteFile, CommitSucceeds, Refresh, CommitCollides,
      CommitFails, AfterCollision, RemoveFile, Revoke, Crash, Finish, Goto

\* The bytes of a path are there, or gone for a reason that can be named.
Kept(p) == files[p] = p.sha \/ Removed(p)

\* A row is filed under its own sha.
PathOfRow == \A row \in rows : row.path \in Path /\ row.path.sha = row.sha

\* A request about to commit has put its bytes in place.
WrittenOK == \A r \in Requests : pc[r] = "commit" => Kept(StoredPath(r))

\* A file is only removed where a commit can fail.
FailedOK == \A r \in Requests : pc[r] = "failed" => CommitFaults # {}

FileInv ==
    RowInv /\ NotYetAsked /\ PathOfRow /\ WrittenOK /\ FailedOK /\ RowHasFile

LEMMA FileInvInit == Init => FileInv
BY RowInvInit
DEF Init, FileInv, NotYetAsked, PathOfRow, WrittenOK, FailedOK, RowHasFile

\* What a request in flight, or about to be written for, says of its path.
LEMMA PathFacts ==
    ASSUME TypeInv, NEW r \in Requests, pc[r] \in InFlight
    PROVE  /\ StoredPath(r) \in Path /\ StoredPath(r).sha = upload[r].sha
           /\ upload[r].sha = upload[r].body /\ upload[r].body \in Contents
           /\ upload[r] # None /\ upload[r].size = SizeOf[upload[r].sha]
<1>1. upload[r] \in Upload /\ BodyMatches(upload[r])
  BY DEF TypeInv, InFlightOK
<1> QED
  BY <1>1, StoredPathType, NoneAssumption DEF StoredPath, Upload, BodyMatches

\* A file appears by an upload to its path, and goes by a failed one.
LEMMA FileChange ==
    ASSUME TypeInv, [Next]_vars, files' # files
    PROVE  \E r \in Requests :
              \/ /\ WriteFile(r) /\ Goto(r, "commit")
                 /\ files' = [files EXCEPT ![StoredPath(r)] = upload[r].body]
              \/ /\ RemoveFile(r)
                 /\ files' = [files EXCEPT ![StoredPath(r)] = None]
BY DEF Next, Step, vars, Receive, Lookup, TouchExisting, Attribute, WriteFile,
       CommitSucceeds, Refresh, CommitCollides, CommitFails, AfterCollision,
       RemoveFile, Revoke, Crash

\* Nothing that is kept is lost without a named reason.
LEMMA KeptStays ==
    ASSUME FileInv, [Next]_vars, NEW p \in Path, Kept(p)
    PROVE  Kept(p)'
<1>0. TypeInv /\ NotYetAsked /\ files \in [Path -> Contents \cup {None}]
  BY DEF FileInv, RowInv, TypeInv, TypeOK
<1>1. CASE files'[p] = files[p]
  <2>1. CASE files[p] = p.sha
    BY <1>1, <2>1 DEF Kept
  <2>2. CASE Removed(p)
    <3>1. PICK r \in Requests :
             upload[r] # None /\ StoredPath(r) = p /\ answer[r].status = 500
      BY <2>2 DEF Removed
    <3>2. upload'[r] = upload[r] /\ answer'[r] = answer[r]
      BY <1>0, <3>1, AnswerStays, UploadStays
    <3>3. StoredPath(r)' = StoredPath(r)
      BY <3>2 DEF StoredPath
    <3> QED
      BY <1>1, <2>2, <3>1, <3>2, <3>3 DEF Kept, Removed
  <2> QED
    BY <2>1, <2>2 DEF Kept
<1>2. ASSUME NEW r \in Requests, WriteFile(r), files'[p] # files[p],
             files' = [files EXCEPT ![StoredPath(r)] = upload[r].body]
      PROVE  Kept(p)'
  <2>1. StoredPath(r) = p
    BY <1>0, <1>2
  <2>2. files'[p] = p.sha
    BY <1>0, <1>2, <2>1, PathFacts DEF WriteFile, InFlight
  <2> QED
    BY <2>2 DEF Kept
<1>3. ASSUME NEW r \in Requests, RemoveFile(r), files'[p] # files[p],
             files' = [files EXCEPT ![StoredPath(r)] = None]
      PROVE  Kept(p)'
  <2>1. StoredPath(r) = p /\ files'[p] = None
    BY <1>0, <1>3
  <2>2. CommitFaults # {} /\ upload' = upload /\ upload[r] # None
    BY <1>0, <1>3, PathFacts DEF FileInv, FailedOK, RemoveFile, InFlight
  <2>3. answer'[r].status = 500
    BY <1>0, <1>3 DEF RemoveFile, Finish, Answer, TypeInv, TypeOK
  <2>4. StoredPath(r)' = p
    BY <2>1, <2>2 DEF StoredPath
  <2> QED
    BY <2>1, <2>2, <2>3, <2>4 DEF Kept, Removed
<1> QED
  BY <1>0, <1>1, <1>2, <1>3, FileChange

\* The table changes by the insert of a request about to commit.
LEMMA RowChange ==
    ASSUME [Next]_vars, rows' # rows
    PROVE  \E r \in Requests : /\ CommitSucceeds(r) \/ CommitFails(r)
                               /\ pc[r] = "commit" /\ Insert(r)
BY DEF Next, Step, vars, Receive, Lookup, TouchExisting, Attribute, WriteFile,
       CommitSucceeds, Refresh, CommitCollides, CommitFails, AfterCollision,
       RemoveFile, Revoke, Crash

LEMMA FileInvStep == FileInv /\ [Next]_vars => FileInv'
<1> SUFFICES ASSUME FileInv, [Next]_vars PROVE FileInv'
  OBVIOUS
<1>0. RowInv /\ TypeInv /\ TypeOK /\ NotYetAsked
  BY DEF FileInv, RowInv, TypeInv
<1>1. RowInv' /\ NotYetAsked'
  BY <1>0, RowInvStep, NotYetAskedStep
<1>2. ASSUME NEW row \in rows'
      PROVE  /\ row.path \in Path /\ row.path.sha = row.sha
             /\ row.size = SizeOf[row.sha] /\ Kept(row.path)
  <2>1. CASE row \in rows
    BY <2>1 DEF FileInv, PathOfRow, RowHasFile, Kept
  <2>2. CASE row \notin rows
    <3>1. PICK r \in Requests : pc[r] = "commit" /\ Insert(r)
      BY <1>2, <2>2, RowChange
    <3>2. row = NewRow(r)
      BY <1>2, <2>2, <3>1 DEF Insert
    <3>3. row.path = StoredPath(r) /\ row.sha = upload[r].sha /\ row.size = upload[r].size
      BY <3>2 DEF NewRow
    <3> QED
      BY <1>0, <3>1, <3>3, PathFacts DEF FileInv, WrittenOK, InFlight
  <2> QED
    BY <2>1, <2>2
<1>3. PathOfRow'
  BY <1>2 DEF PathOfRow
<1>4. RowHasFile'
  BY <1>2, KeptStays DEF RowHasFile, Kept
<1>5. ASSUME NEW r \in Requests, pc'[r] = "commit" PROVE Kept(StoredPath(r))'
  <2>1. CASE pc[r] = "commit"
    <3>1. upload'[r] = upload[r]
      BY <1>0, <2>1, UploadStays
    <3>2. StoredPath(r)' = StoredPath(r)
      BY <3>1 DEF StoredPath
    <3>3. StoredPath(r) \in Path /\ Kept(StoredPath(r))
      BY <1>0, <2>1, PathFacts DEF FileInv, WrittenOK, InFlight
    <3> QED
      BY <3>2, <3>3, KeptStays DEF Kept, Removed
  <2>2. CASE pc[r] # "commit"
    <3>1. /\ WriteFile(r) /\ upload' = upload
          /\ files' = [files EXCEPT ![StoredPath(r)] = upload[r].body]
      BY <1>0, <1>5, <2>2
      DEF Next, Step, vars, TypeOK, InFlight, Receive, Lookup, TouchExisting,
          Attribute, WriteFile, CommitSucceeds, Refresh, CommitCollides,
          CommitFails, AfterCollision, RemoveFile, Revoke, Crash, Finish, Goto
    <3>2. files'[StoredPath(r)] = StoredPath(r).sha
      BY <1>0, <3>1, PathFacts DEF WriteFile, InFlight, TypeOK
    <3>3. StoredPath(r)' = StoredPath(r)
      BY <3>1 DEF StoredPath
    <3> QED
      BY <3>2, <3>3 DEF Kept
  <2> QED
    BY <2>1, <2>2
<1>6. WrittenOK'
  BY <1>5 DEF WrittenOK
<1>7. FailedOK'
  BY <1>0
  DEF FileInv, FailedOK, Next, Step, vars, TypeOK, InFlight, Receive, Lookup, TouchExisting,
      Attribute, WriteFile, CommitSucceeds, Refresh, CommitCollides,
      CommitFails, AfterCollision, RemoveFile, Revoke, Crash, Finish, Goto
<1> QED
  BY <1>1, <1>3, <1>4, <1>6, <1>7 DEF FileInv

LEMMA FileInvHolds == Spec => []FileInv
BY FileInvInit, FileInvStep, PTL DEF Spec

\* However requests race, crash and fail to commit, a committed row's file has
\* the right bytes at every moment, unless an upload to the same path, whose
\* own commit failed and which says so, has removed it.
THEOREM FilesAreKept == Spec => []RowHasFile
<1>1. FileInv => RowHasFile
  BY DEF FileInv
<1> QED
  BY <1>1, FileInvHolds, PTL

\* So where a commit can fail on the unique constraint alone, no row is ever
\* without its file.
THEOREM NoRowWithoutFile ==
    ASSUME CommitFaults = {}
    PROVE  Spec => [](\A row \in rows : files[row.path] = row.sha)
<1>1. RowHasFile => \A row \in rows : files[row.path] = row.sha
  BY DEF RowHasFile, Removed
<1> QED
  BY <1>1, FilesAreKept, PTL

-----------------------------------------------------------------------------
(* The endpoint implements the contract *)

\* A committed row is the receipt of its content, and a content without a
\* row has none.
LEMMA ReceiptIsRow ==
    ASSUME FileInv, NEW c \in Contents
    PROVE  /\ \A row \in rows : row.sha = c => Receipt[c] = row
           /\ RowsOf(c) = {} => Receipt[c] = None
<1>1. \A x, y \in RowsOf(c) : x = y
  BY DEF FileInv, RowInv, OneRowPerSha, RowsOf
<1>2. ASSUME NEW row \in rows, row.sha = c PROVE Receipt[c] = row
  <2>1. row \in RowsOf(c)
    BY <1>2 DEF RowsOf
  <2>2. (CHOOSE x \in RowsOf(c) : TRUE) \in RowsOf(c)
    BY <2>1
  <2> QED
    BY <1>1, <2>1, <2>2 DEF Receipt, ReceiptOf
<1> QED
  BY <1>2 DEF Receipt, ReceiptOf

\* A step that leaves the table alone leaves every receipt alone.
LEMMA ReceiptsStay ==
    ASSUME rows' = rows
    PROVE  Receipt' = Receipt
BY DEF Receipt, ReceiptOf, RowsOf

\* A step that changes one path concerns one content, the path's own.
LEMMA HeldElsewhere ==
    ASSUME FileInv, rows' = rows, NEW p \in Path, NEW bytes,
           files' = [files EXCEPT ![p] = bytes]
    PROVE  \A c \in Contents : c # p.sha => (c \in Held' <=> c \in Held)
<1> SUFFICES ASSUME NEW c \in Contents, c # p.sha, NEW row \in rows, row.sha = c
             PROVE  files'[row.path] = files[row.path]
  BY DEF Held, RowsOf
<1> QED
  BY DEF FileInv, PathOfRow, RowInv, TypeInv, TypeOK

\* A request that has not been answered has no verdict.
LEMMA UnansweredIsSilent ==
    ASSUME NEW r \in Requests, answer[r] = NoAnswer
    PROVE  Verdicts[r] = C!Silent
BY DEF Verdicts, VerdictOn, Succeeded, Success, NoAnswer, Answer, C!Silent

LEMMA ContractInit == Init => C!Init
<1> SUFFICES ASSUME Init PROVE C!Init
  OBVIOUS
<1>1. Wants = [r \in Requests |-> None]
  BY DEF Init, Wants
<1>2. Receipt = [c \in Contents |-> None]
  BY DEF Init, Receipt, ReceiptOf, RowsOf
<1>3. Verdicts = [r \in Requests |-> C!Silent]
  BY DEF Init, Verdicts, VerdictOn, NoAnswer, Answer, Succeeded, Success, C!Silent
<1>4. Held = {}
  BY DEF Init, Held, RowsOf
<1> QED
  BY <1>1, <1>2, <1>3, <1>4 DEF C!Init

\* The endpoint's answers so far are silent, and what is in flight is asked.
LEMMA InFlightAsks ==
    ASSUME FileInv, NEW r \in Requests, pc[r] \in InFlight
    PROVE  /\ Wants[r] = upload[r].body /\ upload[r].body \in Contents
           /\ upload[r].sha = upload[r].body
           /\ Verdicts[r] = C!Silent
<1>1. /\ upload[r] \in Upload /\ BodyMatches(upload[r])
      /\ answer[r] = NoAnswer
  BY DEF FileInv, RowInv, TypeInv, InFlightOK
<1>2. upload[r] # None
  BY <1>1, NoneAssumption
<1> QED
  BY <1>1, <1>2, UnansweredIsSilent DEF Wants, Upload, BodyMatches

\* One request's verdict changes when its answer does, and no other's.
LEMMA FinishChangesOne ==
    ASSUME TypeOK, NEW r \in Requests, NEW status, NEW row, Finish(r, status, row)
    PROVE  /\ answer'[r] = Answer(status, row)
           /\ Verdicts' = [Verdicts EXCEPT ![r] = Verdicts'[r]]
<1>1. /\ answer'[r] = Answer(status, row)
      /\ \A s \in Requests : s # r => answer'[s] = answer[s]
  BY DEF TypeOK, Finish
<1>2. \A s \in Requests : s # r => Verdicts'[s] = Verdicts[s]
  BY <1>1 DEF Verdicts, VerdictOn, Succeeded
<1> QED
  BY <1>1, <1>2 DEF Verdicts

\* A request in flight that ends with an error is refused, and takes no bytes
\* away but its own.
LEMMA ErrorIsRefusal ==
    ASSUME FileInv, NEW r \in Requests, pc[r] \in InFlight,
           Finish(r, 500, None), upload' = upload, rows' = rows,
           \/ Held' = Held
           \/ CommitFaults # {} /\ Held' = Held \ {upload[r].body}
    PROVE  C!Next
<1>1. /\ Wants[r] = upload[r].body /\ upload[r].body \in Contents
      /\ Verdicts[r] = C!Silent
  BY InFlightAsks
<1>2. Receipt' = Receipt
  BY ReceiptsStay
<1>3. Wants' = Wants /\ DOMAIN Wants = Requests
  BY DEF Wants
<1>4. Verdicts' = [Verdicts EXCEPT ![r] = Verdicts'[r]] /\ answer'[r] = Answer(500, None)
  BY FinishChangesOne DEF FileInv, RowInv, TypeInv
<1>5. Verdicts'[r] = C!Refused
  BY <1>4 DEF Verdicts, VerdictOn, Succeeded, Success, Answer, C!Refused
<1>6. Wants = [Wants EXCEPT ![r] = upload[r].body]
  BY <1>1 DEF Wants
<1>7. C!Refuse(r, upload[r].body)
  BY <1>1, <1>2, <1>3, <1>4, <1>5, <1>6 DEF C!Refuse
<1> QED
  BY <1>1, <1>7 DEF C!Next

\* Where the table and the directory stay, so does what is held.
LEMMA HeldStays ==
    ASSUME rows' = rows, files' = files
    PROVE  Held' = Held
BY DEF Held, RowsOf

\* The file that a failed commit removes can only be its own content's.
LEMMA RemovalIsRefusal ==
    ASSUME FileInv, NEW r \in Requests, RemoveFile(r)
    PROVE  C!Next
<1>1. TypeInv /\ pc[r] \in InFlight /\ CommitFaults # {}
  BY DEF FileInv, RowInv, FailedOK, RemoveFile, InFlight
<1>2. CASE files' = files
  BY <1>1, <1>2, HeldStays, ErrorIsRefusal DEF RemoveFile
<1>3. CASE files' = [files EXCEPT ![StoredPath(r)] = None]
  <2> DEFINE c == upload[r].body
  <2>1. StoredPath(r) \in Path /\ StoredPath(r).sha = c /\ c \in Contents /\ rows' = rows
    BY <1>1, PathFacts DEF RemoveFile
  <2>2. \A d \in Contents : d # c => (d \in Held' <=> d \in Held)
    BY <1>3, <2>1, HeldElsewhere
  <2>3. c \in Held' => c \in Held
    <3> SUFFICES ASSUME NEW row \in rows, files'[row.path] = c
                 PROVE  files[row.path] = c
      BY <2>1 DEF Held, RowsOf
    <3>1. row.path \in Path /\ files \in [Path -> Contents \cup {None}] /\ c # None
      BY <2>1, NoneAssumption DEF FileInv, PathOfRow, RowInv, TypeInv, TypeOK
    <3> QED
      BY <1>3, <2>1, <3>1
  <2>4. Held \subseteq Contents /\ Held' \subseteq Contents
    BY DEF Held
  <2>5. Held' = Held \/ Held' = Held \ {c}
    BY <2>2, <2>3, <2>4
  <2> QED
    BY <1>1, <2>5, ErrorIsRefusal DEF RemoveFile
<1> QED
  BY <1>2, <1>3 DEF RemoveFile

\* A request in flight that succeeds is granted the receipt of its content.
LEMMA SuccessIsGrant ==
    ASSUME FileInv, NEW r \in Requests, pc[r] \in {"touch", "refresh"},
           NEW status \in {200, 201}, Finish(r, status, found[r]),
           upload' = upload, rows' = rows, files' = files
    PROVE  C!Next
<1>1. /\ Wants[r] = upload[r].body /\ upload[r].body \in Contents
      /\ Verdicts[r] = C!Silent
  BY InFlightAsks DEF InFlight
<1>2. Receipt' = Receipt /\ Held' = Held
  BY ReceiptsStay, HeldStays
<1>3. Wants' = Wants
  BY DEF Wants
<1>4. /\ Verdicts' = [Verdicts EXCEPT ![r] = Verdicts'[r]]
      /\ answer'[r] = Answer(status, found[r])
  BY FinishChangesOne DEF FileInv, RowInv, TypeInv
<1>5. found[r] \in rows /\ found[r].sha = upload[r].body /\ found[r] \in Row
  BY DEF FileInv, RowInv, FoundOK, TypeInv, TypeOK
<1>6. Receipt[upload[r].body] = found[r] /\ found[r] # None
  BY <1>1, <1>5, ReceiptIsRow, NoneAssumption
<1>7. Verdicts'[r] = C!Granted(found[r])
  BY <1>4 DEF Verdicts, VerdictOn, Succeeded, Success, Answer, C!Granted
<1>8. Wants[r] # None
  BY <1>1, NoneAssumption
<1>9. C!Grant(r)
  BY <1>1, <1>2, <1>3, <1>4, <1>6, <1>7, <1>8 DEF C!Grant
<1> QED
  BY <1>9 DEF C!Next

\* A step that answers nobody and leaves the uploads, the table and what is
\* held alone is invisible to the contract.
LEMMA Invisible ==
    ASSUME answer' = answer, upload' = upload, rows' = rows, Held' = Held
    PROVE  UNCHANGED C!vars
<1>1. Receipt' = Receipt
  BY ReceiptsStay
<1>2. Wants' = Wants /\ Verdicts' = Verdicts
  BY DEF Wants, Verdicts, VerdictOn, Succeeded
<1> QED
  BY <1>1, <1>2 DEF C!vars

\* An upload that arrives is asked for, or refused at the door.
LEMMA ReceiveAsks ==
    ASSUME FileInv, NEW r \in Requests, NEW u \in Upload,
           Receive(r, u), upload[r] = None
    PROVE  C!Next
<1>1. u.body \in Contents /\ u # None
  BY NoneAssumption DEF Upload
<1>2. Wants[r] = None /\ Wants' = [Wants EXCEPT ![r] = u.body]
  BY <1>1 DEF Wants, Receive, FileInv, RowInv, TypeInv, TypeOK
<1>3. Receipt' = Receipt /\ Held' = Held
  BY ReceiptsStay, HeldStays DEF Receive
<1>4. Verdicts[r] = C!Silent
  BY UnansweredIsSilent DEF Receive, FileInv, RowInv, TypeInv, InFlightOK
<1>5. CASE answer' = answer
  <2>1. Verdicts' = Verdicts
    BY <1>5 DEF Verdicts, VerdictOn, Succeeded
  <2>2. C!Ask(r, u.body)
    BY <1>2, <1>3, <2>1 DEF C!Ask
  <2> QED
    BY <1>1, <2>2 DEF C!Next
<1>6. ASSUME NEW status \in {400, 401}, Finish(r, status, None) PROVE C!Next
  <2>1. /\ Verdicts' = [Verdicts EXCEPT ![r] = Verdicts'[r]]
        /\ answer'[r] = Answer(status, None)
    BY <1>6, FinishChangesOne DEF FileInv, RowInv, TypeInv
  <2>2. Verdicts'[r] = C!Refused
    BY <2>1 DEF Verdicts, VerdictOn, Succeeded, Success, Answer, C!Refused
  <2>3. C!Refuse(r, u.body)
    BY <1>2, <1>3, <1>4, <2>1, <2>2 DEF C!Refuse
  <2> QED
    BY <1>1, <2>3 DEF C!Next
<1> QED
  BY <1>5, <1>6 DEF Receive, Goto

\* An insert archives its content, with its bytes unless they were removed.
LEMMA InsertArchives ==
    ASSUME FileInv, NEW r \in Requests, pc[r] = "commit", Insert(r),
           answer' = answer, upload' = upload, files' = files
    PROVE  C!Next
<1> DEFINE c == upload[r].body
<1>1. /\ Wants[r] = c /\ c \in Contents /\ upload[r].sha = c /\ c # None
      /\ StoredPath(r).sha = c /\ StoredPath(r) \in Path
  BY InFlightAsks, PathFacts, NoneAssumption DEF FileInv, RowInv, InFlight
<1>2. Wants' = Wants /\ Verdicts' = Verdicts
  BY DEF Wants, Verdicts, VerdictOn, Succeeded
<1>3. rows' = rows \cup {NewRow(r)} /\ RowsOf(c) = {}
  BY <1>1 DEF Insert
<1>4. NewRow(r).sha = c /\ NewRow(r) \in Row /\ NewRow(r).path = StoredPath(r)
  BY <1>1, NewRowType DEF NewRow, FileInv, RowInv
<1>5. RowsOf(c)' = {NewRow(r)} /\ \A d \in Contents : d # c => RowsOf(d)' = RowsOf(d)
  BY <1>3, <1>4 DEF RowsOf
<1>6. Receipt[c] = None
  BY <1>1, <1>3, ReceiptIsRow
<1>7. ASSUME NEW d \in Contents, d # c PROVE ReceiptOf(d)' = ReceiptOf(d)
  <2>1. RowsOf(d)' = RowsOf(d)
    BY <1>5, <1>7
  <2> QED
    BY <2>1 DEF ReceiptOf
<1>8. Receipt'[c] \in Row
  <2>1. ReceiptOf(c)' = (CHOOSE row \in {NewRow(r)} : TRUE)
    BY <1>5 DEF ReceiptOf
  <2> QED
    BY <1>1, <1>4, <2>1 DEF Receipt
<1>9. Receipt' = [Receipt EXCEPT ![c] = Receipt'[c]]
  BY <1>1, <1>7 DEF Receipt
<1>10. \/ Held' = Held \cup {c}
       \/ CommitFaults # {} /\ Held' = Held
  <2>1. c \notin Held
    BY <1>3 DEF Held
  <2>2. \A d \in Contents : d # c => (d \in Held' <=> d \in Held)
    BY <1>5 DEF Held
  <2>3. c \in Held' <=> files[StoredPath(r)] = c
    BY <1>1, <1>4, <1>5 DEF Held
  <2>4. Held \subseteq Contents /\ Held' \subseteq Contents
    BY DEF Held
  <2>5. files[StoredPath(r)] = c \/ CommitFaults # {}
    BY <1>1 DEF FileInv, WrittenOK, Kept, Removed
  <2> QED
    BY <1>1, <2>1, <2>2, <2>3, <2>4, <2>5
<1>11. C!Archive(r)
  BY <1>1, <1>2, <1>6, <1>8, <1>9, <1>10 DEF C!Archive
<1> QED
  BY <1>11 DEF C!Next

\* Bytes that are written are those of a content not archived yet, or are
\* held already, or had been lost.
LEMMA WriteRestores ==
    ASSUME FileInv, NEW r \in Requests, WriteFile(r), answer' = answer,
           files' = [files EXCEPT ![StoredPath(r)] = upload[r].body]
    PROVE  [C!Next]_(C!vars)
<1> DEFINE c == upload[r].body
<1>1. /\ Wants[r] = c /\ c \in Contents /\ upload[r].sha = c /\ c # None
      /\ StoredPath(r).sha = c /\ StoredPath(r) \in Path
      /\ upload' = upload /\ rows' = rows
      /\ files \in [Path -> Contents \cup {None}]
  BY InFlightAsks, PathFacts, NoneAssumption
  DEF FileInv, RowInv, TypeInv, TypeOK, InFlight, WriteFile
<1>2. Wants' = Wants /\ Verdicts' = Verdicts /\ Receipt' = Receipt
  BY <1>1, ReceiptsStay DEF Wants, Verdicts, VerdictOn, Succeeded
<1>3. \A d \in Contents : d # c => (d \in Held' <=> d \in Held)
  BY <1>1, HeldElsewhere
<1>4. Held \subseteq Contents /\ Held' \subseteq Contents
  BY DEF Held
<1>5. c \in Held => c \in Held'
  BY <1>1 DEF Held, RowsOf, FileInv, PathOfRow
<1>6. CASE Held' = Held
  BY <1>2, <1>6 DEF C!vars
<1>7. CASE Held' # Held
  <2>1. Held' = Held \cup {c} /\ c \notin Held /\ c \in Held'
    BY <1>3, <1>4, <1>5, <1>7
  <2>2. PICK row \in rows : row.sha = c
    BY <1>1, <2>1 DEF Held, RowsOf
  <2>3. CommitFaults # {}
    BY <1>1, <2>1, <2>2 DEF FileInv, RowHasFile, Removed, Held, RowsOf
  <2>4. Receipt[c] = row /\ row # None
    BY <1>1, <2>2, ReceiptIsRow, NoneAssumption DEF FileInv, RowInv, TypeInv, TypeOK
  <2>5. C!Restore(r)
    BY <1>1, <1>2, <2>1, <2>3, <2>4 DEF C!Restore
  <2> QED
    BY <2>5 DEF C!Next
<1> QED
  BY <1>6, <1>7

LEMMA ContractStep == FileInv /\ [Next]_vars => [C!Next]_(C!vars)
<1> SUFFICES ASSUME FileInv, [Next]_vars
             PROVE  [C!Next]_(C!vars)
  OBVIOUS
<1>0. NotYetAsked
  BY DEF FileInv
<1>1. ASSUME NEW r \in Requests, NEW u \in Upload, Receive(r, u) PROVE C!Next
  BY <1>0, <1>1, ReceiveAsks DEF NotYetAsked, Receive
<1>2. ASSUME NEW r \in Requests, Lookup(r) PROVE UNCHANGED C!vars
  BY <1>2, Invisible, HeldStays DEF Lookup, Goto
<1>3. ASSUME NEW r \in Requests, TouchExisting(r) PROVE C!Next
  BY <1>3, SuccessIsGrant, ErrorIsRefusal, HeldStays DEF TouchExisting, InFlight
<1>4. ASSUME NEW r \in Requests, Attribute(r) PROVE UNCHANGED C!vars
  BY <1>4, Invisible, HeldStays DEF Attribute, Goto
<1>5. ASSUME NEW r \in Requests, WriteFile(r) PROVE [C!Next]_(C!vars)
  BY <1>5, WriteRestores, ErrorIsRefusal, HeldStays DEF WriteFile, Goto, InFlight
<1>6. ASSUME NEW r \in Requests, CommitSucceeds(r) PROVE C!Next
  BY <1>6, InsertArchives DEF CommitSucceeds, Goto
<1>7. ASSUME NEW r \in Requests, Refresh(r) PROVE C!Next
  BY <1>7, SuccessIsGrant, ErrorIsRefusal, HeldStays DEF Refresh, InFlight
<1>8. ASSUME NEW r \in Requests, CommitCollides(r) PROVE UNCHANGED C!vars
  BY <1>8, Invisible, HeldStays DEF CommitCollides, Goto
<1>9. ASSUME NEW r \in Requests, CommitFails(r) PROVE [C!Next]_(C!vars)
  BY <1>9, InsertArchives, Invisible, HeldStays DEF CommitFails, Goto
<1>10. ASSUME NEW r \in Requests, AfterCollision(r) PROVE [C!Next]_(C!vars)
  BY <1>10, Invisible, ErrorIsRefusal, HeldStays DEF AfterCollision, Goto, InFlight
<1>11. ASSUME NEW r \in Requests, RemoveFile(r) PROVE C!Next
  BY <1>11, RemovalIsRefusal
<1>12. ASSUME NEW a \in Agents, Revoke(a) PROVE UNCHANGED C!vars
  BY <1>12, Invisible, HeldStays DEF Revoke
<1>13. ASSUME Crash PROVE UNCHANGED C!vars
  BY <1>13, Invisible, HeldStays DEF Crash
<1>14. ASSUME UNCHANGED vars PROVE UNCHANGED C!vars
  BY <1>14, Invisible, HeldStays DEF vars
<1> QED
  BY <1>1, <1>2, <1>3, <1>4, <1>5, <1>6, <1>7, <1>8, <1>9, <1>10, <1>11,
     <1>12, <1>13, <1>14
  DEF Next, Step

\* However commits fail and whatever dies, the endpoint implements the
\* contract: content archived once stays archived under one receipt, every
\* success names it, and only a failing commit takes bytes away, those of the
\* upload it refuses.
THEOREM EndpointImplementsContract == Spec => Contract
BY ContractInit, ContractStep, FileInvHolds, PTL DEF Spec, Contract, C!Spec
=============================================================================
