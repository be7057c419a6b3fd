--------------------------- MODULE GameLogArchive ---------------------------
(***************************************************************************)
(* The raw game-log ingest of the server: POST /agent/gamelogs/upload      *)
(* (app/api/gamelogs.py), with the bearer-token check in front of it       *)
(* (app/api/deps.py) and the revocation of an agent beside it              *)
(* (app/api/admin.py).                                                     *)
(*                                                                         *)
(* An upload touches two stores that no transaction spans: the archive     *)
(* directory and the table game_log_archive.  The handler is a coroutine,  *)
(* so requests interleave at every await; each action below is the code    *)
(* between two awaits of one request.  A commit has four outcomes: it      *)
(* succeeds, it meets the unique constraint on sha256, it fails without    *)
(* effect, or it takes effect and the answer of the database is lost.      *)
(*                                                                         *)
(* SHA-256 is taken to be injective, so a body and its digest are the same *)
(* value, a member of Contents.                                            *)
(***************************************************************************)
EXTENDS Naturals, FiniteSets

CONSTANTS
    Requests,      \* uploads that may reach the server, retries included
    Agents,        \* rows of agent_registrations
    Users,         \* rows of users
    OwnerOf,       \* agent_registrations.user_id
    Contents,      \* file contents, each standing for its own SHA-256
    SizeOf,        \* the length of a content
    Months,        \* the UTC year and month of captured_at
    FileTypes,     \* "dat" and "log"
    CommitFaults,  \* kinds of non-integrity commit failure that may happen
    MaxCrashes,    \* bound: how often the server process may die
    None           \* Python's None

ASSUME OwnerOfAssumption == OwnerOf \in [Agents -> Users]
ASSUME SizeOfAssumption == SizeOf \in [Contents -> Nat]
ASSUME CommitFaultsAssumption == CommitFaults \subseteq {"refused", "unheard"}
ASSUME MaxCrashesAssumption == MaxCrashes \in Nat

VARIABLES
    pc,       \* where each request is in upload_gamelog
    upload,   \* what each request carries: sender, body, metadata
    device,   \* attributed_agent_id of each request
    found,    \* the row each request will answer with
    answer,   \* what each request was answered
    rows,     \* game_log_archive, committed
    nextId,   \* the autoincrement sequence of game_log_archive.id
    files,    \* the archive directory: stored_path -> bytes
    revoked,  \* agents whose revoked_at is set
    seen,     \* agents whose last_seen an upload has set
    crashes   \* how often the process died

vars == <<pc, upload, device, found, answer, rows, nextId, files, revoked,
          seen, crashes>>

-----------------------------------------------------------------------------
(* Data *)

Upload == [agent : Agents, body : Contents,
           sha : Contents, size : {SizeOf[c] : c \in Contents},
           month : Months, type : FileTypes, agent_id : Agents \cup {None}]

Path == [user : Users, month : Months, sha : Contents, type : FileTypes]

Row == [id : Nat, sha : Contents, size : Nat, path : Path,
        device : Agents \cup {None}]

ASSUME NoneAssumption ==
    None \notin Contents /\ None \notin Agents /\ None \notin Upload
    /\ None \notin Row

\* _build_stored_path: <username>/<YYYY-MM>/<sha256>.<type>
StoredPath(r) ==
    [user |-> OwnerOf[upload[r].agent], month |-> upload[r].month,
     sha |-> upload[r].sha, type |-> upload[r].type]

\* Mutant: only the size is checked.
SizeOnlyMatches(u) == u.size = SizeOf[u.body]

\* The two checks of the body against the metadata.
BodyMatches(u) == u.size = SizeOf[u.body] /\ u.sha = u.body

RowsOf(sha) == {row \in rows : row.sha = sha}

InFlight == {"received", "attribute", "write", "commit", "refresh", "lost",
             "failed", "touch"}

Statuses == {200, 201, 400, 401, 500}

\* An answer: the status alone for an error, with the row for a success.
Answer(status, row) == [status |-> status, row |-> row]
NoAnswer == Answer(0, None)

\* What a request may have been answered so far.
Reply == [status : Statuses \cup {0}, row : Row \cup {None}]

Success == {200, 201}

-----------------------------------------------------------------------------
Init ==
    /\ pc = [r \in Requests |-> "idle"]
    /\ upload = [r \in Requests |-> None]
    /\ device = [r \in Requests |-> None]
    /\ found = [r \in Requests |-> None]
    /\ answer = [r \in Requests |-> NoAnswer]
    /\ rows = {}
    /\ nextId = 1
    /\ files = [p \in Path |-> None]
    /\ revoked = {}
    /\ seen = {}
    /\ crashes = 0

\* The request ends, answered with the status and, on success, with a row.
Finish(r, status, row) ==
    /\ pc' = [pc EXCEPT ![r] = "done"]
    /\ answer' = [answer EXCEPT ![r] = Answer(status, row)]

Goto(r, label) ==
    /\ pc' = [pc EXCEPT ![r] = label]
    /\ UNCHANGED answer

\* get_current_agent, then the validation of the metadata against the body.
Receive(r, u) ==
    /\ pc[r] = "idle"
    /\ upload' = [upload EXCEPT ![r] = u]
    /\ \/ u.agent \in revoked /\ Finish(r, 401, None)
       \/ u.agent \notin revoked /\ ~BodyMatches(u) /\ Finish(r, 400, None)
       \/ u.agent \notin revoked /\ BodyMatches(u) /\ Goto(r, "received")
    /\ UNCHANGED <<device, found, rows, nextId, files, revoked, seen, crashes>>

\* The idempotency select on the sha.
Lookup(r) ==
    /\ pc[r] = "received"
    /\ \/ \E row \in RowsOf(upload[r].sha) :
              /\ found' = [found EXCEPT ![r] = row]
              /\ Goto(r, "touch")
       \/ /\ RowsOf(upload[r].sha) = {}
          /\ Goto(r, "attribute")
          /\ UNCHANGED found
    /\ UNCHANGED <<upload, device, rows, nextId, files, revoked, seen, crashes>>

\* Mutant: last_seen is not stamped again after a rollback.
TouchWithoutStamp(r) ==
    /\ pc[r] = "touch"
    /\ Finish(r, 200, found[r])
    /\ UNCHANGED <<upload, device, found, rows, nextId, files, revoked, seen,
                   crashes>>

\* The row exists: stamp last_seen, commit, answer 200.  A failing commit
\* leaves the handler as an uncaught exception.
TouchExisting(r) ==
    /\ pc[r] = "touch"
    /\ \/ seen' = seen \cup {upload[r].agent} /\ Finish(r, 200, found[r])
       \/ "refused" \in CommitFaults /\ seen' = seen /\ Finish(r, 500, None)
       \/ /\ "unheard" \in CommitFaults
          /\ seen' = seen \cup {upload[r].agent}
          /\ Finish(r, 500, None)
    /\ UNCHANGED <<upload, device, found, rows, nextId, files, revoked, crashes>>

\* Mutant: the claimed device need not belong to the sender's user.
AttributeAnyUser(r) ==
    LET claimed == upload[r].agent_id
    IN  /\ pc[r] = "attribute"
        /\ device' = [device EXCEPT ![r] = IF claimed \in revoked THEN None ELSE claimed]
        /\ Goto(r, "write")
        /\ UNCHANGED <<upload, found, rows, nextId, files, revoked, seen, crashes>>

\* Mutant: the row is attributed to the user's id, not the registration's.
AttributeUserId(r) ==
    /\ pc[r] = "attribute"
    /\ device' = [device EXCEPT ![r] = OwnerOf[upload[r].agent]]
    /\ Goto(r, "write")
    /\ UNCHANGED <<upload, found, rows, nextId, files, revoked, seen, crashes>>

\* Best-effort attribution to a live device of the same user.
Attribute(r) ==
    LET claimed == upload[r].agent_id
        match == /\ claimed # None
                 /\ OwnerOf[claimed] = OwnerOf[upload[r].agent]
                 /\ claimed \notin revoked
    IN  /\ pc[r] = "attribute"
        /\ device' = [device EXCEPT ![r] = IF match THEN claimed ELSE None]
        /\ Goto(r, "write")
        /\ UNCHANGED <<upload, found, rows, nextId, files, revoked, seen, crashes>>

\* _atomic_write: the bytes appear at the path at once, or an OSError
\* leaves the directory as it was and is answered 500.
WriteFile(r) ==
    /\ pc[r] = "write"
    /\ \/ /\ files' = [files EXCEPT ![StoredPath(r)] = upload[r].body]
          /\ Goto(r, "commit")
       \/ /\ files' = files
          /\ Finish(r, 500, None)
    /\ UNCHANGED <<upload, device, found, rows, nextId, revoked, seen, crashes>>

NewRow(r) ==
    [id |-> nextId, sha |-> upload[r].sha, size |-> upload[r].size,
     path |-> StoredPath(r), device |-> device[r]]

\* Mutant: the table has no unique constraint on sha256.
InsertNotUnique(r) ==
    /\ rows' = rows \cup {NewRow(r)}
    /\ nextId' = nextId + 1
    /\ seen' = seen \cup {upload[r].agent}

\* Mutant: the row is never added to the session.
InsertNothing(r) ==
    /\ RowsOf(upload[r].sha) = {}
    /\ seen' = seen \cup {upload[r].agent}
    /\ UNCHANGED <<rows, nextId>>

\* The insert and the last_seen stamp take effect together.
Insert(r) ==
    /\ RowsOf(upload[r].sha) = {}
    /\ rows' = rows \cup {NewRow(r)}
    /\ nextId' = nextId + 1
    /\ seen' = seen \cup {upload[r].agent}

CommitSucceeds(r) ==
    /\ pc[r] = "commit"
    /\ Insert(r)
    /\ found' = [found EXCEPT ![r] = NewRow(r)]
    /\ Goto(r, "refresh")
    /\ UNCHANGED <<upload, device, files, revoked, crashes>>

\* session.refresh re-reads the new row, outside the try: when the database
\* fails here the request ends 500 with its row committed.
Refresh(r) ==
    /\ pc[r] = "refresh"
    /\ \/ Finish(r, 201, found[r])
       \/ CommitFaults # {} /\ Finish(r, 500, None)
    /\ UNCHANGED <<upload, device, found, rows, nextId, files, revoked, seen,
                   crashes>>

\* The unique constraint fires; the session rolls back.  The sequence has
\* handed out an id all the same.
CommitCollides(r) ==
    /\ pc[r] = "commit"
    /\ RowsOf(upload[r].sha) # {}
    /\ nextId' = nextId + 1
    /\ Goto(r, "lost")
    /\ UNCHANGED <<upload, device, found, rows, files, revoked, seen, crashes>>

\* Any other exception of the commit: either nothing was committed, or the
\* database committed and the connection broke before it said so.
CommitFails(r) ==
    /\ pc[r] = "commit"
    /\ \/ "refused" \in CommitFaults /\ UNCHANGED <<rows, nextId, seen>>
       \/ "unheard" \in CommitFaults /\ Insert(r)
    /\ Goto(r, "failed")
    /\ UNCHANGED <<upload, device, found, files, revoked, crashes>>

\* Mutant: the loser of the race removes its file as an orphan.
AfterCollisionUnlink(r) ==
    /\ pc[r] = "lost"
    /\ \E row \in RowsOf(upload[r].sha) : found' = [found EXCEPT ![r] = row]
    /\ files' = [files EXCEPT ![StoredPath(r)] = None]
    /\ Goto(r, "touch")
    /\ UNCHANGED <<upload, device, rows, nextId, revoked, seen, crashes>>

\* Mutant: the loser answers with the row it failed to insert.
AfterCollisionOwnRow(r) ==
    /\ pc[r] = "lost"
    /\ found' = [found EXCEPT ![r] = NewRow(r)]
    /\ Goto(r, "touch")
    /\ UNCHANGED <<upload, device, rows, nextId, files, revoked, seen, crashes>>

\* except IntegrityError: select the winner's row and answer with it.
AfterCollision(r) ==
    /\ pc[r] = "lost"
    /\ \/ \E row \in RowsOf(upload[r].sha) :
              /\ found' = [found EXCEPT ![r] = row]
              /\ Goto(r, "touch")
       \/ /\ RowsOf(upload[r].sha) = {}
          /\ Finish(r, 500, None)
          /\ UNCHANGED found
    /\ UNCHANGED <<upload, device, rows, nextId, files, revoked, seen, crashes>>

\* except Exception: unlink the file (an OSError there is ignored), answer 500.
RemoveFile(r) ==
    /\ pc[r] = "failed"
    /\ \/ files' = [files EXCEPT ![StoredPath(r)] = None]
       \/ files' = files
    /\ Finish(r, 500, None)
    /\ UNCHANGED <<upload, device, found, rows, nextId, revoked, seen, crashes>>

\* revoke_agent: the token stops working; calling it twice changes nothing.
Revoke(a) ==
    /\ revoked' = revoked \cup {a}
    /\ UNCHANGED <<pc, upload, device, found, answer, rows, nextId, files, seen,
                   crashes>>

\* The process dies: every request in flight ends with no answer.  The
\* committed rows and the renamed files survive.
Crash ==
    /\ crashes < MaxCrashes
    /\ crashes' = crashes + 1
    /\ pc' = [r \in Requests |-> IF pc[r] \in InFlight THEN "gone" ELSE pc[r]]
    /\ UNCHANGED <<upload, device, found, answer, rows, nextId, files, revoked,
                   seen>>

Step(r) ==
    \/ \E u \in Upload : Receive(r, u)
    \/ Lookup(r)
    \/ TouchExisting(r)
    \/ Attribute(r)
    \/ WriteFile(r)
    \/ CommitSucceeds(r)
    \/ Refresh(r)
    \/ CommitCollides(r)
    \/ CommitFails(r)
    \/ AfterCollision(r)
    \/ RemoveFile(r)

Next ==
    \/ \E r \in Requests : Step(r)
    \/ \E a \in Agents : Revoke(a)
    \/ Crash

Spec == Init /\ [][Next]_vars

-----------------------------------------------------------------------------
(* Properties *)

\* Every variable keeps its type.
TypeOK ==
    /\ pc \in [Requests -> {"idle", "done", "gone"} \cup InFlight]
    /\ upload \in [Requests -> Upload \cup {None}]
    /\ device \in [Requests -> Agents \cup {None}]
    /\ found \in [Requests -> Row \cup {None}]
    /\ answer \in [Requests -> Reply]
    /\ rows \in SUBSET Row
    /\ nextId \in Nat
    /\ files \in [Path -> Contents \cup {None}]
    /\ revoked \in SUBSET Agents
    /\ seen \in SUBSET Agents
    /\ crashes \in Nat

\* A content has at most one row and an id names at most one row, whatever
\* requests race (gamelogs.py 8-10).
OneRowPerSha ==
    \A x, y \in rows : (x.sha = y.sha \/ x.id = y.id) => x = y

Succeeded(r) == answer[r].status \in Success

\* Two uploads of the same bytes that both succeed are given the same
\* upload_id and stored_path, before and after a crash, and that row is
\* committed: the 200 of a repeated upload names the row of the first one.
AnswersAgree ==
    /\ \A r \in Requests : Succeeded(r) =>
          answer[r].row \in rows /\ answer[r].row.sha = upload[r].body
    /\ \A r, s \in Requests :
          Succeeded(r) /\ Succeeded(s) /\ upload[r].body = upload[s].body
             => answer[r].row = answer[s].row

\* The bytes of a path are gone, and an upload to the same path was answered
\* 500 where commits can fail for another reason than the unique constraint.
Removed(p) ==
    /\ CommitFaults # {}
    /\ files[p] = None
    /\ \E r \in Requests :
          upload[r] # None /\ StoredPath(r) = p /\ answer[r].status = 500

\* A committed row's file holds the bytes of its sha at every moment: it is
\* in place before the commit, and nobody takes it away but an upload to the
\* same path whose own commit failed and who says so (gamelogs.py 215-228).
RowHasFile ==
    \A row \in rows :
        /\ row.path.sha = row.sha /\ row.size = SizeOf[row.sha]
        /\ files[row.path] = row.sha \/ Removed(row.path)

\* A file whose content has no row belongs to a request that is still
\* running, died, or was answered 500: no request that succeeded leaves
\* bytes behind that no row tracks.
OrphansExplained ==
    \A p \in Path :
        files[p] # None /\ RowsOf(p.sha) = {} =>
            \E r \in Requests :
                /\ upload[r] # None
                /\ StoredPath(r) = p
                /\ \/ pc[r] \in {"commit", "failed", "gone"}
                   \/ answer[r].status = 500

\* Every successful upload, the one that lost the race and was rolled back
\* included, has stamped its agent's last_seen.
SuccessIsSeen ==
    \A r \in Requests : Succeeded(r) => upload[r].agent \in seen

\* A row is attributed to a device of the user it is filed under.
DeviceIsOwners ==
    \A row \in rows : row.device # None => OwnerOf[row.device] = row.path.user

\* The comment at gamelogs.py 216-217: after a failed commit "no row
\* references" the file that is about to be removed.
RemovedFileIsOrphan ==
    \A r \in Requests : pc[r] = "failed" =>
        \A row \in rows : row.path # StoredPath(r)

-----------------------------------------------------------------------------
(* The contract: a content is archived when its row is committed, and held  *)
(* when the file that row names has its bytes.                              *)

Wants == [r \in Requests |-> IF upload[r] = None THEN None ELSE upload[r].body]

ReceiptOf(c) == IF RowsOf(c) = {} THEN None ELSE CHOOSE row \in RowsOf(c) : TRUE

Receipt == [c \in Contents |-> ReceiptOf(c)]

Held == {c \in Contents : \E row \in RowsOf(c) : files[row.path] = c}

VerdictOn(r) ==
    [kind |-> IF answer[r].status = 0 THEN "silent"
              ELSE IF Succeeded(r) THEN "granted" ELSE "refused",
     receipt |-> answer[r].row]

Verdicts == [r \in Requests |-> VerdictOn(r)]

C == INSTANCE ArchiveContract
        WITH Receipts <- Row, MayLose <- CommitFaults # {},
             wants <- Wants, receipt <- Receipt, held <- Held, reply <- Verdicts

\* The upload endpoint implements the contract: what was archived once stays
\* archived under the same receipt, every success names that receipt, and
\* only a failing commit can take bytes away, those of the refused upload.
Contract == C!Spec
=============================================================================
