------------------------------ MODULE Shipping ------------------------------
(***************************************************************************)
(* The raw shipper of one machine together with the upload endpoint of the *)
(* server, joined by the network: what RawShipper assumes of "the server"  *)
(* is here the endpoint of GameLogArchive.                                 *)
(*                                                                         *)
(* Each post is a request of its own.  It arrives at any time after it was *)
(* sent, also after the client has given it up, or never; its answer may   *)
(* be lost.  The two processes die and start again independently.  What    *)
(* the shipper calls archived is what the server has committed a row of.   *)
(***************************************************************************)
EXTENDS Naturals, Sequences, FiniteSets

CONSTANTS
    Paths, MaxAttempts, MaxChurn, Faults,
    MaxWrites, MaxTroubles, MaxStarts,         \* see RawShipper
    Requests, Agents, Users, OwnerOf, Months, FileTypes, CommitFaults,
    MaxCrashes,                                \* see GameLogArchive
    Contents, SizeOf, None,                    \* shared by the two
    Self,        \* the agent whose token and id the shipper was given
    MonthOf,     \* the month of a content's mtime
    FileType     \* the suffix of the files

ASSUME SelfAssumption == Self \in Agents /\ FileType \in FileTypes
ASSUME MonthOfAssumption == MonthOf \in [Contents -> Months]
\* The shipper tells contents apart by what the server checks.
ASSUME SizeOfInjective == \A c, d \in Contents : SizeOf[c] = SizeOf[d] => c = d

VARIABLES
    \* the shipper
    disk, db, life, observing, queue, pc, toScan, job, gaveUp, dropped,
    unheard, writes, troubles, starts,
    \* the endpoint, whose pc is called stage here
    stage, upload, device, found, answer, rows, nextId, files, revoked, seen,
    crashes,
    \* the network
    sent,     \* what each request carries, None before it is sent
    current   \* the request the client waits for

shipperVars == <<disk, db, life, observing, queue, pc, toScan, job, gaveUp,
                 dropped, unheard, writes, troubles, starts>>
serverVars == <<stage, upload, device, found, answer, rows, nextId, files,
                revoked, seen, crashes>>
vars == <<shipperVars, serverVars, sent, current>>

-----------------------------------------------------------------------------
E == INSTANCE GameLogArchive WITH pc <- stage

\* What the server answers for, by its table.
Archived == {row.sha : row \in rows}

S == INSTANCE RawShipper WITH archived <- Archived

\* What the two modules assume of the constants they share.
ASSUME EndpointAssumption ==
    /\ OwnerOf \in [Agents -> Users] /\ SizeOf \in [Contents -> Nat]
    /\ CommitFaults \subseteq {"refused", "unheard"} /\ MaxCrashes \in Nat
ASSUME ShipperAssumption ==
    /\ MaxAttempts \in Nat \ {0}
    /\ {MaxChurn, MaxWrites, MaxTroubles, MaxStarts} \subseteq Nat
    /\ Faults \subseteq S!FaultKinds
ASSUME NoneAssumption ==
    /\ None \notin Paths \cup Contents \cup Agents \cup S!Status \cup S!Answers
    /\ None \notin E!Upload /\ None \notin E!Row

-----------------------------------------------------------------------------
Init ==
    /\ E!Init
    /\ S!Init
    /\ sent = [r \in Requests |-> None]
    /\ current = None

\* The body and the metadata of a post.
Posted ==
    [agent |-> Self, body |-> job.data, sha |-> job.sha, size |-> SizeOf[job.size],
     month |-> MonthOf[job.size], type |-> FileType, agent_id |-> Self]

\* client.post() puts the request on the network.
Send(r) ==
    /\ UNCHANGED serverVars
    /\ sent[r] = None
    /\ S!Post
    /\ pc' = "wait"
    /\ sent' = [sent EXCEPT ![r] = Posted]
    /\ current' = r

\* Every step of the agent that does not involve the server; whoever leaves
\* the post, for whatever reason, hears no more of it.
Agent ==
    /\ UNCHANGED serverVars
    /\ \/ \E p \in Paths, c \in Contents \cup {None} : S!Touch(p, c) \/ S!Rename(p, c)
       \/ S!Start
       \/ S!Owner
       \/ S!Crash
       \/ S!Worker
       \/ S!NetworkError
    /\ pc = "post" => pc' # "wait"
    /\ current' = IF pc' = "wait" THEN current ELSE None
    /\ UNCHANGED sent

\* The request reaches the endpoint.
Deliver(r) ==
    /\ sent[r] # None
    /\ E!Receive(r, sent[r])
    /\ UNCHANGED <<shipperVars, sent, current>>

\* Any later step of the endpoint, and what the operator does to it.
Server ==
    /\ \/ \E r \in Requests :
           \/ E!Lookup(r)
           \/ E!TouchExisting(r)
           \/ E!Attribute(r)
           \/ E!WriteFile(r)
           \/ E!CommitSucceeds(r)
           \/ E!Refresh(r)
           \/ E!CommitCollides(r)
           \/ E!CommitFails(r)
           \/ E!AfterCollision(r)
           \/ E!RemoveFile(r)
       \/ \E a \in Agents : E!Revoke(a)
       \/ E!Crash
    /\ UNCHANGED <<shipperVars, sent, current>>

\* How the shipper tells statuses apart.
KindOf(status) ==
    CASE status \in {200, 201} -> "stored"
      [] status = 500 -> "retry"
      [] OTHER -> "rejected"

\* The answer reaches the client that waits for it.  Other answers than that
\* of a stored or a refused file count as troubles.
Hear ==
    /\ UNCHANGED serverVars
    /\ current # None
    /\ answer[current].status # 0
    /\ S!Answered(KindOf(answer[current].status))
    /\ \/ answer[current].status \in {200, 201, 400} /\ UNCHANGED troubles
       \/ /\ answer[current].status \in {401, 500}
          /\ troubles < MaxTroubles
          /\ troubles' = troubles + 1
    /\ UNCHANGED <<sent, current>>

\* A proxy in front of the server answers in its place.
ProxyAnswers ==
    /\ UNCHANGED serverVars
    /\ troubles < MaxTroubles
    /\ troubles' = troubles + 1
    /\ S!Answered("retry")
    /\ UNCHANGED <<sent, current>>

Next ==
    \/ Agent
    \/ \E r \in Requests : Send(r)
    \/ \E r \in Requests : Deliver(r)
    \/ Server
    \/ Hear
    \/ ProxyAnswers

Spec == Init /\ [][Next]_vars

-----------------------------------------------------------------------------
(* Properties *)

\* Each component behaves as its own module says, in the company of the
\* other: the server that RawShipper assumes is the one GameLogArchive gives.
ShipperSpec == S!Spec

\* End to end: a file the agent will never ship again, because its table
\* says "uploaded", is on the server with a committed row and its bytes,
\* whichever of the two processes died and whichever request came late.
\* Only an earlier post of the same file can have taken the bytes away, one
\* whose commit took effect unheard and that was answered 500.
RecordedIsStored ==
    \A c \in Contents : db[c] = "uploaded" =>
        \E row \in rows :
            /\ row.sha = c
            /\ files[row.path] = c \/ E!Removed(row.path)
=============================================================================
