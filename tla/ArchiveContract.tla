--------------------------- MODULE ArchiveContract ---------------------------
(***************************************************************************)
(* What the archive promises its uploaders, with no files, rows or races:  *)
(* a content is archived once, under one receipt that never changes, and   *)
(* an upload that succeeds is given the receipt of its content.  An upload *)
(* may always be refused.  Where MayLose holds, the archive may fail to    *)
(* hold the bytes of an archived content: a refused upload can take those  *)
(* it brought with it, and a later upload of them brings them back.        *)
(***************************************************************************)
CONSTANTS Requests, Contents, Receipts, MayLose, None

Granted(k) == [kind |-> "granted", receipt |-> k]
Refused == [kind |-> "refused", receipt |-> None]
Silent == [kind |-> "silent", receipt |-> None]

VARIABLES
    wants,    \* the content each request asks to archive
    receipt,  \* the receipt under which each content is archived
    held,     \* the archived contents whose bytes are held
    reply     \* the receipt each request was given, if any

vars == <<wants, receipt, held, reply>>

Init ==
    /\ wants = [r \in Requests |-> None]
    /\ receipt = [c \in Contents |-> None]
    /\ held = {}
    /\ reply = [r \in Requests |-> Silent]

Ask(r, c) ==
    /\ wants[r] = None
    /\ wants' = [wants EXCEPT ![r] = c]
    /\ UNCHANGED <<receipt, held, reply>>

\* The content of some request is archived, for good.
Archive(r) ==
    /\ wants[r] # None
    /\ receipt[wants[r]] = None
    /\ receipt'[wants[r]] \in Receipts
    /\ receipt' = [receipt EXCEPT ![wants[r]] = receipt'[wants[r]]]
    /\ \/ held' = held \cup {wants[r]}
       \/ MayLose /\ held' = held
    /\ UNCHANGED <<wants, reply>>

\* Bytes that were lost are brought again.
Restore(r) ==
    /\ MayLose
    /\ wants[r] # None
    /\ receipt[wants[r]] # None
    /\ held' = held \cup {wants[r]}
    /\ UNCHANGED <<wants, receipt, reply>>

Grant(r) ==
    /\ reply[r] = Silent
    /\ wants[r] # None
    /\ receipt[wants[r]] # None
    /\ reply' = [reply EXCEPT ![r] = Granted(receipt[wants[r]])]
    /\ UNCHANGED <<wants, receipt, held>>

\* A request may be refused, as soon as it arrives or later.
Refuse(r, c) ==
    /\ reply[r] = Silent
    /\ wants[r] \in {None, c}
    /\ wants' = [wants EXCEPT ![r] = c]
    /\ reply' = [reply EXCEPT ![r] = Refused]
    /\ \/ held' = held
       \/ MayLose /\ wants[r] = c /\ held' = held \ {c}
    /\ UNCHANGED receipt

Next ==
    \/ \E r \in Requests, c \in Contents : Ask(r, c) \/ Refuse(r, c)
    \/ \E r \in Requests : Archive(r) \/ Restore(r) \/ Grant(r)

Spec == Init /\ [][Next]_vars
=============================================================================
