----------------------------- MODULE Documents -----------------------------
(***************************************************************************)
(* The documents of one engagement, in the database and in the store of    *)
(* the local driver, one of its document requests, and the document that   *)
(* is its report.  The API writes to both places and no transaction spans  *)
(* them.  Reads of the database that follow each other are one step.       *)
(***************************************************************************)
EXTENDS Handlers

CONSTANTS
  Docs,         \* ids of documents
  Contents,     \* what a file may hold, and so its checksum
  Infected,     \* contents the scanner rejects; none where it is off
  NoOne         \* null

VARIABLES
  docs,         \* Document rows and the checksum of their version 1
  store,        \* the content stored under each key
  request,      \* the DocumentRequest: status, note, documents linked
  report        \* reportDocumentId of the Engagement

local == <<docs, store, request, report>>
vars == <<req, alone, docs, store, request, report>>

NoDoc == [status |-> "none", deleted |-> FALSE, checksum |-> NoOne, first |-> NoOne]
Rows == {d \in Docs : docs[d] # NoDoc}
Live == {d \in Rows : ~docs[d].deleted}
Uploaded == {d \in Live : docs[d].status = "uploaded"}

Begin(r, state) ==
  /\ req[r] = Idle
  /\ Enter(r, state)
  /\ UNCHANGED local

Id(r) == req[r].id

-----------------------------------------------------------------------------
(* presignUpload, putContent, complete, upload, remove *)

\* The row exists, quarantined, before any content does.
Presign(r) ==
  /\ req[r] = Idle
  /\ \E d \in Docs \ Rows :
       docs' = [docs EXCEPT ![d] = [NoDoc EXCEPT !.status = "quarantined"]]
  /\ Release(r)
  /\ UNCHANGED <<store, request, report>>

\* Broken variant: a document is looked up, and whether it is uploaded is not.
MayUploadAlways(d) == d \in Live

MayUpload(d) == d \in Live \ Uploaded

ReadForUpload(r) ==
  \E d \in Docs, c \in Contents :
    /\ MayUpload(d)
    /\ Begin(r, [pc |-> "put", id |-> d, sum |-> c])

\* putObject; then complete is called with the checksum of the body.
PutObject(r) ==
  /\ At(r, "put")
  /\ store' = [store EXCEPT ![Id(r)] = req[r].sum]
  /\ Enter(r, [req[r] EXCEPT !.pc = "complete"])
  /\ UNCHANGED <<docs, request, report>>

\* complete by a caller of its own, with a checksum or without.
Complete(r) ==
  \E d \in Live, c \in Contents \cup {NoOne} :
    Begin(r, [pc |-> "complete", id |-> d, sum |-> c])

ReadForComplete(r) ==
  /\ At(r, "complete")
  /\ IF Id(r) \in Live \ Uploaded /\ store[Id(r)] # NoOne
       THEN Enter(r, [req[r] EXCEPT !.pc = "stat"]) ELSE Release(r)
  /\ UNCHANGED local

\* stat: the checksum given must be that of the content, if one is given.
StatObject(r) ==
  /\ At(r, "stat")
  /\ IF req[r].sum \in {NoOne, store[Id(r)]}
       THEN Enter(r, [req[r] EXCEPT !.pc = "scan", !.sum = store[Id(r)]])
       ELSE Release(r)
  /\ UNCHANGED local

ScanObject(r) ==
  /\ At(r, "scan")
  /\ IF store[Id(r)] \in Infected
       THEN Release(r) ELSE Enter(r, [req[r] EXCEPT !.pc = "commit"])
  /\ UNCHANGED local

\* Version 1 is made once: the lock on the row orders two completions.
CommitUpload(r) ==
  /\ At(r, "commit")
  /\ docs' = [docs EXCEPT ![Id(r)].status = "uploaded", ![Id(r)].checksum = req[r].sum,
                          ![Id(r)].first = IF @ = NoOne THEN req[r].sum ELSE @]
  /\ Release(r)
  /\ UNCHANGED <<store, request, report>>

ReadForRemove(r) ==
  \E d \in Uploaded : report # d /\ Begin(r, [pc |-> "remove", id |-> d])

Remove(r) ==
  /\ At(r, "remove")
  /\ docs' = [docs EXCEPT ![Id(r)].deleted = TRUE]
  /\ Release(r)
  /\ UNCHANGED <<store, request, report>>

\* update of the engagement: its report, or none.
ReadForReport(r) ==
  \E d \in Uploaded \cup {NoOne} : Begin(r, [pc |-> "report", id |-> d])

SetReport(r) ==
  /\ At(r, "report")
  /\ report' = Id(r)
  /\ Release(r)
  /\ UNCHANGED <<docs, store, request>>

-----------------------------------------------------------------------------
(* The document request *)

Closed == {"ACCEPTED", "CANCELLED"}

Move(from, action, to) == [from |-> from, action |-> action, to |-> to]

REQUEST_WORKFLOW ==
  { Move("OPEN", "submit", "SUBMITTED"),
    Move("SUBMITTED", "accept", "ACCEPTED"),
    Move("SUBMITTED", "return", "RETURNED"),
    Move("RETURNED", "resubmit", "SUBMITTED"),
    Move("OPEN", "cancel", "CANCELLED"),
    Move("RETURNED", "cancel", "CANCELLED") }

HasAttachmentOrResponse == request.answered \/ request.links \cap Uploaded # {}

ReadForTransition(r) ==
  \E t \in REQUEST_WORKFLOW :
    /\ t.from = request.status
    /\ t.action \in {"submit", "resubmit"} => HasAttachmentOrResponse
    /\ Begin(r, [pc |-> "transition", to |-> t.to])

Transition(r) ==
  /\ At(r, "transition")
  /\ request' = [request EXCEPT !.status = req[r].to]
  /\ Release(r)
  /\ UNCHANGED <<docs, store, report>>

\* update of the response note; linkDocument of any document not deleted.
ReadForResponse(r) ==
  /\ request.status \notin Closed
  /\ \/ \E answered \in BOOLEAN : Begin(r, [pc |-> "note", answered |-> answered])
     \/ \E d \in Live : Begin(r, [pc |-> "link", id |-> d])

Respond(r) ==
  /\ req[r].pc \in {"note", "link"}
  /\ request' = IF At(r, "note")
                  THEN [request EXCEPT !.answered = req[r].answered]
                  ELSE [request EXCEPT !.links = @ \cup {Id(r)}]
  /\ Release(r)
  /\ UNCHANGED <<docs, store, report>>

Init ==
  /\ docs = [d \in Docs |-> NoDoc]
  /\ store = [d \in Docs |-> NoOne]
  /\ request = [status |-> "OPEN", answered |-> FALSE, links |-> {}]
  /\ report = NoOne
  /\ NoRequests

Next == \E r \in Requests :
  \/ Presign(r)
  \/ ReadForUpload(r)
  \/ PutObject(r)
  \/ Complete(r)
  \/ ReadForComplete(r)
  \/ StatObject(r)
  \/ ScanObject(r)
  \/ CommitUpload(r)
  \/ ReadForRemove(r)
  \/ Remove(r)
  \/ ReadForReport(r)
  \/ SetReport(r)
  \/ ReadForTransition(r)
  \/ Transition(r)
  \/ ReadForResponse(r)
  \/ Respond(r)

Spec == Init /\ [][Next]_vars

-----------------------------------------------------------------------------
Sums == Contents \cup {NoOne}
RequestStatuses == {"OPEN", "SUBMITTED", "RETURNED"} \cup Closed

Pending ==
  {Idle}
  \cup [pc : {"put", "complete", "stat", "scan", "commit"}, id : Docs, sum : Sums]
  \cup [pc : {"remove", "link"}, id : Docs]
  \cup [pc : {"report"}, id : Docs \cup {NoOne}]
  \cup [pc : {"transition"}, to : RequestStatuses]
  \cup [pc : {"note"}, answered : BOOLEAN]

\* The rows have the types of the schema; what is uploaded has a version 1,
\* and the report is a document that was uploaded once.
TypeOK ==
  /\ docs \in [Docs -> [status : {"none", "quarantined", "uploaded"}, deleted : BOOLEAN,
                        checksum : Sums, first : Sums]]
  /\ \A d \in Docs : docs[d].status = "uploaded" <=> docs[d].first # NoOne
  /\ store \in [Docs -> Sums]
  /\ request \in [status : RequestStatuses, answered : BOOLEAN, links : SUBSET Rows]
  /\ report \in {d \in Rows : docs[d].status = "uploaded"} \cup {NoOne}
  /\ req \in [Requests -> Pending]

IntactIn(d) == docs[d].status = "uploaded" =>
                 docs[d].checksum = store[d] /\ store[d] \notin Infected

(* An undisturbed request never parts a document from its content: what is *)
(* recorded as uploaded stays the content that was checked (putContent,    *)
(* complete).  It never takes the engagement's report away (remove), and   *)
(* never changes a request that is accepted or cancelled (update,          *)
(* transition, linkDocument).                                              *)
DocumentsStayWhole ==
  [][alone' => /\ \A d \in Docs : IntactIn(d) => IntactIn(d)'
               /\ report \in Uploaded => report' \in Uploaded' \cup {NoOne}
               /\ request.status \in Closed => request' = request]_vars
=============================================================================
