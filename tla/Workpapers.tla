----------------------------- MODULE Workpapers -----------------------------
(***************************************************************************)
(* One workpaper, its review notes, version history, review trail and      *)
(* programme step, served by several HTTP requests at once.                *)
(*                                                                         *)
(* Every handler of WorkpapersService follows the same pattern.  It reads  *)
(* the row, checks the workflow and the guards against what it read, and   *)
(* then writes `where: { id }`: the write does not repeat the check.  Each *)
(* request is therefore a read step, possibly a step that counts the       *)
(* review notes, and a commit step, and other requests run in between.     *)
(* A commit that writes several rows is one database transaction.          *)
(*                                                                         *)
(* The workpaper may be linked to a programme step.  A sign-off and an     *)
(* unlock write the step's status, but so do PATCH /program-steps/:id and  *)
(* the other workpapers of the step, so the two need not agree.            *)
(*                                                                         *)
(* With one element in Requests, requests never overlap.                   *)
(***************************************************************************)
EXTENDS Naturals, Sequences

CONSTANTS
  Users,
  Holders,      \* permission -> users that hold it
  Partners,     \* users with the role AUDIT_PARTNER
  Notes,        \* review notes that may be raised
  Contents,     \* values of the narrative fields taken together
  Documented,   \* those with a procedure and a conclusion
  Requests,     \* requests that may be in progress at the same time
  StepStatuses, \* statuses of a programme step (enum StepStatus, or fewer)
  MaxVersion,   \* bound: no edit starts from this version
  NoOne         \* null

Permissions == {"workpaper:prepare", "workpaper:review",
                "workpaper:sign_off", "workpaper:unlock"}

ASSUME WorkpaperAssumption ==
  /\ Holders \in [Permissions -> SUBSET Users]
  /\ Partners \subseteq Users
  /\ Documented \subseteq Contents
  /\ {"IN_PROGRESS", "COMPLETED"} \subseteq StepStatuses
  /\ MaxVersion \in Nat \ {0}
  /\ NoOne \notin Users

Statuses == {"DRAFT", "PREPARED", "IN_REVIEW", "REVIEW_NOTES_OPEN",
             "REVIEWED", "SIGNED_OFF"}

Move(from, action, to, permission, guards) ==
  [from |-> from, action |-> action, to |-> to,
   permission |-> permission, guards |-> guards]

WORKPAPER_WORKFLOW ==
  { Move("DRAFT", "mark_prepared", "PREPARED", "workpaper:prepare",
         {"has_procedure_and_conclusion"}),
    Move("PREPARED", "reopen", "DRAFT", "workpaper:prepare", {}),
    Move("PREPARED", "start_review", "IN_REVIEW", "workpaper:review",
         {"reviewer_is_not_preparer"}),
    Move("IN_REVIEW", "raise_notes", "REVIEW_NOTES_OPEN", "workpaper:review", {}),
    Move("REVIEW_NOTES_OPEN", "address_notes", "PREPARED", "workpaper:prepare",
         {"all_notes_addressed"}),
    Move("IN_REVIEW", "approve_review", "REVIEWED", "workpaper:review",
         {"no_open_review_notes", "reviewer_is_not_preparer"}),
    Move("REVIEWED", "sign_off", "SIGNED_OFF", "workpaper:sign_off",
         {"signer_is_not_preparer"}),
    Move("SIGNED_OFF", "unlock", "DRAFT", "workpaper:unlock", {}) }

VARIABLES
  wp,         \* the Workpaper row
  notes,      \* status of each review note, "none" before it is raised
  versions,   \* WorkpaperVersion rows
  reviews,    \* Review rows
  step,       \* status of the linked AuditProgramStep, "none" without one
  req,        \* the requests in progress, with what each one read
  written     \* history: every content the row has had, oldest first

vars == <<wp, notes, versions, reviews, step, req, written>>

-----------------------------------------------------------------------------
(* Requests *)

Idle == [pc |-> "idle"]

Release(r) == req' = [req EXCEPT ![r] = Idle]

\* Broken variant: independence is asked of the reviewer only.
EntityGuardForReviewers(guard, u) ==
  CASE guard = "has_procedure_and_conclusion" -> wp.content \in Documented
    [] guard = "reviewer_is_not_preparer" -> wp.preparedBy # u
    [] OTHER -> TRUE

\* The guards that need only the row and the actor.
EntityGuard(guard, u) ==
  CASE guard = "has_procedure_and_conclusion" -> wp.content \in Documented
    [] guard \in {"reviewer_is_not_preparer", "signer_is_not_preparer"} ->
         wp.preparedBy \in {NoOne} \cup (Users \ {u})
    [] OTHER -> TRUE

\* The guards that count review notes in the database.
NoteGuards == {"all_notes_addressed", "no_open_review_notes"}

NotesWith(status) == {n \in Notes : notes[n] \in status}

\* Broken variant: an addressed note counts as settled for the approval too.
NoteGuardOnOpenNotes(guard) == guard \in NoteGuards => NotesWith({"OPEN"}) = {}

NoteGuard(guard) ==
  CASE guard = "all_notes_addressed"  -> NotesWith({"OPEN"}) = {}
    [] guard = "no_open_review_notes" -> NotesWith({"OPEN", "ADDRESSED"}) = {}
    [] OTHER -> TRUE

ReadForTransition(r, u, t) ==
  /\ req[r] = Idle
  /\ t.from = wp.status
  /\ u \in Holders[t.permission]
  /\ \A g \in t.guards : EntityGuard(g, u)
  /\ req' = [req EXCEPT ![r] =
       [pc |-> IF t.guards \cap NoteGuards = {} THEN "commit" ELSE "count",
        user |-> u, move |-> t, preparedBy |-> wp.preparedBy]]
  /\ UNCHANGED <<wp, notes, versions, reviews, step, written>>

CountNotes(r) ==
  /\ req[r].pc = "count"
  /\ IF \A g \in req[r].move.guards : NoteGuard(g)
       THEN req' = [req EXCEPT ![r].pc = "commit"]
       ELSE Release(r)
  /\ UNCHANGED <<wp, notes, versions, reviews, step, written>>

\* Broken variant: unlock changes the status and nothing else.
WrittenWithPlainUnlock(action, u, preparedBy) ==
  CASE action = "mark_prepared" -> [wp EXCEPT !.preparedAt = TRUE]
    [] action = "reopen" -> [wp EXCEPT !.preparedAt = FALSE]
    [] action = "start_review" -> [wp EXCEPT !.reviewedBy = u, !.reviewedAt = FALSE]
    [] action = "approve_review" -> [wp EXCEPT !.reviewedBy = u, !.reviewedAt = TRUE]
    [] action = "sign_off" -> [wp EXCEPT !.signedOffBy = u, !.isLocked = TRUE]
    [] OTHER -> wp

\* Broken variant: unlock leaves the signature on the row.
WrittenKeepingSignature(action, u, preparedBy) ==
  CASE action = "sign_off" -> [wp EXCEPT !.signedOffBy = u, !.isLocked = TRUE]
    [] action = "unlock" -> [wp EXCEPT !.isLocked = FALSE]
    [] OTHER -> wp

\* Broken variant: unlock forgets the preparer with the other stamps.
WrittenForgettingPreparer(action, u, preparedBy) ==
  CASE action = "sign_off" -> [wp EXCEPT !.signedOffBy = u, !.isLocked = TRUE]
    [] action = "unlock" -> [wp EXCEPT !.isLocked = FALSE, !.signedOffBy = NoOne,
                                       !.preparedBy = NoOne]
    [] OTHER -> wp

\* The columns each transition writes besides the status.
Written(action, u, preparedBy) ==
  CASE action = "mark_prepared" ->
         [wp EXCEPT !.preparedBy = IF preparedBy = NoOne THEN u ELSE preparedBy,
                    !.preparedAt = TRUE]
    [] action = "reopen" -> [wp EXCEPT !.preparedAt = FALSE]
    [] action = "start_review" -> [wp EXCEPT !.reviewedBy = u, !.reviewedAt = FALSE]
    [] action = "approve_review" -> [wp EXCEPT !.reviewedBy = u, !.reviewedAt = TRUE]
    [] action = "sign_off" -> [wp EXCEPT !.signedOffBy = u, !.isLocked = TRUE]
    [] action = "unlock" ->
         [wp EXCEPT !.isLocked = FALSE, !.signedOffBy = NoOne,
                    !.reviewedAt = FALSE, !.preparedAt = FALSE]
    [] OTHER -> wp

\* The Review row a transition leaves in the trail, if any.
ReviewRow(action, u) ==
  CASE action = "raise_notes" ->
         {[level |-> "FIRST", decision |-> "CHANGES_REQUESTED", reviewer |-> u]}
    [] action = "approve_review" ->
         {[level |-> "FIRST", decision |-> "APPROVED", reviewer |-> u]}
    [] action = "sign_off" ->
         {[level |-> IF u \in Partners THEN "PARTNER" ELSE "SECOND",
           decision |-> "APPROVED", reviewer |-> u]}
    [] OTHER -> {}

CommitTransition(r) ==
  /\ req[r].pc = "commit"
  /\ LET action == req[r].move.action
         u == req[r].user
     IN /\ wp' = [Written(action, u, req[r].preparedBy)
                    EXCEPT !.status = req[r].move.to]
        /\ reviews' = reviews \cup ReviewRow(action, u)
        /\ step' = IF step = "none" THEN step
                   ELSE CASE action = "sign_off" -> "COMPLETED"
                          [] action = "unlock" -> "IN_PROGRESS"
                          [] OTHER -> step
  /\ Release(r)
  /\ UNCHANGED <<notes, versions, written>>

-----------------------------------------------------------------------------
(* PATCH /workpapers/:id *)

ReadForUpdate(r, u, content) ==
  /\ req[r] = Idle
  /\ u \in Holders["workpaper:prepare"]
  /\ ~wp.isLocked
  /\ wp.status = "IN_REVIEW" => u \in Holders["workpaper:review"]
  /\ wp.version < MaxVersion
  /\ req' = [req EXCEPT ![r] =
       [pc |-> "update", user |-> u, content |-> content,
        seen |-> [number |-> wp.version, content |-> wp.content],
        preparedBy |-> wp.preparedBy]]
  /\ UNCHANGED <<wp, notes, versions, reviews, step, written>>

\* Broken variant: WorkpaperVersion without its unique index.
VersionIsAlwaysFree(number) == number \in Nat

\* The unique index on (workpaperId, versionNumber).
VersionIsFree(number) == \A v \in versions : v.number # number

\* The snapshot and the edit are one transaction.
CommitUpdate(r) ==
  /\ req[r].pc = "update"
  /\ VersionIsFree(req[r].seen.number)
  /\ versions' = versions \cup {req[r].seen}
  /\ wp' = [wp EXCEPT
       !.content = req[r].content,
       !.version = @ + 1,
       !.preparedBy = IF req[r].preparedBy = NoOne THEN req[r].user
                                                   ELSE req[r].preparedBy]
  /\ written' = Append(written, req[r].content)
  /\ Release(r)
  /\ UNCHANGED <<notes, reviews, step>>

\* The index refuses the snapshot: the whole transaction is rolled back.
RollBackUpdate(r) ==
  /\ req[r].pc = "update"
  /\ ~VersionIsFree(req[r].seen.number)
  /\ Release(r)
  /\ UNCHANGED <<wp, notes, versions, reviews, step, written>>

-----------------------------------------------------------------------------
(* Review notes *)

\* What it reads of the row only fills the default assignee: one step.
CreateReviewNote(r, u, n) ==
  /\ req[r] = Idle
  /\ u \in Holders["workpaper:review"]
  /\ notes[n] = "none"
  /\ notes' = [notes EXCEPT ![n] = "OPEN"]
  /\ UNCHANGED <<wp, versions, reviews, step, req, written>>

\* The raiser of a note and everyone who reviews may clear and reopen it;
\* whoever prepares may respond.
NoteEdit(status) ==
  CASE status = "CLEARED"   -> [permissions |-> {"workpaper:review"}, unless |-> "CLEARED"]
    [] status = "OPEN"      -> [permissions |-> {"workpaper:review"}, unless |-> "OPEN"]
    [] status = "ADDRESSED" -> [permissions |-> {"workpaper:prepare", "workpaper:review"},
                                unless |-> "CLEARED"]

ReadReviewNote(r, u, n, status) ==
  /\ req[r] = Idle
  /\ \E p \in NoteEdit(status).permissions : u \in Holders[p]
  /\ notes[n] \notin {"none", NoteEdit(status).unless}
  /\ req' = [req EXCEPT ![r] = [pc |-> "note", note |-> n, status |-> status]]
  /\ UNCHANGED <<wp, notes, versions, reviews, step, written>>

WriteReviewNote(r) ==
  /\ req[r].pc = "note"
  /\ notes' = [notes EXCEPT ![req[r].note] = req[r].status]
  /\ Release(r)
  /\ UNCHANGED <<wp, versions, reviews, step, written>>

-----------------------------------------------------------------------------
(* The linked step                                                         *)

\* PATCH /program-steps/:id sets any status; what it reads decides nothing
\* of it.  Other workpapers of the step set some of the same ones.
UpdateStep(status) ==
  /\ step # "none"
  /\ step' = status
  /\ UNCHANGED <<wp, notes, versions, reviews, req, written>>

-----------------------------------------------------------------------------

\* create leaves a draft prepared by its author, with or without a step; it
\* starts a step that was not started and leaves any other as it is.
Init ==
  /\ \E u \in Holders["workpaper:prepare"], c \in Contents :
       wp = [status |-> "DRAFT", isLocked |-> FALSE,
             preparedBy |-> u, preparedAt |-> FALSE,
             reviewedBy |-> NoOne, reviewedAt |-> FALSE, signedOffBy |-> NoOne,
             content |-> c, version |-> 1]
  /\ notes = [n \in Notes |-> "none"]
  /\ versions = {}
  /\ reviews = {}
  /\ step \in {"none"} \cup (StepStatuses \ {"NOT_STARTED"})
  /\ req = [r \in Requests |-> Idle]
  /\ written = <<wp.content>>

ReadRequest(r) ==
  \/ \E u \in Users, t \in WORKPAPER_WORKFLOW : ReadForTransition(r, u, t)
  \/ \E u \in Users, c \in Contents : ReadForUpdate(r, u, c)
  \/ \E u \in Users, n \in Notes, s \in {"OPEN", "ADDRESSED", "CLEARED"} :
       ReadReviewNote(r, u, n, s)

Next ==
  \/ \E r \in Requests :
       \/ ReadRequest(r)
       \/ CountNotes(r)
       \/ CommitTransition(r)
       \/ CommitUpdate(r)
       \/ RollBackUpdate(r)
       \/ WriteReviewNote(r)
       \/ \E u \in Users, n \in Notes : CreateReviewNote(r, u, n)
  \/ \E status \in StepStatuses : UpdateStep(status)

Spec == Init /\ [][Next]_vars

-----------------------------------------------------------------------------
(* Types *)

WorkpaperRow ==
  [status: Statuses, isLocked: BOOLEAN,
   preparedBy: Users, preparedAt: BOOLEAN,
   reviewedBy: Users \cup {NoOne}, reviewedAt: BOOLEAN,
   signedOffBy: Users \cup {NoOne},
   content: Contents, version: 1..MaxVersion]

NoteStatuses == {"none", "OPEN", "ADDRESSED", "CLEARED"}

VersionRow == [number: 1..MaxVersion, content: Contents]

ReviewTrail == [level: {"FIRST", "SECOND", "PARTNER"},
                decision: {"APPROVED", "CHANGES_REQUESTED"}, reviewer: Users]

TransitionRequest == [pc: {"count", "commit"}, user: Users,
                      move: WORKPAPER_WORKFLOW, preparedBy: Users]
UpdateRequest == [pc: {"update"}, user: Users, content: Contents,
                  seen: VersionRow, preparedBy: Users]
NoteRequest == [pc: {"note"}, note: Notes, status: NoteStatuses \ {"none"}]

(* Types; the preparer of a workpaper is never null, because create sets   *)
(* it, and no interleaving edits past the version bound.                   *)
TypeOK ==
  /\ wp \in WorkpaperRow
  /\ notes \in [Notes -> NoteStatuses]
  /\ versions \subseteq VersionRow
  /\ reviews \subseteq ReviewTrail
  /\ step \in StepStatuses \cup {"none"}
  /\ req \in [Requests -> {Idle} \cup TransitionRequest
                              \cup UpdateRequest \cup NoteRequest]
  /\ written \in Seq(Contents)

-----------------------------------------------------------------------------
(* Properties that hold however requests overlap *)

(* Nobody reviews, approves or signs a workpaper they prepared, although   *)
(* the guards looked at an earlier row than the one the commit writes to   *)
(* (guards reviewer_is_not_preparer and signer_is_not_preparer).           *)
SegregationOfDuties ==
  /\ wp.preparedBy \notin {wp.reviewedBy, wp.signedOffBy}
  /\ \A v \in reviews : v.decision = "APPROVED" => v.reviewer # wp.preparedBy

(* Lock and signature come and go together, and a signed-off workpaper has *)
(* both, and in its trail a first review and the approval of the one who   *)
(* signed it, whatever commits late (transition, sign_off and unlock).     *)
SignOffIsWhole ==
  /\ wp.isLocked <=> wp.signedOffBy # NoOne
  /\ wp.status = "SIGNED_OFF" =>
       /\ wp.isLocked
       /\ \E v \in reviews : v.level = "FIRST" /\ v.decision = "APPROVED"
       /\ \E v \in reviews : v.level \in {"SECOND", "PARTNER"}
                             /\ v.reviewer = wp.signedOffBy

(* No edit is lost: version n of the history holds the content the row had *)
(* n - 1 edits after it was created, for every n below the current version *)
(* ("Every PATCH snapshots the previous state as a WorkpaperVersion").     *)
VersionHistoryFaithful ==
  /\ Len(written) = wp.version
  /\ written[wp.version] = wp.content
  /\ versions = {[number |-> n, content |-> written[n]] : n \in 1..(wp.version - 1)}

-----------------------------------------------------------------------------
(* Properties that hold when requests to a workpaper do not overlap *)

(* The lock and the dates agree with the status: nothing an earlier round  *)
(* of review left survives into the next one ("Sign-off sets               *)
(* isLocked=true and writes a Review row; unlock clears it").              *)
RowAgreesWithStatus ==
  /\ wp.isLocked <=> wp.status = "SIGNED_OFF"
  /\ wp.preparedAt <=> wp.status # "DRAFT"
  /\ wp.reviewedAt <=> wp.status \in {"REVIEWED", "SIGNED_OFF"}

-----------------------------------------------------------------------------
(* Expectations the code does not meet *)

(* No edit changes a workpaper while it is locked ("Rejected with 409 when *)
(* `isLocked`", contract-phase1.md; update).  Not so if the edit read the  *)
(* row before the sign-off was committed: its transaction asks no more.    *)
SignedContentStands == [][wp.isLocked => wp'.content = wp.content]_vars

-----------------------------------------------------------------------------
(* Refinement *)

\* How the detailed state maps to the lifecycle.
LifecycleStage ==
  CASE wp.status = "IN_REVIEW" -> "in review"
    [] wp.status = "REVIEWED" -> "approved"
    [] wp.status = "SIGNED_OFF" -> "signed off"
    [] OTHER -> "preparing"

Lifecycle == INSTANCE WorkpaperLifecycle WITH
  stage <- LifecycleStage, content <- wp.content,
  preparer <- wp.preparedBy, signer <- wp.signedOffBy

(* Handled one at a time, the requests implement the lifecycle: every      *)
(* commit is one of its steps (transition, update, createReviewNote,       *)
(* updateReviewNote).                                                      *)
ImplementsLifecycle == Lifecycle!Spec
=============================================================================
