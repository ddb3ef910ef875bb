------------------------------ MODULE Findings ------------------------------
(***************************************************************************)
(* One finding with its recommendations and its status history, served by  *)
(* several HTTP requests at once.                                          *)
(*                                                                         *)
(* Like the workpapers, every handler of FindingsService reads the row,    *)
(* decides on what it read and writes `where: { id }`; a request is a read *)
(* step, possibly a count of the supporting rows, and a commit step.       *)
(***************************************************************************)
EXTENDS Handlers, Naturals

CONSTANTS
  Users,
  Holders,        \* permission -> users that hold it
  NoOne,          \* null
  External,       \* an action owner known by name or e-mail only
  Recs,           \* recommendations that may be added
  Patches,        \* bodies of PATCH /findings/:id: columns -> new values
  MaxDate,        \* bound: due dates are 1..MaxDate
  MaxExtensions   \* bound: no extension starts from this count

Permissions == {"finding:manage", "finding:submit", "finding:respond",
                "finding:validate", "finding:accept_risk"}

NoDate == 0   \* a dueDate that is null
Dates == 1..MaxDate
Owners == Users \cup {NoOne, External}

BUSINESS_OWNER_FIELDS == {"response", "owner", "due"}

\* What a PATCH may write, column by column.
Editable ==
  [documented |-> BOOLEAN, headline |-> BOOLEAN, response |-> BOOLEAN,
   evidence |-> BOOLEAN, owner |-> Owners, due |-> Dates \cup {NoDate}]

ASSUME FindingAssumption ==
  /\ Holders \in [Permissions -> SUBSET Users]
  /\ NoOne \notin Users
  /\ External \notin Users \cup {NoOne}
  /\ MaxDate \in Nat
  /\ MaxExtensions \in Nat
  /\ \A p \in Patches :
       /\ DOMAIN p \subseteq DOMAIN Editable
       /\ p = [c \in DOMAIN p |-> p[c]]
       /\ \A c \in DOMAIN p : p[c] \in Editable[c]

Statuses == {"DRAFT", "MANAGEMENT_REVIEW", "AGREED", "IMPLEMENTATION",
             "VALIDATION", "CLOSED", "RISK_ACCEPTED"}
Terminal == {"CLOSED", "RISK_ACCEPTED"}
ACTIONABLE_STATUSES == {"AGREED", "IMPLEMENTATION", "VALIDATION"}

RecommendationStatuses == {"PROPOSED", "AGREED", "IN_PROGRESS", "IMPLEMENTED",
                           "VALIDATED", "NOT_IMPLEMENTED", "SUPERSEDED"}

Move(from, action, to, permission, guards) ==
  [from |-> from, action |-> action, to |-> to,
   permission |-> permission, guards |-> guards]

\* With the extra guard of extraGuardsFor.
FINDING_WORKFLOW ==
  { Move("DRAFT", "submit", "MANAGEMENT_REVIEW", "finding:submit",
         {"has_condition_criteria", "has_recommendation"}),
    Move("MANAGEMENT_REVIEW", "return_to_draft", "DRAFT", "finding:manage", {}),
    Move("MANAGEMENT_REVIEW", "agree", "AGREED", "finding:respond",
         {"has_management_response", "has_action_owner_and_due_date"}),
    Move("MANAGEMENT_REVIEW", "accept_risk", "RISK_ACCEPTED",
         "finding:accept_risk", {}),
    Move("AGREED", "start_implementation", "IMPLEMENTATION", "finding:respond", {}),
    Move("IMPLEMENTATION", "request_validation", "VALIDATION", "finding:respond",
         {"has_implementation_evidence"}),
    Move("VALIDATION", "reject_validation", "IMPLEMENTATION", "finding:validate",
         {"validator_is_not_action_owner"}),
    Move("VALIDATION", "validate_and_close", "CLOSED", "finding:validate",
         {"validator_is_not_action_owner"}) }

VARIABLES
  fd,        \* the Finding row
  recs,      \* its Recommendation rows
  last,      \* the newest FindingStatusHistory row
  extended   \* history: extensions granted so far

vars == <<fd, recs, last, req, alone, extended>>

-----------------------------------------------------------------------------
(* POST /findings/:id/transition *)

RecsWith(statuses) == {k \in Recs : recs[k].status \in statuses}

\* Broken variant: nobody asks who validates.
EntityGuardForAnyone(guard, u) ==
  CASE guard = "has_condition_criteria" -> fd.documented
    [] guard = "has_management_response" -> fd.response
    [] guard = "has_action_owner_and_due_date" -> fd.owner # NoOne /\ fd.due # NoDate
    [] OTHER -> TRUE

\* The guards that need only the row and the actor.
EntityGuard(guard, u) ==
  CASE guard = "has_condition_criteria" -> fd.documented
    [] guard = "has_management_response" -> fd.response
    [] guard = "has_action_owner_and_due_date" -> fd.owner # NoOne /\ fd.due # NoDate
    [] guard = "validator_is_not_action_owner" -> fd.owner # u
    [] OTHER -> TRUE

\* The guards that count rows in the database; the first one does so only
\* when the finding has no recommendation of its own.
CountsRows(guard) ==
  \/ guard = "has_recommendation" /\ ~fd.headline
  \/ guard = "has_implementation_evidence"

CountGuard(guard) ==
  CASE guard = "has_recommendation" ->
         RecsWith(RecommendationStatuses) # {}
    [] guard = "has_implementation_evidence" ->
         fd.evidence \/ RecsWith({"IMPLEMENTED", "VALIDATED"}) # {}
    [] OTHER -> TRUE

ReadForTransition(r, u, t) ==
  /\ req[r] = Idle
  /\ t.from = fd.status
  /\ u \in Holders[t.permission]
  /\ \A g \in t.guards : EntityGuard(g, u)
  /\ Enter(r, [pc |-> IF \E g \in t.guards : CountsRows(g) THEN "count" ELSE "commit",
               user |-> u, move |-> t, due |-> fd.due, originalDue |-> fd.originalDue])
  /\ UNCHANGED <<fd, recs, last, extended>>

CountRows(r) ==
  /\ req[r].pc = "count"
  /\ IF \A g \in req[r].move.guards : CountGuard(g)
       THEN Enter(r, [req[r] EXCEPT !.pc = "commit"])
       ELSE Release(r)
  /\ UNCHANGED <<fd, recs, last, extended>>

\* Broken variant: accepting the risk leaves the closing date empty.
WrittenWithoutClosing(action, u, seen) ==
  CASE action = "agree" -> [fd EXCEPT !.agreed = TRUE]
    [] action = "request_validation" -> [fd EXCEPT !.implemented = TRUE]
    [] action = "validate_and_close" -> [fd EXCEPT !.validatedBy = u, !.closed = TRUE]
    [] OTHER -> fd

\* Broken variant: the action owner is recorded as the validator.
WrittenByActionOwner(action, u, seen) ==
  CASE action = "validate_and_close" ->
         [fd EXCEPT !.validatedBy = fd.owner, !.closed = TRUE]
    [] OTHER -> fd

\* The columns each transition writes besides the status.
Written(action, u, seen) ==
  CASE action = "agree" ->
         [fd EXCEPT !.agreed = TRUE,
                    !.originalDue = IF seen.originalDue = NoDate THEN seen.due ELSE @]
    [] action = "return_to_draft" -> [fd EXCEPT !.agreed = FALSE]
    [] action = "request_validation" -> [fd EXCEPT !.implemented = TRUE]
    [] action = "validate_and_close" -> [fd EXCEPT !.validatedBy = u, !.closed = TRUE]
    [] action = "accept_risk" -> [fd EXCEPT !.closed = TRUE]
    [] OTHER -> fd

\* The status a transition gives a recommendation: settled ones keep theirs.
RecommendationStatus(action, status) ==
  IF status \in {"none", "SUPERSEDED", "VALIDATED"} THEN status
  ELSE CASE action = "agree" -> "AGREED"
         [] action = "start_implementation" -> "IN_PROGRESS"
         [] action = "validate_and_close" -> "VALIDATED"
         [] action = "accept_risk" -> "NOT_IMPLEMENTED"
         [] OTHER -> status

RecsAfter(action) ==
  [k \in Recs |-> [recs[k] EXCEPT !.status = RecommendationStatus(action, @)]]

HistoryRow(move) == [from |-> move.from, to |-> move.to]

\* Row, history and recommendations are written in one transaction.
CommitTransition(r) ==
  /\ req[r].pc = "commit"
  /\ LET move == req[r].move
     IN /\ fd' = [Written(move.action, req[r].user, req[r]) EXCEPT !.status = move.to]
        /\ last' = HistoryRow(move)
        /\ recs' = RecsAfter(move.action)
  /\ Release(r)
  /\ UNCHANGED extended

-----------------------------------------------------------------------------
(* PATCH /findings/:id *)

\* Broken variant: a settled finding can be edited like any other.
MayEditSettled(u, p) ==
  u \in Holders["finding:manage"] \cup Holders["finding:respond"]

MayEdit(u, p) ==
  /\ fd.status \notin Terminal
  /\ \/ u \in Holders["finding:manage"]
     \/ /\ u \in Holders["finding:respond"]
        /\ DOMAIN p \subseteq BUSINESS_OWNER_FIELDS
        /\ fd.status \in {"MANAGEMENT_REVIEW", "AGREED", "IMPLEMENTATION"}

ReadForUpdate(r, u, p) ==
  /\ req[r] = Idle
  /\ MayEdit(u, p)
  /\ Enter(r, [pc |-> "update", patch |-> p])
  /\ UNCHANGED <<fd, recs, last, extended>>

\* Evidence that comes as a document, at any status, is left out.
CommitUpdate(r) ==
  /\ req[r].pc = "update"
  /\ fd' = [c \in DOMAIN fd |-> IF c \in DOMAIN req[r].patch THEN req[r].patch[c]
                                                             ELSE fd[c]]
  /\ Release(r)
  /\ UNCHANGED <<recs, last, extended>>

-----------------------------------------------------------------------------
(* POST /findings/:id/extend *)

Postpones(newDue) == fd.due = NoDate \/ newDue > fd.due

ReadForExtend(r, u, newDue) ==
  /\ req[r] = Idle
  /\ u \in Holders["finding:manage"] \cup Holders["finding:validate"]
  /\ fd.status \in ACTIONABLE_STATUSES
  /\ Postpones(newDue)
  /\ fd.extensions < MaxExtensions
  /\ Enter(r, [pc |-> "extend", newDue |-> newDue, extensions |-> fd.extensions,
               originalDue |-> IF fd.originalDue = NoDate THEN fd.due
                                                          ELSE fd.originalDue])
  /\ UNCHANGED <<fd, recs, last, extended>>

\* Broken variant: the count read is written back plus one.
ExtensionsFromRead(read, row) == read + 1

\* Broken variant: the due date being replaced becomes the original one.
OriginalFromExtension(read) == fd.due

\* extensionCount: { increment: 1 } counts in the database.
ExtensionsAfter(read, row) == row + 1

\* originalDueDate: before.originalDueDate ?? before.dueDate
OriginalAfterExtension(read) == read

CommitExtend(r) ==
  /\ req[r].pc = "extend"
  /\ fd' = [fd EXCEPT
       !.due = req[r].newDue,
       !.originalDue = OriginalAfterExtension(req[r].originalDue),
       !.extensions = ExtensionsAfter(req[r].extensions, @)]
  /\ extended' = extended + 1
  /\ Release(r)
  /\ UNCHANGED <<recs, last>>

-----------------------------------------------------------------------------
(* Recommendations *)

\* (max._max.sequence ?? 0) + 1
NextSequence(taken) ==
  {n \in {1} \cup {s + 1 : s \in taken} : \A s \in taken : s < n}

SequencesTaken == {recs[k].sequence : k \in RecsWith(RecommendationStatuses)}

ReadForRecommendation(r, u) ==
  /\ req[r] = Idle
  /\ u \in Holders["finding:manage"]
  /\ fd.status \notin Terminal
  /\ \E n \in NextSequence(SequencesTaken) :
       Enter(r, [pc |-> "recommend", sequence |-> n,
                 status |-> IF fd.status \in {"DRAFT", "MANAGEMENT_REVIEW"}
                              THEN "PROPOSED" ELSE "AGREED"])
  /\ UNCHANGED <<fd, recs, last, extended>>

\* Nothing stops two recommendations from taking the same sequence number.
CreateRecommendation(r, k) ==
  /\ req[r].pc = "recommend"
  /\ recs[k].status = "none"
  /\ recs' = [recs EXCEPT ![k] = [status |-> req[r].status, sequence |-> req[r].sequence]]
  /\ Release(r)
  /\ UNCHANGED <<fd, last, extended>>

\* PATCH /recommendations/:id.  What it reads decides nothing: one step.
UpdateRecommendation(r, u, k, status) ==
  /\ req[r] = Idle
  /\ \/ u \in Holders["finding:manage"]
     \/ u \in Holders["finding:respond"] /\ status \in {"IN_PROGRESS", "IMPLEMENTED"}
  /\ recs[k].status # "none"
  /\ recs' = [recs EXCEPT ![k].status = status]
  /\ Release(r)
  /\ UNCHANGED <<fd, last, extended>>

-----------------------------------------------------------------------------

\* create: the response and everything the workflow stamps are still empty.
Init ==
  /\ \E documented, headline \in BOOLEAN, owner \in Owners, due \in Dates \cup {NoDate} :
       fd = [status |-> "DRAFT", documented |-> documented, headline |-> headline,
             response |-> FALSE, evidence |-> FALSE, owner |-> owner,
             due |-> due, originalDue |-> NoDate, extensions |-> 0,
             agreed |-> FALSE, implemented |-> FALSE, validatedBy |-> NoOne,
             closed |-> FALSE]
  /\ recs = [k \in Recs |-> [status |-> "none", sequence |-> 0]]
  /\ last = [from |-> "none", to |-> "DRAFT"]
  /\ NoRequests
  /\ extended = 0

ReadRequest(r) ==
  \E u \in Users :
    \/ \E t \in FINDING_WORKFLOW : ReadForTransition(r, u, t)
    \/ \E p \in Patches : ReadForUpdate(r, u, p)
    \/ \E d \in Dates : ReadForExtend(r, u, d)
    \/ ReadForRecommendation(r, u)

Next ==
  \E r \in Requests :
    \/ ReadRequest(r)
    \/ CountRows(r)
    \/ CommitTransition(r)
    \/ CommitUpdate(r)
    \/ CommitExtend(r)
    \/ \E k \in Recs :
         \/ CreateRecommendation(r, k)
         \/ \E u \in Users, s \in RecommendationStatuses : UpdateRecommendation(r, u, k, s)

Spec == Init /\ [][Next]_vars

-----------------------------------------------------------------------------
(* Types *)

FindingRow ==
  [status: Statuses, documented: BOOLEAN, headline: BOOLEAN, response: BOOLEAN,
   evidence: BOOLEAN, owner: Owners, due: Dates \cup {NoDate},
   originalDue: Dates \cup {NoDate}, extensions: Nat, agreed: BOOLEAN,
   implemented: BOOLEAN, validatedBy: Users \cup {NoOne}, closed: BOOLEAN]

RecommendationRow ==
  [status: RecommendationStatuses \cup {"none"}, sequence: Nat]

TransitionRequest ==
  [pc: {"count", "commit"}, user: Users, move: FINDING_WORKFLOW,
   due: Dates \cup {NoDate}, originalDue: Dates \cup {NoDate}]
UpdateRequest == [pc: {"update"}, patch: Patches]
ExtendRequest == [pc: {"extend"}, newDue: Dates, extensions: Nat,
                  originalDue: Dates \cup {NoDate}]
RecommendRequest == [pc: {"recommend"}, sequence: Nat, status: {"PROPOSED", "AGREED"}]

(* Types of the finding, its recommendations, its newest history row and   *)
(* the requests in progress (schema.prisma, models Finding,                *)
(* Recommendation and FindingStatusHistory).                               *)
TypeOK ==
  /\ fd \in FindingRow
  /\ recs \in [Recs -> RecommendationRow]
  /\ last \in [from: Statuses \cup {"none"}, to: Statuses]
  /\ req \in [Requests -> {Idle} \cup TransitionRequest \cup UpdateRequest
                              \cup ExtendRequest \cup RecommendRequest]
  /\ alone \in BOOLEAN
  /\ extended \in Nat

-----------------------------------------------------------------------------
(* Properties that hold however requests overlap *)

(* The date first agreed with management is never lost: every finding that *)
(* got as far as an agreement has one, although late commits may carry it  *)
(* back to a draft and extensions replace the due date (transition, agree; *)
(* extend, originalDueDate).                                               *)
AgreedDateIsKept ==
  fd.status \in ACTIONABLE_STATUSES \cup {"CLOSED"} => fd.originalDue # NoDate

(* Every extension granted is counted, although two of them may have read  *)
(* the same count (extensionCount: { increment: 1 }).                      *)
NoExtensionLost == fd.extensions = extended

\* Late commits lose neither the first date nor an extension (agree, extend).
DatesKeepTheirWord == AgreedDateIsKept /\ NoExtensionLost

(* A closed finding was implemented and has a validator and a closing      *)
(* date; an accepted one has a closing date (transition, data).            *)
SettledHasItsStamps ==
  /\ fd.status = "CLOSED" => fd.implemented /\ fd.closed /\ fd.validatedBy # NoOne
  /\ fd.status = "RISK_ACCEPTED" => fd.closed

-----------------------------------------------------------------------------
(* Properties of a lone request, whatever overlapping ones did before it *)

(* A lone request changes nothing of a closed or risk-accepted finding and *)
(* goes on from where the status history ended, and that history always    *)
(* ends at the status of the finding (FINDING_WORKFLOW.terminal; 'Closed   *)
(* findings cannot be edited'; FindingStatusHistory.fromStatus, toStatus). *)
HistoryEndsWhenSettled ==
  [][/\ alone' /\ fd.status \in Terminal => UNCHANGED fd
     /\ last'.to = fd'.status
     /\ alone' /\ last' # last => last'.from = last.to]_vars

(* A lone request leaves the date first agreed as it is, however often the *)
(* due date has moved, and a lone extension moves that one later           *)
(* (originalDueDate ?? dueDate in extend, the test in agree, 'The new due  *)
(* date must be later').                                                   *)
ExtensionsKeepTheirWord ==
  [][alone' =>
       /\ fd.originalDue # NoDate => fd'.originalDue = fd.originalDue
       /\ fd'.extensions # fd.extensions /\ fd.due # NoDate => fd'.due > fd.due]_vars

(* "A linked platform action owner cannot validate their own finding"      *)
(* (user-manual.md), whichever requests overlap.  The code does not meet   *)
(* this: an edit of the owner that commits between the guard and the       *)
(* validation gets past both (guard validator_is_not_action_owner; update).*)
OwnerNeverValidates == fd.status = "CLOSED" => fd.validatedBy # fd.owner

(* A lone request never makes the validator of a closed finding its owner: *)
(* it neither closes one for its owner nor hands a closed one over (guard  *)
(* validator_is_not_action_owner; in update, 'Closed findings cannot be    *)
(* edited').                                                               *)
LoneValidatorIsNoOwner == [][alone' /\ OwnerNeverValidates => OwnerNeverValidates']_vars
=============================================================================
