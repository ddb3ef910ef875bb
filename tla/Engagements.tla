---------------------------- MODULE Engagements ----------------------------
(***************************************************************************)
(* One engagement, whose stage gates look at the programme, workpapers,    *)
(* review notes and findings that other handlers change meanwhile.         *)
(*                                                                         *)
(* The parent's handlers and the creation of children are read, count and  *)
(* commit steps, as in Workpapers and Findings.  The children themselves   *)
(* move in the coarse steps the gates tell apart; their own handlers are   *)
(* modelled in those modules.  Who may take a step is left out: every      *)
(* permission depends on the actor alone and some role holds it.  Manager  *)
(* and partner are handled like the lead, and are left out with the dates, *)
(* the stage history and the audited entity, which decide nothing here.    *)
(***************************************************************************)
EXTENDS Handlers

CONSTANTS
  Users,
  NoOne,       \* null
  Papers,      \* workpapers that may be created
  Findings,    \* findings that may be raised
  Patches,     \* bodies of PATCH /engagements/:id: columns -> new values
  Reports,     \* documents uploaded to the engagement
  NoReport     \* a reportDocumentId that is null

\* What a PATCH may write: the handler takes no other status.
Editable ==
  [planned |-> BOOLEAN, lead |-> Users \cup {NoOne},
   status |-> {"ACTIVE", "ON_HOLD"}, report |-> Reports \cup {NoReport}]

ASSUME EngagementAssumption ==
  /\ NoOne \notin Users
  /\ NoReport \notin Reports
  /\ \A p \in Patches :
       /\ DOMAIN p \subseteq DOMAIN Editable
       /\ p = [c \in DOMAIN p |-> p[c]]
       /\ \A c \in DOMAIN p : p[c] \in Editable[c]

Stages == {"PLANNING", "RISK_ASSESSMENT", "PROGRAMME", "FIELDWORK", "REVIEW",
           "REPORTING", "FOLLOW_UP", "CLOSED"}

Move(from, action, to, guards) ==
  [from |-> from, action |-> action, to |-> to, guards |-> guards]

ENGAGEMENT_WORKFLOW ==
  { Move("PLANNING", "start_risk_assessment", "RISK_ASSESSMENT",
         {"has_objectives_and_scope", "has_lead"}),
    Move("RISK_ASSESSMENT", "build_programme", "PROGRAMME", {}),
    Move("PROGRAMME", "start_fieldwork", "FIELDWORK", {"programme_approved"}),
    Move("FIELDWORK", "submit_for_review", "REVIEW", {"all_workpapers_prepared"}),
    Move("REVIEW", "return_to_fieldwork", "FIELDWORK", {}),
    Move("REVIEW", "start_reporting", "REPORTING",
         {"all_workpapers_signed_off", "no_open_review_notes"}),
    Move("REPORTING", "issue_report", "FOLLOW_UP",
         {"all_findings_agreed_or_accepted"}),
    Move("FOLLOW_UP", "close", "CLOSED", {"all_findings_owned_and_submitted"}),
    Move("PLANNING", "cancel", "CLOSED", {}) }

VARIABLES
  eng,       \* the Engagement row
  members,   \* users with an EngagementMember row
  program,   \* status of its audit programme, "none" before it is created
  papers,    \* status of each workpaper, "none" before it is created
  noted,     \* workpapers with a review note that is not cleared
  findings,  \* status and ownership of each finding
  planItem,  \* status of the plan item the engagement came from
  granted    \* history: the transitions that were ever committed

children == <<program, papers, noted, findings>>
vars == <<eng, members, program, papers, noted, findings, planItem, req, alone, granted>>

-----------------------------------------------------------------------------
(* POST /engagements/:id/transition *)

Created(statuses) == {k \in DOMAIN statuses : statuses[k] # "none"}

StatusOf == [f \in Findings |-> findings[f].status]

EntityGuard(guard) ==
  CASE guard = "has_objectives_and_scope" -> eng.planned
    [] guard = "has_lead" -> eng.lead # NoOne
    [] OTHER -> TRUE

\* Broken variant: nobody asks whether there is a workpaper at all.
CountGuardOnNothing(guard) ==
  CASE guard = "programme_approved" -> program = "APPROVED"
    [] guard = "all_workpapers_prepared" -> \A p \in Papers : papers[p] # "DRAFT"
    [] guard = "all_workpapers_signed_off" ->
         \A p \in Created(papers) : papers[p] = "SIGNED_OFF"
    [] guard = "no_open_review_notes" -> noted = {}
    [] OTHER -> TRUE

\* The guards that count the children in the database; the counts of one
\* request are one step.
CountGuard(guard) ==
  CASE guard = "programme_approved" -> program = "APPROVED"
    [] guard = "all_workpapers_prepared" ->
         Created(papers) # {} /\ \A p \in Papers : papers[p] # "DRAFT"
    [] guard = "all_workpapers_signed_off" ->
         Created(papers) # {} /\ \A p \in Created(papers) : papers[p] = "SIGNED_OFF"
    [] guard = "no_open_review_notes" -> noted = {}
    [] guard = "all_findings_agreed_or_accepted" ->
         \A f \in Findings : findings[f].status \notin {"DRAFT", "MANAGEMENT_REVIEW"}
    [] guard = "all_findings_owned_and_submitted" ->
         \A f \in Created(StatusOf) : findings[f].owned /\ findings[f].status # "DRAFT"
    [] OTHER -> TRUE

\* Broken variant: one may return to fieldwork from everywhere.
AvailableForReturn(t) == t.from = eng.stage \/ t.action = "return_to_fieldwork"

Available(t) == t.from = eng.stage

ReadForTransition(r, t) ==
  /\ req[r] = Idle
  /\ Available(t)
  /\ \A g \in t.guards : EntityGuard(g)
  /\ Enter(r, [pc |-> "count", move |-> t])
  /\ UNCHANGED <<eng, members, children, planItem, granted>>

CountChildren(r) ==
  /\ req[r].pc = "count"
  /\ IF \A g \in req[r].move.guards : CountGuard(g)
       THEN Enter(r, [req[r] EXCEPT !.pc = "commit"])
       ELSE Release(r)
  /\ UNCHANGED <<eng, members, children, planItem, granted>>

\* Broken variant: the status is the name of the transition.
StatusAfterByName(action) ==
  CASE action = "close" -> "CLOSED"
    [] action = "cancel" -> "CANCELLED"
    [] OTHER -> eng.status

StatusAfter(action) ==
  CASE action = "close" -> "COMPLETED"
    [] action = "cancel" -> "CANCELLED"
    [] OTHER -> eng.status

\* Stage, stage history and plan item are one transaction.
CommitTransition(r) ==
  /\ req[r].pc = "commit"
  /\ LET move == req[r].move
     IN /\ eng' = [eng EXCEPT !.stage = move.to,
                              !.status = StatusAfter(move.action),
                              !.issued = @ \/ move.action = "issue_report"]
        /\ planItem' = CASE move.action = "close" -> "COMPLETED"
                         [] move.action = "cancel" -> "CANCELLED"
                         [] OTHER -> planItem
        /\ granted' = granted \cup {move.action}
  /\ Release(r)
  /\ UNCHANGED <<members, children>>

-----------------------------------------------------------------------------
(* PATCH /engagements/:id *)

MayEdit(p) == "report" \in DOMAIN p => eng.stage # "CLOSED"

\* The new lead joins the team if it differs from the lead that was read.
Joins(p) == IF "lead" \in DOMAIN p THEN {p["lead"]} \ {NoOne, eng.lead} ELSE {}

ReadForUpdate(r, p) ==
  /\ req[r] = Idle
  /\ MayEdit(p)
  /\ Enter(r, [pc |-> "update", patch |-> p, joins |-> Joins(p)])
  /\ UNCHANGED <<eng, members, children, planItem, granted>>

CommitUpdate(r) ==
  /\ req[r].pc = "update"
  /\ eng' = [c \in DOMAIN eng |-> IF c \in DOMAIN req[r].patch THEN req[r].patch[c]
                                                               ELSE eng[c]]
  /\ IF req[r].joins = {}
       THEN Release(r)
       ELSE Enter(r, [pc |-> "join", joins |-> req[r].joins])
  /\ UNCHANGED <<members, children, planItem, granted>>

\* The member rows are upserted after the engagement was written.
JoinTeam(r) ==
  /\ req[r].pc = "join"
  /\ members' = members \cup req[r].joins
  /\ Release(r)
  /\ UNCHANGED <<eng, children, planItem, granted>>

-----------------------------------------------------------------------------
(* POST and DELETE /engagements/:id/members *)

\* What it reads decides nothing: one step.
AddMember(r, u) ==
  /\ req[r] = Idle
  /\ members' = members \cup {u}
  /\ Release(r)
  /\ UNCHANGED <<eng, children, planItem, granted>>

\* Broken variant: the lead may be removed like anyone.
MayRemoveAnyone(u) == u \in Users

MayRemove(u) == u # eng.lead

ReadForRemoval(r, u) ==
  /\ req[r] = Idle
  /\ MayRemove(u)
  /\ Enter(r, [pc |-> "remove", user |-> u])
  /\ UNCHANGED <<eng, members, children, planItem, granted>>

DeleteMember(r) ==
  /\ req[r].pc = "remove"
  /\ members' = members \ {req[r].user}
  /\ Release(r)
  /\ UNCHANGED <<eng, children, planItem, granted>>

-----------------------------------------------------------------------------
(* Creation of programmes, workpapers and findings *)

\* Broken variant: the stage is not looked at.
MayReceiveAlways == eng.stage \in Stages

MayReceive == eng.stage # "CLOSED"

ReadForCreation(r) ==
  /\ req[r] = Idle
  /\ MayReceive
  /\ Enter(r, [pc |-> "create"])
  /\ UNCHANGED <<eng, members, children, planItem, granted>>

CreateProgram(r) ==
  /\ req[r].pc = "create"
  /\ program = "none"
  /\ program' = "DRAFT"
  /\ Release(r)
  /\ UNCHANGED <<eng, members, papers, noted, findings, planItem, granted>>

CreateWorkpaper(r, p) ==
  /\ req[r].pc = "create"
  /\ papers[p] = "none"
  /\ papers' = [papers EXCEPT ![p] = "DRAFT"]
  /\ Release(r)
  /\ UNCHANGED <<eng, members, program, noted, findings, planItem, granted>>

CreateFinding(r, f, owned) ==
  /\ req[r].pc = "create"
  /\ findings[f].status = "none"
  /\ findings' = [findings EXCEPT ![f] = [status |-> "DRAFT", owned |-> owned]]
  /\ Release(r)
  /\ UNCHANGED <<eng, members, program, papers, noted, planItem, granted>>

-----------------------------------------------------------------------------
(* The life of the children, one step per request.  None of their handlers *)
(* looks at the stage of the engagement.                                   *)

ApproveProgram(r) ==
  /\ req[r] = Idle
  /\ program = "DRAFT"
  /\ program' = "APPROVED"
  /\ Release(r)
  /\ UNCHANGED <<eng, members, papers, noted, findings, planItem, granted>>

\* IN_REVIEW stands for the statuses between the draft and the sign-off.
PaperMoves ==
  { <<"DRAFT", "IN_REVIEW">>, <<"IN_REVIEW", "DRAFT">>,
    <<"IN_REVIEW", "SIGNED_OFF">>, <<"SIGNED_OFF", "DRAFT">> }

MoveWorkpaper(r, p, status) ==
  /\ req[r] = Idle
  /\ <<papers[p], status>> \in PaperMoves
  /\ papers' = [papers EXCEPT ![p] = status]
  /\ Release(r)
  /\ UNCHANGED <<eng, members, program, noted, findings, planItem, granted>>

\* A note is raised or reopened; the last note is cleared.
ChangeNotes(r, p) ==
  /\ req[r] = Idle
  /\ papers[p] # "none"
  /\ noted' = IF p \in noted THEN noted \ {p} ELSE noted \cup {p}
  /\ Release(r)
  /\ UNCHANGED <<eng, members, program, papers, findings, planItem, granted>>

\* AGREED stands for the statuses up to validation, SETTLED for the last ones.
FindingMoves ==
  { <<"DRAFT", "MANAGEMENT_REVIEW">>, <<"MANAGEMENT_REVIEW", "DRAFT">>,
    <<"MANAGEMENT_REVIEW", "AGREED">>, <<"MANAGEMENT_REVIEW", "SETTLED">>,
    <<"AGREED", "SETTLED">> }

MoveFinding(r, f, status) ==
  /\ req[r] = Idle
  /\ <<findings[f].status, status>> \in FindingMoves
  /\ status = "AGREED" => findings[f].owned
  /\ findings' = [findings EXCEPT ![f].status = status]
  /\ Release(r)
  /\ UNCHANGED <<eng, members, program, papers, noted, planItem, granted>>

\* An edit of the finding names an action owner or takes it away.
ChangeOwner(r, f) ==
  /\ req[r] = Idle
  /\ findings[f].status \notin {"none", "SETTLED"}
  /\ findings' = [findings EXCEPT ![f].owned = ~@]
  /\ Release(r)
  /\ UNCHANGED <<eng, members, program, papers, noted, planItem, granted>>

-----------------------------------------------------------------------------

Init ==
  /\ \E planned \in BOOLEAN, lead \in Users \cup {NoOne} :
       /\ eng = [stage |-> "PLANNING", status |-> "ACTIVE", planned |-> planned,
                 lead |-> lead, issued |-> FALSE, report |-> NoReport]
       /\ members = {lead} \ {NoOne}
  /\ program = "none"
  /\ papers = [p \in Papers |-> "none"]
  /\ noted = {}
  /\ findings = [f \in Findings |-> [status |-> "none", owned |-> FALSE]]
  /\ planItem = "IN_PROGRESS"
  /\ NoRequests
  /\ granted = {}

EngagementRequest(r) ==
  \/ \E t \in ENGAGEMENT_WORKFLOW : ReadForTransition(r, t)
  \/ CountChildren(r)
  \/ CommitTransition(r)
  \/ \E p \in Patches : ReadForUpdate(r, p)
  \/ CommitUpdate(r)
  \/ JoinTeam(r)
  \/ \E u \in Users : AddMember(r, u) \/ ReadForRemoval(r, u)
  \/ DeleteMember(r)

ChildRequest(r) ==
  \/ ReadForCreation(r)
  \/ CreateProgram(r)
  \/ ApproveProgram(r)
  \/ \E p \in Papers :
       \/ CreateWorkpaper(r, p)
       \/ ChangeNotes(r, p)
       \/ \E s \in {"DRAFT", "IN_REVIEW", "SIGNED_OFF"} : MoveWorkpaper(r, p, s)
  \/ \E f \in Findings :
       \/ \E owned \in BOOLEAN : CreateFinding(r, f, owned)
       \/ ChangeOwner(r, f)
       \/ \E s \in {"DRAFT", "MANAGEMENT_REVIEW", "AGREED", "SETTLED"} :
            MoveFinding(r, f, s)

Next == \E r \in Requests : EngagementRequest(r) \/ ChildRequest(r)

Spec == Init /\ [][Next]_vars

-----------------------------------------------------------------------------
(* Types *)

EngagementRow ==
  [stage: Stages, status: {"ACTIVE", "ON_HOLD", "COMPLETED", "CANCELLED"},
   planned: BOOLEAN, lead: Users \cup {NoOne}, issued: BOOLEAN,
   report: Reports \cup {NoReport}]

FindingRow ==
  [status: {"none", "DRAFT", "MANAGEMENT_REVIEW", "AGREED", "SETTLED"}, owned: BOOLEAN]

Actions == {t.action : t \in ENGAGEMENT_WORKFLOW}

TransitionRequest == [pc: {"count", "commit"}, move: ENGAGEMENT_WORKFLOW]
UpdateRequest == [pc: {"update"}, patch: Patches, joins: SUBSET Users]
JoinRequest == [pc: {"join"}, joins: SUBSET Users]
RemoveRequest == [pc: {"remove"}, user: Users]
CreateRequest == [pc: {"create"}]

(* Types of the engagement, its team, its children and the requests in     *)
(* progress (schema.prisma, models Engagement and EngagementMember).       *)
TypeOK ==
  /\ eng \in EngagementRow
  /\ members \subseteq Users
  /\ program \in {"none", "DRAFT", "APPROVED"}
  /\ papers \in [Papers -> {"none", "DRAFT", "IN_REVIEW", "SIGNED_OFF"}]
  /\ noted \subseteq Papers
  /\ findings \in [Findings -> FindingRow]
  /\ planItem \in {"IN_PROGRESS", "COMPLETED", "CANCELLED"}
  /\ req \in [Requests -> {Idle} \cup TransitionRequest \cup UpdateRequest
                    \cup JoinRequest \cup RemoveRequest \cup CreateRequest]
  /\ alone \in BOOLEAN
  /\ granted \subseteq Actions

-----------------------------------------------------------------------------
(* Properties that hold however requests overlap *)

\* The transitions without which no engagement gets to a stage.
PathTo(stage) ==
  CASE stage = "PLANNING" -> {}
    [] stage = "RISK_ASSESSMENT" -> {"start_risk_assessment"}
    [] stage = "PROGRAMME" -> {"start_risk_assessment", "build_programme"}
    [] stage = "FIELDWORK" ->
         {"start_risk_assessment", "build_programme", "start_fieldwork"}
    [] stage = "REVIEW" ->
         {"start_risk_assessment", "build_programme", "start_fieldwork",
          "submit_for_review"}
    [] stage = "REPORTING" ->
         {"start_risk_assessment", "build_programme", "start_fieldwork",
          "submit_for_review", "start_reporting"}
    [] stage = "FOLLOW_UP" ->
         {"start_risk_assessment", "build_programme", "start_fieldwork",
          "submit_for_review", "start_reporting", "issue_report"}
    [] stage = "CLOSED" -> {}

(* No stage is skipped: an engagement in a stage went through every gate   *)
(* before it, and a closed one was cancelled or went through all of them,  *)
(* whatever late commits did to the stage in between (transition).         *)
StagesAreEarned ==
  /\ PathTo(eng.stage) \subseteq granted
  /\ eng.stage = "CLOSED" =>
       \/ "cancel" \in granted
       \/ "close" \in granted /\ PathTo("FOLLOW_UP") \subseteq granted

(* What the gates found cannot be undone: from fieldwork on a programme is *)
(* approved, from review on there is a workpaper, and in follow-up the     *)
(* report has its date of issue (guards programme_approved and             *)
(* all_workpapers_prepared; transition, issue_report).                     *)
GatesLeaveTheirMark ==
  /\ eng.stage \in {"FIELDWORK", "REVIEW", "REPORTING", "FOLLOW_UP"} =>
       program = "APPROVED"
  /\ eng.stage \in {"REVIEW", "REPORTING", "FOLLOW_UP"} => Created(papers) # {}
  /\ eng.stage = "FOLLOW_UP" => eng.issued

-----------------------------------------------------------------------------
(* Properties of a lone request, whatever overlapping ones did before it *)

(* A lone request leaves a closed engagement closed, keeps its report and  *)
(* brings it no programme, workpaper or finding ('Closed engagements cannot*)
(* receive', 'The report of a closed engagement cannot be changed').       *)
ClosedIsFrozen ==
  [][alone' /\ eng.stage = "CLOSED" =>
       /\ eng'.stage = "CLOSED" /\ eng'.report = eng.report
       /\ program = "none" => program' = "none"
       /\ Created(papers') = Created(papers)
       /\ \A f \in Findings : (findings[f].status = "none") => (findings'[f].status = "none")]_vars

\* Users whose member row an edit in progress is about to write.
Joining == UNION {req[r].joins : r \in {s \in Requests : At(s, "join")}}

LeadOnTeam == eng.lead \in members \cup Joining \cup {NoOne}

(* A lone request never takes the lead off the team: the lead it names     *)
(* joins, and the lead there is stays (update, removeMember).              *)
LeadStaysOnTeam == [][alone' /\ LeadOnTeam => LeadOnTeam']_vars

-----------------------------------------------------------------------------
(* An expectation the code does not meet *)

(* When reporting starts every workpaper is signed off and no review note  *)
(* is open ("every workpaper must be signed off and open review notes must *)
(* be cleared", user-manual.md; guards all_workpapers_signed_off and       *)
(* no_open_review_notes).  Not so if one is unlocked, created or noted     *)
(* between the count of the guards and the write of the stage.             *)
ReportingRestsOnSignedWork ==
  [][eng.stage # "REPORTING" /\ eng'.stage = "REPORTING" =>
       noted = {} /\ \A p \in Created(papers) : papers[p] = "SIGNED_OFF"]_vars
=============================================================================
