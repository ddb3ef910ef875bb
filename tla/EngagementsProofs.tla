-------------------------- MODULE EngagementsProofs --------------------------
(***************************************************************************)
(* What survives overlapping requests to an engagement, and what a lone    *)
(* request does in the states they leave, for any number of requests,      *)
(* users, workpapers, findings and edits.                                  *)
(*                                                                         *)
(* A late commit may lead the engagement from its present stage to the     *)
(* next one of a stage it left long ago.  What never goes back is the set  *)
(* of transitions ever granted, the approval of the programme, the         *)
(* existence of a workpaper and the date of issue: the invariant ties      *)
(* every transition in progress to these four (IInv).  A lone request      *)
(* still has what it read (LInv).                                          *)
(***************************************************************************)
EXTENDS Engagements, TLAPS

Approved == program = "APPROVED"
HasPapers == Created(papers) # {}

FromFieldwork == {"FIELDWORK", "REVIEW", "REPORTING", "FOLLOW_UP"}
FromReview == {"REVIEW", "REPORTING", "FOLLOW_UP"}

\* What the gates before a stage found.
Marked(stage) ==
  /\ stage \in FromFieldwork => Approved
  /\ stage \in FromReview => HasPapers
  /\ stage = "FOLLOW_UP" => eng.issued

\* What a transition whose gates were passed may rely on.
GatesPassed(move) ==
  /\ "programme_approved" \in move.guards => Approved
  /\ "all_workpapers_prepared" \in move.guards => HasPapers

MoveIsSound(q) ==
  /\ PathTo(q.move.from) \subseteq granted
  /\ Marked(q.move.from)
  /\ q.pc = "commit" => GatesPassed(q.move)

MovesInProgress ==
  \A r \in Requests : req[r].pc \in {"count", "commit"} => MoveIsSound(req[r])

IInv ==
  /\ TypeOK
  /\ StagesAreEarned
  /\ Marked(eng.stage)
  /\ MovesInProgress

RequestRecords ==
  {Idle} \cup TransitionRequest \cup UpdateRequest \cup JoinRequest
         \cup RemoveRequest \cup CreateRequest

ChildrenTyped ==
  /\ program \in {"none", "DRAFT", "APPROVED"}
  /\ papers \in [Papers -> {"none", "DRAFT", "IN_REVIEW", "SIGNED_OFF"}]
  /\ noted \subseteq Papers
  /\ findings \in [Findings -> FindingRow]

-----------------------------------------------------------------------------
(* What the transition table says of paths and gates.                      *)
LEMMA WorkflowFacts ==
  ASSUME NEW t \in ENGAGEMENT_WORKFLOW
  PROVE  /\ t.from \in Stages /\ t.to \in Stages /\ t.action \in Actions
         /\ PathTo(t.to) \subseteq PathTo(t.from) \cup {t.action}
         /\ t.to = "CLOSED" =>
              t.action = "cancel" \/ (t.action = "close" /\ t.from = "FOLLOW_UP")
         /\ t.to \in FromFieldwork =>
              t.from \in FromFieldwork \/ "programme_approved" \in t.guards
         /\ t.to \in FromReview =>
              t.from \in FromReview \/ "all_workpapers_prepared" \in t.guards
         /\ t.to = "FOLLOW_UP" => t.action = "issue_report"
<1>1. t.action \in Actions
  BY DEF Actions
<1>2. t.from \in Stages /\ t.to \in Stages
  BY DEF ENGAGEMENT_WORKFLOW, Move, Stages
<1>3. PathTo(t.to) \subseteq PathTo(t.from) \cup {t.action}
  BY DEF ENGAGEMENT_WORKFLOW, Move, PathTo
<1>4. /\ t.to = "CLOSED" =>
           t.action = "cancel" \/ (t.action = "close" /\ t.from = "FOLLOW_UP")
      /\ t.to \in FromFieldwork =>
           t.from \in FromFieldwork \/ "programme_approved" \in t.guards
      /\ t.to \in FromReview =>
           t.from \in FromReview \/ "all_workpapers_prepared" \in t.guards
      /\ t.to = "FOLLOW_UP" => t.action = "issue_report"
  BY DEF ENGAGEMENT_WORKFLOW, Move, FromFieldwork, FromReview
<1> QED BY <1>1, <1>2, <1>3, <1>4

(* A request in progress is of the kind its program counter names.         *)
LEMMA RequestKinds ==
  ASSUME TypeOK, NEW r \in Requests
  PROVE  /\ req[r].pc \in {"count", "commit"} => req[r] \in TransitionRequest
         /\ req[r].pc = "update" => req[r] \in UpdateRequest
         /\ req[r].pc = "join" => req[r] \in JoinRequest
         /\ req[r].pc = "remove" => req[r] \in RemoveRequest
BY DEF TypeOK, Idle, TransitionRequest, UpdateRequest, JoinRequest, RemoveRequest,
       CreateRequest

LEMMA InitHolds == Init => IInv
<1> SUFFICES ASSUME Init PROVE IInv
  OBVIOUS
<1>1. PICK planned \in BOOLEAN, lead \in Users \cup {NoOne} :
        /\ eng = [stage |-> "PLANNING", status |-> "ACTIVE", planned |-> planned,
                  lead |-> lead, issued |-> FALSE, report |-> NoReport]
        /\ members = {lead} \ {NoOne}
  BY DEF Init
<1>2. eng \in EngagementRow /\ members \subseteq Users /\ eng.stage = "PLANNING"
  BY <1>1 DEF EngagementRow, Stages
<1>3. TypeOK
  BY <1>2 DEF Init, NoRequests, TypeOK, FindingRow
<1>4. StagesAreEarned /\ Marked(eng.stage)
  BY <1>2 DEF StagesAreEarned, Marked, PathTo, FromFieldwork, FromReview
<1>5. MovesInProgress
  BY DEF Init, NoRequests, Idle, MovesInProgress
<1> QED BY <1>3, <1>4, <1>5 DEF IInv

-----------------------------------------------------------------------------
(* A step that writes no stage keeps the invariant if approval, workpapers *)
(* and the date of issue survive it, and the new request is sound.         *)
LEMMA RequestStep ==
  ASSUME IInv, NEW r \in Requests, NEW q \in RequestRecords,
         Enter(r, q),
         eng' \in EngagementRow, eng'.stage = eng.stage, eng'.issued = eng.issued,
         members' \subseteq Users, ChildrenTyped',
         Approved => Approved', HasPapers => HasPapers',
         planItem' = planItem, granted' = granted,
         q.pc \in {"count", "commit"} => MoveIsSound(q)
  PROVE  IInv'
<1>1. TypeOK'
  BY DEF IInv, TypeOK, RequestRecords, ChildrenTyped, Enter
<1>2. StagesAreEarned'
  BY DEF IInv, StagesAreEarned
<1>3. Marked(eng.stage)'
  BY DEF IInv, Marked
<1>4. \A s \in Requests : req'[s] = IF s = r THEN q ELSE req[s]
  BY DEF IInv, TypeOK, Enter
<1>5. MovesInProgress'
  BY <1>4 DEF IInv, MovesInProgress, MoveIsSound, Marked, GatesPassed
<1> QED BY <1>1, <1>2, <1>3, <1>5 DEF IInv

(* The same for a step that leaves engagement and children alone.          *)
LEMMA ReadStep ==
  ASSUME IInv, NEW r \in Requests, NEW q \in RequestRecords,
         Enter(r, q),
         members' \subseteq Users,
         UNCHANGED <<eng, children, planItem, granted>>,
         q.pc \in {"count", "commit"} => MoveIsSound(q)
  PROVE  IInv'
<1>1. /\ eng' = eng /\ program' = program /\ papers' = papers /\ noted' = noted
      /\ findings' = findings /\ planItem' = planItem /\ granted' = granted
  BY DEF children
<1>2. eng \in EngagementRow /\ ChildrenTyped
  BY DEF IInv, TypeOK, ChildrenTyped
<1>3. ChildrenTyped' /\ (Approved => Approved') /\ (HasPapers => HasPapers')
  BY <1>1, <1>2 DEF ChildrenTyped, Approved, HasPapers
<1> QED BY <1>1, <1>2, <1>3, RequestStep

(* The same for a step of a child, whose request is over or never began.   *)
LEMMA ChildStep ==
  ASSUME IInv, NEW r \in Requests,
         Enter(r, Idle),
         UNCHANGED <<eng, members, planItem, granted>>,
         ChildrenTyped',
         Approved => Approved', HasPapers => HasPapers'
  PROVE  IInv'
<1>1. Idle \in RequestRecords /\ Idle.pc \notin {"count", "commit"}
  BY DEF RequestRecords, Idle
<1>2. eng \in EngagementRow /\ members \subseteq Users
  BY DEF IInv, TypeOK
<1> QED BY <1>1, <1>2, RequestStep

-----------------------------------------------------------------------------
LEMMA ReadForTransitionKeeps ==
  ASSUME IInv, NEW r \in Requests, NEW t \in ENGAGEMENT_WORKFLOW, ReadForTransition(r, t)
  PROVE  IInv'
<1> DEFINE q == [pc |-> "count", move |-> t]
<1>1. q \in TransitionRequest /\ q.pc = "count" /\ q.move = t
  BY DEF TransitionRequest
<1>2. Enter(r, q)
  BY DEF ReadForTransition
<1> HIDE DEF q
<1>3. MoveIsSound(q)
  BY <1>1 DEF MoveIsSound, IInv, StagesAreEarned, ReadForTransition, Available
<1>4. members' \subseteq Users /\ UNCHANGED <<eng, children, planItem, granted>>
  BY DEF ReadForTransition, IInv, TypeOK
<1> QED BY <1>1, <1>2, <1>3, <1>4, ReadStep DEF RequestRecords

LEMMA CountChildrenKeeps ==
  ASSUME IInv, NEW r \in Requests, CountChildren(r)
  PROVE  IInv'
<1>1. req[r] \in TransitionRequest /\ MoveIsSound(req[r])
  BY RequestKinds DEF IInv, MovesInProgress, CountChildren
<1>2. members' \subseteq Users /\ UNCHANGED <<eng, children, planItem, granted>>
  BY DEF CountChildren, IInv, TypeOK
<1>3. CASE Release(r)
  BY <1>2, <1>3, ReadStep DEF Release, Idle, RequestRecords
<1>4. CASE /\ \A g \in req[r].move.guards : CountGuard(g)
           /\ Enter(r, [req[r] EXCEPT !.pc = "commit"])
  <2> DEFINE q == [req[r] EXCEPT !.pc = "commit"]
  <2>1. q \in TransitionRequest /\ q.move = req[r].move
    BY <1>1 DEF TransitionRequest
  <2>2. Enter(r, q)
    BY <1>4
  <2> HIDE DEF q
  <2>3. CountGuard("programme_approved") => Approved
    BY DEF CountGuard, Approved
  <2>4. CountGuard("all_workpapers_prepared") => HasPapers
    BY DEF CountGuard, HasPapers
  <2>5. GatesPassed(q.move)
    BY <1>4, <2>1, <2>3, <2>4 DEF GatesPassed
  <2>6. MoveIsSound(q)
    BY <1>1, <2>1, <2>5 DEF MoveIsSound
  <2> QED BY <1>2, <2>1, <2>2, <2>6, ReadStep DEF RequestRecords
<1> QED BY <1>3, <1>4 DEF CountChildren

LEMMA CommitTransitionKeeps ==
  ASSUME IInv, NEW r \in Requests, CommitTransition(r)
  PROVE  IInv'
<1> DEFINE move == req[r].move
<1>1. /\ move \in ENGAGEMENT_WORKFLOW
      /\ PathTo(move.from) \subseteq granted /\ Marked(move.from) /\ GatesPassed(move)
  BY RequestKinds DEF IInv, MovesInProgress, MoveIsSound, CommitTransition,
                      TransitionRequest
<1>2. /\ eng' = [eng EXCEPT !.stage = move.to, !.status = StatusAfter(move.action),
                            !.issued = @ \/ move.action = "issue_report"]
      /\ planItem' = CASE move.action = "close" -> "COMPLETED"
                       [] move.action = "cancel" -> "CANCELLED"
                       [] OTHER -> planItem
      /\ granted' = granted \cup {move.action}
      /\ Enter(r, Idle)
      /\ members' = members /\ program' = program /\ papers' = papers
      /\ noted' = noted /\ findings' = findings
  BY DEF CommitTransition, Release, children
<1> HIDE DEF move
<1>3. eng \in EngagementRow /\ StatusAfter(move.action) \in
        {"ACTIVE", "ON_HOLD", "COMPLETED", "CANCELLED"}
  BY DEF IInv, TypeOK, EngagementRow, StatusAfter
<1>4. /\ eng'.stage = move.to
      /\ eng'.status = StatusAfter(move.action)
      /\ eng'.issued = (eng.issued \/ move.action = "issue_report")
      /\ eng'.planned = eng.planned /\ eng'.lead = eng.lead /\ eng'.report = eng.report
  BY <1>2, <1>3 DEF EngagementRow
<1>5. eng' \in EngagementRow
  <2>1. eng' = [stage |-> eng'.stage, status |-> eng'.status, planned |-> eng'.planned,
                lead |-> eng'.lead, issued |-> eng'.issued, report |-> eng'.report]
    BY <1>2, <1>3 DEF EngagementRow
  <2>2. eng'.issued \in BOOLEAN
    BY <1>3, <1>4 DEF EngagementRow
  <2> QED BY <1>1, <1>3, <1>4, <2>1, <2>2, WorkflowFacts DEF EngagementRow
<1>6. TypeOK'
  <2>1. planItem' \in {"IN_PROGRESS", "COMPLETED", "CANCELLED"}
    BY <1>2 DEF IInv, TypeOK
  <2>2. granted' \subseteq Actions
    BY <1>1, <1>2, WorkflowFacts DEF IInv, TypeOK
  <2> QED BY <1>2, <1>5, <2>1, <2>2 DEF IInv, TypeOK, Enter
<1>7. StagesAreEarned'
  BY <1>1, <1>2, <1>4, WorkflowFacts DEF StagesAreEarned
<1>8. Marked(eng.stage)'
  BY <1>1, <1>2, <1>4, WorkflowFacts DEF Marked, GatesPassed, Approved, HasPapers
<1>9. MovesInProgress'
  <2>1. \A s \in Requests : req'[s] = IF s = r THEN Idle ELSE req[s]
    BY <1>2 DEF IInv, TypeOK, Enter
  <2>2. eng.issued => eng'.issued
    BY <1>4
  <2> QED
    BY <1>2, <2>1, <2>2 DEF IInv, MovesInProgress, MoveIsSound, Marked, GatesPassed,
                            Approved, HasPapers, Idle
<1> QED BY <1>6, <1>7, <1>8, <1>9 DEF IInv

-----------------------------------------------------------------------------
LEMMA ReadForUpdateKeeps ==
  ASSUME IInv, NEW r \in Requests, NEW p \in Patches, ReadForUpdate(r, p)
  PROVE  IInv'
<1> DEFINE q == [pc |-> "update", patch |-> p, joins |-> Joins(p)]
<1>1. Joins(p) \subseteq Users
  <2>1. "lead" \in DOMAIN p => p["lead"] \in Editable["lead"]
    BY EngagementAssumption
  <2> QED BY <2>1 DEF Joins, Editable
<1>2. q \in UpdateRequest /\ q.pc = "update"
  BY <1>1 DEF UpdateRequest
<1>3. Enter(r, q)
  BY DEF ReadForUpdate
<1> HIDE DEF q
<1>4. members' \subseteq Users /\ UNCHANGED <<eng, children, planItem, granted>>
  BY DEF ReadForUpdate, IInv, TypeOK
<1> QED BY <1>2, <1>3, <1>4, ReadStep DEF RequestRecords

\* A PATCH reaches neither the stage nor the date of issue.
LEMMA CommitUpdateKeeps ==
  ASSUME IInv, NEW r \in Requests, CommitUpdate(r)
  PROVE  IInv'
<1> DEFINE p == req[r].patch
<1>1. req[r] \in UpdateRequest /\ p \in Patches
  BY RequestKinds DEF IInv, CommitUpdate, UpdateRequest
<1>2. /\ DOMAIN p \subseteq DOMAIN Editable
      /\ \A c \in DOMAIN p : p[c] \in Editable[c]
  BY <1>1, EngagementAssumption
<1>3. eng' = [c \in DOMAIN eng |-> IF c \in DOMAIN p THEN p[c] ELSE eng[c]]
  BY DEF CommitUpdate
<1> HIDE DEF p
<1>4. eng \in EngagementRow
  BY DEF IInv, TypeOK
<1>5. /\ DOMAIN Editable = {"planned", "lead", "status", "report"}
      /\ Editable["planned"] = BOOLEAN /\ Editable["lead"] = Users \cup {NoOne}
      /\ Editable["status"] = {"ACTIVE", "ON_HOLD"}
      /\ Editable["report"] = Reports \cup {NoReport}
  BY DEF Editable
<1>6. eng'.stage = eng.stage /\ eng'.issued = eng.issued
  BY <1>2, <1>3, <1>4, <1>5 DEF EngagementRow
<1>7. eng' \in EngagementRow
  <2>1. eng' = [stage |-> eng'.stage, status |-> eng'.status, planned |-> eng'.planned,
                lead |-> eng'.lead, issued |-> eng'.issued, report |-> eng'.report]
    BY <1>3, <1>4 DEF EngagementRow
  <2>2. eng'.planned \in BOOLEAN /\ eng'.lead \in Users \cup {NoOne}
    BY <1>2, <1>3, <1>4, <1>5 DEF EngagementRow
  <2>3. /\ eng'.status \in {"ACTIVE", "ON_HOLD", "COMPLETED", "CANCELLED"}
        /\ eng'.report \in Reports \cup {NoReport}
    BY <1>2, <1>3, <1>4, <1>5 DEF EngagementRow
  <2> QED BY <1>4, <1>6, <2>1, <2>2, <2>3 DEF EngagementRow
<1>8. \E q \in RequestRecords :
        Enter(r, q) /\ q.pc \notin {"count", "commit"}
  <2>1. CASE Release(r)
    <3>1. Idle \in RequestRecords /\ Idle.pc = "idle"
      BY DEF RequestRecords, Idle
    <3>2. Enter(r, Idle)
      BY <2>1 DEF Release
    <3> QED BY <3>1, <3>2
  <2>2. CASE Enter(r, [pc |-> "join", joins |-> req[r].joins])
    <3> DEFINE q == [pc |-> "join", joins |-> req[r].joins]
    <3>1. q \in JoinRequest /\ q.pc = "join"
      BY <1>1 DEF UpdateRequest, JoinRequest
    <3> HIDE DEF q
    <3>2. q \in RequestRecords
      BY <3>1 DEF RequestRecords
    <3>3. Enter(r, q)
      BY <2>2 DEF q
    <3> QED BY <3>1, <3>2, <3>3
  <2> QED BY <2>1, <2>2 DEF CommitUpdate
<1>9. /\ members' \subseteq Users /\ ChildrenTyped' /\ planItem' = planItem
      /\ granted' = granted /\ (Approved => Approved') /\ (HasPapers => HasPapers')
  BY DEF CommitUpdate, children, IInv, TypeOK, ChildrenTyped, Approved, HasPapers
<1> QED BY <1>6, <1>7, <1>8, <1>9, RequestStep

-----------------------------------------------------------------------------
LEMMA TeamKeeps ==
  ASSUME IInv, NEW r \in Requests, NEW u \in Users,
         JoinTeam(r) \/ AddMember(r, u) \/ ReadForRemoval(r, u) \/ DeleteMember(r)
  PROVE  IInv'
<1>1. members \subseteq Users
  BY DEF IInv, TypeOK
<1>2. Idle \in RequestRecords /\ Idle.pc = "idle"
  BY DEF RequestRecords, Idle
<1>3. CASE JoinTeam(r)
  <2>1. members' \subseteq Users
    BY <1>1, <1>3, RequestKinds DEF JoinTeam, JoinRequest, IInv
  <2> QED BY <1>2, <1>3, <2>1, ReadStep DEF JoinTeam, Release
<1>4. CASE AddMember(r, u)
  <2>1. members' \subseteq Users
    BY <1>1, <1>4 DEF AddMember
  <2>2. Enter(r, Idle)
    BY <1>4 DEF AddMember, Release
  <2> QED BY <1>2, <1>4, <2>1, <2>2, ReadStep DEF AddMember
<1>5. CASE ReadForRemoval(r, u)
  <2> DEFINE q == [pc |-> "remove", user |-> u]
  <2>1. q \in RequestRecords /\ q.pc = "remove"
    BY DEF RequestRecords, RemoveRequest
  <2>2. Enter(r, q)
    BY <1>5 DEF ReadForRemoval
  <2> HIDE DEF q
  <2> QED BY <1>1, <1>5, <2>1, <2>2, ReadStep DEF ReadForRemoval
<1>6. CASE DeleteMember(r)
  BY <1>1, <1>2, <1>6, ReadStep DEF DeleteMember, Release
<1> QED BY <1>3, <1>4, <1>5, <1>6

LEMMA ReadForCreationKeeps ==
  ASSUME IInv, NEW r \in Requests, ReadForCreation(r)
  PROVE  IInv'
<1> DEFINE q == [pc |-> "create"]
<1>1. q \in RequestRecords /\ q.pc = "create"
  BY DEF RequestRecords, CreateRequest
<1>2. Enter(r, q)
  BY DEF ReadForCreation
<1> HIDE DEF q
<1> QED BY <1>1, <1>2, ReadStep DEF ReadForCreation, IInv, TypeOK

(* No step of a child undoes an approval or removes a workpaper.           *)
LEMMA ProgramKeeps ==
  ASSUME IInv, NEW r \in Requests, CreateProgram(r) \/ ApproveProgram(r)
  PROVE  IInv'
<1>1. Enter(r, Idle)
  BY DEF CreateProgram, ApproveProgram, Release
<1>2. ChildrenTyped' /\ (Approved => Approved') /\ (HasPapers => HasPapers')
  BY DEF CreateProgram, ApproveProgram, ChildrenTyped, Approved, HasPapers, IInv, TypeOK
<1> QED BY <1>1, <1>2, ChildStep DEF CreateProgram, ApproveProgram

LEMMA WorkpaperKeeps ==
  ASSUME IInv, NEW r \in Requests, NEW p \in Papers,
         NEW s \in {"DRAFT", "IN_REVIEW", "SIGNED_OFF"},
         CreateWorkpaper(r, p) \/ ChangeNotes(r, p) \/ MoveWorkpaper(r, p, s)
  PROVE  IInv'
<1>1. Enter(r, Idle)
  BY DEF CreateWorkpaper, ChangeNotes, MoveWorkpaper, Release
<1>2. /\ ChildrenTyped' /\ (Approved => Approved')
  BY DEF CreateWorkpaper, ChangeNotes, MoveWorkpaper, ChildrenTyped, Approved, IInv, TypeOK
<1>3. HasPapers => HasPapers'
  BY DEF CreateWorkpaper, ChangeNotes, MoveWorkpaper, HasPapers, Created, IInv, TypeOK
<1> QED BY <1>1, <1>2, <1>3, ChildStep DEF CreateWorkpaper, ChangeNotes, MoveWorkpaper

LEMMA FindingKeeps ==
  ASSUME IInv, NEW r \in Requests, NEW f \in Findings, NEW owned \in BOOLEAN,
         NEW s \in {"DRAFT", "MANAGEMENT_REVIEW", "AGREED", "SETTLED"},
         CreateFinding(r, f, owned) \/ ChangeOwner(r, f) \/ MoveFinding(r, f, s)
  PROVE  IInv'
<1>1. Enter(r, Idle)
  BY DEF CreateFinding, ChangeOwner, MoveFinding, Release
<1>2. findings' \in [Findings -> FindingRow]
  <2>1. findings \in [Findings -> FindingRow]
    BY DEF IInv, TypeOK
  <2>2. CASE CreateFinding(r, f, owned)
    BY <2>1, <2>2 DEF CreateFinding, FindingRow
  <2>3. CASE ChangeOwner(r, f)
    BY <2>1, <2>3 DEF ChangeOwner, FindingRow
  <2>4. CASE MoveFinding(r, f, s)
    BY <2>1, <2>4 DEF MoveFinding, FindingRow
  <2> QED BY <2>2, <2>3, <2>4
<1>3. ChildrenTyped' /\ (Approved => Approved') /\ (HasPapers => HasPapers')
  BY <1>2 DEF CreateFinding, ChangeOwner, MoveFinding, ChildrenTyped, Approved,
              HasPapers, IInv, TypeOK
<1> QED BY <1>1, <1>3, ChildStep DEF CreateFinding, ChangeOwner, MoveFinding

-----------------------------------------------------------------------------
LEMMA NextKeeps == IInv /\ [Next]_vars => IInv'
<1> SUFFICES ASSUME IInv, [Next]_vars PROVE IInv'
  OBVIOUS
<1>1. CASE UNCHANGED vars
  BY <1>1 DEF vars, children, IInv, TypeOK, StagesAreEarned, Marked, Approved,
              HasPapers, MovesInProgress, MoveIsSound, GatesPassed
<1>2. ASSUME NEW r \in Requests, EngagementRequest(r)
      PROVE  IInv'
  <2>1. ASSUME NEW t \in ENGAGEMENT_WORKFLOW, ReadForTransition(r, t) PROVE IInv'
    BY <2>1, ReadForTransitionKeeps
  <2>2. CASE CountChildren(r)
    BY <2>2, CountChildrenKeeps
  <2>3. CASE CommitTransition(r)
    BY <2>3, CommitTransitionKeeps
  <2>4. ASSUME NEW p \in Patches, ReadForUpdate(r, p) PROVE IInv'
    BY <2>4, ReadForUpdateKeeps
  <2>5. CASE CommitUpdate(r)
    BY <2>5, CommitUpdateKeeps
  <2>6. CASE JoinTeam(r)
    <3>1. CASE req[r].joins = {}
      BY <2>6, <3>1, ReadStep DEF JoinTeam, Release, RequestRecords, Idle, IInv, TypeOK
    <3>2. CASE req[r].joins # {}
      <4>1. PICK u \in req[r].joins : u \in Users
        BY <2>6, <3>2, RequestKinds DEF JoinTeam, JoinRequest, IInv
      <4> QED BY <2>6, <4>1, TeamKeeps
    <3> QED BY <3>1, <3>2
  <2>7. ASSUME NEW u \in Users, AddMember(r, u) \/ ReadForRemoval(r, u) PROVE IInv'
    BY <2>7, TeamKeeps
  <2>8. CASE DeleteMember(r)
    <3>1. req[r].user \in Users
      BY <2>8, RequestKinds DEF DeleteMember, RemoveRequest, IInv
    <3> QED BY <2>8, <3>1, TeamKeeps
  <2> QED
    BY <1>2, <2>1, <2>2, <2>3, <2>4, <2>5, <2>6, <2>7, <2>8 DEF EngagementRequest
<1>3. ASSUME NEW r \in Requests, ChildRequest(r)
      PROVE  IInv'
  <2>1. CASE ReadForCreation(r)
    BY <2>1, ReadForCreationKeeps
  <2>2. CASE CreateProgram(r) \/ ApproveProgram(r)
    BY <2>2, ProgramKeeps
  <2>3. ASSUME NEW p \in Papers, NEW s \in {"DRAFT", "IN_REVIEW", "SIGNED_OFF"},
               CreateWorkpaper(r, p) \/ ChangeNotes(r, p) \/ MoveWorkpaper(r, p, s)
        PROVE  IInv'
    BY <2>3, WorkpaperKeeps
  <2>4. ASSUME NEW f \in Findings, NEW owned \in BOOLEAN,
               NEW s \in {"DRAFT", "MANAGEMENT_REVIEW", "AGREED", "SETTLED"},
               CreateFinding(r, f, owned) \/ ChangeOwner(r, f) \/ MoveFinding(r, f, s)
        PROVE  IInv'
    BY <2>4, FindingKeeps
  <2> QED BY <1>3, <2>1, <2>2, <2>3, <2>4 DEF ChildRequest
<1> QED BY <1>1, <1>2, <1>3 DEF Next

(* The invariant of every interleaving of the parent's handlers and the    *)
(* steps of the children.                                                  *)
THEOREM InductiveInvariant == Spec => []IInv
<1> QED BY InitHolds, NextKeeps, PTL DEF Spec

(* Type correctness of the engagement, its team, its children and the      *)
(* requests in progress (models Engagement and EngagementMember).          *)
THEOREM TypeCorrect == Spec => []TypeOK
<1>1. IInv => TypeOK
  BY DEF IInv
<1> QED BY <1>1, InductiveInvariant, PTL

(* No interleaving of transitions skips a gate (transition).               *)
THEOREM StagesHold == Spec => []StagesAreEarned
<1>1. IInv => StagesAreEarned
  BY DEF IInv
<1> QED BY <1>1, InductiveInvariant, PTL

(* What the gates found outlives every interleaving (guards                *)
(* programme_approved and all_workpapers_prepared; issue_report).          *)
THEOREM MarksHold == Spec => []GatesLeaveTheirMark
<1>1. IInv => GatesLeaveTheirMark
  BY DEF IInv, GatesLeaveTheirMark, Marked, FromFieldwork, FromReview, Approved, HasPapers
<1> QED BY <1>1, InductiveInvariant, PTL

-----------------------------------------------------------------------------
(* A lone request                                                          *)
(*                                                                         *)
(* The stage and the lead are still as a request found them when it        *)
(* commits, if no other was beside it.                                     *)

\* The stage is the one read.
MoveIsCurrent(q) == q.move.from = eng.stage

RequestIsCurrent(q) ==
  /\ q.pc \in {"count", "commit"} => MoveIsCurrent(q)
  /\ q.pc = "update" => MayEdit(q.patch) /\ q.joins = Joins(q.patch)
  /\ q.pc = "remove" => MayRemove(q.user)
  /\ q.pc = "create" => MayReceive

LoneRequestIsCurrent == alone => \A r \in Requests : RequestIsCurrent(req[r])

LInv == IInv /\ LoneRequestIsCurrent

\* Members a request is about to add.
Awaited(q) == IF q.pc = "join" THEN q.joins ELSE {}

\* What is shown of every step.
LoneGoal == LoneRequestIsCurrent' /\ (alone' /\ LeadOnTeam => LeadOnTeam')

(* No move of the table leaves the closed stage.                           *)
LEMMA MoveFacts ==
  ASSUME NEW t \in ENGAGEMENT_WORKFLOW
  PROVE  t.from # "CLOSED"
BY DEF ENGAGEMENT_WORKFLOW, Move

(* What a transition makes of the engagement.                              *)
LEMMA CommittedEngagement ==
  ASSUME TypeOK, NEW r \in Requests, CommitTransition(r)
  PROVE  /\ req[r].move \in ENGAGEMENT_WORKFLOW /\ eng'.stage = req[r].move.to
         /\ eng'.lead = eng.lead /\ eng'.report = eng.report
BY RequestKinds DEF CommitTransition, TransitionRequest, TypeOK, EngagementRow

(* What an edit makes of it.                                               *)
LEMMA UpdatedEngagement ==
  ASSUME TypeOK, NEW r \in Requests, CommitUpdate(r)
  PROVE  LET p == req[r].patch
         IN /\ p \in Patches /\ eng'.stage = eng.stage
            /\ eng'.lead = IF "lead" \in DOMAIN p THEN p["lead"] ELSE eng.lead
            /\ "report" \notin DOMAIN p => eng'.report = eng.report
<1> DEFINE p == req[r].patch
<1>1. p \in Patches
  BY RequestKinds DEF CommitUpdate, UpdateRequest
<1>2. DOMAIN p \subseteq {"planned", "lead", "status", "report"}
  BY <1>1, EngagementAssumption DEF Editable
<1>3. eng' = [c \in DOMAIN eng |-> IF c \in DOMAIN p THEN p[c] ELSE eng[c]]
  BY DEF CommitUpdate
<1> HIDE DEF p
<1>4. eng \in EngagementRow
  BY DEF TypeOK
<1>5. /\ eng'.stage = eng.stage
      /\ eng'.lead = IF "lead" \in DOMAIN p THEN p["lead"] ELSE eng.lead
      /\ "report" \notin DOMAIN p => eng'.report = eng.report
  BY <1>2, <1>3, <1>4 DEF EngagementRow
<1> QED BY <1>1, <1>5 DEF p

(* The request of a lone step is the only one, and was alone before.       *)
LEMMA OnlyRequest ==
  ASSUME TypeOK, NEW r \in Requests, NEW q, Enter(r, q), alone'
  PROVE  /\ \A s \in Requests : req'[s] = IF s = r THEN q ELSE Idle
         /\ \A s \in Requests : s # r => req[s] = Idle
         /\ req[r].pc # "idle" => alone
<1>1. /\ \A s \in Others(r) : req[s] = Idle
      /\ alone \/ req[r] = Idle
  BY Zenon DEF Enter
<1>2. req' = [req EXCEPT ![r] = q]
  BY DEF Enter
<1> QED BY <1>1, <1>2 DEF Others, Idle, TypeOK

(* A request in progress that moves on alone still has what it read.       *)
LEMMA LoneCurrent ==
  ASSUME LInv, NEW r \in Requests, NEW q, Enter(r, q), alone', req[r].pc # "idle"
  PROVE  RequestIsCurrent(req[r])
BY OnlyRequest DEF LInv, IInv, LoneRequestIsCurrent

(* The members a lone request is about to add are all that are.            *)
LEMMA LoneJoining ==
  ASSUME TypeOK, NEW r \in Requests, NEW q, Enter(r, q), alone'
  PROVE  Joining = Awaited(req[r]) /\ Joining' = Awaited(q)
<1>1. \A s \in Requests : /\ s # r => req[s].pc # "join"
                          /\ s # r => req'[s].pc # "join"
                          /\ s = r => req'[s] = q
  BY OnlyRequest DEF Idle
<1>2. Joining = Awaited(req[r])
  <2>1. CASE req[r].pc = "join"
    <3>1. {s \in Requests : At(s, "join")} = {r}
      BY <1>1, <2>1 DEF At
    <3> QED BY <2>1, <3>1 DEF Joining, Awaited
  <2>2. CASE req[r].pc # "join"
    <3>1. {s \in Requests : At(s, "join")} = {}
      BY <1>1, <2>2 DEF At
    <3> QED BY <2>2, <3>1 DEF Joining, Awaited
  <2> QED BY <2>1, <2>2
<1>3. Joining' = Awaited(q)
  <2>1. Joining' = UNION {req'[s].joins : s \in {t \in Requests : req'[t].pc = "join"}}
    BY DEF Joining, At
  <2>2. CASE q.pc = "join"
    <3>1. {t \in Requests : req'[t].pc = "join"} = {r}
      BY <1>1, <2>2
    <3>2. req'[r].joins = q.joins
      BY <1>1
    <3> QED BY <2>1, <2>2, <3>1, <3>2 DEF Awaited
  <2>3. CASE q.pc # "join"
    <3>1. {t \in Requests : req'[t].pc = "join"} = {}
      BY <1>1, <2>3
    <3> QED BY <2>1, <2>3, <3>1 DEF Awaited
  <2> QED BY <2>2, <2>3
<1> QED BY <1>2, <1>3

(* A step keeps what is shown of every step if the request it makes is     *)
(* current and the lead, if it was placed, still is.                       *)
LEMMA LoneStep ==
  ASSUME LInv, NEW r \in Requests, NEW q, Enter(r, q),
         \/ q.pc \in {"idle", "join"}
         \/ (alone' => RequestIsCurrent(q)) /\ eng' = eng,
         alone' /\ eng.lead \in members \cup {NoOne} \cup Awaited(req[r]) =>
           eng'.lead \in members' \cup {NoOne} \cup Awaited(q)
  PROVE  LoneGoal
<1>0. TypeOK
  BY DEF LInv, IInv
<1>1. ASSUME alone', NEW s \in Requests PROVE RequestIsCurrent(req[s])'
  <2>1. req'[s] = IF s = r THEN q ELSE Idle
    BY <1>0, <1>1, OnlyRequest
  <2>2. CASE req'[s].pc \in {"idle", "join"}
    BY <2>2 DEF RequestIsCurrent
  <2>3. CASE s = r /\ RequestIsCurrent(q) /\ eng' = eng
    <3>1. RequestIsCurrent(q) => /\ q.pc \in {"count", "commit"} =>
                                      q.move.from = eng'.stage
                                 /\ q.pc = "update" =>
                                      MayEdit(q.patch)' /\ q.joins = Joins(q.patch)'
                                 /\ q.pc = "remove" => MayRemove(q.user)'
                                 /\ q.pc = "create" => MayReceive'
      BY <2>3 DEF RequestIsCurrent, MoveIsCurrent, MayEdit, Joins, MayRemove, MayReceive
    <3> QED BY <2>1, <2>3, <3>1 DEF RequestIsCurrent, MoveIsCurrent
  <2> QED BY <1>1, <2>1, <2>2, <2>3 DEF Idle
<1>2. LoneRequestIsCurrent'
  BY <1>1 DEF LoneRequestIsCurrent
<1>3. ASSUME alone', LeadOnTeam PROVE LeadOnTeam'
  <2>1. Joining = Awaited(req[r]) /\ Joining' = Awaited(q)
    BY <1>0, <1>3, LoneJoining
  <2>2. eng.lead \in members \cup {NoOne} \cup Awaited(req[r])
    BY <1>3, <2>1 DEF LeadOnTeam
  <2>3. eng'.lead \in members' \cup {NoOne} \cup Awaited(q)
    BY <1>3, <2>2
  <2> QED BY <2>1, <2>3 DEF LeadOnTeam
<1> QED BY <1>2, <1>3 DEF LoneGoal

(* A new engagement has no request in progress.                            *)
LEMMA LoneInit == Init => LInv
<1> SUFFICES ASSUME Init PROVE LInv
  OBVIOUS
<1>1. LoneRequestIsCurrent
  BY DEF Init, NoRequests, LoneRequestIsCurrent
<1> QED BY <1>1, InitHolds DEF LInv

(* Transitions move no lead.                                               *)
LEMMA LoneTransition ==
  ASSUME LInv, NEW r \in Requests,
         \/ \E t \in ENGAGEMENT_WORKFLOW : ReadForTransition(r, t)
         \/ CountChildren(r) \/ CommitTransition(r)
  PROVE  LoneGoal
<1>0. TypeOK /\ Idle.pc = "idle" /\ (req[r].pc # "join" => Awaited(req[r]) = {})
  BY DEF LInv, IInv, Idle, Awaited
<1>1. ASSUME NEW t \in ENGAGEMENT_WORKFLOW, ReadForTransition(r, t)
      PROVE  LoneGoal
  <2> DEFINE q == [pc |-> "count", move |-> t]
  <2>1. Enter(r, q) /\ eng' = eng /\ members' = members /\ req[r].pc # "join"
    BY <1>0, <1>1 DEF ReadForTransition
  <2>2. RequestIsCurrent(q)
    BY <1>1 DEF ReadForTransition, Available, RequestIsCurrent, MoveIsCurrent
  <2> HIDE DEF q
  <2> QED BY <1>0, <2>1, <2>2, LoneStep
<1>2. CASE CountChildren(r)
  <2>1. /\ eng' = eng /\ members' = members
        /\ req[r].pc = "count" /\ req[r] \in TransitionRequest
    BY <1>0, <1>2, RequestKinds DEF CountChildren
  <2>2. CASE Release(r)
    BY <1>0, <2>1, <2>2, LoneStep DEF Release
  <2>3. CASE Enter(r, [req[r] EXCEPT !.pc = "commit"])
    <3> DEFINE q == [req[r] EXCEPT !.pc = "commit"]
    <3>1. Enter(r, q)
      BY <2>3
    <3>2. q.pc = "commit" /\ q.move = req[r].move
      BY <2>1 DEF TransitionRequest
    <3> HIDE DEF q
    <3>3. ASSUME alone' PROVE RequestIsCurrent(q)
      <4>1. RequestIsCurrent(req[r])
        BY <2>1, <3>1, <3>3, LoneCurrent
      <4> QED BY <2>1, <3>2, <4>1 DEF RequestIsCurrent, MoveIsCurrent
    <3> QED BY <1>0, <2>1, <3>1, <3>3, LoneStep
  <2> QED BY <1>2, <2>2, <2>3 DEF CountChildren
<1>3. CASE CommitTransition(r)
  <2>1. eng'.lead = eng.lead /\ members' = members /\ req[r].pc = "commit"
    BY <1>0, <1>3, CommittedEngagement DEF CommitTransition
  <2> QED BY <1>0, <1>3, <2>1, LoneStep DEF CommitTransition, Release
<1> QED BY <1>1, <1>2, <1>3

(* An edit that brings a new lead goes on to the upsert of the member row. *)
LEMMA LoneUpdate ==
  ASSUME LInv, NEW r \in Requests,
         \/ \E p \in Patches : ReadForUpdate(r, p)
         \/ CommitUpdate(r)
  PROVE  LoneGoal
<1>0. TypeOK /\ Idle.pc = "idle" /\ (req[r].pc # "join" => Awaited(req[r]) = {})
  BY DEF LInv, IInv, Idle, Awaited
<1>1. ASSUME NEW p \in Patches, ReadForUpdate(r, p)
      PROVE  LoneGoal
  <2> DEFINE q == [pc |-> "update", patch |-> p, joins |-> Joins(p)]
  <2>1. Enter(r, q) /\ eng' = eng /\ members' = members /\ req[r].pc # "join"
    BY <1>0, <1>1 DEF ReadForUpdate
  <2>2. RequestIsCurrent(q)
    BY <1>1 DEF ReadForUpdate, RequestIsCurrent
  <2> HIDE DEF q
  <2> QED BY <1>0, <2>1, <2>2, LoneStep
<1>2. CASE CommitUpdate(r)
  <2> DEFINE p == req[r].patch
             joins == req[r].joins
  <2>1. /\ eng'.lead = IF "lead" \in DOMAIN p THEN p["lead"] ELSE eng.lead
        /\ members' = members /\ req[r].pc = "update"
    BY <1>0, <1>2, UpdatedEngagement DEF CommitUpdate
  <2>2. ASSUME alone', NEW q, Enter(r, q), eng.lead \in members \cup {NoOne}
        PROVE  eng'.lead \in members' \cup {NoOne} \cup joins
    <3>1. RequestIsCurrent(req[r])
      BY <2>1, <2>2, LoneCurrent
    <3>2. joins = Joins(p)
      BY <2>1, <3>1 DEF RequestIsCurrent
    <3> QED BY <2>1, <2>2, <3>2 DEF Joins
  <2>3. CASE joins = {}
    <3>1. Enter(r, Idle)
      BY <1>2, <2>3 DEF CommitUpdate, Release
    <3> QED BY <1>0, <2>1, <2>2, <2>3, <3>1, LoneStep
  <2>4. CASE joins # {}
    <3> DEFINE q == [pc |-> "join", joins |-> joins]
    <3>1. Enter(r, q) /\ q.pc = "join" /\ Awaited(q) = joins
      BY <1>2, <2>4 DEF CommitUpdate, Awaited
    <3> HIDE DEF q
    <3> QED BY <1>0, <2>1, <2>2, <3>1, LoneStep
  <2> QED BY <2>3, <2>4
<1> QED BY <1>1, <1>2

(* The lead is not removed: it is still the lead that was read.            *)
LEMMA LoneTeam ==
  ASSUME LInv, NEW r \in Requests,
         \/ \E u \in Users : AddMember(r, u) \/ ReadForRemoval(r, u)
         \/ JoinTeam(r) \/ DeleteMember(r)
  PROVE  LoneGoal
<1>0. TypeOK /\ Idle.pc = "idle" /\ (req[r].pc # "join" => Awaited(req[r]) = {})
  BY DEF LInv, IInv, Idle, Awaited
<1>1. ASSUME NEW u \in Users, AddMember(r, u)
      PROVE  LoneGoal
  BY <1>0, <1>1, LoneStep DEF AddMember, Release
<1>2. ASSUME NEW u \in Users, ReadForRemoval(r, u)
      PROVE  LoneGoal
  <2> DEFINE q == [pc |-> "remove", user |-> u]
  <2>1. Enter(r, q) /\ eng' = eng /\ members' = members /\ req[r].pc # "join"
    BY <1>0, <1>2 DEF ReadForRemoval
  <2>2. RequestIsCurrent(q)
    BY <1>2 DEF ReadForRemoval, RequestIsCurrent
  <2> HIDE DEF q
  <2> QED BY <1>0, <2>1, <2>2, LoneStep
<1>3. CASE JoinTeam(r)
  <2>1. members' = members \cup Awaited(req[r]) /\ eng' = eng
    BY <1>3 DEF JoinTeam, Awaited
  <2> QED BY <1>0, <1>3, <2>1, LoneStep DEF JoinTeam, Release
<1>4. CASE DeleteMember(r)
  <2>1. Enter(r, Idle) /\ eng' = eng /\ members' = members \ {req[r].user} /\ req[r].pc = "remove"
    BY <1>4 DEF DeleteMember, Release
  <2>2. ASSUME alone' PROVE eng.lead # req[r].user
    <3>1. RequestIsCurrent(req[r])
      BY <2>1, <2>2, LoneCurrent
    <3> QED BY <2>1, <3>1 DEF RequestIsCurrent, MayRemove
  <2> QED BY <1>0, <2>1, <2>2, LoneStep
<1> QED BY <1>1, <1>2, <1>3, <1>4

(* Requests to the children leave engagement and team alone.               *)
LEMMA ChildFrame ==
  ASSUME NEW r \in Requests, ChildRequest(r)
  PROVE  /\ eng' = eng /\ members' = members /\ req[r].pc \in {"idle", "create"}
         /\ ReadForCreation(r) \/ Enter(r, Idle)
<1> DEFINE Goal == /\ eng' = eng /\ members' = members /\ req[r].pc \in {"idle", "create"}
                   /\ ReadForCreation(r) \/ Enter(r, Idle)
<1> USE DEF Idle
<1>1. CASE ReadForCreation(r) \/ CreateProgram(r) \/ ApproveProgram(r)
  BY <1>1 DEF ReadForCreation, CreateProgram, ApproveProgram, Release
<1>2. ASSUME NEW p \in Papers, NEW s,
             CreateWorkpaper(r, p) \/ ChangeNotes(r, p) \/ MoveWorkpaper(r, p, s)
      PROVE  Goal
  BY <1>2 DEF CreateWorkpaper, ChangeNotes, MoveWorkpaper, Release
<1>3. ASSUME NEW f \in Findings, NEW x,
             CreateFinding(r, f, x) \/ ChangeOwner(r, f) \/ MoveFinding(r, f, x)
      PROVE  Goal
  BY <1>3 DEF CreateFinding, ChangeOwner, MoveFinding, Release
<1> QED BY <1>1, <1>2, <1>3 DEF ChildRequest

(* So they do not touch what is shown of the team.                         *)
LEMMA LoneChild ==
  ASSUME LInv, NEW r \in Requests, ChildRequest(r)
  PROVE  LoneGoal
<1>1. /\ eng' = eng /\ members' = members /\ req[r].pc # "join"
      /\ ReadForCreation(r) \/ Enter(r, Idle)
  BY ChildFrame
<1>2. Awaited(req[r]) = {} /\ Idle.pc = "idle"
  BY <1>1 DEF Awaited, Idle
<1>3. CASE ReadForCreation(r)
  <2> DEFINE q == [pc |-> "create"]
  <2>1. Enter(r, q) /\ RequestIsCurrent(q)
    BY <1>3 DEF ReadForCreation, RequestIsCurrent
  <2> HIDE DEF q
  <2> QED BY <1>1, <1>2, <2>1, LoneStep
<1>4. CASE Enter(r, Idle)
  BY <1>1, <1>2, <1>4, LoneStep
<1> QED BY <1>1, <1>3, <1>4

(* Every step keeps what a lone request relies on, and a lone one the lead.*)
LEMMA LoneNext == LInv /\ [Next]_vars => LInv' /\ (alone' /\ LeadOnTeam => LeadOnTeam')
<1> SUFFICES ASSUME LInv, [Next]_vars PROVE LoneGoal
  BY NextKeeps DEF LInv, LoneGoal
<1>1. ASSUME NEW r \in Requests, EngagementRequest(r)
      PROVE  LoneGoal
  BY <1>1, LoneTransition, LoneUpdate, LoneTeam DEF EngagementRequest
<1>2. ASSUME NEW r \in Requests, ChildRequest(r)
      PROVE  LoneGoal
  BY <1>2, LoneChild
<1>3. CASE UNCHANGED vars
  <2>1. eng' = eng /\ members' = members /\ req' = req /\ alone' = alone
    BY <1>3 DEF vars
  <2>2. LoneRequestIsCurrent'
    BY <2>1 DEF LInv, LoneRequestIsCurrent, RequestIsCurrent,
             MoveIsCurrent, MayEdit, Joins, MayRemove, MayReceive
  <2>3. LeadOnTeam => LeadOnTeam'
    BY <2>1 DEF LeadOnTeam, Joining, At
  <2> QED BY <2>2, <2>3 DEF LoneGoal
<1> QED BY <1>1, <1>2, <1>3 DEF Next

LEMMA LoneInvariant == Spec => []LInv
<1>1. LInv /\ [Next]_vars => LInv'
  BY LoneNext
<1> QED BY <1>1, LoneInit, PTL DEF Spec

(* A request with no other beside it never takes the lead off the team,    *)
(* whatever overlapping requests left behind (update, removeMember).       *)
THEOREM LeadOnTeamHolds == Spec => LeadStaysOnTeam
<1>1. LInv /\ [Next]_vars => [alone' /\ LeadOnTeam => LeadOnTeam']_vars
  BY LoneNext
<1> QED BY <1>1, LoneInvariant, PTL DEF Spec, LeadStaysOnTeam

-----------------------------------------------------------------------------
(* What a lone request may do to a closed engagement                       *)

Frozen ==
  /\ eng'.stage = "CLOSED" /\ eng'.report = eng.report
  /\ program = "none" => program' = "none"
  /\ Created(papers') = Created(papers)
  /\ \A f \in Findings : (findings[f].status = "none") => (findings'[f].status = "none")

(* The engagement's own handlers leave the children alone.                 *)
LEMMA EngagementFrame ==
  ASSUME NEW r \in Requests, EngagementRequest(r)
  PROVE  /\ program' = program /\ papers' = papers /\ findings' = findings
         /\ eng' = eng \/ CommitTransition(r) \/ CommitUpdate(r)
<1>1. ASSUME NEW x,
             \/ ReadForTransition(r, x) \/ ReadForUpdate(r, x)
             \/ AddMember(r, x) \/ ReadForRemoval(r, x)
      PROVE  UNCHANGED <<eng, children>>
  BY <1>1 DEF ReadForTransition, ReadForUpdate, AddMember, ReadForRemoval
<1>2. CASE CountChildren(r) \/ JoinTeam(r) \/ DeleteMember(r)
  BY <1>2 DEF CountChildren, JoinTeam, DeleteMember, children
<1>3. CASE CommitTransition(r) \/ CommitUpdate(r)
  BY <1>3 DEF CommitTransition, CommitUpdate, children
<1> QED BY <1>1, <1>2, <1>3 DEF EngagementRequest, children

(* A child is created only for a request that found the engagement open.   *)
LEMMA NothingCreatedWhenClosed ==
  ASSUME LInv, NEW r \in Requests, ChildRequest(r), eng.stage = "CLOSED", alone'
  PROVE  Frozen
<1>0. TypeOK
  BY DEF LInv, IInv
<1>1. ~ReadForCreation(r) => req[r].pc # "create"
  <2>1. ASSUME ~ReadForCreation(r), req[r].pc = "create" PROVE FALSE
    <3>1. RequestIsCurrent(req[r])
      BY <2>1, ChildFrame, LoneCurrent
    <3> QED BY <2>1, <3>1 DEF RequestIsCurrent, MayReceive
  <2> QED BY <2>1
<1>2. eng'.stage = "CLOSED" /\ eng'.report = eng.report
  BY ChildFrame
<1>3. CASE ReadForCreation(r)
  BY <1>2, <1>3 DEF ReadForCreation, children, Frozen
<1>4. ASSUME ~ReadForCreation(r), CreateProgram(r) \/ ApproveProgram(r) PROVE Frozen
  BY <1>1, <1>2, <1>4 DEF CreateProgram, ApproveProgram, Frozen
<1>5. ASSUME ~ReadForCreation(r), NEW p \in Papers,
             NEW s \in {"DRAFT", "IN_REVIEW", "SIGNED_OFF"},
             CreateWorkpaper(r, p) \/ ChangeNotes(r, p) \/ MoveWorkpaper(r, p, s)
      PROVE  Frozen
  <2>1. program' = program /\ findings' = findings
    BY <1>5 DEF CreateWorkpaper, ChangeNotes, MoveWorkpaper
  <2>2. Created(papers') = Created(papers)
    BY <1>0, <1>1, <1>5 DEF CreateWorkpaper, ChangeNotes, MoveWorkpaper, PaperMoves,
                            Created, TypeOK
  <2> QED BY <1>2, <2>1, <2>2 DEF Frozen
<1>6. ASSUME ~ReadForCreation(r), NEW f \in Findings, NEW x,
             CreateFinding(r, f, x) \/ ChangeOwner(r, f) \/ MoveFinding(r, f, x)
      PROVE  Frozen
  <2>1. program' = program /\ papers' = papers
    BY <1>6 DEF CreateFinding, ChangeOwner, MoveFinding
  <2>2. \A g \in Findings : findings[g].status = "none" => findings'[g].status = "none"
    BY <1>0, <1>1, <1>6 DEF CreateFinding, ChangeOwner, MoveFinding, FindingMoves,
                            FindingRow, TypeOK
  <2> QED BY <1>2, <2>1, <2>2 DEF Frozen
<1> QED BY <1>3, <1>4, <1>5, <1>6 DEF ChildRequest

(* No lone transition leaves the closed stage, and no lone edit reaches its*)
(* report.                                                                 *)
LEMMA ClosedStep ==
  ASSUME LInv, [Next]_vars, eng.stage = "CLOSED", alone'
  PROVE  Frozen
<1>0. TypeOK
  BY DEF LInv, IInv
<1>1. CASE UNCHANGED vars
  BY <1>1 DEF vars, children, Frozen
<1>2. ASSUME NEW r \in Requests, EngagementRequest(r)
      PROVE  Frozen
  <2>1. ~CommitTransition(r)
    <3>1. ASSUME CommitTransition(r) PROVE FALSE
      <4>1. RequestIsCurrent(req[r])
        BY <3>1, LoneCurrent DEF CommitTransition, Release
      <4> QED BY <1>0, <3>1, <4>1, CommittedEngagement, MoveFacts
                 DEF CommitTransition, RequestIsCurrent, MoveIsCurrent
    <3> QED BY <3>1
  <2>2. ASSUME CommitUpdate(r)
        PROVE  eng'.stage = "CLOSED" /\ eng'.report = eng.report
    <3>1. RequestIsCurrent(req[r])
      BY <2>2, LoneCurrent DEF CommitUpdate, Release
    <3> QED BY <1>0, <2>2, <3>1, UpdatedEngagement
               DEF CommitUpdate, RequestIsCurrent, MayEdit
  <2> QED BY <1>2, <2>1, <2>2, EngagementFrame DEF Frozen
<1>3. ASSUME NEW r \in Requests, ChildRequest(r)
      PROVE  Frozen
  BY <1>3, NothingCreatedWhenClosed
<1> QED BY <1>1, <1>2, <1>3 DEF Next

(* A lone request leaves a closed engagement closed, keeps its report and  *)
(* brings it nothing, whatever overlapping requests left behind ('Closed   *)
(* engagements cannot receive').                                           *)
THEOREM ClosedHolds == Spec => ClosedIsFrozen
<1>1. LInv /\ [Next]_vars =>
        [alone' /\ eng.stage = "CLOSED" =>
           /\ eng'.stage = "CLOSED" /\ eng'.report = eng.report
           /\ program = "none" => program' = "none"
           /\ Created(papers') = Created(papers)
           /\ \A f \in Findings :
                (findings[f].status = "none") => (findings'[f].status = "none")]_vars
  BY ClosedStep DEF Frozen
<1> QED BY <1>1, LoneInvariant, PTL DEF Spec, ClosedIsFrozen
=============================================================================
