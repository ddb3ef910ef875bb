------------------------------- MODULE Plans -------------------------------
(***************************************************************************)
(* An audit plan, its items, and the engagements started from them.  The   *)
(* item holds the link to its engagement.  A closed or cancelled           *)
(* engagement writes its end back to its item.                             *)
(***************************************************************************)
EXTENDS Handlers

CONSTANTS
  Items,        \* ids of plan items
  Audits,       \* ids of engagements
  NoOne         \* null

VARIABLES
  plan,         \* status of the AuditPlan row, and whether it has an approver
  items,        \* AuditPlanItem rows: status and engagement
  audits        \* Engagement rows made here: "none", "live", or their end

local == <<plan, items, audits>>
vars == <<req, alone, plan, items, audits>>

NoItem == [status |-> "none", audit |-> NoOne]
Rows == {i \in Items : items[i] # NoItem}

\* DEFERRED decides nothing that PLANNED does not.
ItemStatuses == {"PROPOSED", "PLANNED", "IN_PROGRESS", "COMPLETED", "CANCELLED"}

Begin(r, state) ==
  /\ req[r] = Idle
  /\ Enter(r, state)
  /\ UNCHANGED local

-----------------------------------------------------------------------------
(* transition *)

Move(from, action, to) == [from |-> from, action |-> action, to |-> to]

\* The permissions are left out: every move is somebody's.
PLAN_WORKFLOW ==
  { Move("DRAFT", "submit", "PENDING_APPROVAL"),
    Move("PENDING_APPROVAL", "return", "DRAFT"),
    Move("PENDING_APPROVAL", "approve", "APPROVED"),
    Move("APPROVED", "activate", "ACTIVE"),
    Move("APPROVED", "reopen", "DRAFT"),
    Move("ACTIVE", "archive", "ARCHIVED") }

HasItems == \E i \in Rows : items[i].status # "CANCELLED"

ReadForTransition(r) ==
  \E t \in PLAN_WORKFLOW :
    /\ t.from = plan.status
    /\ t.action = "submit" => HasItems
    /\ Begin(r, [pc |-> "transition", move |-> t])

ApprovedAfter(action) ==
  CASE action = "approve" -> TRUE
    [] action \in {"return", "reopen"} -> FALSE
    [] OTHER -> plan.approved

\* One transaction.
Transition(r) ==
  /\ At(r, "transition")
  /\ LET move == req[r].move IN
       /\ plan' = [status |-> move.to, approved |-> ApprovedAfter(move.action)]
       /\ items' = [i \in Items |->
            IF move.action = "activate" /\ items[i].status = "PROPOSED"
              THEN [items[i] EXCEPT !.status = "PLANNED"] ELSE items[i]]
  /\ Release(r)
  /\ UNCHANGED audits

-----------------------------------------------------------------------------
(* addItem, updateItem, deleteItem *)

\* The status follows from the plan; one the caller names is a PATCH of the
\* new item.
ReadForAdd(r) ==
  \E i \in Items \ Rows :
    /\ plan.status # "ARCHIVED"
    /\ \A q \in Requests : req[q].pc \in {"write", "delete", "start", "mark"} => req[q].id # i
    /\ Begin(r, [pc |-> "write", id |-> i, new |-> TRUE,
                 status |-> IF plan.status = "DRAFT" THEN "PROPOSED" ELSE "PLANNED"])

ReadForUpdate(r) ==
  \E i \in Rows, status \in ItemStatuses :
    Begin(r, [pc |-> "write", id |-> i, status |-> status, new |-> FALSE])

WriteItem(r) ==
  /\ At(r, "write")
  /\ items' = IF req[r].new \/ req[r].id \in Rows
                THEN [items EXCEPT ![req[r].id].status = req[r].status] ELSE items
  /\ Release(r)
  /\ UNCHANGED <<plan, audits>>

ReadForDelete(r) ==
  \E i \in Rows : /\ items[i].audit = NoOne
                  /\ Begin(r, [pc |-> "delete", id |-> i])

Delete(r) ==
  /\ At(r, "delete")
  /\ items' = [items EXCEPT ![req[r].id] = NoItem]
  /\ Release(r)
  /\ UNCHANGED <<plan, audits>>

-----------------------------------------------------------------------------
(* createEngagementFromItem, and the end of an engagement *)

\* Broken variant: only the status of the item is looked at.
StartableByStatus(i) == items[i].status \notin {"CANCELLED", "COMPLETED"}

Startable(i) == items[i].audit = NoOne /\ items[i].status # "CANCELLED"

ReadForStart(r) ==
  \E i \in Rows : Startable(i) /\ Begin(r, [pc |-> "start", id |-> i])

\* The engagement and the link are one write, which fails if the item is gone.
CreateEngagement(r) ==
  /\ At(r, "start")
  /\ IF req[r].id \in Rows
       THEN \E e \in Audits :
              /\ audits[e] = "none"
              /\ audits' = [audits EXCEPT ![e] = "live"]
              /\ items' = [items EXCEPT ![req[r].id].audit = e]
              /\ Enter(r, [pc |-> "mark", id |-> req[r].id])
       ELSE UNCHANGED <<items, audits>> /\ Release(r)
  /\ UNCHANGED plan

MarkInProgress(r) ==
  /\ At(r, "mark")
  /\ items' = IF req[r].id \in Rows
                THEN [items EXCEPT ![req[r].id].status = "IN_PROGRESS"] ELSE items
  /\ Release(r)
  /\ UNCHANGED <<plan, audits>>

ReadForEnd(r) ==
  \E e \in Audits, end \in {"COMPLETED", "CANCELLED"} :
    /\ audits[e] = "live"
    /\ Begin(r, [pc |-> "end", audit |-> e, end |-> end])

\* transition of the engagement (close, cancel): one transaction.
EndEngagement(r) ==
  /\ At(r, "end")
  /\ audits' = [audits EXCEPT ![req[r].audit] = req[r].end]
  /\ items' = [i \in Items |->
       IF items[i].audit = req[r].audit
         THEN [items[i] EXCEPT !.status = req[r].end] ELSE items[i]]
  /\ Release(r)
  /\ UNCHANGED plan

\* create
Init ==
  /\ plan = [status |-> "DRAFT", approved |-> FALSE]
  /\ items = [i \in Items |-> NoItem]
  /\ audits = [e \in Audits |-> "none"]
  /\ NoRequests

Next == \E r \in Requests :
  \/ ReadForTransition(r)
  \/ Transition(r)
  \/ ReadForAdd(r)
  \/ ReadForUpdate(r)
  \/ WriteItem(r)
  \/ ReadForDelete(r)
  \/ Delete(r)
  \/ ReadForStart(r)
  \/ CreateEngagement(r)
  \/ MarkInProgress(r)
  \/ ReadForEnd(r)
  \/ EndEngagement(r)

Spec == Init /\ [][Next]_vars

-----------------------------------------------------------------------------
PlanStatuses == {"DRAFT", "PENDING_APPROVAL", "APPROVED", "ACTIVE", "ARCHIVED"}

Pending ==
  {Idle}
  \cup [pc : {"transition"}, move : PLAN_WORKFLOW]
  \cup [pc : {"write"}, id : Items, status : ItemStatuses, new : BOOLEAN]
  \cup [pc : {"delete", "start", "mark"}, id : Items]
  \cup [pc : {"end"}, audit : Audits, end : {"COMPLETED", "CANCELLED"}]

\* The rows have the types of the schema, and a link leads to an engagement.
TypeOK ==
  /\ plan \in [status : PlanStatuses, approved : BOOLEAN]
  /\ items \in [Items -> {NoItem} \cup [status : ItemStatuses, audit : Audits \cup {NoOne}]]
  /\ audits \in [Audits -> {"none", "live", "COMPLETED", "CANCELLED"}]
  /\ \A i \in Rows : items[i].audit # NoOne => audits[items[i].audit] # "none"
  /\ req \in [Requests -> Pending]

ApproverAgrees == plan.approved <=> plan.status \in {"APPROVED", "ACTIVE", "ARCHIVED"}

(* An undisturbed request keeps the approver with the status of the plan   *)
(* and every engagement with the item it came from: none is replaced or    *)
(* made without an item, and one that ends gives its item the same end     *)
(* (transition of the plan, deleteItem, createEngagementFromItem, and      *)
(* transition of the engagement).  An edit may still rename an end.        *)
PlanKeepsApproverAndLinks ==
  [][alone' => /\ ApproverAgrees => ApproverAgrees'
               /\ \A i \in Items : items[i].audit # NoOne => items'[i].audit = items[i].audit
               /\ \A i \in Items, e \in Audits :
                    items[i].audit = e /\ audits'[e] # audits[e] =>
                      items'[i].status = audits'[e]
               /\ \A e \in Audits : audits'[e] = "live" /\ audits[e] = "none" =>
                    \E i \in Items : items'[i].audit = e]_vars
=============================================================================
