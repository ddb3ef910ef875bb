----------------------------- MODULE MCRegisters -----------------------------
(***************************************************************************)
(* The registers share no row: a behaviour is one of one of them, `subject`, *)
(* and the rows of the others stay as they are.                            *)
(***************************************************************************)
EXTENDS Integers, FiniteSets, TLC

CONSTANTS
  x1, x2, y1, y2,   \* ids of whatever rows the subject has
  Requests, NoOne,
  Owner, Approvers, Entries, Hours,
  Codes, MaxItems,
  Steps, References, MaxPosition,
  Items, Audits,
  Docs, Contents, Infected,
  Processes, TTL,
  Entities, MaxHops,
  Levels, Effects, Appetites, Models

(* What the numbers are; null is no checksum, entity or engagement, and    *)
(* the id of a step is none of the two words for the lack of one.          *)
ASSUME RegistersAssumption ==
  /\ MaxItems \in Nat /\ TTL \in Nat /\ MaxHops \in Nat \ {0}
  /\ NoOne \notin Contents /\ NoOne \notin Entities \cup Audits /\ IsFiniteSet(Entities)
  /\ Steps \cap {"none", "unlinked"} = {}
  /\ MaxPosition \in Nat
  /\ Levels \subseteq 1..5 /\ Effects \subseteq 1..5
  /\ Appetites \subseteq Nat /\ Models \subseteq Nat

VARIABLES
  subject, req, alone,
  sheet, entries,
  library,
  programme, steps, papers,
  plan, items, audits,
  docs, store, request, report,
  cache,
  tree,
  risk, models

TS == INSTANCE Timesheets
LB == INSTANCE Library
PR == INSTANCE Programmes
PL == INSTANCE Plans
DC == INSTANCE Documents
AC == INSTANCE Access
UN == INSTANCE Universe
RK == INSTANCE Risks

Init ==
  /\ subject \in {"timesheet", "library", "programme", "plan", "documents", "access",
                "universe", "risks"}
  /\ TS!Init /\ PR!Init /\ PL!Init /\ DC!Init /\ AC!Init
  /\ UN!Init /\ RK!Init
  /\ LB!Init
  /\ subject # "library" => library[1] = LB!NoItem
  /\ subject # "risks" => \E i \in {CHOOSE i \in RK!Inputs : TRUE} :
                            \A f \in DOMAIN i : risk[f] = i[f]

timesheet == <<sheet, entries>>
programmes == <<programme, steps, papers>>
plans == <<plan, items, audits>>
documents == <<docs, store, request, report>>
risks == <<risk, models>>

vars == <<subject, req, alone, sheet, entries, library, programme, steps, papers,
          plan, items, audits, docs, store, request, report, cache, tree, risk, models>>

Next ==
  \/ /\ subject = "timesheet" /\ TS!Next
     /\ UNCHANGED <<subject, library, programmes, plans, documents, cache, tree, risks>>
  \/ /\ subject = "library" /\ LB!Next
     /\ UNCHANGED <<subject, timesheet, programmes, plans, documents, cache, tree, risks>>
  \/ /\ subject = "programme" /\ PR!Next
     /\ UNCHANGED <<subject, timesheet, library, plans, documents, cache, tree, risks>>
  \/ /\ subject = "plan" /\ PL!Next
     /\ UNCHANGED <<subject, timesheet, library, programmes, documents, cache, tree, risks>>
  \/ /\ subject = "documents" /\ DC!Next
     /\ UNCHANGED <<subject, timesheet, library, programmes, plans, cache, tree, risks>>
  \/ /\ subject = "access" /\ AC!Next
     /\ UNCHANGED <<subject, timesheet, library, programmes, plans, documents, tree, risks>>
  \/ /\ subject = "universe" /\ UN!Next
     /\ UNCHANGED <<subject, timesheet, library, programmes, plans, documents, cache, risks>>
  \/ /\ subject = "risks" /\ RK!Next
     /\ UNCHANGED <<subject, timesheet, library, programmes, plans, documents, cache, tree>>

Spec == Init /\ [][Next]_vars

\* No property tells the ids of rows apart.
Sym == {p @@ x @@ y : p \in Permutations(Requests), x \in Permutations({x1, x2}),
                      y \in Permutations({y1, y2})}

\* Every register keeps the types of its rows, its links and its requests.
TypeOK ==
  CASE subject = "timesheet" -> TS!TypeOK
    [] subject = "library"   -> LB!TypeOK
    [] subject = "programme" -> PR!TypeOK
    [] subject = "plan"      -> PL!TypeOK
    [] subject = "documents" -> DC!TypeOK
    [] subject = "access"    -> AC!TypeOK
    [] subject = "universe"  -> UN!TypeOK
    [] subject = "risks"     -> RK!TypeOK

\* Timesheets: an edit that nothing disturbs restores the total, and touches
\* no hours that are submitted or approved.
EditsRestoreTheTotal == TS!EditsRestoreTheTotal

\* Library: no lone request makes a second published version of a code.
OnePublishedVersion == LB!OnePublishedVersion

\* Programmes: no lone request takes a step's workpaper, or makes a second one.
StepsKeepPlaceAndPapers == PR!StepsKeepPlaceAndPapers

\* Plans: no lone request takes an item's engagement, or replaces it.
PlanKeepsApproverAndLinks == PL!PlanKeepsApproverAndLinks

\* Documents: no lone request parts a document from the content checked.
DocumentsStayWhole == DC!DocumentsStayWhole

\* Access: no process answers with a value superseded a TTL ago.
NoHitOlderThanTTL == AC!NoHitOlderThanTTL

\* Universe: no lone move closes a cycle, and no lone deletion parts the tree.
TreeStaysATree == UN!TreeStaysATree

\* Risks: the scores of a risk are those of its own inputs.
ScoresFollowInputs == RK!ScoresFollowInputs
=============================================================================
