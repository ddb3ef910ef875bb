----------------------------- MODULE Programmes -----------------------------
(***************************************************************************)
(* One audit programme, its steps, and the workpapers linked to them: one  *)
(* made from the step, and any number that POST /workpapers adds.  Reads   *)
(* that follow each other are one step where no write in between would     *)
(* matter.  The signing of workpapers is in module Workpapers.             *)
(***************************************************************************)
EXTENDS Handlers, Integers

CONSTANTS
  Steps,         \* ids of steps
  References,    \* references of steps
  MaxPosition    \* bound: the highest position

VARIABLES
  programme,     \* status of the AuditProgram row
  steps,         \* AuditProgramStep rows
  papers         \* Workpapers by reference, <<ref, n>> with n > 0 where the
                 \* time was appended: the step, "unlinked", or "none"

local == <<programme, steps, papers>>
vars == <<req, alone, programme, steps, papers>>

StepFields == {"reference", "position", "started"}
NoStep == [started |-> FALSE, position |-> -1]

Rows == {s \in Steps : steps[s] # NoStep}
PaperKeys == References \X {0, 1}
PapersOf(s) == {k \in PaperKeys : papers[k] = s}

\* @@unique([programId, reference])
IsFree(reference, s) == \A t \in Rows \ {s} : steps[t].reference # reference

Begin(r, state) ==
  /\ req[r] = Idle
  /\ Enter(r, state)
  /\ UNCHANGED local

NextPosition ==
  1 + CHOOSE p \in -1..MaxPosition :
        /\ \A s \in Rows : steps[s].position <= p
        /\ p = -1 \/ \E s \in Rows : steps[s].position = p

-----------------------------------------------------------------------------
(* approve *)

ReadForApproval(r) ==
  /\ programme = "DRAFT"
  /\ Begin(r, [pc |-> "count"])

CountSteps(r) ==
  /\ At(r, "count")
  /\ IF Rows = {} THEN Release(r) ELSE Enter(r, [pc |-> "approve"])
  /\ UNCHANGED local

Approve(r) ==
  /\ At(r, "approve")
  /\ programme' = "APPROVED"
  /\ Release(r)
  /\ UNCHANGED <<steps, papers>>

-----------------------------------------------------------------------------
(* addStep, updateStep, deleteStep, reorder *)

\* Bound: a position that a caller names is the lowest one.
Named == {0}

\* dto.sortOrder ?? max + 1.  The id is a new one: no request that still runs
\* knows it.
ReadForAdd(r) ==
  \E s \in Steps \ Rows, reference \in References, position \in Named \cup {NextPosition},
     last \in BOOLEAN :
    /\ IsFree(reference, s)
    /\ position \in IF last THEN {NextPosition} ELSE Named
    /\ position <= MaxPosition
    /\ \A q \in Requests :
         /\ req[q].pc \in {"write", "delete", "taken", "paper", "linked", "start"} =>
              req[q].id # s
         /\ At(q, "reorder") => s \notin DOMAIN req[q].order
    /\ Begin(r, [pc |-> "write", id |-> s, new |-> TRUE, last |-> last,
                 begun |-> programme = "APPROVED",
                 row |-> [reference |-> reference, position |-> position,
                          started |-> FALSE]])

\* A PATCH names the reference, the position or the status of the step.  Bound:
\* no way back to NOT_STARTED, which decides nothing.
Patches == [reference : References] \cup [position : Named] \cup [started : {TRUE}]

ReadForUpdate(r) ==
  \E s \in Rows, patch \in Patches :
    /\ "reference" \in DOMAIN patch => IsFree(patch.reference, s)
    /\ Begin(r, [pc |-> "write", id |-> s, new |-> FALSE, last |-> FALSE, row |-> patch,
                 begun |-> "started" \in DOMAIN patch /\ programme = "APPROVED"])

Patched(row, patch) ==
  [f \in StepFields |-> IF f \in DOMAIN patch THEN patch[f] ELSE row[f]]

WriteStep(r) ==
  /\ At(r, "write")
  /\ IF /\ req[r].new \/ req[r].id \in Rows
        /\ "reference" \in DOMAIN req[r].row =>
             IsFree(req[r].row.reference, req[r].id)
       THEN /\ steps' = [steps EXCEPT ![req[r].id] = Patched(@, req[r].row)]
            /\ IF req[r].begun THEN Enter(r, [pc |-> "progress"]) ELSE Release(r)
       ELSE UNCHANGED steps /\ Release(r)
  /\ UNCHANGED <<programme, papers>>

MarkInProgress(r) ==
  /\ At(r, "progress")
  /\ programme' = "IN_PROGRESS"
  /\ Release(r)
  /\ UNCHANGED <<steps, papers>>

\* Broken variant: the count of linked workpapers is not tested.
DeletableAlways(s) == TRUE

Deletable(s) == PapersOf(s) = {}

ReadForDelete(r) ==
  \E s \in Rows : Deletable(s) /\ Begin(r, [pc |-> "delete", id |-> s])

\* Broken variant: the workpapers keep the id of the step.
OrphanedNot(s) == papers

\* The foreign key of the workpapers is ON DELETE SET NULL.
Orphaned(s) == [k \in PaperKeys |-> IF papers[k] = s THEN "unlinked" ELSE papers[k]]

Delete(r) ==
  /\ At(r, "delete")
  /\ steps' = [steps EXCEPT ![req[r].id] = NoStep]
  /\ papers' = Orphaned(req[r].id)
  /\ Release(r)
  /\ UNCHANGED programme

\* The caller's order, completed by the steps it leaves out.  A step that it
\* names more than once ends up where it is named last.
ReadForReorder(r) ==
  \E n \in 1..MaxPosition + 1 :
    \E ordered \in [1..n -> Rows], order \in [Rows -> 0..n - 1] :
      /\ \A s \in Rows : /\ ordered[order[s] + 1] = s
                         /\ \A i \in order[s] + 2..n : ordered[i] # s
      /\ Begin(r, [pc |-> "reorder", order |-> order])

\* One transaction: a step that was deleted since ends it.
Reorder(r) ==
  /\ At(r, "reorder")
  /\ LET order == req[r].order IN
       steps' = IF DOMAIN order \subseteq Rows
                  THEN [s \in Steps |-> IF s \in DOMAIN order
                          THEN [steps[s] EXCEPT !.position = order[s]] ELSE steps[s]]
                  ELSE steps
  /\ Release(r)
  /\ UNCHANGED <<programme, papers>>

-----------------------------------------------------------------------------
(* createWorkpaperFromStep and the create of workpapers, which it calls *)

ReadForPaper(r) ==
  \E s \in Rows :
    /\ PapersOf(s) = {}
    /\ Begin(r, [pc |-> "taken", id |-> s, reference |-> steps[s].reference])

\* The reference of the step, with the time appended if it is in use.
ChooseReference(r) ==
  /\ At(r, "taken")
  /\ Enter(r, [pc |-> "paper", id |-> req[r].id,
               key |-> <<req[r].reference,
                         IF papers[<<req[r].reference, 0>>] = "none" THEN 0 ELSE 1>>])
  /\ UNCHANGED local

\* POST /workpapers with a step: nobody asks whether it has a workpaper.  Without
\* one the workpaper takes a reference and no more, and is left out.
ReadForLinkedPaper(r) ==
  \E s \in Rows, reference \in References :
    /\ papers[<<reference, 0>>] = "none"
    /\ Begin(r, [pc |-> "linked", id |-> s, key |-> <<reference, 0>>])

\* The step must still exist and @@unique([engagementId, reference]) must hold.
CreatePaper(r) ==
  /\ At(r, "paper") \/ At(r, "linked")
  /\ IF req[r].id \in Rows /\ papers[req[r].key] = "none"
       THEN /\ papers' = [papers EXCEPT ![req[r].key] = req[r].id]
            /\ Enter(r, [pc |-> "start", id |-> req[r].id])
       ELSE UNCHANGED papers /\ Release(r)
  /\ UNCHANGED <<programme, steps>>

StartStep(r) ==
  /\ At(r, "start")
  /\ steps' = IF req[r].id \in Rows
                THEN [steps EXCEPT ![req[r].id].started = TRUE] ELSE steps
  /\ Release(r)
  /\ UNCHANGED <<programme, papers>>

\* create, with no steps; those of a library item are as if added one by one.
Init ==
  /\ programme = "DRAFT"
  /\ steps = [s \in Steps |-> NoStep]
  /\ papers = [k \in PaperKeys |-> "none"]
  /\ NoRequests

Next == \E r \in Requests :
  \/ ReadForApproval(r)
  \/ CountSteps(r)
  \/ Approve(r)
  \/ ReadForAdd(r)
  \/ ReadForUpdate(r)
  \/ WriteStep(r)
  \/ MarkInProgress(r)
  \/ ReadForDelete(r)
  \/ Delete(r)
  \/ ReadForReorder(r)
  \/ Reorder(r)
  \/ ReadForPaper(r)
  \/ ChooseReference(r)
  \/ ReadForLinkedPaper(r)
  \/ CreatePaper(r)
  \/ StartStep(r)

Spec == Init /\ [][Next]_vars

-----------------------------------------------------------------------------
StepRows == [reference : References, position : 0..MaxPosition, started : BOOLEAN]

Pending ==
  {Idle}
  \cup [pc : {"count", "approve", "progress"}]
  \cup [pc : {"write"}, id : Steps, new : BOOLEAN, last : BOOLEAN, begun : BOOLEAN,
        row : StepRows \cup Patches]
  \cup [pc : {"delete", "start"}, id : Steps]
  \cup [pc : {"reorder"}, order : UNION {[S -> 0..MaxPosition] : S \in SUBSET Steps}]
  \cup [pc : {"taken"}, id : Steps, reference : References]
  \cup [pc : {"paper", "linked"}, id : Steps, key : PaperKeys]

\* The rows have the types of the schema, and links lead to rows.
TypeOK ==
  /\ programme \in {"DRAFT", "APPROVED", "IN_PROGRESS"}
  /\ steps \in [Steps -> StepRows \cup {NoStep}]
  /\ papers \in [PaperKeys -> Rows \cup {"unlinked", "none"}]
  /\ req \in [Requests -> Pending]

(* An undisturbed request makes a workpaper from a step only if it has     *)
(* none, takes no workpaper's step away, puts a new step after all others  *)
(* unless told where, reorders so that no two steps share a position, and  *)
(* approves no empty programme (createWorkpaperFromStep, deleteStep,       *)
(* addStep, reorder, approve).                                             *)
StepsKeepPlaceAndPapers ==
  [][alone' =>
       /\ \A k \in PaperKeys : papers[k] \in Steps => papers'[k] = papers[k]
       /\ \A r \in Requests :
            /\ papers' # papers /\ At(r, "paper") => PapersOf(req[r].id) = {}
            /\ steps' # steps /\ At(r, "write") /\ req[r].last =>
                 \A t \in Rows : steps[t].position < steps'[req[r].id].position
            /\ At(r, "reorder") =>
                 \A s, t \in Rows : s # t => steps'[s].position # steps'[t].position
       /\ programme # programme' /\ programme' = "APPROVED" => Rows # {}]_vars
=============================================================================
