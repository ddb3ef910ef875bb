--------------------------- MODULE FindingsProofs ---------------------------
(***************************************************************************)
(* What survives overlapping requests to a finding, and what a lone        *)
(* request does in the states they leave, for any number of requests,      *)
(* users, recommendations, dates and edits.                                *)
(*                                                                         *)
(* A commit may carry the finding back to any status an earlier request    *)
(* read, so nothing follows from the status alone.  What never goes back   *)
(* is that an original due date exists and that the finding was once       *)
(* implemented: the invariant ties every request in progress to these two  *)
(* facts (IInv).  A lone request still has what it read (LInv).            *)
(***************************************************************************)
EXTENDS Findings, TLAPS

Dated == fd.originalDue # NoDate

\* What a transition in progress may still rely on when it commits.
TransitionIsSound(q) ==
  /\ q.originalDue # NoDate => Dated
  /\ q.move.action = "agree" => q.due # NoDate
  /\ q.move.from \in ACTIONABLE_STATUSES => Dated
  /\ q.move.from = "VALIDATION" => fd.implemented

TransitionsInProgress ==
  \A r \in Requests : req[r].pc \in {"count", "commit"} => TransitionIsSound(req[r])

ExtensionsInProgress ==
  \A r \in Requests : req[r].pc = "extend" => req[r].originalDue # NoDate

ValidationWasImplemented == fd.status = "VALIDATION" => fd.implemented

IInv ==
  /\ TypeOK
  /\ AgreedDateIsKept
  /\ NoExtensionLost
  /\ SettledHasItsStamps
  /\ ValidationWasImplemented
  /\ TransitionsInProgress
  /\ ExtensionsInProgress

RequestRecords ==
  {Idle} \cup TransitionRequest \cup UpdateRequest \cup ExtendRequest \cup RecommendRequest

-----------------------------------------------------------------------------
(* What the transition table says of the moves the invariant tells apart.  *)
LEMMA WorkflowFacts ==
  ASSUME NEW t \in FINDING_WORKFLOW
  PROVE  /\ t.from \in Statuses /\ t.to \in Statuses
         /\ t.action = "agree" => "has_action_owner_and_due_date" \in t.guards
         /\ t.to \in ACTIONABLE_STATUSES \cup {"CLOSED"} =>
              t.action = "agree" \/ t.from \in ACTIONABLE_STATUSES
         /\ t.to = "AGREED" => t.action = "agree"
         /\ t.to = "VALIDATION" <=> t.action = "request_validation"
         /\ t.to = "CLOSED" <=> t.action = "validate_and_close"
         /\ t.to = "RISK_ACCEPTED" <=> t.action = "accept_risk"
         /\ t.action = "validate_and_close" => t.from = "VALIDATION"
BY DEF FINDING_WORKFLOW, Move, Statuses, ACTIONABLE_STATUSES

(* A request in progress is of the kind its program counter names.         *)
LEMMA RequestKinds ==
  ASSUME TypeOK, NEW r \in Requests
  PROVE  /\ req[r].pc \in {"count", "commit"} => req[r] \in TransitionRequest
         /\ req[r].pc = "update" => req[r] \in UpdateRequest
         /\ req[r].pc = "extend" => req[r] \in ExtendRequest
         /\ req[r].pc = "recommend" => req[r] \in RecommendRequest
BY DEF TypeOK, Idle, TransitionRequest, UpdateRequest, ExtendRequest, RecommendRequest

LEMMA InitHolds == Init => IInv
<1> SUFFICES ASSUME Init PROVE IInv
  OBVIOUS
<1>1. PICK documented \in BOOLEAN, headline \in BOOLEAN, owner \in Owners,
           due \in Dates \cup {NoDate} :
       fd = [status |-> "DRAFT", documented |-> documented, headline |-> headline,
             response |-> FALSE, evidence |-> FALSE, owner |-> owner,
             due |-> due, originalDue |-> NoDate, extensions |-> 0,
             agreed |-> FALSE, implemented |-> FALSE, validatedBy |-> NoOne,
             closed |-> FALSE]
  BY DEF Init
<1>2. fd \in FindingRow
  BY <1>1 DEF FindingRow, Statuses
<1>3. TypeOK
  BY <1>2 DEF Init, NoRequests, TypeOK, RecommendationRow, Statuses
<1>4. /\ AgreedDateIsKept /\ NoExtensionLost /\ SettledHasItsStamps
      /\ ValidationWasImplemented
  BY <1>1 DEF Init, AgreedDateIsKept, NoExtensionLost, SettledHasItsStamps,
              ValidationWasImplemented, ACTIONABLE_STATUSES
<1>5. TransitionsInProgress /\ ExtensionsInProgress
  BY DEF Init, NoRequests, Idle, TransitionsInProgress, ExtensionsInProgress
<1> QED BY <1>3, <1>4, <1>5 DEF IInv

-----------------------------------------------------------------------------
(* A step that leaves the finding alone and starts, advances or ends a     *)
(* request keeps the invariant if the new request satisfies its part.      *)
LEMMA RequestStep ==
  ASSUME IInv, NEW r \in Requests, NEW q \in RequestRecords,
         Enter(r, q),
         UNCHANGED <<fd, last, extended>>,
         recs' \in [Recs -> RecommendationRow],
         q.pc \in {"count", "commit"} => TransitionIsSound(q),
         q.pc = "extend" => q.originalDue # NoDate
  PROVE  IInv'
<1>0. fd' = fd /\ last' = last /\ extended' = extended
  OBVIOUS
<1>1. TypeOK'
  BY <1>0 DEF IInv, TypeOK, RequestRecords, Enter
<1>2. \A s \in Requests : req'[s] = IF s = r THEN q ELSE req[s]
  BY DEF IInv, TypeOK, Enter
<1>3. TransitionsInProgress'
  BY <1>0, <1>2 DEF IInv, TransitionsInProgress, TransitionIsSound, Dated
<1>4. ExtensionsInProgress'
  BY <1>2 DEF IInv, ExtensionsInProgress
<1> QED
  BY <1>0, <1>1, <1>3, <1>4
     DEF IInv, AgreedDateIsKept, NoExtensionLost, SettledHasItsStamps, ValidationWasImplemented

(* A commit keeps the invariant if its own row satisfies it and neither    *)
(* the original due date nor the implementation date disappears.           *)
LEMMA RowStep ==
  ASSUME IInv, NEW r \in Requests, Release(r),
         fd' \in FindingRow,
         recs' \in [Recs -> RecommendationRow],
         last' \in [from: Statuses \cup {"none"}, to: Statuses],
         extended' \in Nat,
         Dated => Dated',
         fd.implemented => fd'.implemented,
         AgreedDateIsKept', NoExtensionLost', SettledHasItsStamps',
         ValidationWasImplemented'
  PROVE  IInv'
<1>1. TypeOK'
  BY DEF IInv, TypeOK, Release, Enter
<1>2. \A s \in Requests : req'[s] = IF s = r THEN Idle ELSE req[s]
  BY DEF IInv, TypeOK, Release, Enter
<1>3. TransitionsInProgress'
  BY <1>2 DEF IInv, TransitionsInProgress, TransitionIsSound, Dated, Idle
<1>4. ExtensionsInProgress'
  BY <1>2 DEF IInv, ExtensionsInProgress, Idle
<1> QED BY <1>1, <1>3, <1>4 DEF IInv

-----------------------------------------------------------------------------
LEMMA ReadForTransitionKeeps ==
  ASSUME IInv, NEW r \in Requests, NEW u \in Users, NEW t \in FINDING_WORKFLOW,
         ReadForTransition(r, u, t)
  PROVE  IInv'
<1> DEFINE pc == IF \E g \in t.guards : CountsRows(g) THEN "count" ELSE "commit"
           q == [pc |-> pc, user |-> u, move |-> t, due |-> fd.due,
                 originalDue |-> fd.originalDue]
<1>1. pc \in {"count", "commit"}
  OBVIOUS
<1>2. Enter(r, q)
  BY DEF ReadForTransition
<1> HIDE DEF pc
<1>3. fd.due \in Dates \cup {NoDate} /\ fd.originalDue \in Dates \cup {NoDate}
  BY DEF IInv, TypeOK, FindingRow
<1>4. q \in TransitionRequest
  BY <1>1, <1>3 DEF TransitionRequest
<1>5. t.action = "agree" => fd.due # NoDate
  BY WorkflowFacts DEF ReadForTransition, EntityGuard
<1>6. TransitionIsSound(q)
  BY <1>5 DEF ReadForTransition, TransitionIsSound, Dated, IInv, AgreedDateIsKept,
              ValidationWasImplemented
<1>7. q.pc # "extend"
  BY <1>1
<1> HIDE DEF q
<1> QED
  BY <1>2, <1>4, <1>6, <1>7, RequestStep
     DEF ReadForTransition, RequestRecords, IInv, TypeOK

LEMMA CountRowsKeeps ==
  ASSUME IInv, NEW r \in Requests, CountRows(r)
  PROVE  IInv'
<1>1. req[r] \in TransitionRequest
  BY RequestKinds DEF IInv, CountRows
<1>2. TransitionIsSound(req[r])
  BY DEF IInv, TransitionsInProgress, CountRows
<1>3. CASE Release(r)
  BY <1>3, RequestStep DEF CountRows, Release, Idle, RequestRecords, IInv, TypeOK
<1>4. CASE Enter(r, [req[r] EXCEPT !.pc = "commit"])
  <2> DEFINE q == [req[r] EXCEPT !.pc = "commit"]
  <2>1. q \in TransitionRequest /\ q.pc = "commit"
    BY <1>1 DEF TransitionRequest
  <2>2. TransitionIsSound(q)
    BY <1>1, <1>2 DEF TransitionIsSound, TransitionRequest
  <2>3. Enter(r, q)
    BY <1>4
  <2> HIDE DEF q
  <2> QED
    BY <2>1, <2>2, <2>3, RequestStep DEF CountRows, RequestRecords, IInv, TypeOK
<1> QED BY <1>3, <1>4 DEF CountRows

(* What a transition makes of the finding.                                 *)
LEMMA CommittedFinding ==
  ASSUME IInv, NEW r \in Requests, CommitTransition(r)
  PROVE  LET q == req[r]
             action == q.move.action
         IN /\ q \in TransitionRequest
            /\ fd' \in FindingRow
            /\ fd'.status = q.move.to
            /\ fd'.extensions = fd.extensions /\ fd'.owner = fd.owner
            /\ fd'.originalDue =
                 IF action = "agree" /\ q.originalDue = NoDate THEN q.due ELSE fd.originalDue
            /\ fd'.implemented = (action = "request_validation" \/ fd.implemented)
            /\ action \in {"validate_and_close", "accept_risk"} => fd'.closed
            /\ action = "validate_and_close" => fd'.validatedBy = q.user
<1> DEFINE q == req[r]
           action == q.move.action
<1>1. q \in TransitionRequest
  BY RequestKinds DEF IInv, CommitTransition
<1>2. /\ q.user \in Users /\ q.move \in FINDING_WORKFLOW
      /\ q.due \in Dates \cup {NoDate} /\ q.originalDue \in Dates \cup {NoDate}
  BY <1>1 DEF TransitionRequest
<1>3. fd' = [Written(action, q.user, q) EXCEPT !.status = q.move.to]
  BY DEF CommitTransition
<1>4. q.move.to \in Statuses
  BY <1>2, WorkflowFacts
<1>5. fd \in FindingRow
  BY DEF IInv, TypeOK
<1> DEFINE Result ==
      /\ fd' \in FindingRow
      /\ fd'.status = q.move.to
      /\ fd'.extensions = fd.extensions /\ fd'.owner = fd.owner
      /\ fd'.originalDue =
           IF action = "agree" /\ q.originalDue = NoDate THEN q.due ELSE fd.originalDue
      /\ fd'.implemented = (action = "request_validation" \/ fd.implemented)
      /\ action \in {"validate_and_close", "accept_risk"} => fd'.closed
      /\ action = "validate_and_close" => fd'.validatedBy = q.user
<1>6. Result
  <2> HIDE DEF q, action
  <2>1. CASE action = "agree"
    BY <1>2, <1>3, <1>4, <1>5, <2>1 DEF Written, FindingRow
  <2>2. CASE action = "return_to_draft"
    BY <1>2, <1>3, <1>4, <1>5, <2>2 DEF Written, FindingRow
  <2>3. CASE action = "request_validation"
    BY <1>2, <1>3, <1>4, <1>5, <2>3 DEF Written, FindingRow
  <2>4. CASE action = "validate_and_close"
    BY <1>2, <1>3, <1>4, <1>5, <2>4 DEF Written, FindingRow
  <2>5. CASE action = "accept_risk"
    BY <1>2, <1>3, <1>4, <1>5, <2>5 DEF Written, FindingRow
  <2>6. CASE action \notin {"agree", "return_to_draft", "request_validation",
                            "validate_and_close", "accept_risk"}
    BY <1>2, <1>3, <1>4, <1>5, <2>6 DEF Written, FindingRow
  <2> QED BY <2>1, <2>2, <2>3, <2>4, <2>5, <2>6
<1> QED BY <1>1, <1>6

LEMMA CommitTransitionKeeps ==
  ASSUME IInv, NEW r \in Requests, CommitTransition(r)
  PROVE  IInv'
<1> DEFINE q == req[r]
           action == q.move.action
<1>1. q \in TransitionRequest /\ TransitionIsSound(q)
  BY RequestKinds DEF IInv, TransitionsInProgress, CommitTransition
<1>2. /\ q.user \in Users /\ q.move \in FINDING_WORKFLOW
      /\ q.due \in Dates \cup {NoDate} /\ q.originalDue \in Dates \cup {NoDate}
  BY <1>1 DEF TransitionRequest
<1>3. /\ fd' = [Written(action, q.user, q) EXCEPT !.status = q.move.to]
      /\ last' = HistoryRow(q.move)
      /\ recs' = RecsAfter(action)
      /\ Release(r)
      /\ extended' = extended
  BY DEF CommitTransition
<1>4. /\ q.move.from \in Statuses /\ q.move.to \in Statuses
      /\ q.move.to \in ACTIONABLE_STATUSES \cup {"CLOSED"} =>
           action = "agree" \/ q.move.from \in ACTIONABLE_STATUSES
      /\ q.move.to = "VALIDATION" <=> action = "request_validation"
      /\ q.move.to = "CLOSED" <=> action = "validate_and_close"
      /\ q.move.to = "RISK_ACCEPTED" <=> action = "accept_risk"
      /\ action = "validate_and_close" => q.move.from = "VALIDATION"
  BY <1>2, WorkflowFacts
<1>5. /\ action = "agree" => q.due # NoDate
      /\ q.originalDue # NoDate => Dated
      /\ q.move.from \in ACTIONABLE_STATUSES => Dated
      /\ q.move.from = "VALIDATION" => fd.implemented
  BY <1>1 DEF TransitionIsSound
<1>7. /\ fd' \in FindingRow
      /\ fd'.status = q.move.to
      /\ fd'.extensions = fd.extensions
      /\ fd'.originalDue =
           IF action = "agree" /\ q.originalDue = NoDate THEN q.due ELSE fd.originalDue
      /\ fd'.implemented = (action = "request_validation" \/ fd.implemented)
      /\ action \in {"validate_and_close", "accept_risk"} => fd'.closed
      /\ action = "validate_and_close" => fd'.validatedBy = q.user
  BY CommittedFinding
<1> HIDE DEF q, action
<1>8. recs' \in [Recs -> RecommendationRow]
  BY <1>3 DEF RecsAfter, RecommendationStatus, RecommendationRow, RecommendationStatuses,
              IInv, TypeOK
<1>9. last' \in [from: Statuses \cup {"none"}, to: Statuses]
  BY <1>3, <1>4 DEF HistoryRow
<1>10. Dated => Dated'
  BY <1>5, <1>7 DEF Dated
<1>11. AgreedDateIsKept'
  BY <1>4, <1>5, <1>7 DEF AgreedDateIsKept, Dated
<1>12. NoExtensionLost' /\ extended' \in Nat
  BY <1>3, <1>7 DEF NoExtensionLost, IInv, TypeOK
<1>13. SettledHasItsStamps'
  BY <1>2, <1>4, <1>5, <1>7, FindingAssumption DEF SettledHasItsStamps
<1>14. ValidationWasImplemented'
  BY <1>4, <1>7 DEF ValidationWasImplemented
<1> QED
  BY <1>3, <1>7, <1>8, <1>9, <1>10, <1>11, <1>12, <1>13, <1>14, RowStep

-----------------------------------------------------------------------------
LEMMA ReadForUpdateKeeps ==
  ASSUME IInv, NEW r \in Requests, NEW u \in Users, NEW p \in Patches, ReadForUpdate(r, u, p)
  PROVE  IInv'
<1> DEFINE q == [pc |-> "update", patch |-> p]
<1>1. q \in UpdateRequest /\ q.pc = "update"
  BY DEF UpdateRequest
<1>2. Enter(r, q)
  BY DEF ReadForUpdate
<1> HIDE DEF q
<1> QED BY <1>1, <1>2, RequestStep DEF ReadForUpdate, RequestRecords, IInv, TypeOK

(* A PATCH reaches neither the status nor anything the workflow stamps.    *)
LEMMA UpdatedFinding ==
  ASSUME IInv, NEW r \in Requests, CommitUpdate(r)
  PROVE  /\ fd'.status = fd.status /\ fd'.originalDue = fd.originalDue
         /\ fd'.extensions = fd.extensions /\ fd'.implemented = fd.implemented
         /\ fd'.validatedBy = fd.validatedBy /\ fd'.closed = fd.closed
         /\ fd'.agreed = fd.agreed
<1> DEFINE p == req[r].patch
<1>1. p \in Patches
  BY RequestKinds DEF IInv, CommitUpdate, UpdateRequest
<1>2. /\ DOMAIN p \subseteq DOMAIN Editable
      /\ \A c \in DOMAIN p : p[c] \in Editable[c]
  BY <1>1, FindingAssumption
<1>3. fd' = [c \in DOMAIN fd |-> IF c \in DOMAIN p THEN p[c] ELSE fd[c]]
  BY DEF CommitUpdate
<1> HIDE DEF p
<1>4. fd \in FindingRow
  BY DEF IInv, TypeOK
<1>5. DOMAIN Editable = {"documented", "headline", "response", "evidence", "owner", "due"}
  BY DEF Editable
<1> QED BY <1>2, <1>3, <1>4, <1>5 DEF FindingRow

LEMMA CommitUpdateKeeps ==
  ASSUME IInv, NEW r \in Requests, CommitUpdate(r)
  PROVE  IInv'
<1> DEFINE p == req[r].patch
<1>1. p \in Patches
  BY RequestKinds DEF IInv, CommitUpdate, UpdateRequest
<1>2. /\ DOMAIN p \subseteq DOMAIN Editable
      /\ \A c \in DOMAIN p : p[c] \in Editable[c]
  BY <1>1, FindingAssumption
<1>3. fd' = [c \in DOMAIN fd |-> IF c \in DOMAIN p THEN p[c] ELSE fd[c]]
  BY DEF CommitUpdate
<1> HIDE DEF p
<1>4. fd \in FindingRow
  BY DEF IInv, TypeOK
<1>5. /\ fd'.status = fd.status /\ fd'.originalDue = fd.originalDue
      /\ fd'.extensions = fd.extensions /\ fd'.implemented = fd.implemented
      /\ fd'.validatedBy = fd.validatedBy /\ fd'.closed = fd.closed
      /\ fd'.agreed = fd.agreed
  BY UpdatedFinding
<1>6. fd' \in FindingRow
  <2>1. fd' = [status |-> fd'.status, documented |-> fd'.documented,
               headline |-> fd'.headline, response |-> fd'.response,
               evidence |-> fd'.evidence, owner |-> fd'.owner, due |-> fd'.due,
               originalDue |-> fd'.originalDue, extensions |-> fd'.extensions,
               agreed |-> fd'.agreed, implemented |-> fd'.implemented,
               validatedBy |-> fd'.validatedBy, closed |-> fd'.closed]
    BY <1>3, <1>4 DEF FindingRow
  <2>2. /\ Editable["documented"] = BOOLEAN /\ Editable["headline"] = BOOLEAN
        /\ Editable["response"] = BOOLEAN /\ Editable["evidence"] = BOOLEAN
        /\ Editable["owner"] = Owners /\ Editable["due"] = Dates \cup {NoDate}
    BY DEF Editable
  <2>3. /\ fd'.documented \in BOOLEAN /\ fd'.headline \in BOOLEAN
        /\ fd'.response \in BOOLEAN /\ fd'.evidence \in BOOLEAN
    BY <1>2, <1>3, <1>4, <2>2 DEF FindingRow
  <2>4. fd'.owner \in Owners /\ fd'.due \in Dates \cup {NoDate}
    BY <1>2, <1>3, <1>4, <2>2 DEF FindingRow
  <2> QED BY <1>4, <1>5, <2>1, <2>3, <2>4 DEF FindingRow
<1>7. /\ Dated => Dated'
      /\ AgreedDateIsKept' /\ NoExtensionLost' /\ SettledHasItsStamps'
      /\ ValidationWasImplemented'
  BY <1>5 DEF CommitUpdate, IInv, Dated, AgreedDateIsKept, NoExtensionLost,
              SettledHasItsStamps, ValidationWasImplemented
<1>8. /\ recs' \in [Recs -> RecommendationRow] /\ extended' \in Nat
      /\ last' \in [from: Statuses \cup {"none"}, to: Statuses]
      /\ Release(r)
  BY DEF CommitUpdate, IInv, TypeOK
<1> QED BY <1>5, <1>6, <1>7, <1>8, RowStep

-----------------------------------------------------------------------------
LEMMA ReadForExtendKeeps ==
  ASSUME IInv, NEW r \in Requests, NEW u \in Users, NEW d \in Dates, ReadForExtend(r, u, d)
  PROVE  IInv'
<1> DEFINE q == [pc |-> "extend", newDue |-> d, extensions |-> fd.extensions,
                 originalDue |-> IF fd.originalDue = NoDate THEN fd.due ELSE fd.originalDue]
<1>1. fd.originalDue # NoDate
  BY DEF ReadForExtend, IInv, AgreedDateIsKept
<1>2. fd.originalDue \in Dates \cup {NoDate} /\ fd.extensions \in Nat
  BY DEF IInv, TypeOK, FindingRow
<1>3. q \in ExtendRequest /\ q.pc = "extend" /\ q.originalDue # NoDate
  BY <1>1, <1>2 DEF ExtendRequest
<1>4. Enter(r, q)
  BY DEF ReadForExtend
<1> HIDE DEF q
<1> QED BY <1>3, <1>4, RequestStep DEF ReadForExtend, RequestRecords, IInv, TypeOK

(* What an extension makes of the finding.                                 *)
LEMMA ExtendedFinding ==
  ASSUME IInv, NEW r \in Requests, CommitExtend(r)
  PROVE  LET q == req[r]
         IN /\ q \in ExtendRequest /\ q.originalDue # NoDate
            /\ fd' \in FindingRow
            /\ fd'.status = fd.status /\ fd'.owner = fd.owner
            /\ fd'.due = q.newDue /\ fd'.originalDue = q.originalDue
            /\ fd'.extensions = fd.extensions + 1 /\ fd'.implemented = fd.implemented
            /\ fd'.validatedBy = fd.validatedBy /\ fd'.closed = fd.closed
<1> DEFINE q == req[r]
<1>1. q \in ExtendRequest /\ q.originalDue # NoDate
  BY RequestKinds DEF IInv, CommitExtend, ExtensionsInProgress
<1>2. q.newDue \in Dates /\ q.originalDue \in Dates \cup {NoDate}
  BY <1>1 DEF ExtendRequest
<1>3. fd' = [fd EXCEPT !.due = q.newDue, !.originalDue = q.originalDue,
                       !.extensions = @ + 1]
  BY DEF CommitExtend, OriginalAfterExtension, ExtensionsAfter
<1> HIDE DEF q
<1>4. fd \in FindingRow
  BY DEF IInv, TypeOK
<1>5. /\ fd' \in FindingRow
      /\ fd'.status = fd.status /\ fd'.owner = fd.owner
      /\ fd'.due = q.newDue /\ fd'.originalDue = q.originalDue
      /\ fd'.extensions = fd.extensions + 1 /\ fd'.implemented = fd.implemented
      /\ fd'.validatedBy = fd.validatedBy /\ fd'.closed = fd.closed
  <2> DEFINE n == fd.extensions + 1
  <2>1. n \in Nat
    BY <1>4 DEF FindingRow
  <2>2. fd' = [fd EXCEPT !.due = q.newDue, !.originalDue = q.originalDue, !.extensions = n]
    BY <1>3
  <2> HIDE DEF n
  <2>3. /\ fd' \in FindingRow /\ fd'.extensions = n
        /\ fd'.status = fd.status /\ fd'.owner = fd.owner
        /\ fd'.due = q.newDue /\ fd'.originalDue = q.originalDue
        /\ fd'.implemented = fd.implemented
        /\ fd'.validatedBy = fd.validatedBy /\ fd'.closed = fd.closed
    BY <1>2, <1>4, <2>1, <2>2 DEF FindingRow
  <2> QED BY <2>3 DEF n
<1> QED BY <1>1, <1>5 DEF q

LEMMA CommitExtendKeeps ==
  ASSUME IInv, NEW r \in Requests, CommitExtend(r)
  PROVE  IInv'
<1>1. /\ extended' = extended + 1
      /\ Release(r)
      /\ recs' = recs /\ last' = last
  BY DEF CommitExtend
<1>2. /\ fd' \in FindingRow
      /\ fd'.status = fd.status
      /\ fd'.originalDue # NoDate
      /\ fd'.extensions = fd.extensions + 1 /\ fd'.implemented = fd.implemented
      /\ fd'.validatedBy = fd.validatedBy /\ fd'.closed = fd.closed
  BY ExtendedFinding
<1>3. /\ Dated'
      /\ AgreedDateIsKept' /\ NoExtensionLost' /\ SettledHasItsStamps'
      /\ ValidationWasImplemented'
  BY <1>1, <1>2 DEF IInv, Dated, AgreedDateIsKept, NoExtensionLost,
                          SettledHasItsStamps, ValidationWasImplemented
<1>4. /\ recs' \in [Recs -> RecommendationRow] /\ extended' \in Nat
      /\ last' \in [from: Statuses \cup {"none"}, to: Statuses]
  BY <1>1 DEF IInv, TypeOK
<1> QED BY <1>1, <1>2, <1>3, <1>4, RowStep

-----------------------------------------------------------------------------
LEMMA ReadForRecommendationKeeps ==
  ASSUME IInv, NEW r \in Requests, NEW u \in Users, ReadForRecommendation(r, u)
  PROVE  IInv'
<1>1. SequencesTaken \subseteq Nat
  BY DEF SequencesTaken, RecsWith, IInv, TypeOK, RecommendationRow
<1>2. PICK n \in NextSequence(SequencesTaken) : Enter(r,
        [pc |-> "recommend", sequence |-> n,
         status |-> IF fd.status \in {"DRAFT", "MANAGEMENT_REVIEW"} THEN "PROPOSED"
                                                                    ELSE "AGREED"])
  BY DEF ReadForRecommendation
<1>3. n \in Nat
  <2>1. n = 1 \/ \E s \in SequencesTaken : n = s + 1
    BY <1>2 DEF NextSequence
  <2> QED BY <1>1, <2>1
<1> DEFINE status == IF fd.status \in {"DRAFT", "MANAGEMENT_REVIEW"} THEN "PROPOSED"
                                                                     ELSE "AGREED"
           q == [pc |-> "recommend", sequence |-> n, status |-> status]
<1>4. status \in {"PROPOSED", "AGREED"}
  OBVIOUS
<1>5. Enter(r, q)
  BY <1>2
<1> HIDE DEF status
<1>6. q \in RecommendRequest /\ q.pc = "recommend"
  BY <1>3, <1>4 DEF RecommendRequest
<1> HIDE DEF q
<1> QED BY <1>5, <1>6, RequestStep DEF ReadForRecommendation, RequestRecords, IInv, TypeOK

LEMMA CreateRecommendationKeeps ==
  ASSUME IInv, NEW r \in Requests, NEW k \in Recs, CreateRecommendation(r, k)
  PROVE  IInv'
<1>1. req[r] \in RecommendRequest
  BY RequestKinds DEF IInv, CreateRecommendation
<1>2. [status |-> req[r].status, sequence |-> req[r].sequence] \in RecommendationRow
  BY <1>1 DEF RecommendRequest, RecommendationRow, RecommendationStatuses
<1>3. recs' \in [Recs -> RecommendationRow]
  BY <1>2 DEF CreateRecommendation, IInv, TypeOK
<1>4. Enter(r, Idle) /\ Idle \in RequestRecords
      /\ Idle.pc = "idle"
  BY DEF CreateRecommendation, Release, RequestRecords, Idle
<1> QED BY <1>3, <1>4, RequestStep DEF CreateRecommendation

LEMMA UpdateRecommendationKeeps ==
  ASSUME IInv, NEW r \in Requests, NEW u \in Users, NEW k \in Recs,
         NEW s \in RecommendationStatuses, UpdateRecommendation(r, u, k, s)
  PROVE  IInv'
<1>1. recs' \in [Recs -> RecommendationRow]
  BY DEF UpdateRecommendation, IInv, TypeOK, RecommendationRow
<1>2. Enter(r, Idle) /\ Idle \in RequestRecords
      /\ Idle.pc = "idle"
  BY DEF UpdateRecommendation, Release, RequestRecords, Idle
<1> QED BY <1>1, <1>2, RequestStep DEF UpdateRecommendation

-----------------------------------------------------------------------------
LEMMA NextHolds == IInv /\ [Next]_vars => IInv'
<1> SUFFICES ASSUME IInv, [Next]_vars PROVE IInv'
  OBVIOUS
<1>1. CASE Next
  <2>1. PICK r \in Requests :
          \/ ReadRequest(r)
          \/ CountRows(r)
          \/ CommitTransition(r)
          \/ CommitUpdate(r)
          \/ CommitExtend(r)
          \/ \E k \in Recs :
               \/ CreateRecommendation(r, k)
               \/ \E u \in Users, s \in RecommendationStatuses : UpdateRecommendation(r, u, k, s)
    BY <1>1 DEF Next
  <2>2. CASE ReadRequest(r)
    BY <2>2, ReadForTransitionKeeps, ReadForUpdateKeeps, ReadForExtendKeeps,
       ReadForRecommendationKeeps DEF ReadRequest
  <2>3. CASE CountRows(r)
    BY <2>3, CountRowsKeeps
  <2>4. CASE CommitTransition(r)
    BY <2>4, CommitTransitionKeeps
  <2>5. CASE CommitUpdate(r)
    BY <2>5, CommitUpdateKeeps
  <2>6. CASE CommitExtend(r)
    BY <2>6, CommitExtendKeeps
  <2>7. CASE \E k \in Recs :
               \/ CreateRecommendation(r, k)
               \/ \E u \in Users, s \in RecommendationStatuses : UpdateRecommendation(r, u, k, s)
    BY <2>7, CreateRecommendationKeeps, UpdateRecommendationKeeps
  <2> QED BY <2>1, <2>2, <2>3, <2>4, <2>5, <2>6, <2>7
<1>2. CASE UNCHANGED vars
  BY <1>2 DEF vars, IInv, TypeOK, AgreedDateIsKept, NoExtensionLost, SettledHasItsStamps,
              ValidationWasImplemented, TransitionsInProgress, TransitionIsSound, Dated,
              ExtensionsInProgress
<1> QED BY <1>1, <1>2

(* Every reachable state satisfies the invariant.                          *)
THEOREM InductiveInvariant == Spec => []IInv
BY InitHolds, NextHolds, PTL DEF Spec

(* Rows, history and pending requests have their types, as the handlers of *)
(* FindingsService write them.                                             *)
THEOREM TypeCorrect == Spec => []TypeOK
<1>1. IInv => TypeOK
  BY DEF IInv
<1> QED BY <1>1, InductiveInvariant, PTL

(* No late commit loses the date first agreed with management, and every   *)
(* granted extension is counted, however many overlap (agree,              *)
(* return_to_draft, extend).                                               *)
THEOREM DatesHold == Spec => []DatesKeepTheirWord
<1>1. IInv => DatesKeepTheirWord
  BY DEF IInv, DatesKeepTheirWord
<1> QED BY <1>1, InductiveInvariant, PTL

(* A settled finding always carries the stamps of its settlement           *)
(* (validate_and_close, accept_risk).                                      *)
THEOREM SettledStampsHold == Spec => []SettledHasItsStamps
<1>1. IInv => SettledHasItsStamps
  BY DEF IInv
<1> QED BY <1>1, InductiveInvariant, PTL

-----------------------------------------------------------------------------
(* A lone request                                                          *)
(*                                                                         *)
(* What a request has read is still so when it commits, if no other was    *)
(* beside it; and the newest history row always names the status.          *)

\* The status and the dates are those read, and the actor is no owner who
\* validates.
MoveIsCurrent(q) ==
  /\ q.move.from = fd.status
  /\ q.originalDue = fd.originalDue
  /\ \A g \in q.move.guards : EntityGuard(g, q.user)

\* The extension moves the date later and keeps the original one.
ExtensionIsCurrent(q) ==
  /\ fd.status \in ACTIONABLE_STATUSES
  /\ q.originalDue = fd.originalDue
  /\ Postpones(q.newDue)

RequestIsCurrent(q) ==
  /\ q.pc \in {"count", "commit"} => MoveIsCurrent(q)
  /\ q.pc = "update" => fd.status \notin Terminal
  /\ q.pc = "extend" => ExtensionIsCurrent(q)

LoneRequestIsCurrent == alone => \A r \in Requests : RequestIsCurrent(req[r])

HistoryIsCurrent == last.to = fd.status

LInv == IInv /\ HistoryIsCurrent /\ LoneRequestIsCurrent

(* The moves of the table end in the status they name, start outside the   *)
(* terminal ones, and close only over the validator guard.                 *)
LEMMA MoveFacts ==
  ASSUME NEW t \in FINDING_WORKFLOW
  PROVE  /\ t.from \notin Terminal
         /\ t.to = "CLOSED" =>
              /\ t.action = "validate_and_close"
              /\ "validator_is_not_action_owner" \in t.guards
BY DEF FINDING_WORKFLOW, Move, Terminal

(* The request of a lone step is the only one, and was alone before.       *)
LEMMA OnlyRequest ==
  ASSUME TypeOK, NEW r \in Requests, NEW q, Enter(r, q), alone'
  PROVE  /\ \A s \in Requests : req'[s] = IF s = r THEN q ELSE Idle
         /\ req[r].pc # "idle" => alone
<1>1. /\ \A s \in Others(r) : req[s] = Idle
      /\ alone \/ req[r] = Idle
  BY Zenon DEF Enter
<1>2. req' = [req EXCEPT ![r] = q]
  BY DEF Enter
<1> QED BY <1>1, <1>2 DEF Others, Idle, TypeOK

(* A request in progress that commits alone still has what it read.        *)
LEMMA LoneCommit ==
  ASSUME LInv, NEW r \in Requests, NEW q, Enter(r, q), alone', req[r].pc # "idle"
  PROVE  RequestIsCurrent(req[r])
BY OnlyRequest DEF LInv, IInv, LoneRequestIsCurrent

(* A step that leaves finding and history alone keeps the invariant if the *)
(* request it makes is current.                                            *)
LEMMA LoneRequestStep ==
  ASSUME LInv, NEW r \in Requests, NEW q, Enter(r, q),
         UNCHANGED <<fd, last>>, alone' => RequestIsCurrent(q)
  PROVE  HistoryIsCurrent' /\ LoneRequestIsCurrent'
<1>1. fd' = fd /\ last' = last /\ TypeOK
  BY DEF LInv, IInv
<1>2. ASSUME alone', NEW s \in Requests PROVE RequestIsCurrent(req[s])'
  <2>1. req'[s] = IF s = r THEN q ELSE Idle
    BY <1>1, <1>2, OnlyRequest
  <2>2. RequestIsCurrent(q)
    BY <1>2
  <2> QED
    BY <1>1, <2>1, <2>2 DEF RequestIsCurrent, MoveIsCurrent, EntityGuard,
                            ExtensionIsCurrent, Postpones, Idle
<1>3. LoneRequestIsCurrent'
  BY <1>2 DEF LoneRequestIsCurrent
<1> QED BY <1>1, <1>3 DEF LInv, HistoryIsCurrent

(* A request that has ended relies on nothing.                             *)
LEMMA AfterRelease ==
  ASSUME TypeOK, NEW r \in Requests, Release(r)
  PROVE  LoneRequestIsCurrent'
<1>1. ASSUME alone', NEW s \in Requests PROVE RequestIsCurrent(req[s])'
  <2>1. req'[s] = Idle
    BY <1>1, OnlyRequest DEF Release
  <2> QED BY <2>1 DEF RequestIsCurrent, Idle
<1> QED BY <1>1 DEF LoneRequestIsCurrent

(* A new finding has one history row, and no request is in progress.       *)
LEMMA LoneInit == Init => LInv
<1> SUFFICES ASSUME Init PROVE LInv
  OBVIOUS
<1>1. HistoryIsCurrent
  BY DEF Init, HistoryIsCurrent
<1>2. LoneRequestIsCurrent
  BY DEF Init, NoRequests, LoneRequestIsCurrent
<1> QED BY <1>1, <1>2, InitHolds DEF LInv

(* Every step keeps what a lone request relies on.                         *)
LEMMA LoneNext == LInv /\ [Next]_vars => LInv'
<1> SUFFICES ASSUME LInv, [Next]_vars PROVE HistoryIsCurrent' /\ LoneRequestIsCurrent'
  BY NextHolds DEF LInv
<1> DEFINE Goal == HistoryIsCurrent' /\ LoneRequestIsCurrent'
<1>0. IInv /\ TypeOK
  BY DEF LInv, IInv
<1>1. ASSUME NEW r \in Requests, NEW u \in Users, NEW t \in FINDING_WORKFLOW,
             ReadForTransition(r, u, t)
      PROVE  Goal
  <2> DEFINE pc == IF \E g \in t.guards : CountsRows(g) THEN "count" ELSE "commit"
             q == [pc |-> pc, user |-> u, move |-> t, due |-> fd.due,
                   originalDue |-> fd.originalDue]
  <2>1. pc \in {"count", "commit"}
    OBVIOUS
  <2>2. Enter(r, q) /\ UNCHANGED <<fd, last>>
    BY <1>1 DEF ReadForTransition
  <2> HIDE DEF pc
  <2>3. RequestIsCurrent(q)
    BY <1>1, <2>1 DEF ReadForTransition, RequestIsCurrent, MoveIsCurrent
  <2> HIDE DEF q
  <2> QED BY <2>2, <2>3, LoneRequestStep
<1>2. ASSUME NEW r \in Requests, NEW u \in Users, NEW p \in Patches, ReadForUpdate(r, u, p)
      PROVE  Goal
  <2> DEFINE q == [pc |-> "update", patch |-> p]
  <2>1. Enter(r, q) /\ UNCHANGED <<fd, last>> /\ RequestIsCurrent(q)
    BY <1>2 DEF ReadForUpdate, MayEdit, RequestIsCurrent
  <2> HIDE DEF q
  <2> QED BY <2>1, LoneRequestStep
<1>3. ASSUME NEW r \in Requests, NEW u \in Users, NEW d \in Dates, ReadForExtend(r, u, d)
      PROVE  Goal
  <2> DEFINE q == [pc |-> "extend", newDue |-> d, extensions |-> fd.extensions,
                   originalDue |-> IF fd.originalDue = NoDate THEN fd.due
                                                              ELSE fd.originalDue]
  <2>1. Enter(r, q) /\ UNCHANGED <<fd, last>>
    BY <1>3 DEF ReadForExtend
  <2>2. fd.originalDue # NoDate
    BY <1>0, <1>3 DEF ReadForExtend, IInv, AgreedDateIsKept
  <2>3. RequestIsCurrent(q)
    BY <1>3, <2>2 DEF ReadForExtend, RequestIsCurrent, ExtensionIsCurrent
  <2> HIDE DEF q
  <2> QED BY <2>1, <2>3, LoneRequestStep
<1>4. ASSUME NEW r \in Requests, NEW u \in Users, ReadForRecommendation(r, u)
      PROVE  Goal
  <2> DEFINE status == IF fd.status \in {"DRAFT", "MANAGEMENT_REVIEW"} THEN "PROPOSED"
                                                                       ELSE "AGREED"
             q(n) == [pc |-> "recommend", sequence |-> n, status |-> status]
  <2>1. PICK n : Enter(r, q(n)) /\ UNCHANGED <<fd, last>>
    BY <1>4 DEF ReadForRecommendation
  <2>2. RequestIsCurrent(q(n))
    BY DEF RequestIsCurrent
  <2> HIDE DEF q
  <2> QED BY <2>1, <2>2, LoneRequestStep
<1>5. ASSUME NEW r \in Requests, CountRows(r) PROVE Goal
  <2>1. req[r] \in TransitionRequest /\ UNCHANGED <<fd, last>> /\ req[r].pc = "count"
    BY <1>0, <1>5, RequestKinds DEF CountRows
  <2>2. CASE Release(r)
    BY <2>1, <2>2, LoneRequestStep DEF Release, Idle, RequestIsCurrent
  <2>3. CASE Enter(r, [req[r] EXCEPT !.pc = "commit"])
    <3> DEFINE q == [req[r] EXCEPT !.pc = "commit"]
    <3>1. Enter(r, q)
      BY <2>3
    <3>2. /\ q.pc = "commit" /\ q.move = req[r].move /\ q.user = req[r].user
          /\ q.originalDue = req[r].originalDue
      BY <2>1 DEF TransitionRequest
    <3> HIDE DEF q
    <3>3. ASSUME alone' PROVE RequestIsCurrent(q)
      <4>1. RequestIsCurrent(req[r])
        BY <2>1, <3>1, <3>3, LoneCommit
      <4> QED BY <2>1, <3>2, <4>1 DEF RequestIsCurrent, MoveIsCurrent
    <3> QED BY <2>1, <3>1, <3>3, LoneRequestStep
  <2> QED BY <1>5, <2>2, <2>3 DEF CountRows
<1>6. ASSUME NEW r \in Requests, CommitTransition(r) PROVE Goal
  <2>1. /\ req[r] \in TransitionRequest
        /\ fd'.status = req[r].move.to /\ last' = HistoryRow(req[r].move)
    BY <1>0, <1>6, CommittedFinding DEF CommitTransition
  <2>2. HistoryIsCurrent'
    BY <2>1 DEF HistoryIsCurrent, HistoryRow
  <2> QED BY <1>0, <1>6, <2>2, AfterRelease DEF CommitTransition
<1>7. ASSUME NEW r \in Requests, CommitUpdate(r) PROVE Goal
  <2>1. fd'.status = fd.status /\ last' = last
    BY <1>0, <1>7, UpdatedFinding DEF CommitUpdate
  <2> QED BY <1>0, <1>7, <2>1, AfterRelease DEF CommitUpdate, LInv, HistoryIsCurrent
<1>8. ASSUME NEW r \in Requests, CommitExtend(r) PROVE Goal
  <2>1. fd'.status = fd.status /\ last' = last
    BY <1>0, <1>8, ExtendedFinding DEF CommitExtend
  <2> QED BY <1>0, <1>8, <2>1, AfterRelease DEF CommitExtend, LInv, HistoryIsCurrent
<1>9. ASSUME NEW r \in Requests, NEW k \in Recs, CreateRecommendation(r, k) PROVE Goal
  BY <1>9, LoneRequestStep DEF CreateRecommendation, Release, Idle, RequestIsCurrent
<1>10. ASSUME NEW r \in Requests, NEW u \in Users, NEW k \in Recs,
              NEW s \in RecommendationStatuses, UpdateRecommendation(r, u, k, s)
       PROVE  Goal
  BY <1>10, LoneRequestStep DEF UpdateRecommendation, Release, Idle, RequestIsCurrent
<1>11. CASE UNCHANGED vars
  <2>1. fd' = fd /\ last' = last /\ req' = req /\ alone' = alone
    BY <1>11 DEF vars
  <2> QED BY <2>1 DEF LInv, HistoryIsCurrent, LoneRequestIsCurrent, RequestIsCurrent,
             MoveIsCurrent, EntityGuard, ExtensionIsCurrent, Postpones
<1>12. ASSUME NEW r \in Requests, ReadRequest(r) PROVE Goal
  BY <1>1, <1>2, <1>3, <1>4, <1>12 DEF ReadRequest
<1>13. ASSUME NEW r \in Requests, NEW k \in Recs,
              \/ CreateRecommendation(r, k)
              \/ \E u \in Users, s \in RecommendationStatuses :
                   UpdateRecommendation(r, u, k, s)
       PROVE  Goal
  BY <1>9, <1>10, <1>13
<1>14. CASE Next
  <2>1. PICK r \in Requests :
          \/ ReadRequest(r)
          \/ CountRows(r)
          \/ CommitTransition(r)
          \/ CommitUpdate(r)
          \/ CommitExtend(r)
          \/ \E k \in Recs :
               \/ CreateRecommendation(r, k)
               \/ \E u \in Users, s \in RecommendationStatuses : UpdateRecommendation(r, u, k, s)
    BY <1>14 DEF Next
  <2> QED BY <2>1, <1>5, <1>6, <1>7, <1>8, <1>12, <1>13
<1> QED BY <1>11, <1>14

LEMMA LoneInvariant == Spec => []LInv
BY LoneInit, LoneNext, PTL DEF Spec

(* What a lone request may do to a finding.                                *)
LEMMA LoneStep ==
  ASSUME LInv, [Next]_vars, alone'
  PROVE  /\ fd.status \in Terminal => UNCHANGED fd
         /\ last' # last => last'.from = last.to
         /\ fd.originalDue # NoDate => fd'.originalDue = fd.originalDue
         /\ fd'.extensions # fd.extensions /\ fd.due # NoDate => fd'.due > fd.due
         /\ OwnerNeverValidates => OwnerNeverValidates'
<1> DEFINE Goal == /\ fd.status \in Terminal => UNCHANGED fd
                   /\ last' # last => last'.from = last.to
                   /\ fd.originalDue # NoDate => fd'.originalDue = fd.originalDue
                   /\ fd'.extensions # fd.extensions /\ fd.due # NoDate => fd'.due > fd.due
                   /\ OwnerNeverValidates => OwnerNeverValidates'
<1>0. IInv /\ TypeOK /\ last.to = fd.status
  BY DEF LInv, IInv, HistoryIsCurrent
<1>1. CASE fd' = fd /\ last' = last
  BY <1>1 DEF OwnerNeverValidates
<1>2. ASSUME NEW r \in Requests, CommitTransition(r) PROVE Goal
  <2> DEFINE q == req[r]
  <2>1. RequestIsCurrent(q) /\ q.pc = "commit"
    BY <1>2, LoneCommit DEF CommitTransition, Release
  <2>2. /\ q \in TransitionRequest
        /\ fd'.status = q.move.to
        /\ fd'.extensions = fd.extensions /\ fd'.owner = fd.owner
        /\ fd'.originalDue =
             IF q.move.action = "agree" /\ q.originalDue = NoDate THEN q.due
                                                                 ELSE fd.originalDue
        /\ q.move.action = "validate_and_close" => fd'.validatedBy = q.user
        /\ last' = HistoryRow(q.move)
    BY <1>0, <1>2, CommittedFinding DEF CommitTransition
  <2> HIDE DEF q
  <2>3. MoveIsCurrent(q) /\ q.move \in FINDING_WORKFLOW
    BY <2>1, <2>2 DEF RequestIsCurrent, TransitionRequest
  <2>4. fd.status \notin Terminal
    BY <2>3, MoveFacts DEF MoveIsCurrent
  <2>5. OwnerNeverValidates'
    BY <2>2, <2>3, MoveFacts DEF OwnerNeverValidates, MoveIsCurrent, EntityGuard
  <2> QED BY <1>0, <2>2, <2>3, <2>4, <2>5 DEF MoveIsCurrent, HistoryRow
<1>3. ASSUME NEW r \in Requests, CommitUpdate(r) PROVE Goal
  <2>1. fd.status \notin Terminal /\ last' = last
    BY <1>3, LoneCommit DEF CommitUpdate, Release, RequestIsCurrent
  <2>2. OwnerNeverValidates'
    BY <1>0, <1>3, <2>1, UpdatedFinding DEF OwnerNeverValidates, Terminal
  <2> QED BY <1>0, <1>3, <2>1, <2>2, UpdatedFinding
<1>4. ASSUME NEW r \in Requests, CommitExtend(r) PROVE Goal
  <2>1. ExtensionIsCurrent(req[r]) /\ last' = last
    BY <1>4, LoneCommit DEF CommitExtend, Release, RequestIsCurrent
  <2>2. /\ fd'.due = req[r].newDue /\ fd'.originalDue = req[r].originalDue
        /\ fd'.status = fd.status
    BY <1>0, <1>4, ExtendedFinding
  <2>3. fd.status \notin Terminal /\ fd.status # "CLOSED"
    BY <2>1 DEF ExtensionIsCurrent, ACTIONABLE_STATUSES, Terminal
  <2> QED BY <2>1, <2>2, <2>3 DEF ExtensionIsCurrent, Postpones, OwnerNeverValidates
<1>5. ASSUME NEW k \in Recs, NEW r \in Requests,
             \/ CreateRecommendation(r, k)
             \/ \E u \in Users, s \in RecommendationStatuses :
                  UpdateRecommendation(r, u, k, s)
      PROVE  Goal
  BY <1>1, <1>5 DEF CreateRecommendation, UpdateRecommendation
<1>6. ASSUME NEW r \in Requests, ReadRequest(r) \/ CountRows(r)
      PROVE  Goal
  BY <1>1, <1>6 DEF ReadRequest, ReadForTransition, ReadForUpdate, ReadForExtend,
                    ReadForRecommendation, CountRows
<1>7. CASE UNCHANGED vars
  BY <1>1, <1>7 DEF vars
<1>8. CASE Next
  <2>1. PICK r \in Requests :
          \/ ReadRequest(r)
          \/ CountRows(r)
          \/ CommitTransition(r)
          \/ CommitUpdate(r)
          \/ CommitExtend(r)
          \/ \E k \in Recs :
               \/ CreateRecommendation(r, k)
               \/ \E u \in Users, s \in RecommendationStatuses : UpdateRecommendation(r, u, k, s)
    BY <1>8 DEF Next
  <2> QED BY <2>1, <1>2, <1>3, <1>4, <1>5, <1>6
<1> QED BY <1>7, <1>8

(* A request with no other beside it never makes the validator of a closed *)
(* finding the owner of its action, whatever overlapping requests left     *)
(* behind (validator_is_not_action_owner; update).                         *)
THEOREM LoneValidatorHolds == Spec => LoneValidatorIsNoOwner
<1>1. LInv /\ [Next]_vars =>
        [alone' /\ OwnerNeverValidates => OwnerNeverValidates']_vars
  BY LoneStep
<1> QED BY <1>1, LoneInvariant, PTL DEF Spec, LoneValidatorIsNoOwner

(* A lone request leaves a settled finding alone and continues the status  *)
(* history, which always ends at the status of the finding                 *)
(* (FINDING_WORKFLOW.terminal, FindingStatusHistory).                      *)
THEOREM HistoryHolds == Spec => HistoryEndsWhenSettled
<1>1. LInv /\ LInv' /\ [Next]_vars =>
        [/\ alone' /\ fd.status \in Terminal => UNCHANGED fd
         /\ last'.to = fd'.status
         /\ alone' /\ last' # last => last'.from = last.to]_vars
  BY LoneStep DEF LInv, HistoryIsCurrent
<1> QED BY <1>1, LoneInvariant, PTL DEF Spec, HistoryEndsWhenSettled

(* A lone request keeps the original due date, and a lone extension moves  *)
(* the due date later (extend, agree).                                     *)
THEOREM ExtensionsHold == Spec => ExtensionsKeepTheirWord
<1>1. LInv /\ [Next]_vars =>
        [alone' =>
           /\ fd.originalDue # NoDate => fd'.originalDue = fd.originalDue
           /\ fd'.extensions # fd.extensions /\ fd.due # NoDate => fd'.due > fd.due]_vars
  BY LoneStep
<1> QED BY <1>1, LoneInvariant, PTL DEF Spec, ExtensionsKeepTheirWord
=============================================================================
