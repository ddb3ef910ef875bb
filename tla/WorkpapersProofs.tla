--------------------------- MODULE WorkpapersProofs ---------------------------
(***************************************************************************)
(* The properties of Workpapers that survive overlapping requests, for any *)
(* number of requests, users, notes and versions.                          *)
(*                                                                         *)
(* A commit acts on what its request read some time ago, so the invariant  *)
(* says of each request in progress what is still true of the present row: *)
(* the preparer it saw is the preparer (nothing ever changes it), its      *)
(* actor passed the independence guards against that same preparer, a      *)
(* sign-off follows an approval that is still in the trail, and the        *)
(* snapshot an edit will store is a content the row really had.            *)
(***************************************************************************)
EXTENDS Workpapers, TLAPS

Approved(trail) == \E v \in trail : v.level = "FIRST" /\ v.decision = "APPROVED"

TransitionsInProgress ==
  \A r \in Requests :
    req[r].pc \in {"count", "commit"} =>
      /\ req[r].preparedBy = wp.preparedBy
      /\ req[r].move.action \in {"start_review", "approve_review", "sign_off"} =>
           req[r].user # wp.preparedBy
      /\ req[r].move.action = "sign_off" => Approved(reviews)

UpdatesInProgress ==
  \A r \in Requests :
    req[r].pc = "update" =>
      /\ req[r].preparedBy = wp.preparedBy
      /\ req[r].seen.number <= wp.version
      /\ req[r].seen.content = written[req[r].seen.number]

ReviewedIsApproved == wp.status = "REVIEWED" => Approved(reviews)

\* The signer's own approval is in the trail while the signature stands.
SignatureIsRecorded ==
  wp.signedOffBy # NoOne =>
    \E v \in reviews : v.level \in {"SECOND", "PARTNER"}
                       /\ v.reviewer = wp.signedOffBy

\* No edit starts from the bound, so none commits past it.
EditsBelowBound ==
  \A r \in Requests : req[r].pc = "update" => req[r].seen.number < MaxVersion

IInv ==
  /\ TypeOK
  /\ SegregationOfDuties
  /\ SignOffIsWhole
  /\ VersionHistoryFaithful
  /\ TransitionsInProgress
  /\ UpdatesInProgress
  /\ ReviewedIsApproved
  /\ SignatureIsRecorded
  /\ EditsBelowBound

-----------------------------------------------------------------------------
(* What the transition table says of the moves the invariant tells apart.  *)
LEMMA WorkflowFacts ==
  ASSUME NEW t \in WORKPAPER_WORKFLOW
  PROVE  /\ t.to \in Statuses
         /\ t.permission \in Permissions
         /\ t.action \in {"start_review", "approve_review"} =>
              "reviewer_is_not_preparer" \in t.guards
         /\ t.action = "sign_off" =>
              "signer_is_not_preparer" \in t.guards /\ t.from = "REVIEWED"
         /\ t.to = "SIGNED_OFF" <=> t.action = "sign_off"
         /\ t.to = "REVIEWED" <=> t.action = "approve_review"
BY DEF WORKPAPER_WORKFLOW, Move, Statuses, Permissions

(* A request in progress is of the kind its program counter names.         *)
LEMMA RequestKinds ==
  ASSUME TypeOK, NEW r \in Requests
  PROVE  /\ req[r].pc \in {"count", "commit"} => req[r] \in TransitionRequest
         /\ req[r].pc = "update" => req[r] \in UpdateRequest
         /\ req[r].pc = "note" => req[r] \in NoteRequest
BY DEF TypeOK, Idle, TransitionRequest, UpdateRequest, NoteRequest

LEMMA InitHolds == Init => IInv
<1> SUFFICES ASSUME Init PROVE IInv
  OBVIOUS
<1>1. PICK u \in Holders["workpaper:prepare"], c \in Contents :
        wp = [status |-> "DRAFT", isLocked |-> FALSE,
              preparedBy |-> u, preparedAt |-> FALSE,
              reviewedBy |-> NoOne, reviewedAt |-> FALSE, signedOffBy |-> NoOne,
              content |-> c, version |-> 1]
  BY DEF Init
<1>2. TypeOK
  BY <1>1, WorkpaperAssumption
     DEF Init, TypeOK, NoteStatuses, WorkpaperRow, Statuses, Permissions
<1>3. SegregationOfDuties /\ SignOffIsWhole /\ ReviewedIsApproved /\ SignatureIsRecorded
  BY <1>1, WorkpaperAssumption
     DEF Init, Permissions, SegregationOfDuties, SignOffIsWhole, ReviewedIsApproved, SignatureIsRecorded
<1>4. VersionHistoryFaithful
  BY <1>1 DEF Init, VersionHistoryFaithful
<1>5. TransitionsInProgress /\ UpdatesInProgress /\ EditsBelowBound
  BY DEF Init, Idle, TransitionsInProgress, UpdatesInProgress, EditsBelowBound
<1> QED BY <1>2, <1>3, <1>4, <1>5 DEF IInv

-----------------------------------------------------------------------------
(* A step that leaves every row alone and starts, advances or ends a       *)
(* request keeps the invariant if the new request satisfies its part.      *)
LEMMA RequestStep ==
  ASSUME IInv, NEW r \in Requests, NEW q,
         q \in {Idle} \cup TransitionRequest \cup UpdateRequest \cup NoteRequest,
         req' = [req EXCEPT ![r] = q],
         UNCHANGED <<wp, versions, reviews, step, written>>,
         notes' \in [Notes -> NoteStatuses],
         q.pc \in {"count", "commit"} =>
           /\ q.preparedBy = wp.preparedBy
           /\ q.move.action \in {"start_review", "approve_review", "sign_off"} =>
                q.user # wp.preparedBy
           /\ q.move.action = "sign_off" => Approved(reviews),
         q.pc = "update" =>
           /\ q.preparedBy = wp.preparedBy
           /\ q.seen.number <= wp.version
           /\ q.seen.content = written[q.seen.number]
           /\ q.seen.number < MaxVersion
  PROVE  IInv'
<1>1. /\ wp' = wp /\ versions' = versions /\ reviews' = reviews
      /\ step' = step /\ written' = written
  OBVIOUS
<1>2. req' \in [Requests -> {Idle} \cup TransitionRequest
                              \cup UpdateRequest \cup NoteRequest]
  BY DEF IInv, TypeOK
<1>3. \A s \in Requests : req'[s] = IF s = r THEN q ELSE req[s]
  BY DEF IInv, TypeOK
<1>4. TypeOK'
  BY <1>1, <1>2 DEF IInv, TypeOK
<1>5. SegregationOfDuties' /\ SignOffIsWhole' /\ VersionHistoryFaithful'
      /\ ReviewedIsApproved' /\ SignatureIsRecorded'
  BY <1>1 DEF IInv, SegregationOfDuties, SignOffIsWhole, VersionHistoryFaithful,
              ReviewedIsApproved, SignatureIsRecorded, Approved
<1>6. TransitionsInProgress'
  BY <1>1, <1>3 DEF IInv, TransitionsInProgress, Approved
<1>7. UpdatesInProgress' /\ EditsBelowBound'
  BY <1>1, <1>3 DEF IInv, UpdatesInProgress, EditsBelowBound
<1> QED BY <1>4, <1>5, <1>6, <1>7 DEF IInv

LEMMA ReadForTransitionPreserves ==
  ASSUME IInv, NEW r \in Requests, NEW u \in Users, NEW t \in WORKPAPER_WORKFLOW,
         ReadForTransition(r, u, t)
  PROVE  IInv'
<1> DEFINE q == [pc |-> IF t.guards \cap NoteGuards = {} THEN "commit" ELSE "count",
                 user |-> u, move |-> t, preparedBy |-> wp.preparedBy]
<1>1. /\ req' = [req EXCEPT ![r] = q]
      /\ UNCHANGED <<wp, notes, versions, reviews, step, written>>
  BY DEF ReadForTransition
<1>2. q \in TransitionRequest
  BY DEF TransitionRequest, IInv, TypeOK, WorkpaperRow
<1>3. t.action \in {"start_review", "approve_review", "sign_off"} =>
        u # wp.preparedBy
  <2>1. t.action \in {"start_review", "approve_review", "sign_off"} =>
          \E g \in t.guards : g \in {"reviewer_is_not_preparer", "signer_is_not_preparer"}
    BY WorkflowFacts
  <2>2. \A g \in t.guards :
          g \in {"reviewer_is_not_preparer", "signer_is_not_preparer"} =>
            wp.preparedBy \in {NoOne} \cup (Users \ {u})
    BY DEF ReadForTransition, EntityGuard
  <2> QED BY <2>1, <2>2, WorkpaperAssumption
<1>4. t.action = "sign_off" => Approved(reviews)
  BY WorkflowFacts DEF ReadForTransition, IInv, ReviewedIsApproved
<1> HIDE DEF q
<1>5. /\ q.pc \in {"count", "commit"} /\ q.preparedBy = wp.preparedBy
      /\ q.move = t /\ q.user = u
  BY DEF q
<1>6. notes' \in [Notes -> NoteStatuses]
  BY <1>1 DEF IInv, TypeOK
<1> QED BY <1>1, <1>2, <1>3, <1>4, <1>5, <1>6, RequestStep

LEMMA ReleasePreserves ==
  ASSUME IInv, NEW r \in Requests, Release(r), notes' \in [Notes -> NoteStatuses],
         UNCHANGED <<wp, versions, reviews, step, written>>
  PROVE  IInv'
BY RequestStep DEF Release, Idle

LEMMA CountNotesPreserves ==
  ASSUME IInv, NEW r \in Requests, CountNotes(r)
  PROVE  IInv'
<1>1. notes' \in [Notes -> NoteStatuses]
      /\ UNCHANGED <<wp, versions, reviews, step, written>>
  BY DEF CountNotes, IInv, TypeOK
<1>2. CASE Release(r)
  BY <1>1, <1>2, ReleasePreserves
<1>3. CASE req' = [req EXCEPT ![r].pc = "commit"]
  <2> DEFINE q == [req[r] EXCEPT !.pc = "commit"]
  <2>1. req[r] \in TransitionRequest
    BY RequestKinds DEF CountNotes, IInv
  <2>2. q \in TransitionRequest /\ q.preparedBy = req[r].preparedBy
        /\ q.move = req[r].move /\ q.user = req[r].user /\ q.pc = "commit"
    BY <2>1 DEF TransitionRequest
  <2>3. req' = [req EXCEPT ![r] = q]
    BY <1>3, <2>1 DEF TransitionRequest
  <2>4. /\ req[r].preparedBy = wp.preparedBy
        /\ req[r].move.action \in {"start_review", "approve_review", "sign_off"} =>
             req[r].user # wp.preparedBy
        /\ req[r].move.action = "sign_off" => Approved(reviews)
    BY DEF CountNotes, IInv, TransitionsInProgress
  <2> HIDE DEF q
  <2> QED BY <1>1, <2>2, <2>3, <2>4, RequestStep
<1> QED BY <1>2, <1>3 DEF CountNotes

(* The review row a transition leaves.                                     *)
LEMMA ReviewRowFacts ==
  ASSUME NEW action, NEW u \in Users
  PROVE  /\ ReviewRow(action, u) \subseteq ReviewTrail
         /\ \A v \in ReviewRow(action, u) :
              v.reviewer = u /\ (v.decision = "APPROVED" =>
                                    action \in {"approve_review", "sign_off"})
         /\ action = "approve_review" => Approved(ReviewRow(action, u))
         /\ action = "sign_off" =>
              \E v \in ReviewRow(action, u) :
                v.level \in {"SECOND", "PARTNER"} /\ v.reviewer = u
<1>1. CASE action = "raise_notes"
  BY <1>1 DEF ReviewRow, ReviewTrail
<1>2. CASE action = "approve_review"
  <2> DEFINE v == [level |-> "FIRST",
                   decision |-> "APPROVED", reviewer |-> u]
  <2>1. ReviewRow(action, u) = {v}
    BY <1>2 DEF ReviewRow
  <2>2. v \in ReviewTrail /\ v.reviewer = u /\ v.level = "FIRST" /\ v.decision = "APPROVED"
    BY DEF ReviewTrail
  <2> HIDE DEF v
  <2> QED BY <1>2, <2>1, <2>2 DEF Approved
<1>3. CASE action = "sign_off"
  <2> DEFINE v == [level |-> IF u \in Partners THEN "PARTNER" ELSE "SECOND",
                   decision |-> "APPROVED", reviewer |-> u]
  <2>1. ReviewRow(action, u) = {v}
    BY <1>3 DEF ReviewRow
  <2>2. v \in ReviewTrail /\ v.reviewer = u /\ v.level \in {"SECOND", "PARTNER"}
    BY DEF ReviewTrail
  <2> HIDE DEF v
  <2> QED BY <1>3, <2>1, <2>2 DEF Approved
<1>4. CASE action \notin {"raise_notes", "approve_review", "sign_off"}
  BY <1>4 DEF ReviewRow
<1> QED BY <1>1, <1>2, <1>3, <1>4

(* Committing a transition: the row keeps its preparer, and everything     *)
(* else follows from what the request knows of it.                         *)
LEMMA CommitTransitionPreserves ==
  ASSUME IInv, NEW r \in Requests, CommitTransition(r)
  PROVE  IInv'
<1> DEFINE t == req[r].move
           u == req[r].user
           row == Written(t.action, u, req[r].preparedBy)
<1>1. /\ req[r].pc = "commit"
      /\ wp' = [row EXCEPT !.status = t.to]
      /\ reviews' = reviews \cup ReviewRow(t.action, u)
      /\ step' \in {step, "COMPLETED", "IN_PROGRESS"}
      /\ req' = [req EXCEPT ![r] = Idle]
      /\ notes' = notes /\ versions' = versions /\ written' = written
  BY DEF CommitTransition, Release
<1>2. req[r] \in TransitionRequest /\ t \in WORKPAPER_WORKFLOW /\ u \in Users
  BY <1>1, RequestKinds DEF IInv, TransitionRequest
<1>3. /\ req[r].preparedBy = wp.preparedBy
      /\ t.action \in {"start_review", "approve_review", "sign_off"} => u # wp.preparedBy
      /\ t.action = "sign_off" => Approved(reviews)
  BY <1>1 DEF IInv, TransitionsInProgress
<1>4. wp \in WorkpaperRow /\ wp.preparedBy # NoOne
  BY WorkpaperAssumption DEF IInv, TypeOK, WorkpaperRow
<1>5. row \in WorkpaperRow
  BY <1>2, <1>3, <1>4 DEF Written, WorkpaperRow
<1>6. /\ row.preparedBy = wp.preparedBy
      /\ row.content = wp.content /\ row.version = wp.version
      /\ row.reviewedBy = IF t.action \in {"start_review", "approve_review"}
                            THEN u ELSE wp.reviewedBy
      /\ row.signedOffBy = IF t.action = "sign_off" THEN u
                            ELSE IF t.action = "unlock" THEN NoOne ELSE wp.signedOffBy
  BY <1>2, <1>3, <1>4 DEF Written, WorkpaperRow
<1>7. row.isLocked <=> \/ t.action = "sign_off"
                       \/ t.action # "unlock" /\ wp.isLocked
  BY <1>4 DEF Written, WorkpaperRow
<1> HIDE DEF row
<1>8. /\ t.to \in Statuses
      /\ t.to = "SIGNED_OFF" <=> t.action = "sign_off"
      /\ t.to = "REVIEWED" <=> t.action = "approve_review"
  BY <1>2, WorkflowFacts
<1>9. /\ wp' \in WorkpaperRow /\ wp'.status = t.to
      /\ wp'.preparedBy = row.preparedBy /\ wp'.reviewedBy = row.reviewedBy
      /\ wp'.signedOffBy = row.signedOffBy
      /\ wp'.content = row.content /\ wp'.version = row.version
      /\ wp'.isLocked = row.isLocked
  BY <1>1, <1>5, <1>8 DEF WorkpaperRow
<1>10. /\ ReviewRow(t.action, u) \subseteq ReviewTrail
       /\ \A v \in ReviewRow(t.action, u) :
            v.reviewer = u /\ (v.decision = "APPROVED" =>
                                  t.action \in {"approve_review", "sign_off"})
       /\ t.action = "approve_review" => Approved(ReviewRow(t.action, u))
       /\ t.action = "sign_off" =>
            \E v \in ReviewRow(t.action, u) :
              v.level \in {"SECOND", "PARTNER"} /\ v.reviewer = u
  BY <1>2, ReviewRowFacts
<1>11. \A s \in Requests : req'[s] = IF s = r THEN Idle ELSE req[s]
  BY <1>1 DEF IInv, TypeOK
<1>12. TypeOK'
  BY <1>1, <1>9, <1>10, WorkpaperAssumption DEF IInv, TypeOK
<1>13. SegregationOfDuties'
  <2>1. wp'.preparedBy \notin {wp'.reviewedBy, wp'.signedOffBy}
    BY <1>3, <1>4, <1>6, <1>9 DEF IInv, SegregationOfDuties
  <2>2. \A v \in reviews' : v.decision = "APPROVED" => v.reviewer # wp'.preparedBy
    BY <1>1, <1>3, <1>6, <1>9, <1>10 DEF IInv, SegregationOfDuties
  <2> QED BY <2>1, <2>2 DEF SegregationOfDuties
<1>14. SignatureIsRecorded'
  BY <1>1, <1>6, <1>9, <1>10 DEF IInv, SignatureIsRecorded
<1>15. ReviewedIsApproved'
  BY <1>1, <1>8, <1>9, <1>10 DEF IInv, ReviewedIsApproved, Approved
<1>16. SignOffIsWhole'
  <2>1. wp'.isLocked <=> wp'.signedOffBy # NoOne
    BY <1>2, <1>6, <1>7, <1>9, WorkpaperAssumption DEF IInv, SignOffIsWhole
  <2>3. ASSUME wp'.status = "SIGNED_OFF"
        PROVE  /\ wp'.isLocked
               /\ \E v \in reviews' : v.level = "FIRST" /\ v.decision = "APPROVED"
               /\ \E v \in reviews' : v.level \in {"SECOND", "PARTNER"}
                                     /\ v.reviewer = wp'.signedOffBy
    <3>1. t.action = "sign_off"
      BY <2>3, <1>8, <1>9
    <3>2. wp'.isLocked
      BY <3>1, <1>7, <1>9
    <3>3. Approved(reviews')
      BY <3>1, <1>1, <1>3 DEF Approved
    <3>4. wp'.signedOffBy = u
      BY <3>1, <1>6, <1>9
    <3> QED BY <3>1, <3>2, <3>3, <3>4, <1>1, <1>10 DEF Approved
  <2> QED BY <2>1, <2>3 DEF SignOffIsWhole
<1>17. VersionHistoryFaithful'
  BY <1>1, <1>6, <1>9 DEF IInv, VersionHistoryFaithful
<1>18. TransitionsInProgress'
  BY <1>1, <1>6, <1>9, <1>11 DEF IInv, TransitionsInProgress, Idle, Approved
<1>19. UpdatesInProgress' /\ EditsBelowBound'
  BY <1>1, <1>6, <1>9, <1>11 DEF IInv, UpdatesInProgress, EditsBelowBound, Idle
<1> QED BY <1>12, <1>13, <1>14, <1>15, <1>16, <1>17, <1>18, <1>19 DEF IInv

(* Committing an edit: the unique index on the version number admits it    *)
(* only if no other edit committed since it read the row.                  *)
LEMMA CommitUpdatePreserves ==
  ASSUME IInv, NEW r \in Requests, CommitUpdate(r)
  PROVE  IInv'
<1> DEFINE n == req[r].seen.number
<1>1. req[r] \in UpdateRequest /\ req[r].pc = "update"
  BY RequestKinds DEF CommitUpdate, IInv
<1>2. /\ wp \in WorkpaperRow /\ wp.preparedBy \in Users /\ wp.preparedBy # NoOne
      /\ written \in Seq(Contents)
  BY WorkpaperAssumption DEF IInv, TypeOK, WorkpaperRow
<1>3. /\ n \in 1..wp.version /\ n < MaxVersion
      /\ req[r].seen = [number |-> n, content |-> written[n]]
      /\ req[r].preparedBy = wp.preparedBy /\ req[r].content \in Contents
  BY <1>1, <1>2, WorkpaperAssumption
     DEF UpdateRequest, VersionRow, WorkpaperRow, IInv, UpdatesInProgress, EditsBelowBound
<1>4. n = wp.version
  <2>1. ASSUME n < wp.version PROVE FALSE
    <3>1. [number |-> n, content |-> written[n]] \in versions
      BY <1>2, <1>3, <2>1 DEF IInv, VersionHistoryFaithful, WorkpaperRow
    <3> QED BY <3>1 DEF CommitUpdate, VersionIsFree
  <2> QED BY <1>2, <1>3, <2>1 DEF WorkpaperRow
<1>5. wp' = [wp EXCEPT !.content = req[r].content, !.version = @ + 1,
                       !.preparedBy = wp.preparedBy]
  BY <1>2, <1>3 DEF CommitUpdate
<1>6. /\ wp' \in WorkpaperRow /\ wp'.version = wp.version + 1
      /\ wp'.content = req[r].content /\ wp'.preparedBy = wp.preparedBy
      /\ wp'.status = wp.status /\ wp'.reviewedBy = wp.reviewedBy
      /\ wp'.signedOffBy = wp.signedOffBy
  <2>1. wp.version \in Nat /\ wp.version + 1 \in 1..MaxVersion
    BY <1>2, <1>3, <1>4, WorkpaperAssumption DEF WorkpaperRow
  <2>2. wp' = [wp EXCEPT !.content = req[r].content, !.version = wp.version + 1,
                         !.preparedBy = wp.preparedBy]
    BY <1>5
  <2>3. wp' \in WorkpaperRow
    BY <1>2, <1>3, <2>1, <2>2 DEF WorkpaperRow
  <2> QED BY <1>2, <2>2, <2>3 DEF WorkpaperRow
<1>7. wp'.isLocked = wp.isLocked
  BY <1>2, <1>5 DEF WorkpaperRow
<1>8. /\ versions' = versions \cup {[number |-> n, content |-> written[n]]}
      /\ written' = Append(written, req[r].content)
      /\ req' = [req EXCEPT ![r] = Idle]
      /\ notes' = notes /\ reviews' = reviews /\ step' = step
  BY <1>3 DEF CommitUpdate, Release
<1>9. /\ Len(written) = wp.version /\ written' \in Seq(Contents)
      /\ Len(written') = wp.version + 1
      /\ written'[wp.version + 1] = req[r].content
      /\ \A k \in 1..wp.version : written'[k] = written[k]
  BY <1>2, <1>3, <1>8 DEF IInv, VersionHistoryFaithful, WorkpaperRow
<1>10. \A s \in Requests : req'[s] = IF s = r THEN Idle ELSE req[s]
  BY <1>8 DEF IInv, TypeOK
<1>11. TypeOK'
  <2>1. [number |-> n, content |-> written[n]] \in VersionRow
    BY <1>1, <1>3 DEF UpdateRequest
  <2> QED BY <2>1, <1>6, <1>8, <1>9 DEF IInv, TypeOK
<1>12. SegregationOfDuties' /\ ReviewedIsApproved' /\ SignatureIsRecorded'
  BY <1>6, <1>8 DEF IInv, SegregationOfDuties, ReviewedIsApproved,
                    SignatureIsRecorded, Approved
<1>13. SignOffIsWhole'
  BY <1>6, <1>7, <1>8 DEF IInv, SignOffIsWhole
<1>14. VersionHistoryFaithful'
  <2>1. versions' = {[number |-> k, content |-> written'[k]] : k \in 1..wp.version}
    <3>1. versions = {[number |-> k, content |-> written[k]] : k \in 1..(wp.version - 1)}
      BY DEF IInv, VersionHistoryFaithful
    <3> QED BY <3>1, <1>2, <1>4, <1>8, <1>9 DEF WorkpaperRow
  <2>2. wp.version = wp'.version - 1
    BY <1>2, <1>6 DEF WorkpaperRow
  <2> QED BY <2>1, <2>2, <1>6, <1>9 DEF VersionHistoryFaithful
<1>15. TransitionsInProgress'
  BY <1>6, <1>8, <1>10 DEF IInv, TransitionsInProgress, Idle, Approved
<1>16. UpdatesInProgress' /\ EditsBelowBound'
  <2>1. ASSUME NEW s \in Requests, req'[s].pc = "update"
        PROVE  /\ req'[s].preparedBy = wp'.preparedBy
               /\ req'[s].seen.number <= wp'.version
               /\ req'[s].seen.content = written'[req'[s].seen.number]
               /\ req'[s].seen.number < MaxVersion
    <3>1. req'[s] = req[s] /\ req[s].pc = "update"
      BY <1>10, <2>1 DEF Idle
    <3>2. req[s].seen.number \in 1..MaxVersion
      BY <3>1, RequestKinds DEF IInv, UpdateRequest, VersionRow
    <3>3. /\ req[s].preparedBy = wp.preparedBy
          /\ req[s].seen.number <= wp.version
          /\ req[s].seen.content = written[req[s].seen.number]
          /\ req[s].seen.number < MaxVersion
      BY <3>1 DEF IInv, UpdatesInProgress, EditsBelowBound
    <3> QED BY <3>1, <3>2, <3>3, <1>2, <1>6, <1>9, WorkpaperAssumption DEF WorkpaperRow
  <2> QED BY <2>1 DEF UpdatesInProgress, EditsBelowBound
<1> QED BY <1>11, <1>12, <1>13, <1>14, <1>15, <1>16 DEF IInv

LEMMA NextPreserves == IInv /\ [Next]_vars => IInv'
<1> SUFFICES ASSUME IInv, [Next]_vars PROVE IInv'
  OBVIOUS
<1>1. ASSUME NEW r \in Requests, NEW u \in Users, NEW t \in WORKPAPER_WORKFLOW,
             ReadForTransition(r, u, t)
      PROVE  IInv'
  BY <1>1, ReadForTransitionPreserves
<1>2. ASSUME NEW r \in Requests, NEW u \in Users, NEW c \in Contents,
             ReadForUpdate(r, u, c)
      PROVE  IInv'
  <2> DEFINE q == [pc |-> "update", user |-> u, content |-> c,
                   seen |-> [number |-> wp.version, content |-> wp.content],
                   preparedBy |-> wp.preparedBy]
  <2>1. /\ req' = [req EXCEPT ![r] = q] /\ wp.version < MaxVersion
        /\ UNCHANGED <<wp, notes, versions, reviews, step, written>>
    BY <1>2 DEF ReadForUpdate
  <2>2. wp \in WorkpaperRow /\ written[wp.version] = wp.content
        /\ notes' \in [Notes -> NoteStatuses]
    BY <2>1 DEF IInv, TypeOK, VersionHistoryFaithful
  <2>3. q \in UpdateRequest
    BY <2>2 DEF UpdateRequest, VersionRow, WorkpaperRow
  <2>4. wp.version <= wp.version
    BY <2>2, WorkpaperAssumption DEF WorkpaperRow
  <2>5. /\ q.pc = "update" /\ q.preparedBy = wp.preparedBy
        /\ q.seen.number = wp.version /\ q.seen.content = wp.content
    OBVIOUS
  <2> HIDE DEF q
  <2> QED BY <2>1, <2>2, <2>3, <2>4, <2>5, RequestStep
<1>3. ASSUME NEW r \in Requests, NEW u \in Users, NEW n \in Notes,
             NEW s \in {"OPEN", "ADDRESSED", "CLEARED"}, ReadReviewNote(r, u, n, s)
      PROVE  IInv'
  <2> DEFINE q == [pc |-> "note", note |-> n, status |-> s]
  <2>1. /\ req' = [req EXCEPT ![r] = q] /\ q \in NoteRequest
        /\ UNCHANGED <<wp, notes, versions, reviews, step, written>>
    BY <1>3 DEF ReadReviewNote, NoteRequest, NoteStatuses
  <2>2. q.pc = "note" /\ notes' \in [Notes -> NoteStatuses]
    BY <2>1 DEF IInv, TypeOK
  <2> HIDE DEF q
  <2> QED BY <2>1, <2>2, RequestStep
<1>4. ASSUME NEW r \in Requests, CountNotes(r) PROVE IInv'
  BY <1>4, CountNotesPreserves
<1>5. ASSUME NEW r \in Requests, CommitTransition(r) PROVE IInv'
  BY <1>5, CommitTransitionPreserves
<1>6. ASSUME NEW r \in Requests, CommitUpdate(r) PROVE IInv'
  BY <1>6, CommitUpdatePreserves
<1>7. ASSUME NEW r \in Requests, RollBackUpdate(r) PROVE IInv'
  <2>1. notes' \in [Notes -> NoteStatuses]
    BY <1>7 DEF RollBackUpdate, IInv, TypeOK
  <2> QED BY <1>7, <2>1, ReleasePreserves DEF RollBackUpdate
<1>8. ASSUME NEW r \in Requests, WriteReviewNote(r) PROVE IInv'
  <2>1. req[r] \in NoteRequest
    BY <1>8, RequestKinds DEF WriteReviewNote, IInv
  <2>2. notes' \in [Notes -> NoteStatuses]
    BY <1>8, <2>1 DEF WriteReviewNote, NoteRequest, IInv, TypeOK
  <2> QED BY <1>8, <2>2, ReleasePreserves DEF WriteReviewNote
<1>9. ASSUME NEW r \in Requests, NEW u \in Users, NEW n \in Notes,
             CreateReviewNote(r, u, n)
      PROVE  IInv'
  <2>1. req' = [req EXCEPT ![r] = Idle]
    BY <1>9 DEF CreateReviewNote, IInv, TypeOK
  <2>2. notes' \in [Notes -> NoteStatuses]
    BY <1>9 DEF CreateReviewNote, NoteStatuses, IInv, TypeOK
  <2> QED BY <1>9, <2>1, <2>2, ReleasePreserves DEF CreateReviewNote, Release
<1>10. CASE \E status \in StepStatuses : UpdateStep(status)
  <2>1. UNCHANGED <<wp, notes, versions, reviews, req, written>>
        /\ step' \in StepStatuses
    BY <1>10 DEF UpdateStep
  <2> QED BY <2>1 DEF IInv, TypeOK, SegregationOfDuties, SignOffIsWhole,
     VersionHistoryFaithful, TransitionsInProgress, UpdatesInProgress,
     ReviewedIsApproved, SignatureIsRecorded, EditsBelowBound, Approved
<1>11. CASE UNCHANGED vars
  BY <1>11 DEF vars, IInv, TypeOK, SegregationOfDuties, SignOffIsWhole,
     VersionHistoryFaithful, TransitionsInProgress, UpdatesInProgress,
     ReviewedIsApproved, SignatureIsRecorded, EditsBelowBound, Approved
<1> QED BY <1>1, <1>2, <1>3, <1>4, <1>5, <1>6, <1>7, <1>8, <1>9, <1>10, <1>11
        DEF Next, ReadRequest

(* The invariant of every interleaving of transitions, edits and notes.    *)
THEOREM InductiveInvariant == Spec => []IInv
BY InitHolds, NextPreserves, PTL DEF Spec

-----------------------------------------------------------------------------
(* The theorems a reader should know of                                    *)

(* The row, its notes, versions and reviews keep their types, whatever the *)
(* overlap of requests.                                                    *)
THEOREM TypeCorrect == Spec => []TypeOK
<1>1. IInv => TypeOK
  BY DEF IInv
<1> QED BY <1>1, InductiveInvariant, PTL

(* No interleaving lets a preparer review or sign off their own workpaper. *)
THEOREM SegregationHolds == Spec => []SegregationOfDuties
<1>1. IInv => SegregationOfDuties
  BY DEF IInv
<1> QED BY <1>1, InductiveInvariant, PTL

(* Lock and signature come and go together, and every signed-off workpaper *)
(* has its first review and its signer's approval, whatever commits late.  *)
THEOREM SignOffHolds == Spec => []SignOffIsWhole
<1>1. IInv => SignOffIsWhole
  BY DEF IInv
<1> QED BY <1>1, InductiveInvariant, PTL

(* The version history loses no edit and stores none twice.                *)
THEOREM VersionHistoryHolds == Spec => []VersionHistoryFaithful
<1>1. IInv => VersionHistoryFaithful
  BY DEF IInv
<1> QED BY <1>1, InductiveInvariant, PTL

-----------------------------------------------------------------------------
(* One request at a time                                                   *)
(*                                                                         *)
(* With a single element in Requests what a request read is still so when  *)
(* it commits.  The invariant says this of every kind of request.          *)

OneAtATime == \A r, s \in Requests : r = s

MovesAreCurrent ==
  \A r \in Requests : req[r].pc \in {"count", "commit"} => req[r].move.from = wp.status

NotesAreSettled ==
  \A r \in Requests :
    req[r].pc = "commit" => \A g \in req[r].move.guards : NoteGuard(g)

EditsAreUnlocked == \A r \in Requests : req[r].pc = "update" => ~wp.isLocked

NoteEditsAreCurrent ==
  \A r \in Requests :
    req[r].pc = "note" => notes[req[r].note] \notin {"none", NoteEdit(req[r].status).unless}

RequestsAreCurrent ==
  MovesAreCurrent /\ NotesAreSettled /\ EditsAreUnlocked /\ NoteEditsAreCurrent

SInv == IInv /\ RowAgreesWithStatus /\ RequestsAreCurrent

(* The transition table, move by move.                                     *)
LEMMA Moves ==
  ASSUME NEW t \in WORKPAPER_WORKFLOW
  PROVE  \/ t.from = "DRAFT" /\ t.action = "mark_prepared" /\ t.to = "PREPARED"
         \/ t.from = "PREPARED" /\ t.action = "reopen" /\ t.to = "DRAFT"
         \/ t.from = "PREPARED" /\ t.action = "start_review" /\ t.to = "IN_REVIEW"
         \/ t.from = "IN_REVIEW" /\ t.action = "raise_notes" /\ t.to = "REVIEW_NOTES_OPEN"
         \/ t.from = "REVIEW_NOTES_OPEN" /\ t.action = "address_notes" /\ t.to = "PREPARED"
         \/ /\ t.from = "IN_REVIEW" /\ t.action = "approve_review" /\ t.to = "REVIEWED"
            /\ "no_open_review_notes" \in t.guards
         \/ t.from = "REVIEWED" /\ t.action = "sign_off" /\ t.to = "SIGNED_OFF"
         \/ t.from = "SIGNED_OFF" /\ t.action = "unlock" /\ t.to = "DRAFT"
BY DEF WORKPAPER_WORKFLOW, Move

(* The request of a step is the only one there is.                         *)
LEMMA OnlyRequest ==
  ASSUME OneAtATime, TypeOK, NEW r \in Requests, NEW q, req' = [req EXCEPT ![r] = q],
         NEW s \in Requests
  PROVE  req'[s] = q
BY DEF OneAtATime, TypeOK

(* No request is left when it ends.                                        *)
LEMMA AfterRelease ==
  ASSUME OneAtATime, TypeOK, NEW r \in Requests, Release(r)
  PROVE  RequestsAreCurrent'
<1>1. \A s \in Requests : req'[s] = Idle
  BY OnlyRequest DEF Release
<1> QED BY <1>1 DEF Idle, RequestsAreCurrent, MovesAreCurrent, NotesAreSettled,
                    EditsAreUnlocked, NoteEditsAreCurrent

(* What a transition makes of status, lock and dates.                      *)
LEMMA CommittedRow ==
  ASSUME IInv, MovesAreCurrent, NEW r \in Requests, CommitTransition(r)
  PROVE  LET t == req[r].move
         IN /\ t \in WORKPAPER_WORKFLOW /\ req[r].user \in Users
            /\ t.from = wp.status /\ wp'.status = t.to
            /\ wp'.isLocked = CASE t.action = "sign_off" -> TRUE
                                [] t.action = "unlock" -> FALSE
                                [] OTHER -> wp.isLocked
            /\ wp'.preparedAt = CASE t.action = "mark_prepared" -> TRUE
                                  [] t.action \in {"reopen", "unlock"} -> FALSE
                                  [] OTHER -> wp.preparedAt
            /\ wp'.reviewedAt = CASE t.action = "approve_review" -> TRUE
                                  [] t.action \in {"start_review", "unlock"} -> FALSE
                                  [] OTHER -> wp.reviewedAt
<1> DEFINE t == req[r].move
           row == Written(t.action, req[r].user, req[r].preparedBy)
<1>1. req[r].pc = "commit" /\ wp' = [row EXCEPT !.status = t.to]
  BY DEF CommitTransition
<1>2. t \in WORKPAPER_WORKFLOW /\ req[r].user \in Users
  BY <1>1, RequestKinds DEF IInv, TransitionRequest
<1>3. t.from = wp.status
  BY <1>1 DEF MovesAreCurrent
<1>4. wp \in WorkpaperRow
  BY DEF IInv, TypeOK
<1>5. /\ wp'.status = t.to
      /\ wp'.isLocked = row.isLocked /\ wp'.preparedAt = row.preparedAt
      /\ wp'.reviewedAt = row.reviewedAt
  BY <1>1, <1>4 DEF Written, WorkpaperRow
<1>6. /\ row.isLocked = CASE t.action = "sign_off" -> TRUE
                          [] t.action = "unlock" -> FALSE
                          [] OTHER -> wp.isLocked
      /\ row.preparedAt = CASE t.action = "mark_prepared" -> TRUE
                            [] t.action \in {"reopen", "unlock"} -> FALSE
                            [] OTHER -> wp.preparedAt
      /\ row.reviewedAt = CASE t.action = "approve_review" -> TRUE
                            [] t.action \in {"start_review", "unlock"} -> FALSE
                            [] OTHER -> wp.reviewedAt
  BY <1>4 DEF Written, WorkpaperRow
<1> QED BY <1>2, <1>3, <1>5, <1>6

(* Committed from the status it was read in, a transition leaves lock and  *)
(* dates as the next status wants them.                                    *)
LEMMA CommitAgrees ==
  ASSUME IInv, RowAgreesWithStatus, MovesAreCurrent, NEW r \in Requests,
         CommitTransition(r)
  PROVE  RowAgreesWithStatus'
BY CommittedRow, Moves DEF RowAgreesWithStatus

(* Nothing is in progress when the workpaper is created.                   *)
LEMMA SerialInit == Init => SInv
<1> SUFFICES ASSUME Init PROVE SInv
  OBVIOUS
<1>1. RowAgreesWithStatus
  BY DEF Init, RowAgreesWithStatus
<1>2. RequestsAreCurrent
  BY DEF Init, Idle, RequestsAreCurrent, MovesAreCurrent, NotesAreSettled,
         EditsAreUnlocked, NoteEditsAreCurrent
<1> QED BY <1>1, <1>2, InitHolds DEF SInv

(* One step after the other keeps what the request in progress relies on.  *)
LEMMA SerialNext == ASSUME OneAtATime PROVE SInv /\ [Next]_vars => SInv'
<1> SUFFICES ASSUME SInv, [Next]_vars PROVE RowAgreesWithStatus' /\ RequestsAreCurrent'
  BY NextPreserves DEF SInv
<1> USE DEF SInv
<1>t. TypeOK /\ wp \in WorkpaperRow
  BY DEF IInv, TypeOK
<1>w. wp' = wp => RowAgreesWithStatus'
  BY DEF RowAgreesWithStatus
<1>1. ASSUME NEW r \in Requests, NEW u \in Users, NEW t \in WORKPAPER_WORKFLOW,
             ReadForTransition(r, u, t)
      PROVE  RowAgreesWithStatus' /\ RequestsAreCurrent'
  <2> DEFINE q == [pc |-> IF t.guards \cap NoteGuards = {} THEN "commit" ELSE "count",
                   user |-> u, move |-> t, preparedBy |-> wp.preparedBy]
  <2>1. req' = [req EXCEPT ![r] = q] /\ wp' = wp /\ notes' = notes /\ t.from = wp.status
    BY <1>1 DEF ReadForTransition
  <2>2. /\ q.pc \in {"count", "commit"} /\ q.move = t
        /\ q.pc = "commit" => t.guards \cap NoteGuards = {}
    OBVIOUS
  <2> HIDE DEF q
  <2>3. \A s \in Requests : req'[s] = q
    BY <2>1, <1>t, OnlyRequest
  <2>4. MovesAreCurrent' /\ EditsAreUnlocked' /\ NoteEditsAreCurrent'
    BY <2>1, <2>2, <2>3 DEF MovesAreCurrent, EditsAreUnlocked, NoteEditsAreCurrent
  <2>5. NotesAreSettled'
    BY <2>2, <2>3 DEF NotesAreSettled, NoteGuard, NoteGuards
  <2> QED BY <2>1, <2>4, <2>5, <1>w DEF RequestsAreCurrent
<1>2. ASSUME NEW r \in Requests, NEW u \in Users, NEW c \in Contents,
             ReadForUpdate(r, u, c)
      PROVE  RowAgreesWithStatus' /\ RequestsAreCurrent'
  <2> DEFINE q == [pc |-> "update", user |-> u, content |-> c,
                   seen |-> [number |-> wp.version, content |-> wp.content],
                   preparedBy |-> wp.preparedBy]
  <2>1. req' = [req EXCEPT ![r] = q] /\ wp' = wp /\ ~wp.isLocked
    BY <1>2 DEF ReadForUpdate
  <2>2. q.pc = "update"
    OBVIOUS
  <2> HIDE DEF q
  <2>3. \A s \in Requests : req'[s] = q
    BY <2>1, <1>t, OnlyRequest
  <2> QED BY <2>1, <2>2, <2>3, <1>w DEF RequestsAreCurrent, MovesAreCurrent,
             NotesAreSettled, EditsAreUnlocked, NoteEditsAreCurrent
<1>3. ASSUME NEW r \in Requests, NEW u \in Users, NEW n \in Notes,
             NEW s \in {"OPEN", "ADDRESSED", "CLEARED"}, ReadReviewNote(r, u, n, s)
      PROVE  RowAgreesWithStatus' /\ RequestsAreCurrent'
  <2> DEFINE q == [pc |-> "note", note |-> n, status |-> s]
  <2>1. /\ req' = [req EXCEPT ![r] = q] /\ wp' = wp /\ notes' = notes
        /\ notes[n] \notin {"none", NoteEdit(s).unless}
    BY <1>3 DEF ReadReviewNote
  <2>2. q.pc = "note" /\ q.note = n /\ q.status = s
    OBVIOUS
  <2> HIDE DEF q
  <2>3. \A x \in Requests : req'[x] = q
    BY <2>1, <1>t, OnlyRequest
  <2> QED BY <2>1, <2>2, <2>3, <1>w DEF RequestsAreCurrent, MovesAreCurrent,
             NotesAreSettled, EditsAreUnlocked, NoteEditsAreCurrent
<1>4. ASSUME NEW r \in Requests, CountNotes(r)
      PROVE  RowAgreesWithStatus' /\ RequestsAreCurrent'
  <2>1. wp' = wp /\ notes' = notes /\ req[r].pc = "count"
    BY <1>4 DEF CountNotes
  <2>2. CASE Release(r)
    BY <2>1, <2>2, <1>t, <1>w, AfterRelease
  <2>3. CASE /\ \A g \in req[r].move.guards : NoteGuard(g)
             /\ req' = [req EXCEPT ![r].pc = "commit"]
    <3> DEFINE q == [req[r] EXCEPT !.pc = "commit"]
    <3>1. req[r] \in TransitionRequest
      BY <2>1, <1>t, RequestKinds
    <3>2. q.pc = "commit" /\ q.move = req[r].move
      BY <3>1 DEF TransitionRequest
    <3>3. req' = [req EXCEPT ![r] = q]
      BY <2>3
    <3> HIDE DEF q
    <3>4. \A s \in Requests : req'[s] = q
      BY <3>3, <1>t, OnlyRequest
    <3>5. MovesAreCurrent' /\ EditsAreUnlocked' /\ NoteEditsAreCurrent'
      BY <2>1, <3>2, <3>4 DEF RequestsAreCurrent, MovesAreCurrent, EditsAreUnlocked,
                              NoteEditsAreCurrent
    <3>6. NotesAreSettled'
      <4>1. \A g \in req[r].move.guards : NoteGuard(g)'
        BY <2>1, <2>3 DEF NoteGuard, NotesWith
      <4> QED BY <4>1, <3>2, <3>4 DEF NotesAreSettled
    <3> QED BY <2>1, <3>5, <3>6, <1>w DEF RequestsAreCurrent
  <2> QED BY <1>4, <2>2, <2>3 DEF CountNotes
<1>5. ASSUME NEW r \in Requests, CommitTransition(r)
      PROVE  RowAgreesWithStatus' /\ RequestsAreCurrent'
  BY <1>5, <1>t, CommitAgrees, AfterRelease DEF CommitTransition, RequestsAreCurrent
<1>6. ASSUME NEW r \in Requests, CommitUpdate(r)
      PROVE  RowAgreesWithStatus' /\ RequestsAreCurrent'
  <2>1. /\ wp'.status = wp.status /\ wp'.isLocked = wp.isLocked
        /\ wp'.preparedAt = wp.preparedAt /\ wp'.reviewedAt = wp.reviewedAt
    BY <1>6, <1>t DEF CommitUpdate, WorkpaperRow
  <2>2. RowAgreesWithStatus'
    BY <2>1 DEF RowAgreesWithStatus
  <2> QED BY <1>6, <2>2, <1>t, AfterRelease DEF CommitUpdate
<1>7. ASSUME NEW r \in Requests, RollBackUpdate(r) \/ WriteReviewNote(r)
      PROVE  RowAgreesWithStatus' /\ RequestsAreCurrent'
  BY <1>7, <1>t, <1>w, AfterRelease DEF RollBackUpdate, WriteReviewNote
<1>8. ASSUME NEW r \in Requests, NEW u \in Users, NEW n \in Notes,
             CreateReviewNote(r, u, n)
      PROVE  RowAgreesWithStatus' /\ RequestsAreCurrent'
  <2>1. req' = [req EXCEPT ![r] = Idle] /\ wp' = wp
    BY <1>8, <1>t DEF CreateReviewNote, TypeOK
  <2> QED BY <2>1, <1>t, <1>w, AfterRelease DEF Release
<1>9. CASE UNCHANGED vars \/ \E status \in StepStatuses : UpdateStep(status)
  <2>1. wp' = wp /\ req' = req /\ notes' = notes
    BY <1>9 DEF vars, UpdateStep
  <2> QED BY <2>1, <1>w DEF RequestsAreCurrent, MovesAreCurrent, NotesAreSettled,
             EditsAreUnlocked, NoteEditsAreCurrent, NoteGuard, NotesWith
<1> QED BY <1>1, <1>2, <1>3, <1>4, <1>5, <1>6, <1>7, <1>8, <1>9
        DEF Next, ReadRequest

(* Lock and dates agree with the status when requests do not overlap.      *)
THEOREM RowAgreementHolds == ASSUME OneAtATime PROVE Spec => []RowAgreesWithStatus
<1>1. SInv => RowAgreesWithStatus
  BY DEF SInv
<1>2. SInv /\ [Next]_vars => SInv'
  BY SerialNext
<1> QED BY <1>1, <1>2, SerialInit, PTL DEF Spec

-----------------------------------------------------------------------------
(* The lifecycle                                                           *)

(* What a transition makes of the columns the lifecycle shows.             *)
LEMMA CommittedPeople ==
  ASSUME IInv, NEW r \in Requests, CommitTransition(r)
  PROVE  LET t == req[r].move
         IN /\ wp'.content = wp.content /\ wp'.preparedBy = wp.preparedBy
            /\ wp'.signedOffBy = CASE t.action = "sign_off" -> req[r].user
                                   [] t.action = "unlock" -> NoOne
                                   [] OTHER -> wp.signedOffBy
            /\ t.action \in {"start_review", "sign_off"} => req[r].user # wp.preparedBy
            /\ notes' = notes
<1> DEFINE t == req[r].move
           row == Written(t.action, req[r].user, req[r].preparedBy)
<1>1. /\ req[r].pc = "commit" /\ wp' = [row EXCEPT !.status = t.to]
      /\ notes' = notes
  BY DEF CommitTransition
<1>2. /\ req[r].preparedBy = wp.preparedBy
      /\ t.action \in {"start_review", "sign_off"} => req[r].user # wp.preparedBy
  BY <1>1 DEF IInv, TransitionsInProgress
<1>3. wp \in WorkpaperRow /\ wp.preparedBy # NoOne
  BY WorkpaperAssumption DEF IInv, TypeOK, WorkpaperRow
<1>4. /\ wp'.content = row.content /\ wp'.preparedBy = row.preparedBy
      /\ wp'.signedOffBy = row.signedOffBy
  BY <1>1, <1>3 DEF Written, WorkpaperRow
<1>5. /\ row.content = wp.content /\ row.preparedBy = wp.preparedBy
      /\ row.signedOffBy = CASE t.action = "sign_off" -> req[r].user
                             [] t.action = "unlock" -> NoOne
                             [] OTHER -> wp.signedOffBy
  BY <1>2, <1>3 DEF Written, WorkpaperRow
<1> HIDE DEF row
<1> QED BY <1>1, <1>2, <1>4, <1>5

LEMMA LifecycleInit == Init => Lifecycle!Init
BY WorkpaperAssumption DEF Init, Permissions, LifecycleStage, Lifecycle!Init

(* Each move of the table is a lifecycle step, or none of its business.    *)
LEMMA TransitionRefines ==
  ASSUME SInv, NEW r \in Requests, CommitTransition(r)
  PROVE  [Lifecycle!Next]_(Lifecycle!vars)
<1> DEFINE t == req[r].move
<1>1. /\ t \in WORKPAPER_WORKFLOW /\ req[r].user \in Users
      /\ wp.status = t.from /\ wp'.status = t.to
  BY CommittedRow DEF SInv, RequestsAreCurrent
<1>2. /\ wp'.content = wp.content /\ wp'.preparedBy = wp.preparedBy
      /\ wp'.signedOffBy = CASE t.action = "sign_off" -> req[r].user
                             [] t.action = "unlock" -> NoOne
                             [] OTHER -> wp.signedOffBy
      /\ t.action \in {"start_review", "sign_off"} => req[r].user # wp.preparedBy
      /\ notes' = notes
  BY CommittedPeople DEF SInv
<1>3. \A g \in t.guards : NoteGuard(g)
  BY DEF CommitTransition, SInv, RequestsAreCurrent, NotesAreSettled
<1>4. notes \in [Notes -> NoteStatuses]
  BY DEF SInv, IInv, TypeOK
<1> HIDE DEF t
<1>5. CASE t.action \in {"mark_prepared", "reopen", "address_notes"}
  <2>1. LifecycleStage' = LifecycleStage
    BY <1>1, <1>5, Moves DEF LifecycleStage
  <2> QED BY <2>1, <1>2, <1>5 DEF Lifecycle!vars
<1>6. CASE t.action = "start_review"
  <2>1. LifecycleStage = "preparing" /\ LifecycleStage' = "in review"
    BY <1>1, <1>6, Moves DEF LifecycleStage
  <2> QED BY <2>1, <1>1, <1>2, <1>6 DEF Lifecycle!Next, Lifecycle!StartReview
<1>7. CASE t.action = "raise_notes"
  <2>1. LifecycleStage = "in review" /\ LifecycleStage' = "preparing"
    BY <1>1, <1>7, Moves DEF LifecycleStage
  <2> QED BY <2>1, <1>2, <1>7 DEF Lifecycle!Next, Lifecycle!Return
<1>8. CASE t.action = "approve_review"
  <2>1. LifecycleStage = "in review" /\ LifecycleStage' = "approved"
    BY <1>1, <1>8, Moves DEF LifecycleStage
  <2>2. NotesWith({"OPEN", "ADDRESSED"}) = {}
    BY <1>1, <1>3, <1>8, Moves DEF NoteGuard
  <2>3. \A n \in Notes : notes[n] \in {"none", "CLEARED"}
    BY <2>2, <1>4 DEF NotesWith, NoteStatuses
  <2> QED BY <2>1, <2>3, <1>2, <1>8 DEF Lifecycle!Next, Lifecycle!Approve
<1>9. CASE t.action = "sign_off"
  <2>1. LifecycleStage = "approved" /\ LifecycleStage' = "signed off"
    BY <1>1, <1>9, Moves DEF LifecycleStage
  <2> QED BY <2>1, <1>1, <1>2, <1>9 DEF Lifecycle!Next, Lifecycle!SignOff
<1>10. CASE t.action = "unlock"
  <2>1. LifecycleStage = "signed off" /\ LifecycleStage' = "preparing"
    BY <1>1, <1>10, Moves DEF LifecycleStage
  <2> QED BY <2>1, <1>2, <1>10 DEF Lifecycle!Next, Lifecycle!Unlock
<1> QED BY <1>1, <1>5, <1>6, <1>7, <1>8, <1>9, <1>10, Moves

(* An edit that commits found the workpaper unlocked, so not signed off.   *)
LEMMA UpdateRefines ==
  ASSUME SInv, NEW r \in Requests, CommitUpdate(r)
  PROVE  Lifecycle!Edit
<1>1. req[r] \in UpdateRequest /\ req[r].preparedBy = wp.preparedBy /\ ~wp.isLocked
  BY RequestKinds DEF CommitUpdate, SInv, IInv, UpdatesInProgress, RequestsAreCurrent,
                      EditsAreUnlocked
<1>2. wp \in WorkpaperRow /\ wp.preparedBy # NoOne
  BY WorkpaperAssumption DEF SInv, IInv, TypeOK, WorkpaperRow
<1>3. /\ wp'.content \in Contents /\ wp'.status = wp.status
      /\ wp'.preparedBy = wp.preparedBy /\ wp'.signedOffBy = wp.signedOffBy
      /\ notes' = notes
  BY <1>1, <1>2 DEF CommitUpdate, UpdateRequest, WorkpaperRow
<1>4. LifecycleStage # "signed off" /\ LifecycleStage' = LifecycleStage
  BY <1>1, <1>3 DEF SInv, RowAgreesWithStatus, LifecycleStage
<1> QED BY <1>3, <1>4 DEF Lifecycle!Edit

(* A cleared note is only reopened: the edit found it neither cleared nor  *)
(* in the status it sets.                                                  *)
LEMMA NoteRefines ==
  ASSUME SInv, NEW r \in Requests, WriteReviewNote(r)
  PROVE  Lifecycle!Discuss
<1> DEFINE n == req[r].note
           status == req[r].status
<1>1. req[r] \in NoteRequest /\ notes[n] \notin {"none", NoteEdit(status).unless}
  BY RequestKinds DEF WriteReviewNote, SInv, IInv, RequestsAreCurrent, NoteEditsAreCurrent
<1>2. n \in Notes /\ status \in {"OPEN", "ADDRESSED", "CLEARED"}
  BY <1>1 DEF NoteRequest, NoteStatuses
<1>3. notes' = [notes EXCEPT ![n] = status] /\ wp' = wp
  BY DEF WriteReviewNote
<1> HIDE DEF n, status
<1>4. notes[n] \in {"none", "CLEARED"} => status = "OPEN"
  BY <1>1, <1>2 DEF NoteEdit
<1>5. UNCHANGED <<LifecycleStage, wp.content, wp.preparedBy, wp.signedOffBy>>
  BY <1>3 DEF LifecycleStage
<1> QED BY <1>2, <1>3, <1>4, <1>5 DEF Lifecycle!Discuss

(* Steps that leave the row and its notes alone do not show.               *)
LEMMA HiddenStep ==
  ASSUME wp' = wp, notes' = notes
  PROVE  UNCHANGED Lifecycle!vars
BY DEF Lifecycle!vars, LifecycleStage

(* Every step is a step of the lifecycle or hidden from it.                *)
LEMMA StepRefines ==
  ASSUME SInv, [Next]_vars
  PROVE  [Lifecycle!Next]_(Lifecycle!vars)
<1>1. CASE wp' = wp /\ notes' = notes
  BY <1>1, HiddenStep
<1>2. ASSUME NEW r \in Requests,
             ReadRequest(r) \/ CountNotes(r) \/ RollBackUpdate(r)
      PROVE  wp' = wp /\ notes' = notes
  BY <1>2 DEF ReadRequest, ReadForTransition, ReadForUpdate, ReadReviewNote,
              CountNotes, RollBackUpdate
<1>3. ASSUME NEW r \in Requests, CommitTransition(r)
      PROVE  [Lifecycle!Next]_(Lifecycle!vars)
  BY <1>3, TransitionRefines
<1>4. ASSUME NEW r \in Requests, CommitUpdate(r)
      PROVE  Lifecycle!Next
  BY <1>4, UpdateRefines DEF Lifecycle!Next
<1>5. ASSUME NEW r \in Requests, WriteReviewNote(r)
      PROVE  Lifecycle!Next
  BY <1>5, NoteRefines DEF Lifecycle!Next
<1>6. ASSUME NEW r \in Requests, NEW u \in Users, NEW n \in Notes,
             CreateReviewNote(r, u, n)
      PROVE  Lifecycle!Next
  <2>1. UNCHANGED <<LifecycleStage, wp.content, wp.preparedBy, wp.signedOffBy>>
    BY <1>6 DEF CreateReviewNote, LifecycleStage
  <2>2. notes' = [notes EXCEPT ![n] = "OPEN"]
    BY <1>6 DEF CreateReviewNote
  <2>3. Lifecycle!Discuss
    BY <2>1, <2>2 DEF Lifecycle!Discuss
  <2> QED BY <2>3 DEF Lifecycle!Next
<1>7. CASE UNCHANGED vars \/ \E status \in StepStatuses : UpdateStep(status)
  BY <1>1, <1>7 DEF vars, UpdateStep
<1> QED BY <1>1, <1>2, <1>3, <1>4, <1>5, <1>6, <1>7 DEF Next

(* Handled one at a time, the requests implement the lifecycle.            *)
THEOREM LifecycleImplemented == ASSUME OneAtATime PROVE Spec => ImplementsLifecycle
<1>1. SInv /\ [Next]_vars => SInv'
  BY SerialNext
<1>2. SInv /\ [Next]_vars => [Lifecycle!Next]_(Lifecycle!vars)
  BY StepRefines
<1> QED BY <1>1, <1>2, SerialInit, LifecycleInit, PTL
        DEF Spec, ImplementsLifecycle, Lifecycle!Spec
=============================================================================
