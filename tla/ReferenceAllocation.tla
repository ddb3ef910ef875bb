------------------------ MODULE ReferenceAllocation ------------------------
(***************************************************************************)
(* How findings, document requests, evidence and engagements get their     *)
(* human reference (F-01, DR-01, E-001, IA-2026-001).  Each create handler *)
(* runs the same loop: read the latest reference of the series, ordered as *)
(* a STRING in descending order; insert a row with the next one; when the  *)
(* unique index refuses the row (Prisma P2002), start again, at most       *)
(* MaxAttempts times.  Nothing is locked between the read and the insert.  *)
(*                                                                         *)
(* A reference is its number.  Numbers below Limit are zero-padded to the  *)
(* series' width (Limit = Base^width), larger ones have one digit more.    *)
(***************************************************************************)
EXTENDS Naturals

CONSTANTS
  Creators,      \* create requests that may run at the same time
  Base,          \* 10 in the program
  Limit,         \* first number that does not fit the padding: 100 or 1000
  MaxAttempts,   \* 5 in the program
  Existing,      \* references stored before the requests start (seed, imports)
  Top            \* the largest of them, 0 when there are none

ASSUME SeriesAssumption ==
  /\ Base \in Nat /\ Base >= 2
  /\ Limit \in Nat /\ Limit >= 3
  /\ MaxAttempts \in Nat /\ MaxAttempts >= 1
  /\ Top \in 0..(Limit - 1)
  /\ Existing \subseteq 1..Top
  /\ Top > 0 => Top \in Existing

VARIABLES
  used,        \* references stored in the series
  inserted,    \* how many of them were created by the requests
  pc,          \* where each request is
  attempt,     \* its loop counter
  candidate,   \* the reference it will try to insert
  seen         \* history: value of inserted when the request began

vars == <<used, inserted, pc, attempt, candidate, seen>>

(***************************************************************************)
(* orderBy: { reference: 'desc' } compares strings.  A padded number comes *)
(* before a longer one when it is at most the longer one's prefix.         *)
(***************************************************************************)
StringBefore(m, n) ==
  \/ m < Limit /\ n < Limit /\ m < n
  \/ m >= Limit /\ n >= Limit /\ m < n
  \/ m < Limit /\ n >= Limit /\ Base * m <= n
  \/ m >= Limit /\ n < Limit /\ m < Base * n

IsLatest(n) == n \in used /\ \A m \in used \ {n} : StringBefore(m, n)

\* Broken variant: the number read already includes the new row.
NextReferenceOffByOne(n) == n + 2

NextReference(n) == n + 1

\* The rows of the series the seed stored; no create has run yet.
Init ==
  /\ used = Existing
  /\ inserted = 0
  /\ pc = [c \in Creators |-> "idle"]
  /\ attempt = [c \in Creators |-> 0]
  /\ candidate = [c \in Creators |-> 0]
  /\ seen = [c \in Creators |-> 0]

Begin(c) ==
  /\ pc[c] \in {"idle", "created", "failed"}
  /\ pc' = [pc EXCEPT ![c] = "read"]
  /\ attempt' = [attempt EXCEPT ![c] = 0]
  /\ seen' = [seen EXCEPT ![c] = inserted]
  /\ UNCHANGED <<used, inserted, candidate>>

ReadLatest(c) ==
  /\ pc[c] = "read"
  /\ pc' = [pc EXCEPT ![c] = "insert"]
  /\ \/ /\ used = {}
        /\ candidate' = [candidate EXCEPT ![c] = 1]
     \/ \E n \in used :
          /\ IsLatest(n)
          /\ candidate' = [candidate EXCEPT ![c] = NextReference(n)]
  /\ UNCHANGED <<used, inserted, attempt, seen>>

Insert(c) ==
  /\ pc[c] = "insert"
  /\ candidate[c] \notin used
  /\ used' = used \cup {candidate[c]}
  /\ inserted' = inserted + 1
  /\ pc' = [pc EXCEPT ![c] = "created"]
  /\ UNCHANGED <<attempt, candidate, seen>>

\* Broken variant: one attempt too many.
RetryOnceMore(c) ==
  /\ pc[c] = "insert"
  /\ candidate[c] \in used
  /\ attempt[c] < MaxAttempts
  /\ attempt' = [attempt EXCEPT ![c] = @ + 1]
  /\ pc' = [pc EXCEPT ![c] = "read"]
  /\ UNCHANGED <<used, inserted, candidate, seen>>

\* Broken variant: every refusal is followed by another attempt.
RetryForever(c) ==
  /\ pc[c] = "insert"
  /\ candidate[c] \in used
  /\ pc' = [pc EXCEPT ![c] = "read"]
  /\ UNCHANGED <<used, inserted, attempt, candidate, seen>>

\* The unique index refuses the row and an attempt is left.
Retry(c) ==
  /\ pc[c] = "insert"
  /\ candidate[c] \in used
  /\ attempt[c] < MaxAttempts - 1
  /\ attempt' = [attempt EXCEPT ![c] = @ + 1]
  /\ pc' = [pc EXCEPT ![c] = "read"]
  /\ UNCHANGED <<used, inserted, candidate, seen>>

\* Broken variant: the loop gives up one attempt early.
GiveUpEarly(c) ==
  /\ pc[c] = "insert"
  /\ candidate[c] \in used
  /\ pc' = [pc EXCEPT ![c] = "failed"]
  /\ UNCHANGED <<used, inserted, attempt, candidate, seen>>

\* The last attempt is refused: the error reaches the caller.
GiveUp(c) ==
  /\ pc[c] = "insert"
  /\ candidate[c] \in used
  /\ attempt[c] >= MaxAttempts - 1
  /\ pc' = [pc EXCEPT ![c] = "failed"]
  /\ UNCHANGED <<used, inserted, attempt, candidate, seen>>

Step(c) == ReadLatest(c) \/ Insert(c) \/ Retry(c) \/ GiveUp(c)

Next == \E c \in Creators : Begin(c) \/ Step(c)

Spec == Init /\ [][Next]_vars

\* A request that began keeps running: the server and the database answer.
FairSpec == Spec /\ \A c \in Creators : WF_vars(Step(c))

-----------------------------------------------------------------------------
(* Types: references are positive numbers, and no request makes more than  *)
(* MaxAttempts attempts, however many of them lose (the loop counter of    *)
(* the create handlers, attempt < 5).                                      *)
TypeOK ==
  /\ used \subseteq Nat \ {0}
  /\ inserted \in Nat
  /\ pc \in [Creators -> {"idle", "read", "insert", "created", "failed"}]
  /\ attempt \in [Creators -> 0..(MaxAttempts - 1)]
  /\ candidate \in [Creators -> Nat]
  /\ seen \in [Creators -> 0..inserted]

(* However creates interleave, the references they hand out continue the   *)
(* series without a gap (findings.service.ts:66, "F-01, F-02, ...").       *)
NoGaps ==
  \A n \in used \ Existing : n > 1 => n - 1 \in used

(* A create fails only if every one of its attempts lost to another        *)
(* create, or the padding is used up (the loop with five attempts and      *)
(* 'Could not allocate a finding reference').                              *)
FailureNeedsContention ==
  \A c \in Creators :
    pc[c] = "failed" =>
      \/ Limit \in used
      \/ inserted - seen[c] >= MaxAttempts

(* Every create ends, with a row or with an error: the retry loop cannot   *)
(* run on, even when the series is exhausted.                              *)
EveryCreateEnds ==
  \A c \in Creators : pc[c] = "read" ~> pc[c] \in {"created", "failed"}

(* What the comment on nextFindingReference and the one on nextAuditNumber *)
(* say: the next reference follows the HIGHEST existing one.               *)
NextFollowsHighest ==
  [][\A c \in Creators :
       ReadLatest(c) => \A n \in used : n < candidate'[c]]_vars

=============================================================================
