---------------------- MODULE ReferenceAllocationProofs ----------------------
(***************************************************************************)
(* NoGaps and FailureNeedsContention for any number of concurrent creates, *)
(* any padding and any retry bound.                                        *)
(*                                                                         *)
(* Neither is inductive: one needs to know that the stored references are  *)
(* the existing ones followed by one interval, the other how far the       *)
(* series had got when a request made its current attempt.                 *)
(***************************************************************************)
EXTENDS ReferenceAllocation, TLAPS

Last == Top + inserted

\* The series is what was there, then an unbroken interval.
Series ==
  /\ used = Existing \cup ((Top + 1)..Last)
  /\ Last <= Limit

\* A candidate lies in or right after the interval, and an attempt is
\* charged to a create that committed since the request began.
Attempts ==
  \A c \in Creators :
    /\ pc[c] = "read" => Last = Limit \/ inserted - seen[c] >= attempt[c]
    /\ pc[c] = "insert" =>
         /\ candidate[c] \in (Top + 1)..(Last + 1) /\ candidate[c] <= Limit
         /\ Last = Limit \/ candidate[c] - 1 - Top - seen[c] >= attempt[c]
    /\ pc[c] = "failed" => Last = Limit \/ inserted - seen[c] >= MaxAttempts

IInv == TypeOK /\ Series /\ Attempts

(* What the descending string order returns: the largest reference, until  *)
(* Limit is stored; from then on Limit - 1.                                *)
LEMMA LatestReference ==
  ASSUME inserted \in Nat, Series, NEW n, IsLatest(n)
  PROVE  /\ n \in 1..Limit
         /\ Last < Limit => n = Last
         /\ Last = Limit => n = Limit - 1
<1> USE SeriesAssumption DEF Last, Series
<1>1. n \in used /\ n \in 1..Last /\ \A m \in used \ {n} : StringBefore(m, n)
  BY DEF IsLatest
<1>2. CASE Last < Limit
  <2>1. Last \in used
    BY <1>1
  <2>2. ASSUME n # Last PROVE FALSE
    <3>1. StringBefore(Last, n)
      BY <1>1, <2>1, <2>2
    <3> QED BY <3>1, <1>1, <1>2 DEF StringBefore
  <2> QED BY <2>2, <1>1, <1>2
<1>3. CASE Last = Limit
  <2>1. Limit - 1 \in used
    BY <1>3
  <2>2. Base * (Limit - 1) >= 2 * (Limit - 1)
    OBVIOUS
  <2>3. 2 * (Limit - 1) > Limit
    OBVIOUS
  <2>4. ASSUME n # Limit - 1 PROVE FALSE
    <3>1. StringBefore(Limit - 1, n)
      BY <1>1, <2>1, <2>4
    <3> QED BY <3>1, <2>2, <2>3, <1>1, <1>3 DEF StringBefore
  <2> QED BY <2>4, <1>1, <1>3
<1> QED BY <1>1, <1>2, <1>3

LEMMA InitHolds == Init => IInv
BY SeriesAssumption DEF Init, IInv, TypeOK, Series, Attempts, Last

LEMMA StepPreserves == IInv /\ [Next]_vars => IInv'
<1> SUFFICES ASSUME IInv, [Next]_vars PROVE IInv'
  OBVIOUS
<1> USE SeriesAssumption DEF IInv, TypeOK, Series, Attempts, Last
<1>1. ASSUME NEW c \in Creators, Begin(c) PROVE IInv'
  BY <1>1 DEF Begin
<1>2. ASSUME NEW c \in Creators, ReadLatest(c) PROVE IInv'
  <2>1. candidate'[c] \in (Top + 1)..(Last + 1) /\ candidate'[c] <= Limit
        /\ (Last < Limit => candidate'[c] = Last + 1)
    <3>1. CASE used = {} /\ candidate' = [candidate EXCEPT ![c] = 1]
      BY <3>1
    <3>2. CASE \E n \in used : IsLatest(n)
                 /\ candidate' = [candidate EXCEPT ![c] = NextReference(n)]
      <4>1. PICK n \in used : IsLatest(n)
                 /\ candidate' = [candidate EXCEPT ![c] = NextReference(n)]
        BY <3>2
      <4>2. /\ n \in 1..Limit
            /\ Last < Limit => n = Last
            /\ Last = Limit => n = Limit - 1
        BY <4>1, LatestReference
      <4> QED BY <4>1, <4>2 DEF NextReference
    <3> QED BY <3>1, <3>2, <1>2 DEF ReadLatest
  <2>2. /\ used' = used /\ inserted' = inserted /\ attempt' = attempt /\ seen' = seen
        /\ pc[c] = "read" /\ pc' = [pc EXCEPT ![c] = "insert"]
        /\ \A d \in Creators \ {c} : candidate'[d] = candidate[d]
        /\ candidate' \in [Creators -> Nat]
    BY <1>2, <2>1 DEF ReadLatest
  <2>3. Attempts'
    BY <2>1, <2>2
  <2>4. TypeOK'
    BY <2>2
  <2>5. Series'
    BY <2>2
  <2> QED BY <2>3, <2>4, <2>5
<1>3. ASSUME NEW c \in Creators, Insert(c) PROVE IInv'
  <2>1. candidate[c] = Last + 1 /\ Last + 1 <= Limit
    BY <1>3 DEF Insert
  <2>2. Series'
    BY <1>3, <2>1 DEF Insert
  <2>4. used' \subseteq Nat \ {0}
    BY <1>3, <2>1 DEF Insert
  <2>3. Attempts'
    BY <1>3, <2>1 DEF Insert
  <2> QED BY <1>3, <2>1, <2>2, <2>3, <2>4 DEF Insert
<1>4. ASSUME NEW c \in Creators, Retry(c) PROVE IInv'
  <2>1. candidate[c] <= Last
    BY <1>4 DEF Retry
  <2> QED BY <1>4, <2>1 DEF Retry
<1>5. ASSUME NEW c \in Creators, GiveUp(c) PROVE IInv'
  <2>1. candidate[c] <= Last
    BY <1>5 DEF GiveUp
  <2> QED BY <1>5, <2>1 DEF GiveUp
<1>6. CASE UNCHANGED vars
  BY <1>6 DEF vars
<1> QED BY <1>1, <1>2, <1>3, <1>4, <1>5, <1>6 DEF Next, Step

THEOREM InductiveInvariant == Spec => []IInv
BY InitHolds, StepPreserves, PTL DEF Spec

(* The series of findings, requests, evidence or audit numbers created by  *)
(* the handlers never has a gap, however the creates interleave.           *)
THEOREM NoGapsHolds == Spec => []NoGaps
<1>1. IInv => NoGaps
  BY SeriesAssumption DEF IInv, TypeOK, Series, Last, NoGaps
<1> QED BY <1>1, InductiveInvariant, PTL

(* The retry loop reports an error only when other creates won each of its *)
(* attempts, or when the padding is used up.                               *)
THEOREM FailureHolds == Spec => []FailureNeedsContention
<1>1. IInv => FailureNeedsContention
  BY SeriesAssumption DEF IInv, TypeOK, Series, Attempts, Last, FailureNeedsContention
<1> QED BY <1>1, InductiveInvariant, PTL

(* Of a create's attempts, overlapping with whatever others, there are at  *)
(* most MaxAttempts, and what it tries to insert is a number.              *)
THEOREM TypeCorrect == Spec => []TypeOK
<1>1. IInv => TypeOK
  BY DEF IInv
<1> QED BY <1>1, InductiveInvariant, PTL

=============================================================================
