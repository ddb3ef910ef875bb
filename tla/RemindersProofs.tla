--------------------------- MODULE RemindersProofs ---------------------------
(***************************************************************************)
(* Escalation by the reminder worker, for any schedule, any ladder and any *)
(* number of failures.                                                     *)
(*                                                                         *)
(* A run records what it decided on a due date that may have moved since.  *)
(* What it holds is earned all the same, because the item really was that  *)
(* late when the run read it, and the level it read is at least the one it *)
(* will find, because in between only an extension writes it.              *)
(***************************************************************************)
EXTENDS Reminders, TLAPS

Earned(level) ==
  /\ level >= 1 => worst >= 1
  /\ level >= 2 => worst > ManagerDays
  /\ level >= 3 => worst > CaeDays

WorstIsTheWorst == worst >= -item.until

RunIsSound ==
  Busy => Earned(run.level) /\ Earned(run.seen) /\ item.level <= run.seen

IInv ==
  /\ TypeOK
  /\ Earned(item.level)
  /\ WorstIsTheWorst
  /\ RunIsSound

LEMMA RunKinds ==
  ASSUME TypeOK
  PROVE  /\ Busy => run \in Reading
         /\ run.pc = "send" => run \in Reading /\ Busy
         /\ run.pc = "record" => run \in Reading /\ Busy
         /\ ~Busy => run \in {Idle, Down}
BY DEF TypeOK, Busy, Idle, Down, Reading

(* The ladder returns a level, and one that so many days overdue justify.  *)
LEMMA LadderIsEarned ==
  ASSUME NEW days \in Int
  PROVE  /\ EscalationLevel(days) \in Levels
         /\ EscalationLevel(days) >= 1 => days >= 1
         /\ EscalationLevel(days) >= 2 => days > ManagerDays
         /\ EscalationLevel(days) >= 3 => days > CaeDays
BY ReminderAssumption DEF EscalationLevel, Levels

(* The due date that a run reads is never later than the worst one seen.   *)
LEMMA OverdueIsBounded ==
  ASSUME IInv, NEW now \in RunTimes
  PROVE  DaysOverdue(now) \in Nat /\ DaysOverdue(now) <= worst
BY ReminderAssumption DEF IInv, TypeOK, WorstIsTheWorst, DaysOverdue, Larger

LEMMA DaysGrow ==
  ASSUME NEW days \in Days
  PROVE  DayOlder(days) \in Days
BY ReminderAssumption DEF DayOlder, Days, Forever, Smaller

LEMMA InitHolds == Init => IInv
<1> SUFFICES ASSUME Init PROVE IInv
  OBVIOUS
<1>1. PICK until \in DueDays, time \in DueTimes :
        /\ item = [open |-> kind # "finding", dated |-> TRUE, until |-> until,
                   time |-> time, since |-> Forever, last |-> 0, level |-> 0]
        /\ worst = Larger(0, -until)
  BY DEF Init
<1>2. until \in Int /\ worst \in Nat /\ worst >= -until
  BY <1>1, ReminderAssumption DEF Larger
<1>3. Forever \in Days
  BY ReminderAssumption DEF Forever, Days
<1>4. TypeOK
  BY <1>1, <1>2, <1>3, ReminderAssumption DEF Init, TypeOK, Levels
<1>5. ~Busy
  BY DEF Init, Idle, Busy
<1> QED BY <1>1, <1>2, <1>4, <1>5 DEF IInv, Earned, WorstIsTheWorst, RunIsSound

-----------------------------------------------------------------------------
LEMMA FireKeeps ==
  ASSUME IInv, NEW now \in RunTimes, Fire(now)
  PROVE  IInv'
<1> DEFINE level == IF item.until > 0 THEN 0 ELSE EscalationLevel(DaysOverdue(now))
<1> DEFINE reading == [pc |-> "send", now |-> now, overdue |-> item.until < 0,
                       level |-> level, seen |-> item.level]
<1>1. level \in Levels /\ Earned(level)
  <2>1. DaysOverdue(now) \in Int /\ DaysOverdue(now) <= worst /\ worst \in Nat
    BY OverdueIsBounded DEF IInv, TypeOK
  <2>2. CASE item.until > 0
    BY <2>2 DEF Levels, Earned
  <2>3. CASE ~(item.until > 0)
    BY <2>1, <2>3, LadderIsEarned, ReminderAssumption DEF Earned, Levels
  <2> QED BY <2>2, <2>3
<1>2. item.level \in Levels /\ Earned(item.level)
  BY DEF IInv, TypeOK
<1>3. reading \in Reading /\ reading.pc = "send"
  BY <1>1, <1>2 DEF Reading
<1>4. run' \in {Idle, reading}
  BY DEF Fire
<1>5. day' = "ran" /\ UNCHANGED <<kind, item, quiet, worst, failures>>
  BY DEF Fire
<1>6. TypeOK'
  BY <1>3, <1>4, <1>5 DEF IInv, TypeOK
<1>7. RunIsSound'
  <2>1. CASE run' = Idle
    BY <2>1 DEF RunIsSound, Busy, Idle
  <2>2. CASE run' = reading
    BY <2>2, <1>1, <1>2, <1>5 DEF RunIsSound, Earned, Levels
  <2> QED BY <1>4, <2>1, <2>2
<1> QED BY <1>5, <1>6, <1>7 DEF IInv, Earned, WorstIsTheWorst

LEMMA SendKeeps ==
  ASSUME IInv, Send
  PROVE  IInv'
<1>1. run \in Reading /\ Busy
  BY RunKinds DEF IInv, Send
<1>2. /\ run' \in {Idle, [run EXCEPT !.pc = "record"]}
      /\ item' \in [open: BOOLEAN, dated: BOOLEAN, until: Int, time: DueTimes,
                    since: Days, last: RunTimes \cup {0}, level: Levels]
      /\ item'.level = item.level /\ item'.until = item.until
      /\ quiet' = 0
  <2>1. 0 \in Days
    BY ReminderAssumption DEF Days, Forever
  <2>2. item \in [open: BOOLEAN, dated: BOOLEAN, until: Int, time: DueTimes,
                  since: Days, last: RunTimes \cup {0}, level: Levels]
    BY DEF IInv, TypeOK
  <2>3. CASE kind = "milestone"
    <3>1. PICK sent \in RunTimes : item' = [item EXCEPT !.since = 0, !.last = sent]
      BY <2>3 DEF Send
    <3>2. run' = Idle /\ quiet' = 0
      BY <2>3 DEF Send
    <3> QED BY <2>1, <2>2, <3>1, <3>2
  <2>4. CASE kind # "milestone"
    <3>1. item' = item /\ run' = [run EXCEPT !.pc = "record"] /\ quiet' = 0
      BY <2>4 DEF Send
    <3> QED BY <2>2, <3>1
  <2> QED BY <2>3, <2>4
<1>3. UNCHANGED <<kind, day, worst, failures>>
  BY DEF Send
<1>4. TypeOK'
  BY <1>1, <1>2, <1>3, ReminderAssumption DEF IInv, TypeOK, Reading, Days, Forever
<1>5. RunIsSound'
  <2>1. CASE run' = Idle
    BY <2>1 DEF RunIsSound, Busy, Idle
  <2>2. CASE run' = [run EXCEPT !.pc = "record"]
    BY <2>2, <1>1, <1>2, <1>3 DEF RunIsSound, Earned, IInv, Reading
  <2> QED BY <1>2, <2>1, <2>2
<1> QED BY <1>2, <1>3, <1>4, <1>5 DEF IInv, Earned, WorstIsTheWorst

LEMMA RecordKeeps ==
  ASSUME IInv, Record
  PROVE  IInv'
<1>1. run \in Reading /\ Busy
  BY RunKinds DEF IInv, Record
<1>2. RunIsSound /\ item.level \in Levels /\ Earned(item.level)
  BY DEF IInv, TypeOK
<1>3. item'.level \in {item.level, run.seen, run.level}
  BY DEF Record, RecordedLevel, Larger, IInv, TypeOK
<1>4. item'.level \in Levels /\ Earned(item'.level)
  BY <1>1, <1>2, <1>3 DEF RunIsSound, Reading
<1>5. /\ item' \in [open: BOOLEAN, dated: BOOLEAN, until: Int, time: DueTimes,
                    since: Days, last: RunTimes \cup {0}, level: Levels]
      /\ item'.until = item.until
  <2>1. 0 \in Days
    BY ReminderAssumption DEF Days, Forever
  <2>2. run.now \in RunTimes
    BY <1>1 DEF Reading
  <2>3. item' = [item EXCEPT !.since = 0, !.last = run.now, !.level = item'.level]
    BY DEF Record, IInv, TypeOK
  <2> QED BY <2>1, <2>2, <2>3, <1>4 DEF IInv, TypeOK
<1>6. run' = Idle /\ UNCHANGED <<kind, day, quiet, worst, failures>>
  BY DEF Record
<1>7. TypeOK'
  BY <1>5, <1>6 DEF IInv, TypeOK
<1>8. ~Busy'
  BY <1>6 DEF Busy, Idle
<1> QED BY <1>4, <1>5, <1>6, <1>7, <1>8 DEF IInv, Earned, WorstIsTheWorst, RunIsSound

(* The steps of the worker that write no row.                              *)
LEMMA StopKeeps ==
  ASSUME IInv, Abort \/ Crash \/ Restart \/ Miss
  PROVE  IInv'
<1>1. run' \in {Idle, Down}
  BY DEF Abort, Crash, Restart, Miss
<1>2. ~Busy'
  BY <1>1 DEF Busy, Idle, Down
<1>3. UNCHANGED <<kind, item, quiet, worst>> /\ day' \in {day, "ran"}
  BY DEF Abort, Crash, Restart, Miss
<1>4. failures' \in 0..MaxFailures
  BY ReminderAssumption DEF Abort, Crash, Restart, Miss, IInv, TypeOK
<1>5. TypeOK'
  BY <1>1, <1>3, <1>4 DEF IInv, TypeOK
<1> QED BY <1>2, <1>3, <1>5 DEF IInv, Earned, WorstIsTheWorst, RunIsSound

LEMMA NextDayKeeps ==
  ASSUME IInv, NextDay
  PROVE  IInv'
<1>1. /\ ~Busy /\ day' = "morning" /\ UNCHANGED <<kind, run, failures>>
      /\ quiet' \in Days
  BY DaysGrow DEF NextDay, IInv, TypeOK
<1>2. Horizon \in Int
  BY ReminderAssumption DEF Horizon
<1>3. /\ item' \in [open: BOOLEAN, dated: BOOLEAN, until: Int, time: DueTimes,
                    since: Days, last: RunTimes \cup {0}, level: Levels]
      /\ item'.level = item.level
  <2>1. Larger(item.until - 1, -Horizon) \in Int
    BY <1>2 DEF IInv, TypeOK, Larger
  <2>2. DayOlder(item.since) \in Days
    BY DaysGrow DEF IInv, TypeOK
  <2> QED BY <2>1, <2>2 DEF NextDay, IInv, TypeOK
<1>4. worst' \in Nat /\ worst' >= worst /\ worst' >= -item'.until
  <2>1. worst' = Larger(worst, -item'.until)
    BY DEF NextDay
  <2>2. worst \in Nat /\ item'.until \in Int
    BY <1>3 DEF IInv, TypeOK
  <2> QED BY <2>1, <2>2 DEF Larger
<1>5. TypeOK'
  BY <1>1, <1>3, <1>4 DEF IInv, TypeOK
<1>6. ~Busy'
  BY <1>1 DEF Busy
<1>7. Earned(item.level)'
  <2>1. worst \in Nat /\ Earned(item.level)
    BY DEF IInv, TypeOK
  <2> QED BY <2>1, <1>3, <1>4, ReminderAssumption DEF Earned
<1> QED BY <1>4, <1>5, <1>6, <1>7 DEF IInv, WorstIsTheWorst, RunIsSound

LEMMA SetDueKeeps ==
  ASSUME IInv, NEW until \in DueDays, NEW time \in DueTimes,
         Extend(until, time) \/ EditDue(until, time)
  PROVE  IInv'
<1>1. PICK level \in {0, item.level} : SetDue(until, time, level)
  BY DEF Extend, EditDue
<1>2. until \in Int /\ item.level \in Levels /\ level \in Levels /\ level <= item.level
  BY ReminderAssumption DEF IInv, TypeOK, Levels
<1>3. /\ item' = [item EXCEPT !.dated = TRUE, !.until = until, !.time = time,
                              !.level = level]
      /\ worst' = Larger(worst, -until)
      /\ UNCHANGED <<kind, run, quiet, failures>>
      /\ day' \in {"morning", "changed"}
  BY <1>1 DEF SetDue, Changed
<1>4. worst' \in Nat /\ worst' >= worst /\ worst' >= -until
  BY <1>2, <1>3 DEF IInv, TypeOK, Larger
<1>5. /\ item' \in [open: BOOLEAN, dated: BOOLEAN, until: Int, time: DueTimes,
                    since: Days, last: RunTimes \cup {0}, level: Levels]
      /\ item'.level = level /\ item'.until = until
  BY <1>2, <1>3 DEF IInv, TypeOK
<1>6. TypeOK'
  BY <1>3, <1>4, <1>5 DEF IInv, TypeOK
<1>7. ASSUME NEW l \in Levels, Earned(l) PROVE Earned(l)'
  BY <1>4, <1>7, ReminderAssumption DEF Earned, Levels, IInv, TypeOK
<1>8. Earned(level)
  BY <1>2 DEF IInv, Earned, Levels
<1>9. Earned(item.level)'
  BY <1>2, <1>5, <1>7, <1>8 DEF Earned
<1>10. RunIsSound'
  <2> SUFFICES ASSUME Busy' PROVE (Earned(run.level) /\ Earned(run.seen)
                                   /\ item.level <= run.seen)'
    BY DEF RunIsSound
  <2>1. Busy
    BY <1>3 DEF Busy
  <2>2. /\ run \in Reading
        /\ Earned(run.level) /\ Earned(run.seen) /\ item.level <= run.seen
    BY <2>1, RunKinds DEF IInv, RunIsSound
  <2>3. Earned(run.level)' /\ Earned(run.seen)'
    BY <2>2, <1>3, <1>7 DEF Reading, Earned
  <2>4. item'.level <= run'.seen
    BY <2>2, <1>2, <1>3, <1>5 DEF Reading, Levels
  <2> QED BY <2>3, <2>4
<1> QED BY <1>4, <1>5, <1>6, <1>9, <1>10 DEF IInv, WorstIsTheWorst

LEMMA StatusKeeps ==
  ASSUME IInv, ClearDue \/ ChangeStatus
  PROVE  IInv'
<1>1. /\ item' \in [open: BOOLEAN, dated: BOOLEAN, until: Int, time: DueTimes,
                    since: Days, last: RunTimes \cup {0}, level: Levels]
      /\ item'.level = item.level
      /\ item'.until \in {0, item.until}
  <2>1. item \in [open: BOOLEAN, dated: BOOLEAN, until: Int, time: DueTimes,
                  since: Days, last: RunTimes \cup {0}, level: Levels]
    BY DEF IInv, TypeOK
  <2>2. CASE ClearDue
    <3>1. PICK dated \in BOOLEAN, until \in Int :
            item' = [item EXCEPT !.dated = dated, !.until = until] /\ until = 0
      <4>1. 0 \in Int
        OBVIOUS
      <4> QED BY <2>2, <4>1, Zenon DEF ClearDue
    <3>2. item'.level = item.level /\ item'.until = 0
      BY <2>1, <3>1
    <3> QED BY <2>1, <3>1, <3>2
  <2>3. CASE ChangeStatus
    <3>1. PICK open \in BOOLEAN : item' = [item EXCEPT !.open = open]
      <4>1. item' = [item EXCEPT !.open = ~item.open]
        BY <2>3 DEF ChangeStatus
      <4>2. (~item.open) \in BOOLEAN
        OBVIOUS
      <4> QED BY <4>1, <4>2, Zenon
    <3> QED BY <2>1, <3>1
  <2> QED BY <2>2, <2>3
<1>2. UNCHANGED <<kind, run, quiet, worst, failures>> /\ day' \in {"morning", "changed"}
  <2>1. Changed /\ UNCHANGED <<kind, run, quiet, worst, failures>>
    BY DEF ClearDue, ChangeStatus
  <2> QED BY <2>1 DEF Changed
<1>3. TypeOK'
  BY <1>1, <1>2 DEF IInv, TypeOK
<1>4. WorstIsTheWorst'
  BY <1>1, <1>2 DEF IInv, TypeOK, WorstIsTheWorst
<1>5. RunIsSound'
  BY <1>1, <1>2 DEF IInv, RunIsSound, Busy, Earned
<1> QED BY <1>1, <1>2, <1>3, <1>4, <1>5 DEF IInv, Earned

LEMMA NextKeeps == IInv /\ [Next]_vars => IInv'
<1> SUFFICES ASSUME IInv, [Next]_vars PROVE IInv'
  OBVIOUS
<1>1. CASE UNCHANGED vars
  BY <1>1 DEF vars, IInv, TypeOK, Earned, WorstIsTheWorst, RunIsSound, Busy
<1>2. ASSUME NEW now \in RunTimes, Fire(now) PROVE IInv'
  BY <1>2, FireKeeps
<1>3. CASE Send
  BY <1>3, SendKeeps
<1>4. CASE Record
  BY <1>4, RecordKeeps
<1>5. CASE Abort \/ Crash \/ Restart \/ Miss
  BY <1>5, StopKeeps
<1>6. CASE NextDay
  BY <1>6, NextDayKeeps
<1>7. ASSUME NEW until \in DueDays, NEW time \in DueTimes,
             Extend(until, time) \/ EditDue(until, time)
      PROVE IInv'
  BY <1>7, SetDueKeeps
<1>8. CASE ClearDue \/ ChangeStatus
  BY <1>8, StatusKeeps
<1> QED BY <1>1, <1>2, <1>3, <1>4, <1>5, <1>6, <1>7, <1>8 DEF Next, Work

(* The inductive invariant, for every schedule and every bound.            *)
THEOREM InductiveInvariant == Spec => []IInv
<1> QED BY InitHolds, NextKeeps, PTL DEF Spec

(* Type correctness of the item and the worker (columns lastReminderAt and *)
(* escalationLevel).                                                       *)
THEOREM TypeCorrect == Spec => []TypeOK
<1>1. IInv => TypeOK
  BY DEF IInv
<1> QED BY <1>1, InductiveInvariant, PTL

(* No level is recorded that the item did not earn (escalationLevel,       *)
(* runForTenant).                                                          *)
THEOREM EscalationHolds == Spec => []EscalationIsEarned
<1>1. IInv => EscalationIsEarned
  BY DEF IInv, Earned, EscalationIsEarned
<1> QED BY <1>1, InductiveInvariant, PTL

(* Only an extension lowers the escalation: of the other steps, the run    *)
(* records at least the level it read, and that is at least the present    *)
(* one (Math.max in runForTenant, escalationLevel: 0 in extend).           *)
THEOREM EscalationDropsHold == Spec => EscalationNeverDrops
<1> DEFINE Extended == \E until \in DueDays, time \in DueTimes : Extend(until, time)
<1>1. IInv /\ [Next]_vars => [item'.level < item.level => Extended]_vars
  <2> SUFFICES ASSUME IInv, Next, item'.level < item.level, ~Extended PROVE FALSE
    OBVIOUS
  <2>1. item.level \in Levels
    BY DEF IInv, TypeOK
  <2>2. CASE Record
    <3>1. run \in Reading /\ item.level <= run.seen
      BY <2>2, RunKinds DEF Record, IInv, RunIsSound
    <3>2. item'.level = IF kind = "finding" THEN RecordedLevel(run.seen, run.level)
                                            ELSE item.level
      BY <2>2 DEF Record, IInv, TypeOK
    <3> QED BY <2>1, <3>1, <3>2 DEF RecordedLevel, Larger, Reading, Levels
  <2>3. CASE ~Record
    <3>1. item'.level = item.level
      BY <2>3 DEF Next, Work, Fire, Send, Abort, Crash, Restart, Miss, NextDay, EditDue,
                  SetDue, ClearDue, ChangeStatus, IInv, TypeOK
    <3> QED BY <2>1, <3>1 DEF Levels
  <2> QED BY <2>2, <2>3
<1> QED BY <1>1, InductiveInvariant, PTL DEF Spec, EscalationNeverDrops

-----------------------------------------------------------------------------
(* The interval between reminders                                          *)
(*                                                                         *)
(* What the item says of its last reminder may be older than the truth,    *)
(* never younger, and is the truth for a milestone and while nothing has   *)
(* failed.  No day passes between a decision and what becomes of it.       *)

RecordFollowsSend == run.pc = "record" => quiet = 0 /\ kind # "milestone"

RecordIsNoYounger ==
  /\ quiet <= item.since
  /\ kind = "milestone" \/ (failures = 0 /\ run.pc # "record") => quiet = item.since

OverdueHasWaited == run.pc = "send" /\ run.overdue => item.since >= Every

DownHasFailed == run = Down => failures > 0

\* The run of the day has left no overdue item waiting.
NobodyWaits ==
  day = "ran" /\ failures = 0 /\ Watched /\ item.until < 0 /\ run.pc # "send" =>
    quiet <= Every

PInv ==
  /\ IInv
  /\ RecordFollowsSend
  /\ RecordIsNoYounger
  /\ OverdueHasWaited
  /\ DownHasFailed
  /\ NobodyWaits

(* A day makes the record no younger than the truth.                       *)
LEMMA DaysGrowTogether ==
  ASSUME NEW d \in Days, NEW e \in Days, d <= e
  PROVE  DayOlder(d) <= DayOlder(e)
BY ReminderAssumption DEF DayOlder, Days, Forever, Smaller

(* What an item that the run picks has waited.                             *)
LEMMA DecisionFacts ==
  ASSUME TypeOK, NEW now \in RunTimes, item.until < 0
  PROVE  /\ Remind(now) \/ Alert(now) => item.since >= Every
         /\ ~Remind(now) => item.since <= Every
         /\ ~Alert(now) => item.since <= Every
<1>1. item.since \in Nat /\ item.until \in Int /\ now \in Nat
  BY ReminderAssumption DEF TypeOK, Days, Forever
<1>2. Remind(now) <=> item.since # 0 /\ DaysSinceLast(now) >= Every
  BY <1>1 DEF Remind, RemindedToday
<1>3. DaysSinceLast(now) \in {item.since, item.since - 1}
  BY <1>1 DEF DaysSinceLast
<1>4. Alert(now) => item.since >= Every
  BY <1>1, ReminderAssumption DEF Alert
<1>5. ~Alert(now) => item.since <= Every
  BY <1>1, ReminderAssumption DEF Alert
<1> QED BY <1>1, <1>2, <1>3, <1>4, <1>5, ReminderAssumption

LEMMA PaceInit == Init => PInv
<1> SUFFICES ASSUME Init PROVE PInv
  OBVIOUS
<1>1. run.pc = "idle" /\ run # Down /\ day = "morning"
  BY DEF Init, Idle, Down
<1>2. quiet = item.since /\ quiet \in Days
  BY ReminderAssumption DEF Init, Days, Forever
<1> QED BY <1>1, <1>2, InitHolds
           DEF PInv, RecordFollowsSend, RecordIsNoYounger, OverdueHasWaited,
               DownHasFailed, NobodyWaits, Days

(* The run reads: an overdue item that is not picked has not waited long.  *)
LEMMA FirePace ==
  ASSUME PInv, NEW now \in RunTimes, Fire(now)
  PROVE  PInv'
<1> DEFINE Picked == Watched /\ (IF kind = "milestone" THEN Alert(now) ELSE Remind(now))
           reading == [pc |-> "send", now |-> now, overdue |-> item.until < 0,
                       level |-> IF item.until > 0 THEN 0
                                                   ELSE EscalationLevel(DaysOverdue(now)),
                       seen |-> item.level]
<1>1. /\ run = Idle /\ UNCHANGED <<kind, item, quiet, worst, failures>>
      /\ run' = IF Picked THEN reading ELSE Idle
  BY DEF Fire
<1>2. /\ run.pc = "idle" /\ Idle.pc = "idle" /\ Idle # Down
      /\ reading.pc = "send" /\ reading # Down
      /\ reading.overdue = (item.until < 0)
  BY <1>1 DEF Idle, Down
<1> HIDE DEF reading
<1>3. TypeOK /\ RecordIsNoYounger
  BY DEF PInv, IInv
<1>4. RecordFollowsSend' /\ DownHasFailed'
  BY <1>1, <1>2 DEF RecordFollowsSend, DownHasFailed
<1>5. RecordIsNoYounger'
  BY <1>1, <1>2, <1>3 DEF RecordIsNoYounger
<1>6. OverdueHasWaited'
  BY <1>1, <1>2, <1>3, DecisionFacts DEF OverdueHasWaited
<1>7. NobodyWaits'
  <2> SUFFICES ASSUME failures = 0, Watched, item.until < 0, run'.pc # "send"
               PROVE  quiet <= Every
    BY <1>1 DEF NobodyWaits, Watched
  <2>1. ~Picked
    BY <1>1, <1>2
  <2>2. item.since <= Every
    BY <2>1, <1>3, DecisionFacts
  <2> QED BY <2>2, <1>2, <1>3 DEF RecordIsNoYounger
<1>8. IInv'
  BY FireKeeps DEF PInv
<1> QED BY <1>4, <1>5, <1>6, <1>7, <1>8 DEF PInv

LEMMA SendPace ==
  ASSUME PInv, Send
  PROVE  PInv'
<1>1. run \in Reading /\ run.pc = "send"
  BY RunKinds DEF PInv, IInv, Send
<1>2. TypeOK /\ 0 \in Days
  BY ReminderAssumption DEF PInv, IInv, Days, Forever
<1>3. quiet' = 0 /\ UNCHANGED <<kind, day, worst, failures>>
  BY DEF Send
<1>4. CASE kind = "milestone"
  <2>1. item'.since = 0 /\ run' = Idle
    BY <1>2, <1>4 DEF Send, TypeOK
  <2> QED BY <1>3, <1>4, <2>1, SendKeeps, ReminderAssumption
             DEF PInv, RecordFollowsSend, RecordIsNoYounger, OverdueHasWaited,
                 DownHasFailed, NobodyWaits, Idle, Down
<1>5. CASE kind # "milestone"
  <2>1. item' = item /\ run'.pc = "record" /\ run' # Down
    BY <1>1, <1>5 DEF Send, Reading, Down
  <2>2. 0 <= item.since
    BY <1>2, ReminderAssumption DEF TypeOK, Days, Forever
  <2> QED BY <1>3, <1>5, <2>1, <2>2, SendKeeps, ReminderAssumption
             DEF PInv, RecordFollowsSend, RecordIsNoYounger, OverdueHasWaited,
                 DownHasFailed, NobodyWaits
<1> QED BY <1>4, <1>5

LEMMA RecordPace ==
  ASSUME PInv, Record
  PROVE  PInv'
<1>1. run' = Idle /\ UNCHANGED <<kind, day, quiet, worst, failures>>
  BY DEF Record
<1>2. quiet = 0 /\ item'.since = 0
  BY DEF Record, PInv, IInv, TypeOK, RecordFollowsSend
<1> QED BY <1>1, <1>2, RecordKeeps, ReminderAssumption
           DEF PInv, RecordFollowsSend, RecordIsNoYounger, OverdueHasWaited,
               DownHasFailed, NobodyWaits, Idle, Down

(* A failure is counted before anything can be missed.                     *)
LEMMA StopPace ==
  ASSUME PInv, Abort \/ Crash \/ Restart \/ Miss
  PROVE  PInv'
<1>1. /\ UNCHANGED <<kind, item, quiet, worst>>
      /\ run' \in {Idle, Down} /\ run'.pc \notin {"send", "record"}
  BY DEF Abort, Crash, Restart, Miss, Idle, Down
<1>2. failures' > 0
  <2>1. failures \in Nat
    BY DEF PInv, IInv, TypeOK
  <2> QED BY <2>1 DEF Abort, Crash, Restart, Miss, PInv, DownHasFailed
<1>3. RecordIsNoYounger'
  BY <1>1, <1>2 DEF PInv, RecordIsNoYounger
<1> QED BY <1>1, <1>2, <1>3, StopKeeps
           DEF PInv, RecordFollowsSend, OverdueHasWaited, DownHasFailed, NobodyWaits

LEMMA NextDayPace ==
  ASSUME PInv, NextDay
  PROVE  PInv'
<1>1. /\ day' = "morning" /\ UNCHANGED <<kind, run, failures>>
      /\ run.pc \notin {"send", "record"}
      /\ quiet' = DayOlder(quiet)
  BY DEF NextDay, Busy
<1>2. item'.since = DayOlder(item.since)
  BY DEF NextDay, PInv, IInv, TypeOK
<1>3. quiet \in Days /\ item.since \in Days /\ RecordIsNoYounger
  BY DEF PInv, IInv, TypeOK
<1>4. RecordIsNoYounger'
  BY <1>1, <1>2, <1>3, DaysGrowTogether DEF RecordIsNoYounger
<1> QED BY <1>1, <1>4, NextDayKeeps
           DEF PInv, RecordFollowsSend, OverdueHasWaited, DownHasFailed, NobodyWaits

(* Users move due dates and statuses, never the date of the last reminder. *)
LEMMA UserPace ==
  ASSUME PInv, IInv', UNCHANGED <<kind, run, quiet, failures>>,
         item'.since = item.since, day' \in {"morning", "changed"}
  PROVE  PInv'
BY DEF PInv, RecordFollowsSend, RecordIsNoYounger, OverdueHasWaited, DownHasFailed,
       NobodyWaits

LEMMA PaceNext == PInv /\ [Next]_vars => PInv'
<1> SUFFICES ASSUME PInv, [Next]_vars PROVE PInv'
  OBVIOUS
<1>0. IInv /\ TypeOK
  BY DEF PInv, IInv
<1>1. CASE UNCHANGED vars
  BY <1>1, NextKeeps DEF vars, PInv, RecordFollowsSend, RecordIsNoYounger,
     OverdueHasWaited, DownHasFailed, NobodyWaits, Watched
<1>2. ASSUME NEW now \in RunTimes, Fire(now) PROVE PInv'
  BY <1>2, FirePace
<1>3. CASE Send \/ Record
  BY <1>3, SendPace, RecordPace
<1>4. CASE Abort \/ Crash \/ Restart \/ Miss
  BY <1>4, StopPace
<1>5. CASE NextDay
  BY <1>5, NextDayPace
<1>6. ASSUME NEW until \in DueDays, NEW time \in DueTimes,
             Extend(until, time) \/ EditDue(until, time)
      PROVE PInv'
  <2>1. /\ UNCHANGED <<kind, run, quiet, failures>>
        /\ item'.since = item.since /\ day' \in {"morning", "changed"}
    BY <1>0, <1>6 DEF Extend, EditDue, SetDue, Changed, TypeOK
  <2> QED BY <1>0, <1>6, <2>1, SetDueKeeps, UserPace
<1>7. CASE ClearDue \/ ChangeStatus
  <2>1. /\ UNCHANGED <<kind, run, quiet, failures>>
        /\ item'.since = item.since /\ day' \in {"morning", "changed"}
    BY <1>0, <1>7 DEF ClearDue, ChangeStatus, Changed, TypeOK
  <2> QED BY <1>0, <1>7, <2>1, StatusKeeps, UserPace
<1> QED BY <1>1, <1>2, <1>3, <1>4, <1>5, <1>6, <1>7 DEF Next, Work

(* No overdue item is reminded early but after a reminder that was sent    *)
(* and never recorded, a milestone never, and while nothing fails none     *)
(* waits a day too long (reminderDecision, runForTenant, the count of      *)
(* recent notifications).                                                  *)
THEOREM IntervalHolds == Spec => RemindersKeepTheInterval
<1>1. PInv /\ [Next]_vars =>
        [/\ Send /\ run.overdue =>
              quiet >= Every \/ (kind # "milestone" /\ quiet < item.since)
         /\ DayEndsOverdue => quiet <= Every]_vars
  <2> SUFFICES ASSUME PInv
               PROVE  /\ Send /\ run.overdue =>
                           quiet >= Every \/ (kind # "milestone" /\ quiet < item.since)
                      /\ DayEndsOverdue => quiet <= Every
    OBVIOUS
  <2>1. quiet \in Int /\ item.since \in Int
    BY ReminderAssumption DEF PInv, IInv, TypeOK, Days, Forever
  <2>2. Send /\ run.overdue => item.since >= Every
    BY DEF Send, PInv, OverdueHasWaited
  <2>3. quiet <= item.since /\ (kind = "milestone" => quiet = item.since)
    BY DEF PInv, RecordIsNoYounger
  <2>4. DayEndsOverdue => quiet <= Every
    BY DEF DayEndsOverdue, NextDay, Busy, PInv, NobodyWaits
  <2> QED BY <2>1, <2>2, <2>3, <2>4, ReminderAssumption
<1>2. PInv /\ [Next]_vars => PInv'
  BY PaceNext
<1> QED BY <1>1, <1>2, PaceInit, PTL DEF Spec, RemindersKeepTheInterval
=============================================================================
