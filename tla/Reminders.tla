------------------------------ MODULE Reminders ------------------------------
(***************************************************************************)
(* The daily reminder worker and one item it watches: a finding, a         *)
(* document request or an engagement milestone.                            *)
(*                                                                         *)
(* A run reads the items, decides on each from what it read, sends the     *)
(* notifications, and only then records the reminder on the item, with     *)
(* users working meanwhile.  The worker may die at any point, and an error *)
(* on any item ends the run of that day; the next one is tomorrow's.       *)
(* There is one worker, as the deployment guide asks, so that the flag     *)
(* against overlapping runs never shows; a run ends on the day it began.   *)
(*                                                                         *)
(* Time is kept relative to today, in days, and the hour of a day as one   *)
(* of a few ticks, so that it passes without bound.                        *)
(***************************************************************************)
EXTENDS Integers

CONSTANTS
  BeforeDueDays,  \* {14, 7, 1} in the program
  Every,          \* afterDueEveryDays, 7; milestones use the same number
  ManagerDays,    \* up to so many days overdue: level 1; 14
  CaeDays,        \* up to so many: level 2, above it 3; 45
  DueDays,        \* days from today at which a due date may be set
  DueTimes,       \* hours of the day it may have
  RunTimes,       \* hours at which the job of 06:00 may read the clock
  MaxFailures     \* bound: errors and crashes of the worker

ASSUME ReminderAssumption ==
  /\ BeforeDueDays \subseteq Nat \ {0}
  /\ Every \in Nat \ {0}
  /\ ManagerDays \in Nat \ {0}
  /\ CaeDays \in Nat /\ CaeDays > ManagerDays
  /\ DueDays \subseteq Int /\ DueTimes \subseteq Nat /\ RunTimes \subseteq Nat
  /\ MaxFailures \in Nat

(* Beyond these numbers of days nothing changes any more.                  *)
Horizon == CaeDays + 2
Forever == Every + 2       \* a lastReminderAt that is null

Kinds == {"finding", "request", "milestone"}

VARIABLES
  kind,      \* what the item is
  item,      \* its row: open and dated or not, due date, last reminder, level
  run,       \* the worker, and what its run has read
  day,       \* "morning" until 06:00, then "ran", or "changed" by a user since
  quiet,     \* history: days since a notification was really sent
  worst,     \* history: the most days the item was ever overdue
  failures   \* how often the worker has failed

vars == <<kind, item, run, day, quiet, worst, failures>>

Larger(m, n) == IF m >= n THEN m ELSE n
Smaller(m, n) == IF m <= n THEN m ELSE n

-----------------------------------------------------------------------------
(* reminderDecision *)

\* now - due in whole days, when it is positive.
DaysOverdue(now) == Larger(0, -item.until - (IF now < item.time THEN 1 ELSE 0))

\* Broken variant: the second rung of the ladder is climbed a day early.
EscalationLevelOffByOne(days) ==
  CASE days <= 0 -> 0
    [] days > 0 /\ days < ManagerDays -> 1
    [] days >= ManagerDays /\ days <= CaeDays -> 2
    [] days > CaeDays -> 3

EscalationLevel(days) ==
  CASE days <= 0 -> 0
    [] days > 0 /\ days <= ManagerDays -> 1
    [] days > ManagerDays /\ days <= CaeDays -> 2
    [] days > CaeDays -> 3

\* now - lastReminderAt in whole days: a run that reads the clock a little
\* earlier than the last one did has not waited a full day more.
DaysSinceLast(now) == item.since - (IF now < item.last THEN 1 ELSE 0)

RemindedToday == item.since = 0

\* Broken variant: an item that was never reminded has not waited yet.
RemindOnlyRepeatedly(now) ==
  /\ ~RemindedToday
  /\ item.since # Forever /\ DaysSinceLast(now) >= Every

\* Broken variant: once overdue, an item is reminded every day.
RemindDaily(now) == ~RemindedToday

Remind(now) ==
  /\ ~RemindedToday
  /\ \/ item.until > 0 /\ item.until \in BeforeDueDays
     \/ item.until = 0
     \/ item.until < 0 /\ DaysSinceLast(now) >= Every

\* A milestone is alerted when it is overdue, unless a notification about it
\* is at most Every days old.
Alert(now) ==
  /\ item.until < 0 \/ (item.until = 0 /\ item.time < now)
  /\ item.since > Every \/ (item.since = Every /\ item.last < now)

-----------------------------------------------------------------------------
(* The worker *)

\* The items a run selects.
Watched == item.open /\ item.dated

Idle == [pc |-> "idle"]
Down == [pc |-> "down"]
Busy == run.pc \in {"send", "record"}

\* 06:00: the run reads the items and decides.
Fire(now) ==
  /\ run = Idle
  /\ day = "morning"
  /\ day' = "ran"
  /\ run' = IF Watched /\ (IF kind = "milestone" THEN Alert(now) ELSE Remind(now))
              THEN [pc |-> "send", now |-> now, overdue |-> item.until < 0,
                    level |-> IF item.until > 0 THEN 0
                                                ELSE EscalationLevel(DaysOverdue(now)),
                    seen |-> item.level]
              ELSE Idle
  /\ UNCHANGED <<kind, item, quiet, worst, failures>>

\* The notification of a milestone is its own record.
Send ==
  /\ run.pc = "send"
  /\ quiet' = 0
  /\ \/ /\ kind = "milestone"
        /\ \E sent \in RunTimes :
             /\ sent >= run.now
             /\ item' = [item EXCEPT !.since = 0, !.last = sent]
        /\ run' = Idle
     \/ /\ kind # "milestone"
        /\ run' = [run EXCEPT !.pc = "record"]
        /\ UNCHANGED item
  /\ UNCHANGED <<kind, day, worst, failures>>

\* Broken variant: every reminder climbs further.
RecordedLevelAdded(seen, level) == seen + level

\* Broken variant: the level of the present due date replaces the old one.
RecordedLevelAsDecided(seen, level) == level

RecordedLevel(seen, level) == Larger(seen, level)

Record ==
  /\ run.pc = "record"
  /\ item' = [item EXCEPT !.since = 0, !.last = run.now,
                !.level = IF kind = "finding" THEN RecordedLevel(run.seen, run.level)
                                              ELSE @]
  /\ run' = Idle
  /\ UNCHANGED <<kind, day, quiet, worst, failures>>

\* An error while this item or one before it is handled ends the run.
Abort ==
  /\ Busy
  /\ failures < MaxFailures
  /\ run' = Idle
  /\ failures' = failures + 1
  /\ UNCHANGED <<kind, item, day, quiet, worst>>

Crash ==
  /\ run # Down
  /\ failures < MaxFailures
  /\ run' = Down
  /\ failures' = failures + 1
  /\ UNCHANGED <<kind, item, day, quiet, worst>>

Restart ==
  /\ run = Down
  /\ run' = Idle
  /\ UNCHANGED <<kind, item, day, quiet, worst, failures>>

\* Nobody is there at 06:00, and the job is not made up for.
Miss ==
  /\ run = Down
  /\ day = "morning"
  /\ day' = "ran"
  /\ UNCHANGED <<kind, item, run, quiet, worst, failures>>

-----------------------------------------------------------------------------
(* Time and the users *)

DayOlder(days) == IF days = Forever THEN Forever ELSE Smaller(days + 1, Every + 1)

NextDay ==
  /\ day # "morning"
  /\ ~Busy
  /\ day' = "morning"
  /\ item' = [item EXCEPT !.since = DayOlder(@),
                !.until = IF item.dated THEN Larger(@ - 1, -Horizon) ELSE @]
  /\ quiet' = DayOlder(quiet)
  /\ worst' = Larger(worst, -item'.until)
  /\ UNCHANGED <<kind, run, failures>>

Changed == day' = IF day = "morning" THEN "morning" ELSE "changed"

SetDue(until, time, level) ==
  /\ item' = [item EXCEPT !.dated = TRUE, !.until = until, !.time = time,
                          !.level = level]
  /\ worst' = Larger(worst, -until)
  /\ Changed
  /\ UNCHANGED <<kind, run, quiet, failures>>

\* POST /findings/:id/extend: a later due date clears the escalation.
Extend(until, time) ==
  /\ kind = "finding" /\ item.open
  /\ \/ ~item.dated
     \/ until > item.until
     \/ until = item.until /\ time > item.time
  /\ SetDue(until, time, 0)

\* A PATCH sets any due date and leaves the escalation.
EditDue(until, time) == SetDue(until, time, item.level)

\* Only a finding can lose its due date.
ClearDue ==
  /\ kind = "finding" /\ item.dated
  /\ item' = [item EXCEPT !.dated = FALSE, !.until = 0]
  /\ Changed
  /\ UNCHANGED <<kind, run, quiet, worst, failures>>

\* The item enters or leaves the statuses that are reminded about.
ChangeStatus ==
  /\ item' = [item EXCEPT !.open = ~@]
  /\ Changed
  /\ UNCHANGED <<kind, run, quiet, worst, failures>>

Init ==
  /\ kind \in Kinds
  /\ \E until \in DueDays, time \in DueTimes :
       /\ item = [open |-> kind # "finding", dated |-> TRUE, until |-> until, time |-> time,
                  since |-> Forever, last |-> 0, level |-> 0]
       /\ worst = Larger(0, -until)
  /\ run = Idle
  /\ day = "morning"
  /\ quiet = Forever
  /\ failures = 0

Work == (\E now \in RunTimes : Fire(now)) \/ Send \/ Record \/ Miss

Next ==
  \/ Work
  \/ Abort
  \/ Crash
  \/ Restart
  \/ NextDay
  \/ \E until \in DueDays, time \in DueTimes : Extend(until, time) \/ EditDue(until, time)
  \/ ClearDue
  \/ ChangeStatus

Spec == Init /\ [][Next]_vars

\* The process manager restarts the worker, the worker goes on, time passes.
FairSpec == Spec /\ WF_vars(Work) /\ WF_vars(Restart) /\ WF_vars(NextDay)

-----------------------------------------------------------------------------
Days == 0..Forever
Levels == 0..3

Reading == [pc: {"send", "record"}, now: RunTimes, overdue: BOOLEAN,
            level: Levels, seen: Levels]

(* Types of the item and the worker (models Finding, DocumentRequest and   *)
(* EngagementMilestone, columns lastReminderAt and escalationLevel).       *)
TypeOK ==
  /\ kind \in Kinds
  /\ item \in [open: BOOLEAN, dated: BOOLEAN, until: Int, time: DueTimes, since: Days,
               last: RunTimes \cup {0}, level: Levels]
  /\ run \in {Idle, Down} \cup Reading
  /\ day \in {"morning", "ran", "changed"}
  /\ quiet \in Days
  /\ worst \in Nat
  /\ failures \in 0..MaxFailures

(* No level is recorded that the item did not earn by being overdue, even  *)
(* when its due date moved while the run was on its way (escalationLevel:  *)
(* line manager up to 14 days, CAE up to 45, audit committee after that).  *)
EscalationIsEarned ==
  /\ item.level >= 1 => worst >= 1
  /\ item.level >= 2 => worst > ManagerDays
  /\ item.level >= 3 => worst > CaeDays

(* Only an extension lowers the escalation of a finding: no edit of the    *)
(* due date, no failure and no late run does (Math.max in runForTenant,    *)
(* escalationLevel: 0 in extend).                                          *)
EscalationNeverDrops ==
  [][item'.level < item.level =>
       \E until \in DueDays, time \in DueTimes : Extend(until, time)]_vars

DayEndsOverdue ==
  NextDay /\ day = "ran" /\ failures = 0 /\ Watched /\ item.until < 0

(* Overdue items are reminded 'every 7 days only': a shorter interval      *)
(* needs a reminder that went out and was never recorded, and a milestone, *)
(* whose notification is the record, knows no exception; and while nothing *)
(* fails, no day ends on which an overdue item has waited more than a day  *)
(* longer than it should (the daily run, reminderDecision, the count of    *)
(* recent notifications).                                                  *)
RemindersKeepTheInterval ==
  [][/\ Send /\ run.overdue =>
          quiet >= Every \/ (kind # "milestone" /\ quiet < item.since)
     /\ DayEndsOverdue => quiet <= Every]_vars

LongOverdue == kind = "finding" /\ Watched /\ item.until = -Horizon

(* Every item that is overdue and stays so is reminded at last, and a      *)
(* finding reaches the top of the ladder, although runs fail, crash or are *)
(* missed (reminders 'weekly after', escalation by age).                   *)
OverdueIsPursued ==
  /\ Watched /\ item.until < 0 ~> quiet = 0 \/ ~Watched \/ item.until >= 0
  /\ LongOverdue ~> item.level = 3 \/ ~LongOverdue
=============================================================================
