# BDO AuditSphere: TLA+ models, model checking and proofs

BDO AuditSphere is an internal-audit platform: a NestJS API
(`src/apps/api`), its PostgreSQL schema (`src/packages/db`), rules shared by
the API and the web client (`src/packages/shared`) and a Next.js client
(`src/apps/web`). This directory holds TLA+ models of the API's core logic, the
TLC configurations that check them on small instances, and proofs checked by
TLAPS. Paths below start at the repository's root, which is `src/` here.

## 1. What makes this program hard

Everything of interest happens in the services of `apps/api/src`. Several API
processes serve HTTP requests at the same time, and nearly every handler that
changes a row has the same shape:

1. read the row (`findFirst`), and refuse the request if its status, its lock or
   the caller's permission forbids it;
2. for a workflow action, run the guards of the transition
   (`WorkflowService.evaluate`); some look at the row read in 1, others count
   rows in the database *now*;
3. write `update({ where: { id } })`, or a transaction of several writes.

The write never repeats the check and no row is locked: the database runs at
READ COMMITTED. What another request does between 1 and 3 is therefore the main
hazard, and the tests of the repository, which send one request at a time, do
not reach it. A handler is modelled as a *read* step, a *count* step where its
guards count, and a *commit* step; every request in progress keeps a record of
what it read (`req[r]`). The set `Requests` says how many may overlap:

- with two requests, a run asks what survives **every interleaving**;
- still with two requests, a property may speak of a request that **runs alone from
  whatever state** overlaps have left, which is what a user who repeats a request may
  count on. Findings, engagements and the registers have such properties;
- with one request, a run asks whether the handlers are right **in sequence**, for two
  properties of workpapers.

Section 6 says what breaks the last two kinds when requests overlap.

A write of several rows in one `$transaction` is one step, because a transaction
is atomic; writes without a transaction are separate steps.

Three more actors make trouble of their own: the worker, a process that runs one
job a day over rows the users are working on, and that may fail or die between
sending a reminder and recording it; the browser, whose tabs share cookies and
whose replies get lost while the API rotates its tokens; and the caches of the
API processes, which learn of a change only in the process that made it.

## 2. Inventory

State is rows of `packages/db/prisma/schema.prisma` unless another store is
named. "Correct" is what a team would want to hold.

### Modelled

| Component | State | Operations | Hard behaviour | Correct when |
|---|---|---|---|---|
| References of findings, requests, evidence, engagements (`nextFindingReference`, `nextAuditNumber` and the create loops) | references of a series, guarded by a unique index | create, up to five attempts | read-then-insert races, exhausted padding | no gap, no double; a create fails only when it must; every create ends |
| Workpapers (`workpapers/`) | row, versions, review notes, reviews, linked programme step | transition, update, edit of the step, raise / respond / clear / reopen note | late commits, version numbers, review rounds | the preparer never reviews or signs; sign-off is whole; no edit lost; a lone edit never gets under the lock |
| Findings (`findings/`) | row, recommendations, status history | transition, update, extend, add / update recommendation | late edits, extension counters, settled states | agreed dates are never lost and settled findings keep their stamps; a lone request leaves a settled finding and its history alone, counts and only postpones extensions, and makes no owner the validator |
| Engagements (`engagements/`) | row, members, stage history, plan item | transition, update, add / remove member, and the creation of programme, workpapers and findings | gates that count children other handlers are changing | no stage skipped; what gates found and cannot be undone stays; a lone request leaves a closed engagement alone and its lead on the team |
| Reminders (`jobs/`, `packages/shared/src/ageing.ts`) | last reminder and escalation level of an item; what a run has read | daily run over findings, requests, milestones; extensions and edits of due dates | a crash between sending and recording, an extension during the run, days counted in two ways | neither too often nor too late; escalation is earned, only an extension lowers it, and it gets to the top |
| Workflow engine (`workflow/`, `packages/shared/src/workflows.ts`) | none | findTransition, evaluate, availableActions | order of permission test, guards and write | modelled inside each component that uses it |

| Timesheets (`resources/`) | sheet, entries, total | add / edit / delete entry, submit, approve, reject | each transaction sums only what it sees; entries after submission | an undisturbed edit makes the total right again and touches no submitted hours |
| Library (`library/`) | methodology items and versions | create, edit in place or as a version, submit, approve, retire | two versions of one code approved at once | an approval leaves one published version; published content does not change |
| Programmes (`programs/`) | programme, steps, links to workpapers | add / edit / delete / reorder steps, approve, make a workpaper from a step, link a further one | two workpapers made from one step; named positions, repeated ids in a reorder; approval on a stale count | no workpaper loses its step, none is made from a step that has one; a step goes last unless told where, a reorder leaves no two in one place; no empty programme approved |
| Plans (`plans/`) | plan, items, engagements made from them | plan workflow, add / edit / delete item, start an engagement, its end | three writes without a transaction | item and engagement point at each other; an engagement that ends gives its item the same end |
| Document requests, documents (`requests/`, `documents/`, `storage/`) | request and links; document row, checksum, first version; stored content | transition, note, link; presign, put, upload, complete, remove | database and store are written one after the other; the scan is between | an uploaded document is the content that was checked; accepted requests are frozen |
| Access decisions (`auth/user-access.service.ts`, `users/`) | a cache in each process | load, change, invalidate, restart | a load that read before a change stores after it | nothing older than the time to live is served |
| Audit universe (`universe/`) | the tree of entities | create, move, delete | the climb to the root reads one ancestor at a time | a tree: no cycle, nothing under a deleted parent |
| Risks (`risks/`, `packages/shared/src/risk-scoring.ts`) | a risk, its scores; scoring models | edit, assess, create / edit a model | all inputs are written back as read | scores are those of the row's own inputs; one default model |
| Sessions (`auth/`, and `apps/web/lib/api.ts`) | refresh tokens and families, cookies, the tab's pending refresh | sign-in, refresh, logout, revocation, expiry | tabs, lost replies, crashes between the writes of a rotation | no false alarm in one tab; ended sessions stay ended; every call ends |

Create handlers of workpapers, findings and engagements give the initial states
of their modules. How they interact: an engagement's gates count the programme,
the workpapers, the review notes and the findings; a sign-off completes the
linked programme step; a programme makes workpapers from its steps; a plan item
starts an engagement, and closing the engagement writes back to the item; the
report of an engagement is a document that cannot be removed; workpapers,
findings and programmes ask whether their engagement is closed when they are
*created*, and never again. The reminder worker reads the due dates that
findings, requests and milestones carry, and writes beside their handlers. A
reset of a user revokes the sessions and invalidates one access cache.

### Not modelled

- **Parts of modelled components**: management requests of a plan (rows edited and
  read alone); stakeholders and milestones of an engagement; availability and
  capacity; the upload that goes past the API to an S3 bucket; failed-login
  counter, codes of MFA and the Entra ID protocol (each decided on one row of a
  user, beside the sessions); user administration beyond what it does to caches
  and sessions.
- **Controls and control tests**: the result of a test is written to its control,
  the last writer wins, and no step or document decides by it. The next candidate
  (section 8).
- **Rows edited one at a time without a rule between them**: evidence, tasks,
  comments, monitoring rules and alerts, templates.
- **Rows appended after a commit that no handler decides on**: audit trail,
  notifications - except that the worker counts the recent alerts of a milestone
  (in `Reminders`).
- **Read-only**: dashboards, reports, exports, search, the AI copilot.
- **Input and output**: configuration, health, storage drivers other than the local
  one, mail, the pages of the web client, seeds, migrations, infrastructure.
- Tenancy adds the tenant to every query and keeps no state, so each model is of
  one tenant.

About seven percent of the implementation's lines stand behind the definitions. What
is left is mostly page markup, seed data, declarations of types and DTOs, help
texts and queries that only read, in which nothing changes state.

## 3. Modules

Every definition that stands for code names it in the `map` of `PROJECT.json`,
with file and lines.

**`ReferenceAllocation`.** One series of references and the creates running
against it. A reference is its number; `StringBefore` is the order of the
padded strings, which is what `orderBy: { reference: 'desc' }` sorts by.
`Begin`, `ReadLatest`, `Insert`, `Retry` and `GiveUp` are the entry, the read,
the insert, the P2002 branch and the last attempt of the loop. `Existing` are
references that seeds and imports stored, possibly with gaps.

**`Workpapers`.** `wp` is the row with the columns the rules read; `notes` the
review notes; `versions` and `reviews` the child rows; `step` the programme
step it is linked to, which a sign-off completes and which `UpdateStep`, the PATCH of
the programme, sets to any of `StepStatuses` at any time (as the sign-off of another
workpaper of the step may): nothing ties it to the lock; `written` is a history
variable with every content the row has had. A transition is `ReadForTransition`,
`CountNotes`, `CommitTransition`; an edit is `ReadForUpdate` and `CommitUpdate`, or
`RollBackUpdate` when the version number is taken; the note handlers are a read and
`WriteReviewNote`. The narrative fields are one value, `content`, of which those in
`Documented` have a procedure and a conclusion.

**`WorkpaperLifecycle`.** What a workpaper promises, with every operation in one
step: the preparer never changes, no edit gets into a signed paper, it is
approved over cleared notes, the signer is somebody else, only an unlock reopens,
and a cleared note stays cleared until it is reopened. `Workpapers` maps the
detailed state to it (`LifecycleStage`); the serial run checks that it
implements it, and section 7 proves it.

**`Handlers`** is what findings, engagements and the registers share. A
request is `Idle` or a record of the step it is at and of what it read; `Enter` and
`Release` move it on.
`alone` is a history variable: the step just taken was one of a request that has
had no other beside it since it began. A property `[][alone' => P]_vars` asks what
such a request does from *any* reachable state, so also from those that overlapping
requests have left askew: whether the handler repairs what an overlap broke, and
whether it relies on an order that an overlap may have destroyed.

**`Findings`.** `fd` is the row, `recs` the recommendations, `last` the newest
history row, `extended` a history variable that counts granted extensions.
Text columns are reduced to whether they are filled; `owner` is a user, an
external person or nobody; dates are ordered numbers. A PATCH is a partial
function from columns to values, so that a patch with one column and one with
three are the same action. A finding's `update` re-checks nothing at its commit.
Evidence of implementation is a column that a patch sets; documents, which may be
attached at any status, are left out.

**`Engagements`.** `eng`, `members` and `planItem` are the parent's rows;
`program`, `papers`, `noted` and `findings` are the children as far as the gates
tell them apart: a workpaper is a draft, in between, or signed off; a finding is
in draft, in management review, agreed or settled, and has an owner or not. The
children's own handlers are in `Workpapers` and `Findings`; here they move in
single steps, because only the parent's reads race. `granted` is a history
variable with the transitions ever committed. Permissions are left out here:
each depends on the caller alone, so any guarded step has a caller.

**`Reminders`.** `item` is one finding, request or milestone as the job sees it:
`open` when its status is one that is reminded about, `dated` when it has a due
date, the days `until` it and the hour (`time`) it has, the days `since` the last
reminder and the hour (`last`) of that one, and the escalation level. All days
are relative to today and hours are a few ticks, so `NextDay` can go on for
ever; beyond a horizon they no longer matter and stand still. `Fire` is the
decision of a run (`reminderDecision` for findings and requests, the query and
the count for milestones), `Send` is `notifyMany`, `Record` the update of the
row; for a milestone the notification *is* the record. `Abort` is the error that
ends a tenant's run, on this item or on one before it; `Crash`, `Restart` and
`Miss` are the process. The users' handlers are single steps here: their races
with each other are in `Findings`. Two history variables say what the rows do
not: `quiet`, the days since a notification really went out, and `worst`, the
most days the item was ever overdue. Somebody who can be notified is assumed to
exist. A run ends on the day it began and there is one worker
(`docs/deployment-brief-azure.md:114` asks for "One worker replica, always"), so
the flag that keeps runs of one process apart never shows; two workers are not
modelled.

**`Timesheets`**, **`Library`**, **`Programmes`**, **`Plans`**, **`Documents`**,
**`Universe`**, **`Risks`**. One register each, with the columns its rules read; a
handler is a read step and one step per statement that commits by itself.
Reads that follow each other with no write that matters between them are one
step. In `Timesheets` the transaction that writes an entry sums the entries it
sees, which under READ COMMITTED may be without those of another transaction; in
`Documents` the row, the stored content and the scan are separate steps; in
`Universe` every hop of `isDescendant` is a read of its own; in `Risks` the
score is in fifths so that it stays whole, and a scoring model whose weights were
edited is another model.

**`Access`.** The cache of every process for one user. Values are not told apart,
only whether a change has superseded them and how long ago; ages are relative to
now, so `Tick` can go on for ever. A load takes the time before its query.

**`Sessions`.** One browser and the API. `jar` and `access` are the cookies all tabs
share, `waiting` the calls that wait for the pending refresh of their tab, `flight` a
refresh with what the API has done of it: `ReadToken`, `CreateNext`, `RevokeOld`,
`Kill`, `Reply` are its statements in their order. `Disconnect` loses the reply,
`Crash` the rest of the rotation. A token or a family that nobody holds any more
is forgotten and its id used again, so sign-ins and refreshes have no bound.
`disturbed` and `late` are history: whether a session has met anything but one
refresh at a time, and whether a refresh was sent after its session had ended.

**`MCRegisters`** is the disjoint sum of the eight registers: `subject` says which one a
behaviour is about, and the others stand still. They share no row, so nothing is
lost, and ids are shared so that one symmetry serves all.

**`MC...`** modules give the constants values for TLC: the roles of
`permissions.ts`, the patches, the symmetry sets. **`...Proofs`** modules hold
the theorems.

In `Programmes` a step's workpapers come from two handlers: `ReadForPaper` is
`createWorkpaperFromStep`, which refuses a step that has one, `ReadForLinkedPaper` the
create of workpapers with a `programStepId`, which does not. A new step is given the
position the caller names or the next one, and the list of a reorder may name a step
more than once: it ends up where it is named last, and the positions have a gap.

An operator under the comment "Broken variant" is not part of a specification.
It is the operator below it with a plausible mistake: a guard dropped, a value
written back from an old read, a stamp not reset. With it in place of the right
one the property it was written for fails, which shows that the property
depends on that piece of the code.

## 4. Runs

| Run | Asks | Bounds |
|---|---|---|
| `MCReferenceAllocation` | types, no gap, failure only after contention, every create ends | 3 creates, two attempts each, base 2 with padding 3 and references {2, 5} stored |
| `MCReferenceAllocationFull` | whether the next reference follows the highest (it does not) | 2 creates, the real F-01..F-99 with 98 stored, five attempts |
| `MCWorkpapersSerial` | lock and dates agree with the status; refinement of the lifecycle | 1 request, 3 users, 2 notes, 2 contents, 2 edits |
| `MCWorkpapersOverlap` | types, segregation of duties, whole sign-off, version history | 2 requests, 2 users, 1 note, 2 contents, 2 edits |
| `MCFindings` | types, agreed date and extension count, stamps of settled findings; settled findings, extensions and validation, of lone requests | 2 requests, 2 users, 1 recommendation, 2 dates, 1 extension, 2 patches |
| `MCWorkpapersSigned` | whether a locked workpaper keeps its content (it does not) | as `MCWorkpapersOverlap` |
| `MCFindingsValidator` | whether owner and validator differ under overlap (they do not) | as `MCFindings` |
| `MCEngagements` | types, no stage skipped, what gates leave behind; closed engagements and the lead on the team, of lone requests | 2 requests, 2 users, 1 workpaper, 1 finding, 2 patches |
| `MCEngagementsReporting` | whether reporting rests on signed work and cleared notes (it does not) | as `MCEngagements`, 1 user |
| `MCReminders` | earned and lasting escalation, interval and delay of reminders, overdue items are pursued | reminders 3 and 1 days before and every 3 days after, ladder at 3 and 5 days, due dates 3 days ago, today or in 3 days, 2 hours each for due dates and runs, 2 failures |
| `MCRegisters` | types; what a lone request keeps or restores in seven registers; age of cached access decisions | 2 requests; 2 entries, 3 library rows of 2 codes, 2 steps in 2 positions, 1 plan item with 2 engagements, 1 document with 3 contents, 3 entities, 2 scoring models, 2 processes with a time to live of 3 ticks |
| `MCSessions` | types, no false alarm, ended sessions stay ended, every call ends | 2 calls in 1 or 2 tabs, 5 tokens, 3 families |

### Bounds and why they are enough

- **`Requests`** is 2, or 1 in `MCWorkpapersSerial`. A race is a commit that lands
  between the read and the commit of another request; two requests show every such
  pair, and because a request that ended starts again, any number of others may pass
  between the two steps of a slow one.
- **`MaxVersion = 3`** stops edits at version 3: two edits of the same version,
  and an edit over an edited version. It is the only cap on edits; transitions go
  on without bound.
- **`Notes`**: two, so that one is cleared while another is open.
- **`Users`**: as many as there are roles that differ for the property. The
  serial workpaper run has a preparer, a reviewer and a signer apart.
- **`MaxDate = 2`, `MaxExtensions = 1`**: an extension postpones the date, overlaps
  another, or meets an original due date that is already there, because an edit may
  shorten or remove the date and the finding be agreed again.
- **`Base = 2`, `Limit = 8`**: a binary series overflows its padding after seven
  references and shows the same string order as the decimal one; the second run
  uses the real constants. `MaxAttempts = 2` lets a third create exhaust them.
- **`Papers`, `Findings`** of an engagement: one of each kind. The races are about a
  single child that changes after it was counted, or that was not there yet.
- **`Patches`**: those that decide on a rule. Of a finding: owner and due date set or
  removed, response and evidence filled; of an engagement: a lead who may not be on the
  team, and a report.
- **`Every`, `ManagerDays`, `CaeDays`, `BeforeDueDays`**: scaled down so that each
  rung of the ladder is a few days wide, the item can pass two reminders on its
  way up, and every comparison has a day on either side.
- **`RunTimes`, `DueTimes`**: the job reads the clock at one of two instants after
  06:00, which is all that rounding to whole days can tell apart; a due date is
  midnight, as a form sends it, or later in the day than the job.
- **`MaxFailures = 2`**: two crashes or errors, together or on different days. That
  they end is an assumption of the liveness properties, not only a bound: a
  worker that always dies reminds nobody.
- **`MaxItems = 3`** (library rows): two versions of a code that are approved together
  and one that is published, or a global item and two versions of it.
- **`MaxPosition = 1`**, and 0 the only position that a caller names (`Named`): two
  steps exchange their places, and one is put where another is. A list that names one
  step twice moves it from position 0 to 1; a gap between two steps needs a third
  position, with which the run takes more than five minutes, and is covered by
  the theorem `StepsHold` only.
- **`StepStatuses`** are two, the one that a sign-off sets and another.
- **`Docs`** has one document: content, checksum and scan are those of one row, and
  two uploads of it overlap. `Contents` are two good ones and one the scanner
  refuses.
- **`Entities`** are three and `MaxHops = 3`: the smallest tree in which two moves,
  harmless each, close a cycle, and on which a lone move can meet it. The
  code looks at 64 ancestors; `MaxHops` must only reach past the deepest branch.
  A move in a deeper branch would not see the entity it moves, and close a cycle.
- **`TTL = 3`** ticks: a load may take one, a change come in the next, and a hit in
  the last.
- **`Levels`, `Effects`, `Appetites`, `Models`** give different scores to every pair of
  inputs and of models, on both sides of the appetite, with one at the clamp.
- **`Tokens = 5`, `Families = 3`**: more than two calls can hold, so that an id is
  always free. `SignIn` happens while no refresh is on its way (bound): a refresh of
  an old session that is answered after a new sign-in is left out.
- Symmetry is used over requests, notes, recommendations and workpapers in the
  runs without liveness.

Deadlock is checked for references and reminders, where work or time always goes
on. It is not in the others: a settled finding, a cancelled engagement, an
approved timesheet or a full library (a bound) has no request left that would
succeed, which is how they should end; in `Sessions` a sign-in is always
possible once the calls have ended, so checking would show nothing.

### Fairness

`ReferenceAllocation` promises that every create ends (`EveryCreateEnds`).
Its `FairSpec` assumes weak fairness of each create's *own* steps: a request that
began keeps running, because the server runs its promise chain and the database
answers or fails. `Begin` has no fairness; users need not send requests.

`Reminders` promises that an overdue item is reminded and its escalation reaches
the top (`OverdueIsPursued`). Its `FairSpec` assumes that
the scheduler fires and the run goes on (`Work`), that the container platform
restarts a dead worker (`Restart`) and that time passes (`NextDay`). Users,
errors and crashes are under no fairness. A worker that is down at 06:00 may miss
the day for good, since nothing makes up for a missed job.

`Sessions` promises that every call of the application ends (`EveryCallEnds`). Its
`FairSpec` assumes weak fairness of each refresh's own next step in the API: the
event loop runs on, and no handler waits for another. Calls, users, time,
broken connections and crashes are under no fairness.

In the other components nothing has to happen: every step waits for a user.

## 5. What the runs show

- Whatever the interleaving, references are allocated without gaps above the
  ones stored, five attempts are lost only to five other inserts, and the loop
  ends.
- Overlapping requests never let the preparer review, approve or sign, although
  guards look at an older row: `create` sets the preparer and no later write
  changes it (`preparedBy ?? user.id` keeps what is there), so the guard compares
  with the preparer the commit will meet.
- The unique index on (workpaper, version) together with the single transaction
  around snapshot and update makes version history lossless: of two edits that
  read the same version one rolls back.
- An agreed due date is never lost and each granted extension is counted, thanks
  to `originalDueDate ?? dueDate` and to the atomic increment.
- No interleaving of transitions skips a gate of the engagement; and what a gate
  found that cannot be undone (an approved programme, a workpaper) stays.
- A run that decided on a due date somebody moved meanwhile never records a level
  that was not earned, and never lowers one: it writes the larger of what it
  decided and what it read. The price is that it can bring back a level that an
  extension has just cleared; `EscalationNeverDrops` says only that levels do not
  fall.
- Overdue reminders come closer together than the interval only when one was
  sent and not recorded. A milestone knows no such exception, because its
  notification is the record. Errors and crashes delay reminders and the
  escalation; they do not prevent them.

- In sequence, the workpaper handlers implement `WorkpaperLifecycle`, notes
  included: no order of reviews, returns and unlocks lets a change into a signed
  paper or an approval over an open note.
- In the registers an overlap may leave a total that misses an entry, two published
  versions of a code, two workpapers of a step, or a cycle in the tree. What
  `MCRegisters` shows is that this does not spread: the next undisturbed edit of the
  sheet restores its total, because it sums the entries instead of adding to the
  old total; the next approval leaves one version published, because it retires
  *all* others; a reorder gives every step a place of its own; and no lone request adds
  to the damage - a move never closes a cycle, even when it climbs through one.
- A document recorded as uploaded is the content whose checksum was taken and
  which the scanner passed, unless two uploads of it overlap.
- However edits and assessments of a risk overlap, its score is that of its own
  inputs: both write all inputs together with the score. The price is that an edit
  writes inputs it does not name back as it read them.
- The age of a cached access decision is bounded by the time to live, in all
  processes, whatever loads and changes overlap: the entry's life is counted from
  before the query, not from when it is stored.
- As long as one tab refreshes a session and no reply is lost, the API never takes
  a refresh for a replay, since `tryRefresh` shares one refresh among the calls of
  the tab. Two tabs that refresh together, or a lost reply, do end the family: the
  user has to sign in again, which `NoFalseAlarm` leaves out on purpose. A session
  that a logout, a reset or a replay ended stays ended, except through a refresh
  that had passed its check before.

### Disagreements with what the repository says

1. **The reference after the padding** (`MCReferenceAllocationFull`). The
   comments say the next reference follows the highest. Sorted as strings, F-99
   stays ahead of F-100, so after F-100 every create proposes F-100 again and
   fails: a series of findings ends at 100, one of engagements at 1000.
2. **A locked workpaper whose content changes** (`MCWorkpapersSigned`).
   `docs/api/contract-phase1.md:134` says a PATCH is "Rejected with 409 when
   `isLocked`". The lock is tested on the row read before the transaction
   (`workpapers.service.ts:194`): an edit that read it unlocked commits after the
   sign-off, and what is signed is not what was read and signed.
3. **An owner who closes his own finding** (`MCFindingsValidator`).
   `docs/user-manual.md:561` says a "linked platform action owner cannot validate
   their own finding". The guard compares with the owner that was read
   (`findings.service.ts:127`); an edit that makes the validator the owner gets
   in before the commit.
4. **Reporting over an open note** (`MCEngagementsReporting`). `docs/user-manual.md:353`
   says every workpaper must be signed off and open review notes must be cleared.
   They are counted before the transaction that writes the stage
   (`engagements.service.ts:112`); a note raised in between is reported over.

2 to 4 are the hazard of section 1, each at a place where the documents are definite;
testing in the `where` of the update what the guard looked at would mend 2 and 3.

Without a run of their own:

- A settled finding is not final under overlap. `docs/user-manual.md:569` calls risk
  accepted "a terminal finding status". A return to draft that read the finding in
  management review commits after another user accepted the risk, and the finding is a
  draft again: `HistoryEndsWhenSettled` holds of lone requests only.
- A closed engagement may be active, without any race. `engagements.dto.ts:37` says
  that CLOSED and CANCELLED come from transitions. The edit accepts ACTIVE and ON_HOLD
  at whatever stage (`engagements.service.ts:335`), so that a closed engagement becomes
  active again; `ClosedIsFrozen` speaks of its stage, its children and its report, and
  leaves the status out.
- `docs/03-user-journeys.md:56` says "weekly after". The days since the last
  reminder are elapsed time rounded down (`reminder-schedule.ts:29`), and the job
  reads the clock a little earlier or later each morning: when it reads it earlier
  than a week ago, six days have passed and the item waits for the next
  morning. `RemindersKeepTheInterval` shows that it is never more than one day. (A
  milestone nearly always waits the extra day: its notification is written after
  the run read the clock. No document promises it weekly.)
- `docs/api/contract-phase1.md:113` names the gate of `close` `all_findings_closed`;
  the machine uses `all_findings_owned_and_submitted`, so an engagement closes over
  findings that are still open, as long as each has an owner and has left its
  draft.

## 6. What holds only without overlap

The two properties of `MCWorkpapersSerial` need one request at a time. Those of lone
requests hold with `alone'` as their premise, and each fails without it. They are
properties of the handlers, not of the system under load:

| Property | Holds | What breaks it under overlap |
|---|---|---|
| `RowAgreesWithStatus` | in sequence | a reopening that read the paper before its sign-off commits after it |
| `ImplementsLifecycle` | in sequence | that, an edit that read the paper unlocked (`MCWorkpapersSigned`), a note raised or answered after the count or the read |
| `HistoryEndsWhenSettled` | of lone requests | a transition or edit that read the finding before it was settled |
| `ExtensionsKeepTheirWord` | of lone requests | an extension that read an earlier due date shortens a later one; two agreements that read different due dates, with an edit between them |
| `LoneValidatorIsNoOwner` | of lone requests | an edit of the owner between the guard and the commit, or one that read the finding in validation and commits after its closing (`MCFindingsValidator`) |
| `ClosedIsFrozen` | of lone requests | a return to fieldwork, a creation or an edit that read the stage before the closing |
| `LeadStaysOnTeam` | of lone requests | a removal that read another lead |

The last five start from any state that overlaps have left: a finding that was settled
and is a draft again, an engagement that was closed over by a late transition. The
serial two start from in-sequence states only: after a late commit the lock and the
status of a workpaper disagree until the next sign-off or unlock.

The registers are the same: without `alone'` each of their properties fails (no
document promises more of requests that overlap there, so these are no findings),
except the first conjunct of `ScoresFollowInputs`, which has no premise, and
`NoHitOlderThanTTL`, an invariant of every interleaving. `NoFalseAlarm` has
`~disturbed` in this role, and `EndedSessionsStayEnded` names the one refresh that may
still get through.

## 7. Proofs

The theorems hold for every value of the constants that meets the module's
ASSUME: any number of users, requests, notes, findings, dates, tokens, rows.
Every invariant and action property that a passing run checks is stated by a
theorem, and so is the refinement of `WorkpaperLifecycle`. There are three kinds:

- properties of **every interleaving** (`Spec => ...` and no more);
- the two **serial** properties of workpapers, under `OneAtATime`, which says that
  there is at most one request (`\A r, s \in Requests : r = s`), as in the serial run;
- the properties of **lone requests** in findings, engagements and the registers, for
  any number of requests.

| Module | Theorem | Says |
|---|---|---|
| `ReferenceAllocationProofs` | `TypeCorrect`, `NoGapsHolds`, `FailureHolds` | the loop counter stays below the limit, no gap, failure needs contention |
| `WorkpapersProofs` | `TypeCorrect`, `SegregationHolds`, `SignOffHolds`, `VersionHistoryHolds` | the properties of `MCWorkpapersOverlap` |
| | `RowAgreementHolds`, `LifecycleImplemented` | those of `MCWorkpapersSerial`, one request at a time; the second is the refinement |
| `FindingsProofs` | `InductiveInvariant`, `TypeCorrect`, `DatesHold`, `SettledStampsHold` | the invariants of `MCFindings`, of every interleaving |
| | `LoneValidatorHolds`, `HistoryHolds`, `ExtensionsHold` | its properties of lone requests |
| `EngagementsProofs` | `InductiveInvariant`, `TypeCorrect`, `StagesHold`, `MarksHold` | the invariants of `MCEngagements`, of every interleaving |
| | `LeadOnTeamHolds`, `ClosedHolds` | its properties of lone requests |
| `RemindersProofs` | `InductiveInvariant`, `TypeCorrect`, `EscalationHolds`, `EscalationDropsHold`, `IntervalHolds` | types, earned escalation, only extensions lower it, neither too early nor too late |
| `SessionsProofs` | `TypesHold`, `NoFalseAlarmHolds`, `EndedHolds` | the safety properties of `MCSessions` |
| `RegistersProofs`, over `RegistersLemmas` | `TypesHold`, `NoOldHits`, `ScoresHold` | types, ages of cached decisions and scores of risks, whatever overlaps |
| | `TotalsRestored`, `OnePublishedHolds`, `StepsHold`, `PlanLinksHold`, `DocumentsHold`, `TreeHolds` | what a lone request keeps or restores; `TreeHolds` for a tree of at most `MaxHops + 1` entities |

None of the properties is inductive by itself, because a commit relies on what
its request read. The invariants are strengthened by what a request in progress
knows and nobody can take away:

- **References** (`Series`, `Attempts`). The stored references are the existing
  ones followed by one interval; a candidate lies in it or right after it; and
  each lost attempt is charged to an insert since the request began. The lemma
  `LatestReference` says what the string order returns: the largest reference,
  until `Limit` is stored, and `Limit - 1` from then on.
- **Workpapers** (`TransitionsInProgress`, `UpdatesInProgress`,
  `SignatureIsRecorded`). The preparer a request read is the preparer of the
  row, since no step changes it; the actor of a review or sign-off is somebody
  else; a sign-off follows an approval that is still in the trail; and the
  snapshot of an edit is a content the row really had under that number. If that
  number is free, it is still the current one; if it is taken, the commit rolls
  back.
- **Findings** (`TransitionIsSound`). A late commit may carry the finding back to
  any status, so nothing follows from the status alone. What never goes back is
  that an original due date exists and that the finding was once implemented;
  each transition in progress is tied to these two, and an agreement to the due
  date it read.
- **Engagements** (`MovesInProgress`). A request that read stage *s* had, when it
  read, every transition of `PathTo(s)` in `granted`; that set only grows, so the
  late commit is still earned. Likewise an approved programme stays approved and
  a workpaper is never deleted, so a count that was true stays true. Gates whose
  counts can turn false again have no theorem: `MCEngagementsReporting` shows why.

- **Reminders** (`RunIsSound`, `WorstIsTheWorst`). What a run holds was earned
  when it read the item, and `worst` never shrinks, so it is still earned when it
  is recorded; and the level it read is at least the present one, because in
  between only an extension writes it. The lemma `LadderIsEarned` ties the ladder
  to the days. Any schedule, ladder and number of failures will do. For the
  interval the invariant also ties `quiet`, which counts what really went out, to
  `since`, which the row says: they part only over a reminder sent and not
  recorded, or a failure.

- **One request at a time** (`RequestsAreCurrent` in `WorkpapersProofs`). What was
  read is still what is there, and what a guard counted is still the count: nobody
  else can write. Each commit is then a step of the lifecycle, and each read and count
  a stutter; the refinement needs `RowAgreesWithStatus` besides, since the lifecycle
  knows the status and not the lock.

- **Lone requests** (`LoneRequestIsCurrent` in `LInv`, in `FindingsProofs` and
  `EngagementsProofs`). While `alone` is true at most one request is in progress, and
  what it read is still there: either it has just begun, or every step since was its
  own. Its commit is then as good as one that reads and writes at once, from whatever
  state it began in.

- **Sessions** (`RowsAreHeld`, `CheckedHasToken`, `LateIsRefused`, `Undisturbed`). Only
  ids that a cookie, a reply or a refresh holds have rows, so that a new id
  belongs to no old family (assumption `FreshIds`, which the model's bound on ids
  needs and random ids give). A refresh whose token was already dead when it was
  sent is never past its check. Until something disturbs the session, one
  refresh is on its way at most, for the token in the cookie, and the state of
  the family follows the step it is at: that is `Undisturbed`, and the false alarm
  would have to come from outside it.

- **Registers** (`Held`, `Fresh`, for each register). `Held` is what overlapping
  requests cannot take from a request: a row that was there stays, a new row is
  a whole row. `Fresh` holds of requests while `alone` is true: what will be written
  is as if it were read now. With it the step of a lone request is proved to do
  what it promises from *any* state in the types. In three registers there is more
  to it. In `Risks` the score of the row is proved of every interleaving, because the
  request carries inputs and score together. In `Access` (`LoadsAreYoung`) what a load
  will store was superseded no longer ago than the load took its time, so that what
  it leaves of the time to live makes up for it; this would be false if the
  life of an entry began when it is stored. In `Universe` a lone move has walked up
  from its new parent (`Climbed`) without meeting the entity it moves, to a root or as
  far as it looks; a new cycle would have to pass the moved entity
  (`WalkedBefore`), so it can be entered there (`WalkFrom`), and its way back would be
  the walk that was climbed (`MoveClosesNone`). The recursion over ancestors in
  the property is first shown to be such walks (`UpDef`, `CycleIsWalk`).

  `Inv` joins the eight: the invariant of the subject, and of the other registers
  only the two that are said of them all along. No induction theorem of the library can be
  instantiated here, so statements about all numbers go by the least
  counterexample (`LeastNat`, `NatInduct`), which well-foundedness of `<` gives.

In each module one lemma says what the workflow table contains, one says which
record a request in a given step holds, one frames steps that touch only
requests or only children, and each action has a lemma that it keeps the
invariant. Assumptions: `SeriesAssumption`, `WorkpaperAssumption`,
`FindingAssumption`, `EngagementAssumption`, `ReminderAssumption`, `FreshIds`,
`RegistersAssumption`; TLC evaluates them on each run. The last says what null and
the words for a missing link are not (a checksum, an entity, a step), which numbers
are numbers, and that the entities are finitely many, as rows are.

Only model-checked: the three liveness properties (`EveryCreateEnds`,
`OverdueIsPursued`, `EveryCallEnds`), since fairness and ENABLED are beyond the
provers; that a tree with more than `MaxHops + 1` entities and no branch that long
gets no cycle either (`TreeHolds` bounds the entities, not the branches); and the four
violations, which are counterexamples and need one run.

## 8. Plan

Done: all components of the table in section 2, in the order of how much of an audit
depends on them. Left:

1. **Controls**: effectiveness against the latest test (`controls.service.ts`,
   `createTest`, `updateTest`, `applyTestOutcome`), as a register.
2. The rest of `auth/`: failed logins and lockout, MFA enrolment and recovery codes, as a
   register of one user row.
3. The S3 driver, whose upload does not pass the API; management requests.
4. Abstract specifications: a `FindingLifecycle` (raised, agreed, implemented,
   settled) that the lone requests of `Findings` implement; one atomic counter that
   `ReferenceAllocation` implements below `Limit`.
5. Proofs: the atomic counter of 4, and `TreeHolds` for a bound on the branches.

## 9. Running

    tlc -workers 2 -config MCWorkpapersOverlap.cfg MCWorkpapers.tla
    tlapm WorkpapersProofs.tla

`RegistersProofs` extends `RegistersLemmas`; each is checked by a call of its own.

The longest runs are `MCRegisters`, with a million states of wide rows, and
`MCEngagements`, with about seven and a half million states.
