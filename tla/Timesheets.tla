----------------------------- MODULE Timesheets -----------------------------
(***************************************************************************)
(* One week's timesheet and its entries.  An edit of an entry reads the    *)
(* timesheet first; its transaction then writes the entry, sums what it    *)
(* sees (READ COMMITTED: the committed entries and its own) and stores the *)
(* sum.  Its lock on the entry holds until the commit.                     *)
(***************************************************************************)
EXTENDS Handlers, Naturals, Functions

CONSTANTS
  Owner,       \* the user whose timesheet it is
  Approvers,   \* users that hold time:approve
  Entries,     \* ids of entries
  Hours,       \* hours of one entry
  NoOne        \* null

VARIABLES
  sheet,       \* the Timesheet row
  entries      \* hours of each TimeEntry, 0 where there is none

local == <<sheet, entries>>
vars == <<req, alone, sheet, entries>>

SumOf(hours) == FoldFunction(LAMBDA m, n : m + n, 0, hours)

Editable == {"OPEN", "REJECTED"}

Begin(r, state) ==
  /\ req[r] = Idle
  /\ Enter(r, state)
  /\ UNCHANGED local

Concerns(r, e) == req[r].pc \in {"write", "commit"} /\ req[r].entry = e

\* createEntry (new), updateEntry, deleteEntry (no hours), by the owner.
ReadForEdit(r) ==
  /\ sheet.status \in Editable
  /\ \E e \in Entries, h \in Hours \cup {0} :
       LET new == entries[e] = 0 IN
         /\ new => h # 0 /\ \A s \in Requests : ~Concerns(s, e)
         /\ Begin(r, [pc |-> "write", entry |-> e, hours |-> h, new |-> new,
                      total |-> 0])

\* Broken variant: the sum is taken before the entry is written.
SummedBefore(r) == SumOf(entries)

\* recalculateTotal, inside the transaction.
Summed(r) == SumOf([entries EXCEPT ![req[r].entry] = req[r].hours])

\* The entry is written, or has been deleted since: then the transaction ends.
WriteEntry(r) ==
  /\ At(r, "write")
  /\ \A s \in Others(r) : ~(At(s, "commit") /\ Concerns(s, req[r].entry))
  /\ IF ~req[r].new /\ entries[req[r].entry] = 0
       THEN Release(r)
       ELSE Enter(r, [req[r] EXCEPT !.pc = "commit", !.total = Summed(r)])
  /\ UNCHANGED local

CommitEntry(r) ==
  /\ At(r, "commit")
  /\ entries' = [entries EXCEPT ![req[r].entry] = req[r].hours]
  /\ sheet' = [sheet EXCEPT !.total = req[r].total]
  /\ Release(r)

\* submit, approve and reject test the row they read.
ReadForDecision(r) ==
  \E u \in Approvers \cup {Owner}, to \in {"SUBMITTED", "APPROVED", "REJECTED"} :
    /\ IF to = "SUBMITTED"
         THEN u = Owner /\ sheet.status \in Editable /\ sheet.total > 0
         ELSE u \in Approvers \ {Owner} /\ sheet.status = "SUBMITTED"
    /\ Begin(r, [pc |-> "decide", to |-> to, user |-> u])

WriteDecision(r) ==
  /\ At(r, "decide")
  /\ sheet' = [sheet EXCEPT !.status = req[r].to,
                 !.approvedBy = CASE req[r].to = "APPROVED" -> req[r].user
                                  [] req[r].to = "REJECTED" -> NoOne
                                  [] OTHER -> @]
  /\ Release(r)
  /\ UNCHANGED entries

\* current: the timesheet is opened empty.
Init ==
  /\ sheet = [status |-> "OPEN", total |-> 0, approvedBy |-> NoOne]
  /\ entries = [e \in Entries |-> 0]
  /\ NoRequests

Next == \E r \in Requests :
  \/ ReadForEdit(r)
  \/ WriteEntry(r)
  \/ CommitEntry(r)
  \/ ReadForDecision(r)
  \/ WriteDecision(r)

Spec == Init /\ [][Next]_vars

-----------------------------------------------------------------------------
\* What the entries of a week may add up to.
Totals == {0} \cup {SumOf(hours) : hours \in [Entries -> Hours \cup {0}]}

Pending ==
  {Idle}
  \cup [pc : {"write", "commit"}, entry : Entries, hours : Hours \cup {0},
        new : BOOLEAN, total : Totals]
  \cup [pc : {"decide"}, to : {"SUBMITTED"}, user : {Owner}]
  \cup [pc : {"decide"}, to : {"APPROVED", "REJECTED"}, user : Approvers \ {Owner}]

\* The row, the entries and the requests have the types of the schema.
TypeOK ==
  /\ sheet \in [status : {"OPEN", "SUBMITTED", "APPROVED", "REJECTED"},
                total : Totals, approvedBy : Approvers \cup {NoOne}]
  /\ entries \in [Entries -> Hours \cup {0}]
  /\ req \in [Requests -> Pending]

(* An edit that no other request disturbs leaves the total equal to the    *)
(* sum of the entries, also when overlapping edits had left it wrong, and  *)
(* never touches the hours of a timesheet that is submitted or approved    *)
(* (createEntry, updateEntry, deleteEntry and recalculateTotal).           *)
EditsRestoreTheTotal ==
  [][alone' /\ entries' # entries =>
       sheet'.total = SumOf(entries') /\ sheet.status \in Editable]_vars
=============================================================================
