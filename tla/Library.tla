------------------------------ MODULE Library ------------------------------
(***************************************************************************)
(* The methodology library: the versions of the items of one tenant, and   *)
(* perhaps one global item, which is read-only and is edited by making a   *)
(* version of the tenant's own.  Of what an edit may change only the code  *)
(* is kept: it is written with the content, by the same statement.         *)
(***************************************************************************)
EXTENDS Handlers, FiniteSets, Naturals

CONSTANTS
  Codes,
  MaxItems       \* bound: rows of the library

VARIABLE library \* LibraryItem rows, in the order they were created

vars == <<req, alone, library>>

Ids == 1..MaxItems

NoItem == [status |-> "none"]

Item(own, code, version, status, parent) ==
  [own |-> own, code |-> code, version |-> version, status |-> status,
   parent |-> parent]

Rows == {i \in Ids : library[i] # NoItem}
Own(code) == {i \in Rows : library[i].own /\ library[i].code = code}
Published(code) == {i \in Own(code) : library[i].status = "PUBLISHED"}
InWork == {"DRAFT", "PENDING_APPROVAL"}

Latest(code) ==
  IF Own(code) = {} THEN 0
  ELSE CHOOSE v \in {library[i].version : i \in Own(code)} :
         \A i \in Own(code) : library[i].version <= v

Begin(r, state) ==
  /\ req[r] = Idle
  /\ Enter(r, state)
  /\ UNCHANGED library

\* @@unique([tenantId, code, version]) refuses the row otherwise.
IsFree(code, version, i) ==
  \A j \in Own(code) \ {i} : library[j].version # version

ReadForCreate(r) ==
  \E code \in Codes :
    /\ IsFree(code, 1, 0)
    /\ Begin(r, [pc |-> "insert", row |-> Item(TRUE, code, 1, "DRAFT", 0)])

\* update of a published or global item, while no newer draft of it exists.
ReadForVersion(r) ==
  \E i \in Rows :
    /\ library[i].status # "RETIRED"
    /\ library[i].status = "PUBLISHED" \/ ~library[i].own
    /\ \A j \in Rows : library[j].parent = i => library[j].status \notin InWork
    /\ Begin(r, [pc |-> "number", row |->
         Item(TRUE, library[i].code, library[i].version, "DRAFT", i)])

NextVersion(row) ==
  1 + (IF Latest(row.code) > row.version THEN Latest(row.code) ELSE row.version)

ReadLatest(r) ==
  /\ At(r, "number")
  /\ Enter(r, [req[r] EXCEPT !.pc = "insert",
                             !.row.version = NextVersion(req[r].row)])
  /\ UNCHANGED library

Insert(r) ==
  /\ At(r, "insert")
  /\ Rows # Ids
  /\ IF IsFree(req[r].row.code, req[r].row.version, 0)
       THEN library' = [library EXCEPT ![Cardinality(Rows) + 1] = req[r].row]
       ELSE UNCHANGED library
  /\ Release(r)

\* update in place of an item in work; its code may change.
ReadForEdit(r) ==
  \E i \in Rows, code \in Codes :
    /\ library[i].own /\ library[i].status \in InWork
    /\ Begin(r, [pc |-> "edit", id |-> i, code |-> code])

Edit(r) ==
  /\ At(r, "edit")
  /\ LET i == req[r].id IN
       IF IsFree(req[r].code, library[i].version, i)
         THEN library' = [library EXCEPT ![i].code = req[r].code]
         ELSE UNCHANGED library
  /\ Release(r)

\* submit, approve, and retire (of a global item by a GLOBAL_ADMIN too).
ReadForDecision(r) ==
  \E i \in Rows :
    \/ library[i].own /\ library[i].status = "DRAFT"
       /\ Begin(r, [pc |-> "status", id |-> i, to |-> "PENDING_APPROVAL"])
    \/ library[i].status # "RETIRED"
       /\ Begin(r, [pc |-> "status", id |-> i, to |-> "RETIRED"])
    \/ library[i].own /\ library[i].status = "PENDING_APPROVAL"
       /\ Begin(r, [pc |-> "retire", id |-> i, code |-> library[i].code])

WriteStatus(r) ==
  /\ At(r, "status")
  /\ library' = [library EXCEPT ![req[r].id].status = req[r].to]
  /\ Release(r)

\* Broken variant: every other version of the code is in work when it is read.
ToRetireInWork(r) == {i \in Own(req[r].code) \ {req[r].id} : library[i].status \in InWork}

\* The rows that updateMany of approve finds ...
ToRetire(r) == Published(req[r].code) \ {req[r].id}

FindPublished(r) ==
  /\ At(r, "retire")
  /\ Enter(r, [pc |-> "publish", id |-> req[r].id, rows |-> ToRetire(r)])
  /\ UNCHANGED library

\* ... are retired if they still match when their locks are had.
Publish(r) ==
  /\ At(r, "publish")
  /\ library' = [i \in Ids |->
       IF i = req[r].id THEN [library[i] EXCEPT !.status = "PUBLISHED"]
       ELSE IF i \in req[r].rows /\ library[i].status = "PUBLISHED"
         THEN [library[i] EXCEPT !.status = "RETIRED"]
         ELSE library[i]]
  /\ Release(r)

Init ==
  /\ \E first \in {NoItem} \cup {Item(FALSE, code, 1, "PUBLISHED", 0) :
                                   code \in Codes} :
       library = [i \in Ids |-> IF i = 1 THEN first ELSE NoItem]
  /\ NoRequests

Next == \E r \in Requests :
  \/ ReadForCreate(r)
  \/ ReadForVersion(r)
  \/ ReadLatest(r)
  \/ Insert(r)
  \/ ReadForEdit(r)
  \/ Edit(r)
  \/ ReadForDecision(r)
  \/ WriteStatus(r)
  \/ FindPublished(r)
  \/ Publish(r)

Spec == Init /\ [][Next]_vars

-----------------------------------------------------------------------------
Statuses == {"DRAFT", "PENDING_APPROVAL", "PUBLISHED", "RETIRED"}
Versions == [own : BOOLEAN, code : Codes, version : Nat, status : Statuses,
             parent : Ids \cup {0}]

Pending ==
  {Idle}
  \cup [pc : {"insert", "number"}, row : Versions]
  \cup [pc : {"edit", "retire"}, id : Ids, code : Codes]
  \cup [pc : {"status"}, id : Ids, to : Statuses]
  \cup [pc : {"publish"}, id : Ids, rows : SUBSET Ids]

\* The rows have the types of the schema, and every parent comes before.
TypeOK ==
  /\ library \in [Ids -> Versions \cup {NoItem}]
  /\ \A i \in Rows : library[i].parent < i
  /\ req \in [Requests -> Pending]

(* An undisturbed request never makes a second published version of a      *)
(* code: an approval leaves its item as the only one, whatever overlapping *)
(* approvals left before.  It changes no published content, revives no     *)
(* retired version, and gives a new version of an item the highest number  *)
(* of its code (update, approve, retire).                                  *)
OnePublishedVersion ==
  [][alone' => \A i \in Ids :
       /\ library'[i].status = "PUBLISHED" /\ library[i].status # "PUBLISHED" =>
            \A j \in Ids \ {i} : library'[j].status = "PUBLISHED" =>
               ~library'[j].own \/ library'[j].code # library'[i].code
       /\ library[i].status = "PUBLISHED" => library'[i].code = library[i].code
       /\ library[i].status = "RETIRED" => library'[i] = library[i]
       /\ library[i] = NoItem /\ library'[i] # NoItem =>
            \/ library'[i].parent = 0
            \/ library'[i].version > Latest(library'[i].code)]_vars
=============================================================================
