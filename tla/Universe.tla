------------------------------ MODULE Universe ------------------------------
(***************************************************************************)
(* The tree of audit entities.  A move reads the ancestors of the new      *)
(* parent one after the other, so that other requests may rewrite the tree *)
(* while it climbs; a deletion hides the row and keeps it.  Processes and  *)
(* the other columns of an entity decide nothing.                          *)
(***************************************************************************)
EXTENDS Handlers, FiniteSets, Naturals

CONSTANTS
  Entities,     \* ids of entities
  MaxHops,      \* ancestors a move looks at
  NoOne         \* no parent

VARIABLE tree   \* AuditEntity rows: status and parent

vars == <<req, alone, tree>>

NoRow == [status |-> "none", parent |-> NoOne]
Live == {e \in Entities : tree[e].status = "live"}
Children(p) == {e \in Live : tree[e].parent = p}

Begin(r, state) ==
  /\ req[r] = Idle
  /\ Enter(r, state)
  /\ UNCHANGED tree

\* createEntity; the id is a new one.
ReadForCreate(r) ==
  \E e \in Entities, p \in Live \cup {NoOne} :
    /\ tree[e] = NoRow
    /\ \A s \in Requests : At(s, "insert") => req[s].id # e
    /\ Begin(r, [pc |-> "insert", id |-> e, to |-> p])

Insert(r) ==
  /\ At(r, "insert")
  /\ tree' = [tree EXCEPT ![req[r].id] = [status |-> "live", parent |-> req[r].to]]
  /\ Release(r)

\* updateEntity, to another parent or to none.
ReadForMove(r) ==
  \E e \in Live : \E p \in (Live \cup {NoOne}) \ {e} :
    Begin(r, [pc |-> IF p = NoOne THEN "move" ELSE "climb", id |-> e, to |-> p,
              at |-> p, hops |-> 0])

\* Broken variant: only the parent of the new parent is looked at.
TopAfterOne(parent, hops) == TRUE

Top(parent, hops) == parent = NoOne \/ hops = MaxHops

\* One turn of the loop of isDescendant.
Climb(r) ==
  /\ At(r, "climb")
  /\ LET parent == tree[req[r].at].parent
         hops == req[r].hops + 1
     IN IF parent = req[r].id THEN Release(r)
        ELSE IF Top(parent, hops) THEN Enter(r, [req[r] EXCEPT !.pc = "move", !.hops = 0])
        ELSE Enter(r, [req[r] EXCEPT !.at = parent, !.hops = hops])
  /\ UNCHANGED tree

Move(r) ==
  /\ At(r, "move")
  /\ tree' = [tree EXCEPT ![req[r].id].parent = req[r].to]
  /\ Release(r)

\* deleteEntity
ReadForDelete(r) ==
  \E e \in Live : Children(e) = {} /\ Begin(r, [pc |-> "delete", id |-> e])

Delete(r) ==
  /\ At(r, "delete")
  /\ tree' = [tree EXCEPT ![req[r].id].status = "deleted"]
  /\ Release(r)

Init ==
  /\ tree = [e \in Entities |-> NoRow]
  /\ NoRequests

Next == \E r \in Requests :
  \/ ReadForCreate(r)
  \/ Insert(r)
  \/ ReadForMove(r)
  \/ Climb(r)
  \/ Move(r)
  \/ ReadForDelete(r)
  \/ Delete(r)

Spec == Init /\ [][Next]_vars

-----------------------------------------------------------------------------
Parents == Entities \cup {NoOne}

Pending ==
  {Idle}
  \cup [pc : {"insert"}, id : Entities, to : Parents]
  \cup [pc : {"climb"}, id : Entities, to : Entities, at : Entities, hops : 0..MaxHops - 1]
  \cup [pc : {"move"}, id : Entities, to : Parents, at : Parents, hops : {0}]
  \cup [pc : {"delete"}, id : Entities]

\* The rows have the types of the schema, and a parent is a row.
TypeOK ==
  /\ tree \in [Entities -> [status : {"none", "live", "deleted"}, parent : Parents]]
  /\ \A e \in Entities : tree[e].parent # NoOne => tree[tree[e].parent] # NoRow
  /\ req \in [Requests -> Pending]

Ancestor(e) ==
  LET up[n \in 0..Cardinality(Entities)] ==
        IF n = 0 THEN e
        ELSE IF up[n - 1] = NoOne THEN NoOne ELSE tree[up[n - 1]].parent
  IN up

OnCycle == {e \in Entities : \E n \in 1..Cardinality(Entities) : Ancestor(e)[n] = e}

Astray == {e \in Live : tree[e].parent # NoOne /\ tree[e].parent \notin Live}

(* An undisturbed request closes no cycle in a tree that is no deeper than *)
(* a move looks up, whatever overlapping moves left before, and leaves no  *)
(* entity under a deleted parent that was not there before (updateEntity,  *)
(* isDescendant, deleteEntity, createEntity).                              *)
TreeStaysATree ==
  [][alone' => OnCycle' \subseteq OnCycle /\ Astray' \subseteq Astray]_vars
=============================================================================
