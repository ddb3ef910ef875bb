-------------------------- MODULE RegistersProofs --------------------------
(***************************************************************************)
(* Proofs about the registers, for every number of rows and requests: that *)
(* they keep their types, and what a request does that no other disturbs.  *)
(* Inv joins the invariants of all registers.                              *)
(***************************************************************************)
EXTENDS RegistersLemmas, WellFoundedInduction

-----------------------------------------------------------------------------
(* Access.  The age bound is not inductive by itself: what a load will     *)
(* store must not have been superseded for longer than the load has been   *)
(* on its way.                                                             *)

Entry == [left : 1..TTL, old : AC!Ages]

Loading ==
  [pc : {"query"}, process : Processes, elapsed : 0..TTL]
Storing ==
  [pc : {"store"}, process : Processes, elapsed : 0..TTL, old : AC!Ages]
Invalidating == [pc : {"invalidate"}, process : Processes]

Requested == {AC!Idle} \cup Loading \cup Storing \cup Invalidating

\* A load reads the user after it took the time.
LoadsAreYoung ==
  \A r \in Requests : AC!At(r, "store") => req[r].old <= req[r].elapsed

InvAC == AC!TypeOK /\ AC!NoHitOlderThanTTL /\ LoadsAreYoung


(* A request at a step holds the record of that step.                      *)
LEMMA RequestAC ==
  ASSUME AC!TypeOK, NEW r \in Requests
  PROVE  /\ req[r] \in Requested
         /\ AC!At(r, "query") => req[r] \in Loading
         /\ AC!At(r, "store") => req[r] \in Storing
         /\ AC!At(r, "invalidate") => req[r] \in Invalidating
  BY DEF AC!TypeOK, Requested, Loading, Storing, Invalidating, AC!At, AC!Idle

(* TypeOK and the age bound, said of one entry.                            *)
LEMMA EntryOf ==
  ASSUME AC!TypeOK, NEW p \in Processes
  PROVE  cache[p] = AC!NoEntry \/ cache[p] \in Entry
  BY DEF AC!TypeOK, Entry

(* Another request at its store has not moved.                             *)
LEMMA OthersStayYoung ==
  ASSUME AC!TypeOK, LoadsAreYoung,
         NEW r \in Requests, NEW state, req' = [req EXCEPT ![r] = state],
         state = AC!Idle \/ state.pc \in {"query", "invalidate"}
                      \/ (state.pc = "store" /\ state.old <= state.elapsed)
  PROVE  LoadsAreYoung'
  <1> SUFFICES ASSUME NEW s \in Requests, AC!At(s, "store")'
               PROVE  req'[s].old <= req'[s].elapsed
    BY DEF LoadsAreYoung
  <1>1. CASE s = r
    BY <1>1 DEF AC!At, AC!TypeOK, AC!Idle
  <1>2. CASE s # r
    BY <1>2 DEF AC!At, AC!TypeOK, LoadsAreYoung
  <1> QED BY <1>1, <1>2


(* Empty caches and no requests satisfy the invariant.                     *)
LEMMA InitAC == ASSUME TTL \in Nat PROVE AC!Init => InvAC
  BY DEF AC!Init, InvAC, AC!TypeOK, AC!NoHitOlderThanTTL, LoadsAreYoung, AC!NoRequests, AC!NoEntry, AC!At, AC!Idle

(* A load that begins stores nothing yet.                                  *)
LEMMA LoadKeeps ==
  ASSUME TTL \in Nat, InvAC, NEW r \in Requests, AC!Load(r)
  PROVE  InvAC'
  <1>1. PICK p \in Processes :
          /\ req' = [req EXCEPT ![r] = [pc |-> "query", process |-> p, elapsed |-> 0]]
          /\ cache' = cache
    BY DEF AC!Load, AC!Enter
  <1>2. AC!TypeOK'
    BY <1>1 DEF InvAC, AC!TypeOK
  <1>3. AC!NoHitOlderThanTTL'
    BY <1>1 DEF InvAC, AC!NoHitOlderThanTTL
  <1>4. LoadsAreYoung'
    BY <1>1, OthersStayYoung DEF InvAC
  <1> QED BY <1>2, <1>3, <1>4 DEF InvAC

(* What a query finds is current when it is found.                         *)
LEMMA QueryKeeps ==
  ASSUME TTL \in Nat, InvAC, NEW r \in Requests, AC!Query(r)
  PROVE  InvAC'
  <1> DEFINE state == [pc |-> "store", process |-> req[r].process,
                       elapsed |-> req[r].elapsed, old |-> AC!Current]
  <1>1. req' = [req EXCEPT ![r] = state] /\ cache' = cache
    BY DEF AC!Query, AC!Enter
  <1>2. req[r] \in Loading
    BY RequestAC DEF InvAC, AC!Query
  <1>3. state \in Storing /\ state.pc = "store" /\ state.old <= state.elapsed
    BY <1>2 DEF Loading, Storing, AC!Ages, AC!Current
  <1>4. AC!TypeOK'
    <2> HIDE DEF state
    <2> QED BY <1>1, <1>3 DEF InvAC, AC!TypeOK, Storing
  <1>5. AC!NoHitOlderThanTTL'
    BY <1>1 DEF InvAC, AC!NoHitOlderThanTTL
  <1>6. LoadsAreYoung'
    <2> HIDE DEF state
    <2> QED BY <1>1, <1>3, OthersStayYoung DEF InvAC
  <1> QED BY <1>4, <1>5, <1>6 DEF InvAC

(* The load has used up `elapsed` of the life of what it stores, and the   *)
(* value is no longer superseded than that.                                *)
LEMMA StoreKeeps ==
  ASSUME TTL \in Nat, InvAC, NEW r \in Requests, AC!Store(r)
  PROVE  InvAC'
  <1> DEFINE p == req[r].process
             entry == IF AC!Left(req[r].elapsed) <= 0 THEN AC!NoEntry
                      ELSE [left |-> AC!Left(req[r].elapsed), old |-> req[r].old]
  <1>1. req' = [req EXCEPT ![r] = AC!Idle] /\ cache' = [cache EXCEPT ![p] = entry]
    BY DEF AC!Store, AC!Release, AC!Enter
  <1>2. req[r] \in Storing /\ req[r].old <= req[r].elapsed
    BY RequestAC DEF InvAC, AC!Store, LoadsAreYoung
  <1>3. p \in Processes
    BY <1>2 DEF Storing
  <1>4. /\ entry = AC!NoEntry \/ entry \in Entry
        /\ entry.left > 0 /\ entry.old # AC!Current => entry.left + entry.old <= TTL
    BY <1>2 DEF Storing, Entry, AC!Left, AC!NoEntry, AC!Ages, AC!Current
  <1> HIDE DEF p, entry
  <1>5. AC!TypeOK'
    BY <1>1, <1>3, <1>4 DEF InvAC, AC!TypeOK, Entry
  <1>6. AC!NoHitOlderThanTTL'
    BY <1>1, <1>3, <1>4 DEF InvAC, AC!TypeOK, AC!NoHitOlderThanTTL
  <1>7. LoadsAreYoung'
    BY <1>1, OthersStayYoung DEF InvAC
  <1> QED BY <1>5, <1>6, <1>7 DEF InvAC

(* What was current is superseded from now on; no life gets longer.        *)
LEMMA ChangeKeeps ==
  ASSUME TTL \in Nat, InvAC, NEW r \in Requests, AC!Change(r)
  PROVE  InvAC'
  <1>1. PICK p \in Processes :
          /\ req' = [s \in Requests |->
               IF s = r THEN [pc |-> "invalidate", process |-> p]
               ELSE IF AC!At(s, "store") THEN AC!Superseded(req[s]) ELSE req[s]]
          /\ cache' = [q \in Processes |->
               IF cache[q] = AC!NoEntry THEN AC!NoEntry ELSE AC!Superseded(cache[q])]
    BY DEF AC!Change
  <1>2. ASSUME NEW q \in Processes
        PROVE  /\ cache'[q] = AC!NoEntry \/ cache'[q] \in Entry
               /\ cache'[q].left > 0 /\ cache'[q].old # AC!Current
                    => cache'[q].left + cache'[q].old <= TTL
    <2>1. CASE cache[q] = AC!NoEntry
      BY <1>1, <2>1 DEF AC!NoEntry
    <2>2. CASE cache[q] # AC!NoEntry
      <3>1. cache[q] \in Entry /\ cache'[q] = AC!Superseded(cache[q])
        BY <1>1, <2>2, EntryOf DEF InvAC
      <3> QED BY <3>1 DEF InvAC, AC!NoHitOlderThanTTL, Entry, AC!Superseded, AC!Ages, AC!Current
    <2> QED BY <2>1, <2>2
  <1>3. ASSUME NEW s \in Requests
        PROVE  /\ req'[s] \in Requested
               /\ req'[s].pc = "store" => req'[s].old <= req'[s].elapsed
    <2>1. CASE s = r
      BY <1>1, <2>1 DEF Requested, Invalidating
    <2>2. CASE s # r /\ AC!At(s, "store")
      <3>1. /\ req[s] \in Storing /\ req[s].old <= req[s].elapsed
            /\ req'[s] = AC!Superseded(req[s])
        BY <1>1, <2>2, RequestAC DEF InvAC, LoadsAreYoung
      <3> QED BY <3>1 DEF Requested, Storing, AC!Superseded, AC!Ages, AC!Current
    <2>3. CASE s # r /\ ~AC!At(s, "store")
      BY <1>1, <2>3, RequestAC DEF InvAC, AC!At
    <2> QED BY <2>1, <2>2, <2>3
  <1>4. AC!TypeOK'
    BY <1>1, <1>2, <1>3
       DEF AC!TypeOK, Entry, Requested, Loading, Storing, Invalidating
  <1>5. AC!NoHitOlderThanTTL'
    BY <1>2 DEF AC!NoHitOlderThanTTL
  <1>6. LoadsAreYoung'
    BY <1>3 DEF LoadsAreYoung, AC!At
  <1> QED BY <1>4, <1>5, <1>6 DEF InvAC

(* Dropping one entry, or the whole cache of a process, ages nothing.      *)
LEMMA InvalidateKeeps ==
  ASSUME TTL \in Nat, InvAC, NEW r \in Requests, AC!Invalidate(r)
  PROVE  InvAC'
  <1>1. /\ req' = [req EXCEPT ![r] = AC!Idle]
        /\ cache' = [cache EXCEPT ![req[r].process] = AC!NoEntry]
    BY DEF AC!Invalidate, AC!Release, AC!Enter
  <1>2. AC!TypeOK'
    BY <1>1 DEF InvAC, AC!TypeOK
  <1>3. AC!NoHitOlderThanTTL'
    BY <1>1 DEF InvAC, AC!TypeOK, AC!NoHitOlderThanTTL, AC!NoEntry
  <1>4. LoadsAreYoung'
    BY <1>1, OthersStayYoung DEF InvAC
  <1> QED BY <1>2, <1>3, <1>4 DEF InvAC

(* A restart drops the entry and the requests of its process.              *)
LEMMA RestartKeeps ==
  ASSUME TTL \in Nat, InvAC, NEW p \in Processes, AC!Restart(p)
  PROVE  InvAC'
  <1>1. /\ cache' = [cache EXCEPT ![p] = AC!NoEntry]
        /\ req' = [r \in Requests |->
             IF req[r] # AC!Idle /\ req[r].process = p THEN AC!Idle ELSE req[r]]
    BY DEF AC!Restart
  <1>2. AC!TypeOK'
    BY <1>1 DEF InvAC, AC!TypeOK
  <1>3. AC!NoHitOlderThanTTL'
    BY <1>1 DEF InvAC, AC!TypeOK, AC!NoHitOlderThanTTL, AC!NoEntry
  <1>4. LoadsAreYoung'
    BY <1>1 DEF InvAC, LoadsAreYoung, AC!At, AC!Idle
  <1> QED BY <1>2, <1>3, <1>4 DEF InvAC

(* The life left shrinks as the value grows old.                           *)
LEMMA TickKeeps ==
  ASSUME TTL \in Nat, InvAC, AC!Tick
  PROVE  InvAC'
  <1>1. ASSUME NEW p \in Processes
        PROVE  /\ cache'[p] = AC!NoEntry \/ cache'[p] \in Entry
               /\ cache'[p].left > 0 /\ cache'[p].old # AC!Current
                    => cache'[p].left + cache'[p].old <= TTL
    <2>1. CASE cache[p].left <= 1
      BY <2>1 DEF AC!Tick, AC!NoEntry
    <2>2. CASE ~(cache[p].left <= 1)
      <3>1. /\ cache[p] \in Entry
            /\ cache'[p] = [left |-> cache[p].left - 1, old |-> AC!Older(cache[p].old)]
        <4>1. cache[p] # AC!NoEntry
          BY <2>2 DEF AC!NoEntry
        <4>2. cache[p] \in Entry
          BY <4>1, EntryOf DEF InvAC
        <4> QED BY <2>2, <4>2 DEF AC!Tick, AC!Older
      <3>2. cache[p].old # AC!Current => cache[p].left + cache[p].old <= TTL
        BY <2>2, <3>1 DEF InvAC, AC!NoHitOlderThanTTL, Entry
      <3> QED BY <2>2, <3>1, <3>2 DEF Entry, AC!Older, AC!Ages, AC!Current
    <2> QED BY <2>1, <2>2
  <1>2. ASSUME NEW r \in Requests
        PROVE  /\ req'[r] \in Requested
               /\ req'[r].pc = "store" => req'[r].old <= req'[r].elapsed
    <2>1. CASE AC!At(r, "query")
      <3>1. req[r] \in Loading /\ req'[r] = [req[r] EXCEPT !.elapsed = AC!Older(@)]
        <4>1. req[r] \in Loading
          BY <2>1, RequestAC DEF InvAC
        <4>2. req'[r] = [req[r] EXCEPT !.elapsed = AC!Older(@)]
          BY <2>1 DEF AC!Tick, AC!Older, AC!At
        <4> QED BY <4>1, <4>2
      <3> QED BY <3>1 DEF Requested, Loading, AC!Older
    <2>2. CASE AC!At(r, "store")
      <3>1. /\ req[r] \in Storing /\ req[r].old <= req[r].elapsed
            /\ req'[r] = [req[r] EXCEPT !.elapsed = AC!Older(@), !.old = AC!Older(@)]
        <4>1. req[r] \in Storing /\ req[r].old <= req[r].elapsed
          BY <2>2, RequestAC DEF InvAC, LoadsAreYoung
        <4>2. req'[r] = [req[r] EXCEPT !.elapsed = AC!Older(@), !.old = AC!Older(@)]
          BY <2>2 DEF AC!Tick, AC!Older, AC!At
        <4> QED BY <4>1, <4>2
      <3>2. /\ req'[r] = [pc |-> "store", process |-> req[r].process,
                         elapsed |-> AC!Older(req[r].elapsed), old |-> AC!Older(req[r].old)]
            /\ req[r].elapsed \in 0..TTL /\ req[r].old \in AC!Ages /\ req[r].process \in Processes
        BY <3>1 DEF Storing
      <3>3. /\ AC!Older(req[r].elapsed) \in 0..TTL /\ AC!Older(req[r].old) \in AC!Ages
            /\ AC!Older(req[r].old) <= AC!Older(req[r].elapsed)
        BY <3>1, <3>2 DEF AC!Older, AC!Ages, AC!Current
      <3> QED BY <3>2, <3>3 DEF Requested, Storing
    <2>3. CASE ~AC!At(r, "query") /\ ~AC!At(r, "store")
      BY <2>3, RequestAC DEF InvAC, AC!Tick, AC!At
    <2> QED BY <2>1, <2>2, <2>3
  <1>3. AC!TypeOK'
    BY <1>1, <1>2
       DEF AC!Tick, AC!TypeOK, Entry, Requested, Loading, Storing, Invalidating
  <1>4. AC!NoHitOlderThanTTL'
    BY <1>1 DEF AC!NoHitOlderThanTTL
  <1>5. LoadsAreYoung'
    BY <1>2 DEF LoadsAreYoung, AC!At
  <1> QED BY <1>3, <1>4, <1>5 DEF InvAC

LEMMA NextAC ==
  ASSUME TTL \in Nat, InvAC, AC!Next
  PROVE  InvAC'
  <1>1. \/ \E r \in Requests : \/ AC!Load(r) \/ AC!Query(r) \/ AC!Store(r)
                               \/ AC!Change(r) \/ AC!Invalidate(r)
        \/ \E p \in Processes : AC!Restart(p)
        \/ AC!Tick
    BY DEF AC!Next
  <1> QED BY <1>1, LoadKeeps, QueryKeeps, StoreKeeps, ChangeKeeps, InvalidateKeeps,
             RestartKeeps, TickKeeps

-----------------------------------------------------------------------------
(* Numbers.  What holds of every number is shown of the least one it does  *)
(* not hold of.                                                            *)

LEMMA LeastNat ==
  ASSUME NEW S \in SUBSET Nat, S # {}
  PROVE  \E n \in S : \A m \in S : n <= m
<1>1. PICK n \in S : \A m \in S : ~(<<m, n>> \in OpToRel(<, Nat))
  BY WFMin, NatLessThanWellFounded
<1>2. ASSUME NEW m \in S
      PROVE  n <= m
  <2>1. ~(<<m, n>> \in OpToRel(<, Nat))
    BY <1>1
  <2>2. ~(m < n)
    BY <2>1 DEF OpToRel
  <2> QED
    BY <2>2
<1> QED
  BY <1>2

\* Induction over the numbers, for the statement that n is in S.
LEMMA NatInduct ==
  ASSUME NEW S, 0 \in S, \A n \in Nat : n \in S => n + 1 \in S
  PROVE  \A n \in Nat : n \in S
<1> SUFFICES ASSUME Nat \ S # {} PROVE FALSE
  OBVIOUS
<1>1. PICK n \in Nat \ S : \A m \in Nat \ S : n <= m
  BY LeastNat
<1>2. n # 0 /\ n - 1 \in Nat
  BY <1>1
<1>3. n - 1 \in S
  BY <1>1, <1>2
<1>4. (n - 1) + 1 \in S
  BY <1>2, <1>3
<1> QED
  BY <1>1, <1>4

-----------------------------------------------------------------------------
(* Universe *)

EntityRows == [status : {"none", "live", "deleted"}, parent : UN!Parents]

\* What is no row has no parent, and a parent is a row.
TreeOK ==
  /\ tree \in [Entities -> EntityRows]
  /\ \A e \in Entities : tree[e].status = "none" => tree[e].parent = NoOne
  /\ \A e \in Entities : tree[e].parent # NoOne => tree[tree[e].parent].status # "none"

\* A request names rows, and rows are not taken out of the table.
HeldUN(r) ==
  /\ req[r].pc \in {"climb", "move", "delete"} => tree[req[r].id].status # "none"
  /\ req[r].pc \in {"insert", "climb", "move"} =>
       req[r].to = NoOne \/ tree[req[r].to].status # "none"

InvUN ==
  /\ TreeOK
  /\ req \in [Requests -> UN!Pending]
  /\ \A r \in Requests : HeldUN(r)

LEMMA TypeUN == InvUN => UN!TypeOK
<1>1. UN!NoRow.status = "none"
  BY DEF UN!NoRow
<1> QED
  BY <1>1 DEF InvUN, TreeOK, UN!TypeOK, EntityRows

LEMMA RequestUN ==
  ASSUME InvUN, NEW r \in Requests
  PROVE  /\ req[r].pc \in {"idle", "insert", "climb", "move", "delete"}
         /\ req[r].pc = "insert" => req[r].id \in Entities /\ req[r].to \in UN!Parents
         /\ req[r].pc = "climb" =>
              req[r] \in [pc : {"climb"}, id : Entities, to : Entities, at : Entities,
                          hops : 0..MaxHops - 1]
         /\ req[r].pc = "move" => req[r].id \in Entities /\ req[r].to \in UN!Parents
         /\ req[r].pc = "delete" => req[r].id \in Entities
<1>1. req[r] \in UN!Pending
  BY DEF InvUN
<1> HIDE DEF UN!Parents
<1> QED
  BY <1>1 DEF UN!Pending, UN!Idle

LEMMA EnterUN ==
  ASSUME InvUN, NEW r \in Requests, NEW state \in UN!Pending, UN!Enter(r, state), TreeOK',
         \A e \in Entities : tree[e].status # "none" => tree'[e].status # "none",
         req'[r] = state => HeldUN(r)'
  PROVE  InvUN'
<1>1. /\ req' \in [Requests -> UN!Pending] /\ req'[r] = state
      /\ \A s \in Requests : s # r => req'[s] = req[s]
  BY DEF InvUN, UN!Enter
<1>2. ASSUME NEW s \in Requests
      PROVE  HeldUN(s)'
  <2>1. CASE s = r
    BY <1>1, <2>1
  <2>2. CASE s # r
    <3>1. req'[s].pc = req[s].pc /\ req'[s].id = req[s].id /\ req'[s].to = req[s].to
      BY <1>1, <2>2
    <3>2. HeldUN(s)
      BY DEF InvUN
    <3>3. /\ req[s].pc \in {"climb", "move", "delete"} => req[s].id \in Entities
          /\ req[s].pc \in {"insert", "climb", "move"} =>
               req[s].to = NoOne \/ req[s].to \in Entities
      BY RequestUN DEF UN!Parents
    <3> QED
      BY <3>1, <3>2, <3>3 DEF HeldUN
  <2> QED
    BY <2>1, <2>2
<1> QED
  BY <1>1, <1>2 DEF InvUN

LEMMA InitUN == UN!Init => InvUN
<1> SUFFICES ASSUME UN!Init
             PROVE  InvUN
  OBVIOUS
<1>1. \A r \in Requests : req[r].pc = "idle"
  BY DEF UN!Init, UN!NoRequests, UN!Idle
<1>2. req \in [Requests -> UN!Pending]
  BY DEF UN!Init, UN!NoRequests, UN!Pending
<1>3. TreeOK
  BY DEF UN!Init, TreeOK, EntityRows, UN!NoRow, UN!Parents
<1> QED
  BY <1>1, <1>2, <1>3 DEF InvUN, HeldUN

LEMMA NextUN ==
  ASSUME InvUN, UN!Next
  PROVE  InvUN'
<1>1. PICK r \in Requests :
        \/ UN!ReadForCreate(r) \/ UN!Insert(r) \/ UN!ReadForMove(r) \/ UN!Climb(r)
        \/ UN!Move(r) \/ UN!ReadForDelete(r) \/ UN!Delete(r)
  BY DEF UN!Next
<1>i. UN!Idle \in UN!Pending /\ UN!Idle.pc = "idle"
  BY DEF UN!Pending, UN!Idle
<1>t. TreeOK /\ HeldUN(r)
  BY DEF InvUN
<1>m. MaxHops \in Nat \ {0}
  BY RegistersAssumption
<1>l. \A e \in UN!Live : e \in Entities /\ tree[e].status # "none"
  BY DEF UN!Live
<1>0. UNCHANGED tree => TreeOK' /\ \A e \in Entities : tree[e].status # "none" => tree'[e].status # "none"
  BY <1>t DEF TreeOK
<1>e. req'[r] = UN!Idle => HeldUN(r)'
  BY <1>i DEF HeldUN
<1>2. CASE UN!ReadForCreate(r)
  <2>1. PICK e \in Entities, p \in UN!Live \cup {NoOne} :
          UN!Begin(r, [pc |-> "insert", id |-> e, to |-> p])
    BY <1>2 DEF UN!ReadForCreate
  <2>2. [pc |-> "insert", id |-> e, to |-> p] \in UN!Pending
    BY <1>l DEF UN!Pending, UN!Parents
  <2>3. UNCHANGED tree /\ UN!Enter(r, [pc |-> "insert", id |-> e, to |-> p])
    BY <2>1 DEF UN!Begin
  <2>4. req'[r] = [pc |-> "insert", id |-> e, to |-> p] => HeldUN(r)'
    BY <2>3, <1>l DEF HeldUN
  <2> QED
    BY <2>2, <2>3, <2>4, <1>0, EnterUN
<1>3. CASE UN!ReadForMove(r)
  <2>1. PICK e \in UN!Live : \E p \in (UN!Live \cup {NoOne}) \ {e} :
          UN!Begin(r, [pc |-> IF p = NoOne THEN "move" ELSE "climb", id |-> e, to |-> p,
                       at |-> p, hops |-> 0])
    BY <1>3 DEF UN!ReadForMove
  <2>2. PICK p \in (UN!Live \cup {NoOne}) \ {e} :
          UN!Begin(r, [pc |-> IF p = NoOne THEN "move" ELSE "climb", id |-> e, to |-> p,
                       at |-> p, hops |-> 0])
    BY <2>1
  <2>3. PICK pc \in {"move", "climb"} : pc = IF p = NoOne THEN "move" ELSE "climb"
    OBVIOUS
  <2>4. [pc |-> pc, id |-> e, to |-> p, at |-> p, hops |-> 0] \in UN!Pending
    BY <2>3, <1>l, <1>m DEF UN!Pending, UN!Parents
  <2>5. UNCHANGED tree /\ UN!Enter(r, [pc |-> pc, id |-> e, to |-> p, at |-> p, hops |-> 0])
    BY <2>2, <2>3 DEF UN!Begin
  <2>6. req'[r] = [pc |-> pc, id |-> e, to |-> p, at |-> p, hops |-> 0] => HeldUN(r)'
    BY <2>5, <1>l DEF HeldUN
  <2> QED
    BY <2>4, <2>5, <2>6, <1>0, EnterUN
<1>4. CASE UN!ReadForDelete(r)
  <2>1. PICK e \in UN!Live : UN!Begin(r, [pc |-> "delete", id |-> e])
    BY <1>4 DEF UN!ReadForDelete
  <2>2. [pc |-> "delete", id |-> e] \in UN!Pending
    BY <1>l DEF UN!Pending
  <2>3. UNCHANGED tree /\ UN!Enter(r, [pc |-> "delete", id |-> e])
    BY <2>1 DEF UN!Begin
  <2>4. req'[r] = [pc |-> "delete", id |-> e] => HeldUN(r)'
    BY <2>3, <1>l DEF HeldUN
  <2> QED
    BY <2>2, <2>3, <2>4, <1>0, EnterUN
<1>5. CASE UN!Climb(r)
  <2>1. req[r].pc = "climb" /\ UNCHANGED tree
    BY <1>5 DEF UN!Climb, UN!At
  <2>2. req[r] \in [pc : {"climb"}, id : Entities, to : Entities, at : Entities,
                    hops : 0..MaxHops - 1]
        /\ tree[req[r].id].status # "none"
        /\ (req[r].to = NoOne \/ tree[req[r].to].status # "none")
    BY <2>1, <1>t, RequestUN DEF HeldUN
  <2>3. PICK parent : parent = tree[req[r].at].parent
    OBVIOUS
  <2>4. parent \in Entities \cup {NoOne}
    BY <2>2, <2>3, <1>t DEF TreeOK, EntityRows, UN!Parents
  <2>5. \/ UN!Enter(r, UN!Idle)
        \/ UN!Enter(r, [req[r] EXCEPT !.pc = "move", !.hops = 0])
        \/ /\ ~UN!Top(parent, req[r].hops + 1)
           /\ UN!Enter(r, [req[r] EXCEPT !.at = parent, !.hops = req[r].hops + 1])
    BY <1>5, <2>3 DEF UN!Climb, UN!Release
  <2>6. CASE UN!Enter(r, UN!Idle)
    BY <2>1, <2>6, <1>0, <1>e, <1>i, EnterUN
  <2>7. CASE UN!Enter(r, [req[r] EXCEPT !.pc = "move", !.hops = 0])
    <3>1. PICK state : state = [req[r] EXCEPT !.pc = "move", !.hops = 0]
      OBVIOUS
    <3>2. state \in UN!Pending /\ state.pc = "move" /\ state.id = req[r].id /\ state.to = req[r].to
      BY <2>2, <3>1 DEF UN!Pending, UN!Parents
    <3>3. req'[r] = state => HeldUN(r)'
      BY <2>1, <2>2, <3>2 DEF HeldUN
    <3> QED
      BY <2>1, <2>7, <3>1, <3>2, <3>3, <1>0, EnterUN
  <2>8. CASE /\ ~UN!Top(parent, req[r].hops + 1)
             /\ UN!Enter(r, [req[r] EXCEPT !.at = parent, !.hops = req[r].hops + 1])
    <3>1. PICK state : state = [req[r] EXCEPT !.at = parent, !.hops = req[r].hops + 1]
      OBVIOUS
    <3>2. parent \in Entities /\ req[r].hops + 1 \in 0..MaxHops - 1
      BY <2>2, <2>4, <2>8, <1>m DEF UN!Top
    <3>3. state \in [pc : {"climb"}, id : Entities, to : Entities, at : Entities,
                     hops : 0..MaxHops - 1]
          /\ state.id = req[r].id /\ state.to = req[r].to
      BY <2>2, <3>1, <3>2
    <3>4. state \in UN!Pending
      BY <3>3 DEF UN!Pending
    <3>5. req'[r] = state => HeldUN(r)'
      BY <2>1, <2>2, <3>3 DEF HeldUN
    <3> QED
      BY <2>1, <2>8, <3>1, <3>4, <3>5, <1>0, EnterUN
  <2> QED
    BY <2>5, <2>6, <2>7, <2>8
<1>6. CASE UN!Insert(r)
  <2>1. /\ req[r].pc = "insert" /\ UN!Enter(r, UN!Idle)
        /\ tree' = [tree EXCEPT ![req[r].id] = [status |-> "live", parent |-> req[r].to]]
    BY <1>6 DEF UN!Insert, UN!At, UN!Release
  <2>2. req[r].id \in Entities /\ req[r].to \in UN!Parents
        /\ (req[r].to = NoOne \/ tree[req[r].to].status # "none")
    BY <2>1, <1>t, RequestUN DEF HeldUN
  <2>3. /\ tree'[req[r].id] = [status |-> "live", parent |-> req[r].to]
        /\ \A e \in Entities : e # req[r].id => tree'[e] = tree[e]
        /\ tree' \in [Entities -> EntityRows]
    BY <2>1, <2>2, <1>t DEF TreeOK, EntityRows
  <2>4. \A e \in Entities : tree[e].status # "none" => tree'[e].status # "none"
    BY <2>3
  <2>5. \A e \in Entities : tree'[e].parent # NoOne =>
          tree'[e].parent \in Entities /\ tree[tree'[e].parent].status # "none"
    BY <2>2, <2>3, <1>t DEF TreeOK, EntityRows, UN!Parents
  <2>6. \A e \in Entities : tree'[e].status = "none" => tree'[e].parent = NoOne
    BY <2>3, <1>t DEF TreeOK
  <2>7. TreeOK'
    BY <2>3, <2>4, <2>5, <2>6 DEF TreeOK, EntityRows, UN!Parents
  <2> QED
    BY <2>1, <2>4, <2>7, <1>e, <1>i, EnterUN
<1>7. CASE UN!Move(r)
  <2>1. /\ req[r].pc = "move" /\ UN!Enter(r, UN!Idle)
        /\ tree' = [tree EXCEPT ![req[r].id].parent = req[r].to]
    BY <1>7 DEF UN!Move, UN!At, UN!Release
  <2>2. /\ req[r].id \in Entities /\ req[r].to \in UN!Parents /\ tree[req[r].id].status # "none"
        /\ (req[r].to = NoOne \/ tree[req[r].to].status # "none")
    BY <2>1, <1>t, RequestUN DEF HeldUN
  <2>3. PICK row : row = [tree[req[r].id] EXCEPT !.parent = req[r].to]
    OBVIOUS
  <2>4. row \in EntityRows /\ row.status = tree[req[r].id].status /\ row.parent = req[r].to
    BY <2>2, <2>3, <1>t DEF TreeOK, EntityRows
  <2>5. /\ tree'[req[r].id] = row /\ \A e \in Entities : e # req[r].id => tree'[e] = tree[e]
        /\ tree' \in [Entities -> EntityRows]
    BY <2>1, <2>2, <2>3, <2>4, <1>t DEF TreeOK
  <2>6. \A e \in Entities : tree[e].status # "none" => tree'[e].status # "none"
    BY <2>4, <2>5
  <2>7. \A e \in Entities : tree'[e].parent # NoOne =>
          tree'[e].parent \in Entities /\ tree[tree'[e].parent].status # "none"
    BY <2>2, <2>4, <2>5, <1>t DEF TreeOK, EntityRows, UN!Parents
  <2>8. \A e \in Entities : tree'[e].status = "none" => tree'[e].parent = NoOne
    BY <2>2, <2>4, <2>5, <1>t DEF TreeOK
  <2>9. TreeOK'
    BY <2>5, <2>6, <2>7, <2>8 DEF TreeOK, EntityRows, UN!Parents
  <2> QED
    BY <2>1, <2>6, <2>9, <1>e, <1>i, EnterUN
<1>8. CASE UN!Delete(r)
  <2>1. /\ req[r].pc = "delete" /\ UN!Enter(r, UN!Idle)
        /\ tree' = [tree EXCEPT ![req[r].id].status = "deleted"]
    BY <1>8 DEF UN!Delete, UN!At, UN!Release
  <2>2. req[r].id \in Entities
    BY <2>1, RequestUN
  <2>3. PICK row : row = [tree[req[r].id] EXCEPT !.status = "deleted"]
    OBVIOUS
  <2>4. row \in EntityRows /\ row.status = "deleted" /\ row.parent = tree[req[r].id].parent
    BY <2>2, <2>3, <1>t DEF TreeOK, EntityRows
  <2>5. /\ tree'[req[r].id] = row /\ \A e \in Entities : e # req[r].id => tree'[e] = tree[e]
        /\ tree' \in [Entities -> EntityRows]
    BY <2>1, <2>2, <2>3, <2>4, <1>t DEF TreeOK
  <2>6. \A e \in Entities : tree[e].status # "none" => tree'[e].status # "none"
    BY <2>4, <2>5
  <2>7. \A e \in Entities : tree'[e].parent # NoOne =>
          tree'[e].parent \in Entities /\ tree[tree'[e].parent].status # "none"
    BY <2>4, <2>5, <1>t DEF TreeOK, EntityRows, UN!Parents
  <2>8. \A e \in Entities : tree'[e].status = "none" => tree'[e].parent = NoOne
    BY <2>4, <2>5, <1>t DEF TreeOK
  <2>9. TreeOK'
    BY <2>5, <2>6, <2>7, <2>8 DEF TreeOK, EntityRows, UN!Parents
  <2> QED
    BY <2>1, <2>6, <2>9, <1>e, <1>i, EnterUN
<1> QED
  BY <1>1, <1>2, <1>3, <1>4, <1>5, <1>6, <1>7, <1>8

\* The ancestors of an entity in the tree t, as UN!Ancestor has them in tree.
Rise(t, p) == IF p = NoOne THEN NoOne ELSE t[p].parent

Up(t, e) ==
  LET up[n \in 0..Cardinality(Entities)] == IF n = 0 THEN e ELSE Rise(t, up[n - 1])
  IN up

Size == Cardinality(Entities)

LEMMA SizeIsNat == Size \in Nat
BY RegistersAssumption, FS_CardinalityType DEF Size

\* The recursion defines what it says.
LEMMA UpDef ==
  ASSUME NEW t, NEW e
  PROVE  /\ Up(t, e)[0] = e
         /\ \A n \in 1..Size : Up(t, e)[n] = Rise(t, Up(t, e)[n - 1])
<1> DEFINE Goes(f, n) ==
      f = [i \in 0..n |-> IF i = 0 THEN e ELSE Rise(t, f[i - 1])]
<1> DEFINE S == {n \in Nat : \E f : Goes(f, n)}
<1>1. 0 \in S
  <2>1. Goes([i \in 0..0 |-> e], 0)
    OBVIOUS
  <2> QED
    BY <2>1
<1>2. ASSUME NEW n \in Nat, n \in S
      PROVE  n + 1 \in S
  <2>1. PICK f : Goes(f, n)
    BY <1>2
  <2> DEFINE g == [i \in 0..n + 1 |-> IF i <= n THEN f[i] ELSE Rise(t, f[n])]
  <2>2. /\ f[0] = e
        /\ \A i \in 1..n : f[i] = Rise(t, f[i - 1])
    <3>1. ASSUME NEW i \in 0..n
          PROVE  f[i] = IF i = 0 THEN e ELSE Rise(t, f[i - 1])
      BY <2>1, Zenon
    <3> QED
      BY <3>1
  <2>3. \A i \in 0..n + 1 : g[i] = IF i = 0 THEN e ELSE Rise(t, g[i - 1])
    BY <2>2
  <2>4. Goes(g, n + 1)
    <3> DEFINE k == [i \in 0..n + 1 |-> IF i = 0 THEN e ELSE Rise(t, g[i - 1])]
    <3>1. \A i \in 0..n + 1 : g[i] = k[i]
      BY <2>3, Zenon
    <3>2. g = [i \in 0..n + 1 |-> g[i]] /\ k = [i \in 0..n + 1 |-> k[i]]
      OBVIOUS
    <3>3. g = k
      <4> HIDE DEF g, k
      <4> QED
        BY <3>1, <3>2
    <3>4. k = [i \in 0..n + 1 |-> IF i = 0 THEN e ELSE Rise(t, g[i - 1])]
      <4> HIDE DEF g
      <4> QED
        OBVIOUS
    <3> HIDE DEF g, k
    <3> QED
      BY <3>3, <3>4
  <2>5. \E h : Goes(h, n + 1)
    <3> HIDE DEF g
    <3> QED
      BY <2>4, Zenon
  <2> QED
    BY <2>5
<1>3. Size \in S
  <2> HIDE DEF S
  <2> QED
    BY <1>1, <1>2, NatInduct, SizeIsNat
<1>4. PICK f : Goes(f, Size)
  BY <1>3
<1>5. Goes(Up(t, e), Size)
  BY <1>4, Zenon DEF Up, Size
<1> QED
  BY <1>5, SizeIsNat

LEMMA UpTyped ==
  ASSUME NEW t \in [Entities -> EntityRows], NEW e \in Entities, NEW n \in 0..Size
  PROVE  Up(t, e)[n] \in UN!Parents
<1> DEFINE up == Up(t, e)
<1>0. Size \in Nat
  BY SizeIsNat
<1>1. /\ up[0] = e
      /\ \A i \in 1..Size : up[i] = Rise(t, up[i - 1])
  BY UpDef
<1> HIDE DEF up
<1> DEFINE S == {m \in Nat : m <= Size => up[m] \in UN!Parents}
<1>2. 0 \in S
  BY <1>1 DEF UN!Parents
<1>3. ASSUME NEW m \in Nat, m \in S, m + 1 <= Size
      PROVE  up[m + 1] \in UN!Parents
  <2>1. up[m + 1] = Rise(t, up[m]) /\ up[m] \in UN!Parents
    BY <1>0, <1>1, <1>3
  <2> QED
    BY <2>1 DEF Rise, EntityRows, UN!Parents
<1>4. \A m \in Nat : m \in S => m + 1 \in S
  BY <1>3
<1>5. \A m \in Nat : m \in S
  <2> HIDE DEF S
  <2> QED
    BY <1>2, <1>4, NatInduct
<1> QED
  BY <1>0, <1>5 DEF up

\* The entities on a cycle of the tree t, and a walk of n steps up t.
Cycles(t) == {e \in Entities : \E n \in 1..Size : Up(t, e)[n] = e}

Walk(t, f, n) ==
  /\ f \in [0..n -> Entities]
  /\ \A i \in 1..n : f[i] = t[f[i - 1]].parent

LEMMA CyclesDef == UN!OnCycle = Cycles(tree) /\ UN!OnCycle' = Cycles(tree')
<1>1. UN!Cardinality(Entities) = Size
  BY DEF Size, UN!Cardinality, Cardinality
<1>2. \A e : UN!Ancestor(e) = Up(tree, e) /\ UN!Ancestor(e)' = Up(tree', e)
  BY <1>1, Zenon DEF UN!Ancestor, Up, Rise, Size
<1> QED
  BY <1>1, <1>2, Zenon DEF UN!OnCycle, Cycles

\* Who is on a cycle walks back to itself, and the other way round.
LEMMA CycleIsWalk ==
  ASSUME NEW t \in [Entities -> EntityRows], NEW e \in Entities
  PROVE  e \in Cycles(t) <=>
           \E n \in 1..Size : \E f : Walk(t, f, n) /\ f[0] = e /\ f[n] = e
<1> DEFINE up == Up(t, e)
<1>0. Size \in Nat /\ NoOne \notin Entities
  BY SizeIsNat, RegistersAssumption
<1>1. /\ up[0] = e
      /\ \A n \in 1..Size : up[n] = Rise(t, up[n - 1])
  BY UpDef
<1>t. \A n \in 0..Size : up[n] \in UN!Parents
  BY UpTyped
<1> HIDE DEF up
<1>2. ASSUME NEW n \in 1..Size, up[n] = e
      PROVE  \E f : Walk(t, f, n) /\ f[0] = e /\ f[n] = e
  \* Whoever leaves the tree never comes back.
  <2> DEFINE S == {m \in Nat : m <= n => up[n - m] \in Entities}
  <2>1. 0 \in S
    BY <1>2
  <2>2. ASSUME NEW m \in Nat, m \in S
        PROVE  m + 1 \in S
    <3> SUFFICES ASSUME m + 1 <= n
                 PROVE  up[n - (m + 1)] \in Entities
      OBVIOUS
    <3> DEFINE i == n - m
    <3>1. i \in 1..Size /\ i - 1 = n - (m + 1) /\ up[i] \in Entities
      BY <1>0, <2>2
    <3>2. up[i] = Rise(t, up[i - 1])
      BY <1>1, <3>1
    <3>3. up[i - 1] # NoOne
      BY <1>0, <3>1, <3>2 DEF Rise
    <3>4. up[i - 1] \in UN!Parents
      <4>1. i - 1 \in 0..Size
        BY <1>0, <3>1
      <4> QED
        BY <1>t, <4>1
    <3> QED
      BY <3>1, <3>3, <3>4 DEF UN!Parents
  <2>3. \A m \in Nat : m \in S
    <3> HIDE DEF S
    <3> QED
      BY <2>1, <2>2, NatInduct
  <2>4. ASSUME NEW i \in 0..n
        PROVE  up[i] \in Entities
    <3>1. n - i \in S /\ n - (n - i) = i /\ n - i <= n
      BY <2>3
    <3> QED
      BY <3>1
  <2> DEFINE f == [i \in 0..n |-> up[i]]
  <2>5. f \in [0..n -> Entities] /\ f[0] = e /\ f[n] = e
    BY <1>1, <1>2, <2>4
  <2>6. ASSUME NEW i \in 1..n
        PROVE  f[i] = t[f[i - 1]].parent
    <3>1. i - 1 \in 0..n /\ i \in 0..n /\ i \in 1..Size
      BY <1>0
    <3>2. up[i] = Rise(t, up[i - 1]) /\ up[i - 1] \in Entities
      BY <1>1, <2>4, <3>1
    <3>3. f[i] = up[i] /\ f[i - 1] = up[i - 1]
      BY <3>1
    <3>4. up[i - 1] # NoOne
      BY <1>0, <3>2
    <3> HIDE DEF f
    <3> QED
      BY <3>2, <3>3, <3>4 DEF Rise
  <2> HIDE DEF f
  <2> QED
    BY <2>5, <2>6, Zenon DEF Walk
<1>3. ASSUME NEW n \in 1..Size, NEW f, Walk(t, f, n), f[0] = e, f[n] = e
      PROVE  up[n] = e
  <2> DEFINE S == {m \in Nat : m <= n => up[m] = f[m]}
  <2>1. 0 \in S
    BY <1>1, <1>3
  <2>2. ASSUME NEW m \in Nat, m \in S, m + 1 <= n
        PROVE  up[m + 1] = f[m + 1]
    <3>1. m + 1 \in 1..Size /\ (m + 1) - 1 = m /\ m + 1 \in 1..n /\ m \in 0..n
      BY <1>0, <2>2
    <3>2. up[m + 1] = Rise(t, up[m]) /\ up[m] = f[m]
      BY <1>1, <2>2, <3>1
    <3>3. f[m + 1] = t[f[m]].parent /\ f[m] \in Entities
      BY <1>3, <3>1 DEF Walk
    <3> QED
      BY <1>0, <3>2, <3>3 DEF Rise
  <2>3. \A m \in Nat : m \in S => m + 1 \in S
    BY <2>2
  <2>4. n \in S
    <3> HIDE DEF S
    <3> QED
      BY <2>1, <2>3, NatInduct
  <2> QED
    BY <1>3, <2>4
<1> QED
  BY <1>2, <1>3 DEF Cycles, up

\* A change of the tree that no walk around a cycle passes closes none.
LEMMA WalkedBefore ==
  ASSUME NEW t \in [Entities -> EntityRows], NEW t2 \in [Entities -> EntityRows],
         NEW id, \A e \in Entities \ {id} : t2[e].parent = t[e].parent,
         NEW e \in Cycles(t2),
         \A n \in 1..Size : \A f :
            Walk(t2, f, n) /\ f[0] = e /\ f[n] = e => \A i \in 0..n - 1 : f[i] # id
  PROVE  e \in Cycles(t)
<1>0. Size \in Nat /\ e \in Entities
  BY SizeIsNat DEF Cycles
<1>1. PICK n \in 1..Size : \E f : Walk(t2, f, n) /\ f[0] = e /\ f[n] = e
  BY <1>0, CycleIsWalk
<1>2. PICK f : Walk(t2, f, n) /\ f[0] = e /\ f[n] = e
  BY <1>1
<1>3. ASSUME NEW i \in 1..n
      PROVE  f[i] = t[f[i - 1]].parent
  <2>1. i - 1 \in 0..n - 1 /\ i - 1 \in 0..n
    BY <1>0
  <2>2. f[i - 1] \in Entities \ {id} /\ f[i] = t2[f[i - 1]].parent
    BY <1>2, <2>1 DEF Walk
  <2> QED
    BY <2>2
<1>4. Walk(t, f, n)
  BY <1>2, <1>3, Zenon DEF Walk
<1> QED
  BY <1>0, <1>2, <1>4, CycleIsWalk

\* Who becomes the child of `to` has been looked for above it, as far as there
\* may be an ancestor.
Climbed(t, id, to, h, f) ==
  /\ f[0] = to
  /\ \A i \in 1..h : f[i - 1] \in Entities /\ f[i] = t[f[i - 1]].parent /\ f[i] # id

Looked(t, id, to, h, f) == Climbed(t, id, to, h, f) /\ UN!Top(f[h], h)

Clear(t, id, to) ==
  to = NoOne \/
    /\ to # id
    /\ \E h \in 0..MaxHops : \E f \in [0..h -> UN!Parents] : Looked(t, id, to, h, f)

\* A walk around a cycle may begin at any entity of it.
LEMMA WalkFrom ==
  ASSUME NEW t \in [Entities -> EntityRows], NEW n \in Nat, NEW f, Walk(t, f, n),
         f[0] = f[n], NEW j \in 0..n - 1
  PROVE  \E g : Walk(t, g, n) /\ g[0] = f[j] /\ g[n] = f[j]
<1> DEFINE g == [m \in 0..n |-> IF j + m <= n THEN f[j + m] ELSE f[j + m - n]]
<1>1. g \in [0..n -> Entities] /\ g[0] = f[j] /\ g[n] = f[j]
  <2>1. \A m \in 0..n : (j + m <= n => j + m \in 0..n) /\ (j + m > n => j + m - n \in 0..n)
    OBVIOUS
  <2>2. j + 0 = j /\ j + n - n = j /\ (j + n <= n => j = 0 /\ j + n = n)
    OBVIOUS
  <2> QED
    BY <2>1, <2>2 DEF Walk
<1>2. ASSUME NEW m \in 1..n
      PROVE  g[m] = t[g[m - 1]].parent
  <2>1. CASE j + m <= n
    <3>1. g[m] = f[j + m] /\ g[m - 1] = f[(j + m) - 1] /\ j + m \in 1..n
      BY <2>1
    <3> HIDE DEF g
    <3> QED
      BY <3>1 DEF Walk
  <2>2. CASE j + m = n + 1
    <3>1. g[m] = f[1] /\ g[m - 1] = f[n] /\ 1 \in 1..n
      BY <2>2
    <3>2. f[1] = t[f[1 - 1]].parent
      BY <3>1 DEF Walk
    <3> HIDE DEF g
    <3> QED
      BY <3>1, <3>2
  <2>3. CASE j + m > n + 1
    <3>1. g[m] = f[j + m - n] /\ g[m - 1] = f[(j + m - n) - 1] /\ j + m - n \in 1..n
      BY <2>3
    <3> HIDE DEF g
    <3> QED
      BY <3>1 DEF Walk
  <2> QED
    BY <2>1, <2>2, <2>3
<1> HIDE DEF g
<1> QED
  BY <1>1, <1>2, Zenon DEF Walk

\* A move under a parent that is clear closes no cycle.
LEMMA MoveClosesNone ==
  ASSUME Size <= MaxHops + 1,
         NEW t \in [Entities -> EntityRows], NEW t2 \in [Entities -> EntityRows],
         NEW id \in Entities, NEW to \in UN!Parents, Clear(t, id, to),
         \A e \in Entities \ {id} : t2[e].parent = t[e].parent, t2[id].parent = to
  PROVE  Cycles(t2) \subseteq Cycles(t)
<1>0. Size \in Nat /\ MaxHops \in Nat /\ NoOne \notin Entities
  BY SizeIsNat, RegistersAssumption
<1>1. ASSUME NEW n \in 1..Size, NEW g, Walk(t2, g, n), g[0] = id, g[n] = id
      PROVE  FALSE
  <2> DEFINE S == {k \in 1..n : g[k] = id}
  <2>1. PICK k \in S : \A m \in S : k <= m
    <3>1. S \in SUBSET Nat /\ n \in S
      BY <1>0, <1>1
    <3> HIDE DEF S
    <3> QED
      BY <3>1, LeastNat
  <2>2. k \in 1..n /\ g[k] = id /\ \A m \in 1..k - 1 : g[m] # id
    BY <2>1
  <2> HIDE DEF S
  <2>3. g[1] = to
    <3>1. 1 \in 1..n /\ 1 - 1 = 0
      BY <1>0
    <3> QED
      BY <1>1, <3>1 DEF Walk
  <2>4. \A m \in 0..n : g[m] \in Entities
    BY <1>1 DEF Walk
  <2>5. to # NoOne /\ to # id
    BY <1>0, <2>3, <2>4 DEF Clear
  <2>p. PICK h \in 0..MaxHops : \E f \in [0..h -> UN!Parents] : Looked(t, id, to, h, f)
    BY <2>5, Zenon DEF Clear
  <2>f. PICK f \in [0..h -> UN!Parents] : Looked(t, id, to, h, f)
    BY <2>p
  <2>6. /\ f[0] = to
        /\ \A i \in 1..h : f[i - 1] \in Entities /\ f[i] = t[f[i - 1]].parent /\ f[i] # id
        /\ f[h] = NoOne \/ h = MaxHops
    BY <2>f DEF Looked, Climbed, UN!Top
  \* Both walks climb the old tree until the second one is back.
  <2> DEFINE T == {m \in Nat : m <= h /\ m < k => f[m] = g[m + 1]}
  <2>7. 0 \in T
    BY <2>3, <2>6
  <2>8. ASSUME NEW m \in Nat, m \in T, m + 1 <= h, m + 1 < k
        PROVE  f[m + 1] = g[(m + 1) + 1]
    <3>1. f[m] = g[m + 1] /\ m + 1 \in 1..h /\ (m + 1) - 1 = m
          /\ m + 1 \in 1..k - 1 /\ m + 1 \in 0..n
          /\ (m + 1) + 1 \in 1..n /\ ((m + 1) + 1) - 1 = m + 1
      BY <1>0, <2>2, <2>8
    <3>2. f[m + 1] = t[f[m]].parent
      BY <2>6, <3>1
    <3>3. g[(m + 1) + 1] = t2[g[m + 1]].parent
      BY <1>1, <3>1 DEF Walk
    <3>4. g[m + 1] \in Entities \ {id}
      BY <2>2, <2>4, <3>1
    <3> QED
      BY <3>1, <3>2, <3>3, <3>4
  <2>9. \A m \in Nat : m \in T
    <3>1. \A m \in Nat : m \in T => m + 1 \in T
      BY <2>8
    <3> HIDE DEF T
    <3> QED
      BY <2>7, <3>1, NatInduct
  <2>10. k # 1
    BY <2>2, <2>3, <2>5
  <2>11. CASE h >= k - 1
    <3>1. k - 1 \in T /\ (k - 1) + 1 = k /\ k - 1 \in 1..h
      BY <1>0, <2>2, <2>9, <2>10, <2>11
    <3>2. f[k - 1] = g[k]
      BY <3>1
    <3> QED
      BY <2>2, <2>6, <3>1, <3>2
  <2>12. CASE h < k - 1
    <3>1. h \in T /\ h # MaxHops /\ h + 1 \in 0..n
      BY <1>0, <2>2, <2>9, <2>12
    <3>2. f[h] = g[h + 1]
      BY <1>0, <2>2, <2>12, <3>1
    <3>3. g[h + 1] \in Entities
      BY <2>4, <3>1
    <3> HIDE DEF T
    <3> QED
      BY <1>0, <2>6, <3>1, <3>2, <3>3
  <2> QED
    BY <1>0, <2>2, <2>11, <2>12
<1>2. ASSUME NEW e \in Cycles(t2), NEW n \in 1..Size, NEW f, Walk(t2, f, n),
             f[0] = e, f[n] = e, NEW j \in 0..n - 1
      PROVE  f[j] # id
  <2>1. n \in Nat /\ f[0] = f[n]
    BY <1>0, <1>2
  <2>2. PICK g : Walk(t2, g, n) /\ g[0] = f[j] /\ g[n] = f[j]
    BY <1>2, <2>1, WalkFrom
  <2> QED
    BY <1>1, <1>2, <2>2
<1>3. ASSUME NEW e \in Cycles(t2)
      PROVE  e \in Cycles(t)
  <2>1. \A n \in 1..Size : \A f :
          Walk(t2, f, n) /\ f[0] = e /\ f[n] = e => \A i \in 0..n - 1 : f[i] # id
    BY <1>2
  <2> QED
    BY <2>1, WalkedBefore
<1> QED
  BY <1>3

\* A change of no parent closes no cycle, nor does an entity without children.
LEMMA LeafClosesNone ==
  ASSUME NEW t \in [Entities -> EntityRows], NEW t2 \in [Entities -> EntityRows],
         NEW id, \A e \in Entities \ {id} : t2[e].parent = t[e].parent,
         \A e \in Entities : t2[e].parent # id \/ id = NoOne
  PROVE  Cycles(t2) \subseteq Cycles(t)
<1>0. Size \in Nat /\ NoOne \notin Entities
  BY SizeIsNat, RegistersAssumption
<1>1. ASSUME NEW n \in 1..Size, NEW f, Walk(t2, f, n), f[0] = f[n], NEW i \in 0..n - 1
      PROVE  f[i] # id
  <2>1. \A j \in 1..n : f[j] # id
    <3> SUFFICES ASSUME NEW j \in 1..n
                 PROVE  f[j] # id
      OBVIOUS
    <3>1. j - 1 \in 0..n /\ j \in 0..n
      BY <1>0
    <3>2. f[j] = t2[f[j - 1]].parent /\ f[j - 1] \in Entities /\ f[j] \in Entities
      BY <1>1, <3>1 DEF Walk
    <3> QED
      BY <1>0, <3>2
  <2>2. n \in 1..n
    BY <1>0
  <2>3. i = 0 \/ i \in 1..n
    BY <1>0
  <2> QED
    BY <1>1, <2>1, <2>2, <2>3
<1>2. ASSUME NEW e \in Cycles(t2)
      PROVE  e \in Cycles(t)
  <2>1. \A n \in 1..Size : \A f :
          Walk(t2, f, n) /\ f[0] = e /\ f[n] = e => \A i \in 0..n - 1 : f[i] # id
    BY <1>1
  <2> QED
    BY <2>1, WalkedBefore
<1> QED
  BY <1>2

\* What a lone request has read of the tree is still so: the ancestors it has
\* climbed past are those of the new parent, and none of them is moved.
FreshUN(r) ==
  /\ req[r].pc = "insert" => tree[req[r].id].status = "none"
  /\ req[r].pc \in {"insert", "climb", "move"} => req[r].to \in UN!Live \cup {NoOne}
  /\ req[r].pc = "climb" => req[r].to # req[r].id /\
       \A t, id, to, h : t = tree /\ id = req[r].id /\ to = req[r].to /\ h = req[r].hops =>
         \E f \in [0..h -> UN!Parents] : Climbed(t, id, to, h, f) /\ f[h] = req[r].at
  /\ req[r].pc = "move" =>
       \A t, id, to : t = tree /\ id = req[r].id /\ to = req[r].to => Clear(t, id, to)
  /\ req[r].pc = "delete" => UN!Children(req[r].id) = {}

LoneUN == alone => \A r \in Requests : FreshUN(r)

LEMMA ClimbUN ==
  ASSUME InvUN, NEW r \in Requests, FreshUN(r), UN!Climb(r)
  PROVE  FreshUN(r)'
<1>1. /\ req[r].pc = "climb" /\ tree' = tree
      /\ req[r] \in [pc : {"climb"}, id : Entities, to : Entities, at : Entities,
                     hops : 0..MaxHops - 1]
      /\ req \in [Requests -> UN!Pending] /\ tree \in [Entities -> EntityRows]
  BY RequestUN DEF UN!Climb, UN!At, InvUN, TreeOK
<1> DEFINE id == req[r].id
           to == req[r].to
           at == req[r].at
           h == req[r].hops
           parent == tree[at].parent
<1>m. MaxHops \in Nat /\ h \in 0..MaxHops - 1 /\ h + 1 \in 0..MaxHops /\ h + 1 \in Nat
      /\ id \in Entities /\ to \in Entities /\ at \in Entities
  BY <1>1, RegistersAssumption
<1>2. to \in UN!Live \cup {NoOne} /\ to # id
  BY <1>1 DEF FreshUN
<1>3. PICK f \in [0..h -> UN!Parents] : Climbed(tree, id, to, h, f) /\ f[h] = at
  BY <1>1 DEF FreshUN
<1>4. parent \in UN!Parents
  BY <1>1, <1>m DEF EntityRows
<1> DEFINE g == [i \in 0..h + 1 |-> IF i <= h THEN f[i] ELSE parent]
<1>5. ASSUME parent # id
      PROVE  /\ g \in [0..h + 1 -> UN!Parents] /\ g[h + 1] = parent
             /\ Climbed(tree, id, to, h + 1, g)
  <2>1. g \in [0..h + 1 -> UN!Parents] /\ g[h + 1] = parent /\ g[0] = f[0]
    BY <1>m, <1>4
  <2>2. ASSUME NEW i \in 1..h + 1
        PROVE  g[i - 1] \in Entities /\ g[i] = tree[g[i - 1]].parent /\ g[i] # id
    <3>1. CASE i <= h
      <4>1. i \in 1..h /\ g[i] = f[i] /\ g[i - 1] = f[i - 1]
        BY <1>m, <3>1
      <4> HIDE DEF g, id
      <4> QED
        BY <1>3, <4>1 DEF Climbed
    <3>2. CASE i = h + 1
      <4>1. g[i] = parent /\ g[i - 1] = f[h]
        BY <1>m, <3>2
      <4> HIDE DEF g
      <4> QED
        BY <1>3, <1>5, <1>m, <4>1
    <3> QED
      BY <1>m, <3>1, <3>2
  <2>3. f[0] = to
    BY <1>3 DEF Climbed
  <2> HIDE DEF g, id, to, h, parent
  <2> QED
    BY <2>1, <2>2, <2>3 DEF Climbed
<1>6. CASE parent = id
  <2>1. req'[r].pc = "idle"
    BY <1>1, <1>6 DEF UN!Climb, UN!Release, UN!Enter, UN!Idle
  <2> QED
    BY <2>1 DEF FreshUN
<1>7. CASE parent # id /\ UN!Top(parent, h + 1)
  <2>1. req'[r] = [req[r] EXCEPT !.pc = "move", !.hops = 0]
    BY <1>1, <1>7 DEF UN!Climb, UN!Enter
  <2>2. req'[r].pc = "move" /\ req'[r].id = id /\ req'[r].to = to
    BY <1>1, <2>1
  <2>3. Clear(tree, id, to)
    <3>1. Looked(tree, id, to, h + 1, g)
      BY <1>5, <1>7 DEF Looked
    <3> HIDE DEF g, id, to, h, parent
    <3> QED
      BY <1>m, <1>2, <1>5, <1>7, <3>1, Zenon DEF Clear
  <2>4. UN!Live' = UN!Live
    BY <1>1 DEF UN!Live
  <2> HIDE DEF id, to
  <2> QED
    BY <1>1, <1>2, <2>2, <2>3, <2>4 DEF FreshUN
<1>8. CASE parent # id /\ ~UN!Top(parent, h + 1)
  <2>1. req'[r] = [req[r] EXCEPT !.at = parent, !.hops = h + 1]
    BY <1>1, <1>8 DEF UN!Climb, UN!Enter
  <2>2. req'[r].pc = "climb" /\ req'[r].id = id /\ req'[r].to = to
        /\ req'[r].at = parent /\ req'[r].hops = h + 1
    BY <1>1, <2>1
  <2>4. UN!Live' = UN!Live
    BY <1>1 DEF UN!Live
  <2>5. \E f1 \in [0..h + 1 -> UN!Parents] :
           Climbed(tree, id, to, h + 1, f1) /\ f1[h + 1] = parent
    <3> HIDE DEF g, id, to, h, parent
    <3> QED
      BY <1>5, <1>8
  <2> HIDE DEF id, to, h, parent
  <2> QED
    BY <1>1, <1>2, <2>2, <2>4, <2>5 DEF FreshUN
<1> QED
  BY <1>6, <1>7, <1>8

LEMMA LoneInitUN == UN!Init => LoneUN
BY DEF UN!Init, UN!NoRequests, LoneUN

LEMMA LoneNextUN ==
  ASSUME InvUN, LoneUN, UN!Next
  PROVE  LoneUN'
<1> SUFFICES ASSUME alone', NEW s \in Requests
             PROVE  FreshUN(s)'
  BY DEF LoneUN
<1>1. PICK r \in Requests :
        \/ UN!ReadForCreate(r) \/ UN!Insert(r) \/ UN!ReadForMove(r) \/ UN!Climb(r)
        \/ UN!Move(r) \/ UN!ReadForDelete(r) \/ UN!Delete(r)
  BY DEF UN!Next
<1>2. req \in [Requests -> UN!Pending] /\ tree \in [Entities -> EntityRows]
  BY DEF InvUN, TreeOK
<1>3. PICK state : UN!Enter(r, state)
  BY <1>1, Zenon DEF UN!ReadForCreate, UN!Insert, UN!ReadForMove, UN!Climb, UN!Move,
                     UN!ReadForDelete, UN!Delete, UN!Begin, UN!Release
<1>4. CASE s # r
  <2>1. req[s] = UN!Idle
    BY <1>3, <1>4, Zenon DEF UN!Enter, UN!Others
  <2>2. req'[s] = req[s]
    BY <1>2, <1>3, <1>4 DEF UN!Enter
  <2>3. req'[s].pc = "idle"
    BY <2>1, <2>2 DEF UN!Idle
  <2> QED
    BY <2>3 DEF FreshUN
<1>5. CASE UN!Insert(r) \/ UN!Move(r) \/ UN!Delete(r)
  <2>1. req'[r].pc = "idle"
    BY <1>2, <1>5 DEF UN!Insert, UN!Move, UN!Delete, UN!Release, UN!Enter, UN!Idle
  <2> QED
    BY <1>4, <2>1 DEF FreshUN
<1>6. CASE UN!ReadForCreate(r)
  <2>1. PICK e \in Entities, p \in UN!Live \cup {NoOne} :
          tree[e] = UN!NoRow /\ UN!Begin(r, [pc |-> "insert", id |-> e, to |-> p])
    BY <1>6 DEF UN!ReadForCreate
  <2>2. /\ req'[r] = [pc |-> "insert", id |-> e, to |-> p] /\ tree' = tree
        /\ UN!Live' = UN!Live
    BY <1>2, <2>1 DEF UN!Begin, UN!Enter, UN!Live
  <2>3. FreshUN(r)'
    BY <2>1, <2>2 DEF FreshUN, UN!NoRow
  <2> QED
    BY <1>4, <2>3
<1>7. CASE UN!ReadForMove(r)
  <2>1. PICK e \in UN!Live : \E p \in (UN!Live \cup {NoOne}) \ {e} :
          UN!Begin(r, [pc |-> IF p = NoOne THEN "move" ELSE "climb", id |-> e, to |-> p,
                       at |-> p, hops |-> 0])
    BY <1>7 DEF UN!ReadForMove
  <2>2. PICK p \in (UN!Live \cup {NoOne}) \ {e} :
          UN!Begin(r, [pc |-> IF p = NoOne THEN "move" ELSE "climb", id |-> e, to |-> p,
                       at |-> p, hops |-> 0])
    BY <2>1
  <2>3. /\ req'[r].pc = (IF p = NoOne THEN "move" ELSE "climb")
        /\ req'[r].id = e /\ req'[r].to = p /\ req'[r].at = p /\ req'[r].hops = 0
        /\ tree' = tree /\ UN!Live' = UN!Live
    BY <1>2, <2>2 DEF UN!Begin, UN!Enter, UN!Live
  <2>4. CASE p = NoOne
    <3>1. Clear(tree, e, p)
      BY <2>4 DEF Clear
    <3>2. FreshUN(r)'
      BY <2>2, <2>3, <2>4, <3>1 DEF FreshUN
    <3> QED
      BY <1>4, <3>2
  <2>5. CASE p # NoOne
    <3> DEFINE f == [i \in 0..0 |-> p]
    <3>1. f \in [0..0 -> UN!Parents] /\ f[0] = p /\ Climbed(tree, e, p, 0, f)
      BY <2>2 DEF Climbed, UN!Parents, UN!Live
    <3>2. \E g \in [0..0 -> UN!Parents] : Climbed(tree, e, p, 0, g) /\ g[0] = p
      BY <3>1
    <3>3. FreshUN(r)'
      BY <2>2, <2>3, <2>5, <3>2 DEF FreshUN
    <3> QED
      BY <1>4, <3>3
  <2> QED
    BY <2>4, <2>5
<1>8. CASE UN!Climb(r)
  <2>1. FreshUN(r)
    <3>1. req[r].pc = "climb" /\ UN!Idle.pc = "idle"
      BY <1>8 DEF UN!Climb, UN!At, UN!Idle
    <3>2. alone \/ req[r] = UN!Idle
      BY <1>3, Zenon DEF UN!Enter
    <3>3. alone
      BY <3>1, <3>2
    <3> QED
      BY <3>3 DEF LoneUN
  <2>2. FreshUN(r)'
    BY <1>8, <2>1, ClimbUN
  <2> QED
    BY <1>4, <2>2
<1>9. CASE UN!ReadForDelete(r)
  <2>1. PICK e \in UN!Live : UN!Children(e) = {} /\ UN!Begin(r, [pc |-> "delete", id |-> e])
    BY <1>9 DEF UN!ReadForDelete
  <2>2. req'[r].pc = "delete" /\ req'[r].id = e /\ tree' = tree
    BY <1>2, <2>1 DEF UN!Begin, UN!Enter
  <2>3. {c \in UN!Live : tree[c].parent = e} = {}
    BY <2>1 DEF UN!Children
  <2>4. FreshUN(r)'
    BY <2>2, <2>3 DEF FreshUN, UN!Children, UN!Live
  <2> QED
    BY <1>4, <2>4
<1> QED
  BY <1>1, <1>5, <1>6, <1>7, <1>8, <1>9

LEMMA StepUN ==
  ASSUME Size <= MaxHops + 1, InvUN, LoneUN, UN!Next, alone'
  PROVE  Cycles(tree') \subseteq Cycles(tree) /\ UN!Astray' \subseteq UN!Astray
<1>1. PICK r \in Requests :
        \/ UN!ReadForCreate(r) \/ UN!Insert(r) \/ UN!ReadForMove(r) \/ UN!Climb(r)
        \/ UN!Move(r) \/ UN!ReadForDelete(r) \/ UN!Delete(r)
  BY DEF UN!Next
<1>2. /\ req \in [Requests -> UN!Pending] /\ tree \in [Entities -> EntityRows]
      /\ \A e \in Entities : tree[e].status = "none" => tree[e].parent = NoOne
      /\ \A e \in Entities : tree[e].parent # NoOne => tree[tree[e].parent].status # "none"
      /\ tree' \in [Entities -> EntityRows] /\ NoOne \notin Entities
  BY NextUN, RegistersAssumption DEF InvUN, TreeOK
<1>3. CASE UN!ReadForCreate(r) \/ UN!ReadForMove(r) \/ UN!Climb(r) \/ UN!ReadForDelete(r)
  <2>1. tree' = tree
    BY <1>3 DEF UN!ReadForCreate, UN!ReadForMove, UN!Climb, UN!ReadForDelete, UN!Begin
  <2> QED
    BY <2>1 DEF UN!Astray, UN!Live
<1> DEFINE id == req[r].id
           to == req[r].to
<1>4. ASSUME ~UN!At(r, "idle"), alone'
      PROVE  FreshUN(r)
  BY <1>1, <1>2, <1>4 DEF UN!ReadForCreate, UN!Insert, UN!ReadForMove, UN!Climb, UN!Move,
       UN!ReadForDelete, UN!Delete, UN!Begin, UN!Release, UN!Enter, UN!Idle, UN!At, LoneUN
<1>5. CASE UN!Insert(r)
  <2>1. /\ req[r].pc = "insert" /\ id \in Entities /\ to \in UN!Parents
        /\ tree' = [tree EXCEPT ![id] = [status |-> "live", parent |-> to]]
    BY <1>5, RequestUN DEF UN!Insert, UN!At
  <2>2. tree[id].status = "none" /\ to \in UN!Live \cup {NoOne}
    BY <1>4, <2>1 DEF FreshUN, UN!At
  <2> HIDE DEF id, to
  <2>3. \A e \in Entities \ {id} : tree'[e] = tree[e]
    BY <1>2, <2>1
  <2>4. tree'[id] = [status |-> "live", parent |-> to]
    BY <1>2, <2>1
  <2>5. \A e \in Entities : tree'[e].parent # id
    BY <1>2, <2>1, <2>2, <2>3, <2>4 DEF UN!Live
  <2>6. Cycles(tree') \subseteq Cycles(tree)
    BY <1>2, <2>3, <2>5, LeafClosesNone
  <2>7. UN!Astray' \subseteq UN!Astray
    BY <1>2, <2>1, <2>2, <2>3, <2>4 DEF UN!Astray, UN!Live
  <2> QED
    BY <2>6, <2>7
<1>6. CASE UN!Move(r)
  <2>1. /\ req[r].pc = "move" /\ id \in Entities /\ to \in UN!Parents
        /\ tree' = [tree EXCEPT ![id].parent = to]
    BY <1>6, RequestUN DEF UN!Move, UN!At
  <2>2. Clear(tree, id, to) /\ to \in UN!Live \cup {NoOne}
    BY <1>4, <2>1 DEF FreshUN, UN!At
  <2> HIDE DEF id, to
  <2>3. \A e \in Entities \ {id} : tree'[e] = tree[e]
    BY <1>2, <2>1
  <2>4. tree'[id].parent = to /\ tree'[id].status = tree[id].status
    BY <1>2, <2>1 DEF EntityRows
  <2>5. Cycles(tree') \subseteq Cycles(tree)
    BY <1>2, <2>1, <2>2, <2>3, <2>4, MoveClosesNone
  <2>6. UN!Live' = UN!Live
    BY <2>1, <2>3, <2>4 DEF UN!Live
  <2>7. UN!Astray' \subseteq UN!Astray
    BY <1>2, <2>1, <2>2, <2>3, <2>4, <2>6 DEF UN!Astray
  <2> QED
    BY <2>5, <2>7
<1>7. CASE UN!Delete(r)
  <2>1. /\ req[r].pc = "delete" /\ id \in Entities
        /\ tree' = [tree EXCEPT ![id].status = "deleted"]
    BY <1>7, RequestUN DEF UN!Delete, UN!At
  <2>2. \A e \in UN!Live : tree[e].parent # id
    BY <1>4, <2>1 DEF FreshUN, UN!At, UN!Children
  <2> HIDE DEF id
  <2>3. \A e \in Entities \ {id} : tree'[e] = tree[e]
    BY <1>2, <2>1
  <2>4. tree'[id].parent = tree[id].parent /\ tree'[id].status = "deleted"
    BY <1>2, <2>1 DEF EntityRows
  <2>5. Cycles(tree') \subseteq Cycles(tree)
    <3>1. \A e \in Entities \ {NoOne} : tree'[e].parent = tree[e].parent
      BY <2>3, <2>4
    <3> QED
      BY <1>2, <3>1, LeafClosesNone
  <2>6. UN!Live' = UN!Live \ {id}
    BY <2>1, <2>3, <2>4 DEF UN!Live
  <2>7. UN!Astray' \subseteq UN!Astray
    BY <1>2, <2>1, <2>2, <2>3, <2>4, <2>6 DEF UN!Astray, UN!Live
  <2> QED
    BY <2>5, <2>7
<1> QED
  BY <1>1, <1>3, <1>5, <1>6, <1>7

-----------------------------------------------------------------------------
(* Programmes *)

\* A request that adds a step has a whole row; one that changes it, a field.
HeldPR(r) ==
  req[r].pc = "write" =>
    /\ IF req[r].new THEN req[r].row \in PR!StepRows ELSE req[r].row \in PR!Patches
    /\ req[r].last => req[r].new

FreshPR(r) ==
  /\ req[r].pc = "approve" => PR!Rows # {}
  /\ req[r].pc = "write" =>
       (req[r].last => \A t \in PR!Rows : steps[t].position < req[r].row.position)
  /\ req[r].pc \in {"delete", "taken", "paper"} => PR!PapersOf(req[r].id) = {}
  /\ req[r].pc = "reorder" =>
       /\ DOMAIN req[r].order = PR!Rows
       /\ \A s, t \in PR!Rows : req[r].order[s] = req[r].order[t] => s = t

InvPR ==
  /\ PR!TypeOK
  /\ \A r \in Requests : HeldPR(r)
  /\ alone => \A r \in Requests : FreshPR(r)

LEMMA RequestPR ==
  ASSUME PR!TypeOK, NEW r \in Requests
  PROVE  /\ req[r].pc \in {"idle", "count", "approve", "progress", "write", "delete", "start",
                           "reorder", "taken", "paper", "linked"}
         /\ req[r].pc = "write" =>
              /\ req[r].id \in Steps /\ req[r].new \in BOOLEAN /\ req[r].last \in BOOLEAN
              /\ req[r].begun \in BOOLEAN
         /\ req[r].pc \in {"delete", "start", "taken", "paper", "linked"} => req[r].id \in Steps
         /\ req[r].pc = "reorder" =>
              req[r].order \in UNION {[S -> 0..MaxPosition] : S \in SUBSET Steps}
         /\ req[r].pc = "taken" => req[r].reference \in References
         /\ req[r].pc \in {"paper", "linked"} => req[r].key \in PR!PaperKeys
<1>1. req[r] \in PR!Pending
  BY DEF PR!TypeOK
<1>2. PICK Orders : Orders = UNION {[S -> 0..MaxPosition] : S \in SUBSET Steps}
  OBVIOUS
<1>3. PICK Written : Written = PR!StepRows \cup PR!Patches
  OBVIOUS
<1>4. req[r] \in {PR!Idle}
        \cup [pc : {"count", "approve", "progress"}]
        \cup [pc : {"write"}, id : Steps, new : BOOLEAN, last : BOOLEAN, begun : BOOLEAN,
              row : Written]
        \cup [pc : {"delete", "start"}, id : Steps]
        \cup [pc : {"reorder"}, order : Orders]
        \cup [pc : {"taken"}, id : Steps, reference : References]
        \cup [pc : {"paper", "linked"}, id : Steps, key : PR!PaperKeys]
  BY <1>1, <1>2, <1>3 DEF PR!Pending
<1> HIDE DEF PR!PaperKeys
<1> QED
  BY <1>2, <1>4 DEF PR!Idle

\* What is no row has no place.
LEMMA PlacesPR ==
  ASSUME PR!TypeOK
  PROVE  /\ \A s \in Steps : s \in PR!Rows <=> steps[s] \in PR!StepRows
         /\ \A s \in PR!Rows : s \in Steps /\ steps[s].position \in 0..MaxPosition
         /\ PR!NoStep \notin PR!StepRows
<1>1. PR!NoStep.position = -1
  BY DEF PR!NoStep
<1>2. \A row \in PR!StepRows : row.position \in 0..MaxPosition
  BY DEF PR!StepRows
<1>3. PR!NoStep \notin PR!StepRows
  BY <1>1, <1>2, RegistersAssumption
<1> HIDE DEF PR!NoStep, PR!StepRows
<1> QED
  BY <1>2, <1>3 DEF PR!TypeOK, PR!Rows

\* The new place is after all others.
LEMMA NextPositionPR ==
  ASSUME PR!TypeOK
  PROVE  /\ PR!NextPosition \in Nat
         /\ \A s \in PR!Rows : steps[s].position < PR!NextPosition
<1> DEFINE After == {n \in Nat : \A s \in PR!Rows : steps[s].position < n}
<1>1. \A s \in PR!Rows : steps[s].position \in 0..MaxPosition
  BY PlacesPR
<1>m. MaxPosition \in Nat
  BY RegistersAssumption
<1>2. MaxPosition + 1 \in After
  BY <1>1, <1>m
<1>3. PICK n \in After : \A m \in After : n <= m
  BY <1>2, LeastNat
<1>4. n <= MaxPosition + 1 /\ n \in Nat /\ \A s \in PR!Rows : steps[s].position < n
  BY <1>2, <1>3
<1>5. n # 0 => \E s \in PR!Rows : steps[s].position = n - 1
  <2> SUFFICES ASSUME n # 0
               PROVE  \E s \in PR!Rows : steps[s].position = n - 1
    OBVIOUS
  <2>1. n - 1 \in Nat /\ ~(n <= n - 1)
    BY <1>4
  <2>2. n - 1 \notin After
    BY <1>3, <2>1
  <2>3. PICK s \in PR!Rows : ~(steps[s].position < n - 1)
    BY <2>1, <2>2
  <2> QED
    BY <1>1, <1>4, <2>1, <2>3
<1> HIDE DEF After
<1>6. \E p \in -1..MaxPosition :
        /\ \A s \in PR!Rows : steps[s].position <= p
        /\ p = -1 \/ \E s \in PR!Rows : steps[s].position = p
  <2>1. n - 1 \in -1..MaxPosition /\ (n - 1 = -1 \/ n # 0)
    BY <1>4, <1>m
  <2>2. \A s \in PR!Rows : steps[s].position <= n - 1
    BY <1>1, <1>4
  <2> QED
    BY <1>5, <2>1, <2>2
<1>7. PICK p \in -1..MaxPosition :
        PR!NextPosition = 1 + p /\ \A s \in PR!Rows : steps[s].position <= p
  BY <1>6 DEF PR!NextPosition
<1> QED
  BY <1>1, <1>7, <1>m

\* A whole row is written as it is, and a field into a row makes a row.
LEMMA PatchedPR ==
  ASSUME NEW row, NEW patch,
         patch \in PR!StepRows \/ (row \in PR!StepRows /\ patch \in PR!Patches)
  PROVE  /\ PR!Patched(row, patch) \in PR!StepRows
         /\ patch \in PR!StepRows => PR!Patched(row, patch).position = patch.position
<1>1. MaxPosition \in Nat
  BY RegistersAssumption
<1>2. PICK new : new = PR!Patched(row, patch)
  OBVIOUS
<1>3. /\ DOMAIN new = {"reference", "position", "started"}
      /\ new = [f \in DOMAIN new |-> new[f]]
      /\ \A f \in {"reference", "position", "started"} :
           new[f] = IF f \in DOMAIN patch THEN patch[f] ELSE row[f]
  BY <1>2 DEF PR!Patched, PR!StepFields
<1>4. ASSUME NEW a \in PR!StepRows
      PROVE  a["reference"] \in References /\ a["position"] \in 0..MaxPosition
             /\ a["started"] \in BOOLEAN
             /\ DOMAIN a = {"reference", "position", "started"}
  BY DEF PR!StepRows
<1>5. /\ new["reference"] \in References /\ new["position"] \in 0..MaxPosition
      /\ new["started"] \in BOOLEAN
      /\ patch \in PR!StepRows => new["position"] = patch["position"]
  <2>1. CASE patch \in PR!StepRows
    BY <1>3, <1>4, <2>1
  <2>2. CASE row \in PR!StepRows /\ patch \in PR!Patches
    <3>1. CASE patch \in [reference : References]
      BY <1>3, <1>4, <2>2, <3>1
    <3>2. CASE patch \in [position : PR!Named]
      BY <1>1, <1>3, <1>4, <2>2, <3>2 DEF PR!Named
    <3>3. CASE patch \in [started : {TRUE}]
      BY <1>3, <1>4, <2>2, <3>3
    <3> QED
      BY <2>2, <3>1, <3>2, <3>3 DEF PR!Patches
  <2> QED
    BY <2>1, <2>2
<1>6. new \in PR!StepRows
  BY <1>3, <1>5 DEF PR!StepRows
<1> QED
  BY <1>2, <1>5, <1>6

RowsPR ==
  /\ programme \in {"DRAFT", "APPROVED", "IN_PROGRESS"}
  /\ steps \in [Steps -> PR!StepRows \cup {PR!NoStep}]
  /\ papers \in [PR!PaperKeys -> PR!Rows \cup {"unlinked", "none"}]

LEMMA EnterPR ==
  ASSUME InvPR, NEW r \in Requests, NEW state \in PR!Pending, PR!Enter(r, state),
         RowsPR', req'[r] = state => HeldPR(r)',
         req'[r] = state /\ (alone \/ req[r] = PR!Idle) /\ (alone => FreshPR(r)) => FreshPR(r)'
  PROVE  InvPR'
<1>1. /\ req' \in [Requests -> PR!Pending] /\ req'[r] = state
      /\ \A s \in Requests : s # r => req'[s] = req[s]
      /\ alone' => (\A s \in Requests : s # r => req[s] = PR!Idle) /\ (alone \/ req[r] = PR!Idle)
  BY DEF InvPR, PR!TypeOK, PR!Enter, PR!Others
<1>2. PR!TypeOK'
  BY <1>1 DEF PR!TypeOK, RowsPR
<1>3. ASSUME NEW s \in Requests
      PROVE  HeldPR(s)'
  <2>1. CASE s = r
    BY <1>1, <2>1
  <2>2. CASE s # r
    BY <1>1, <2>2 DEF InvPR, HeldPR
  <2> QED
    BY <2>1, <2>2
<1>4. ASSUME alone', NEW s \in Requests
      PROVE  FreshPR(s)'
  <2>1. CASE s = r
    BY <1>1, <1>4, <2>1 DEF InvPR
  <2>2. CASE s # r
    <3>1. req'[s].pc = "idle"
      BY <1>1, <1>4, <2>2 DEF PR!Idle
    <3> QED
      BY <3>1 DEF FreshPR
  <2> QED
    BY <2>1, <2>2
<1> QED
  BY <1>2, <1>3, <1>4 DEF InvPR

LEMMA InitPR == PR!Init => InvPR
<1> SUFFICES ASSUME PR!Init
             PROVE  InvPR
  OBVIOUS
<1>1. \A r \in Requests : req[r].pc = "idle"
  BY DEF PR!Init, PR!NoRequests, PR!Idle
<1>2. req \in [Requests -> PR!Pending]
  BY DEF PR!Init, PR!NoRequests, PR!Pending
<1>3. PR!TypeOK
  BY <1>2 DEF PR!Init, PR!TypeOK
<1> QED
  BY <1>1, <1>3 DEF InvPR, HeldPR, FreshPR

\* A step that writes no row.
LEMMA ReadsPR ==
  ASSUME InvPR, NEW r \in Requests, NEW state \in PR!Pending, PR!Enter(r, state),
         UNCHANGED <<programme, steps, papers>>,
         req'[r] = state => HeldPR(r)',
         req'[r] = state /\ (alone \/ req[r] = PR!Idle) /\ (alone => FreshPR(r)) => FreshPR(r)'
  PROVE  InvPR'
<1>1. RowsPR'
  BY DEF InvPR, PR!TypeOK, RowsPR, PR!Rows
<1> QED
  BY <1>1, EnterPR

LEMMA EndsPR ==
  ASSUME InvPR, NEW r \in Requests, PR!Enter(r, PR!Idle), RowsPR'
  PROVE  InvPR'
<1>1. PR!Idle \in PR!Pending /\ PR!Idle.pc = "idle"
  BY DEF PR!Pending, PR!Idle
<1>2. req'[r] = PR!Idle => HeldPR(r)' /\ FreshPR(r)'
  BY <1>1 DEF HeldPR, FreshPR
<1> QED
  BY <1>1, <1>2, EnterPR

LEMMA NextPR ==
  ASSUME InvPR, PR!Next
  PROVE  InvPR'
<1>1. PICK r \in Requests :
        \/ PR!ReadForApproval(r) \/ PR!CountSteps(r) \/ PR!Approve(r) \/ PR!ReadForAdd(r)
        \/ PR!ReadForUpdate(r) \/ PR!WriteStep(r) \/ PR!MarkInProgress(r) \/ PR!ReadForDelete(r)
        \/ PR!Delete(r) \/ PR!ReadForReorder(r) \/ PR!Reorder(r) \/ PR!ReadForPaper(r)
        \/ PR!ChooseReference(r) \/ PR!ReadForLinkedPaper(r) \/ PR!CreatePaper(r)
        \/ PR!StartStep(r)
  BY DEF PR!Next
<1>t. PR!TypeOK /\ RowsPR /\ HeldPR(r) /\ (alone => FreshPR(r)) /\ req \in [Requests -> PR!Pending]
  BY DEF InvPR, PR!TypeOK, RowsPR
<1>p. /\ \A s \in Steps : s \in PR!Rows <=> steps[s] \in PR!StepRows
      /\ \A s \in PR!Rows : s \in Steps /\ steps[s].position \in 0..MaxPosition
      /\ PR!NoStep \notin PR!StepRows
  BY <1>t, PlacesPR
<1>w. \A pc \in {"count", "approve", "progress"} : [pc |-> pc] \in PR!Pending
  BY DEF PR!Pending
<1>i. PR!Idle.pc = "idle"
  BY DEF PR!Idle
<1>u. UNCHANGED <<programme, steps, papers>> => RowsPR'
  BY <1>t DEF RowsPR, PR!Rows
\* A step more, or another value of one, keeps the links.
<1>s. ASSUME steps' \in [Steps -> PR!StepRows \cup {PR!NoStep}],
             \A s \in PR!Rows : steps'[s] \in PR!StepRows,
             papers' = papers, programme' = programme
      PROVE  RowsPR'
  <2>1. PR!Rows \subseteq PR!Rows'
    BY <1>s, <1>p DEF PR!Rows
  <2> QED
    BY <1>s, <2>1, <1>t DEF RowsPR
<1>2. CASE PR!ReadForApproval(r)
  <2>1. PR!Enter(r, [pc |-> "count"]) /\ UNCHANGED <<programme, steps, papers>>
    BY <1>2 DEF PR!ReadForApproval, PR!Begin, PR!local
  <2> QED
    BY <2>1, <1>w, ReadsPR DEF HeldPR, FreshPR
<1>3. CASE PR!CountSteps(r)
  <2>1. UNCHANGED <<programme, steps, papers>>
        /\ (PR!Enter(r, PR!Idle) \/ (PR!Rows # {} /\ PR!Enter(r, [pc |-> "approve"])))
    BY <1>3 DEF PR!CountSteps, PR!Release, PR!local
  <2>2. CASE PR!Enter(r, PR!Idle)
    BY <2>1, <2>2, <1>u, EndsPR
  <2>3. CASE PR!Rows # {} /\ PR!Enter(r, [pc |-> "approve"])
    <3>1. PR!Rows' = PR!Rows
      BY <2>1 DEF PR!Rows
    <3> QED
      BY <2>1, <2>3, <3>1, <1>w, ReadsPR DEF HeldPR, FreshPR
  <2> QED
    BY <2>1, <2>2, <2>3
<1>4. CASE PR!Approve(r) \/ PR!MarkInProgress(r)
  <2>1. PR!Enter(r, PR!Idle) /\ UNCHANGED <<steps, papers>>
        /\ programme' \in {"APPROVED", "IN_PROGRESS"}
    BY <1>4 DEF PR!Approve, PR!MarkInProgress, PR!Release
  <2>2. RowsPR'
    BY <2>1, <1>t DEF RowsPR, PR!Rows
  <2> QED
    BY <2>1, <2>2, EndsPR
<1>5. CASE PR!ReadForAdd(r)
  <2>1. PICK s \in Steps \ PR!Rows, reference \in References,
             position \in PR!Named \cup {PR!NextPosition}, last \in BOOLEAN :
          /\ position \in IF last THEN {PR!NextPosition} ELSE PR!Named
          /\ position <= MaxPosition
          /\ PR!Begin(r, [pc |-> "write", id |-> s, new |-> TRUE, last |-> last,
                          begun |-> programme = "APPROVED",
                          row |-> [reference |-> reference, position |-> position,
                                   started |-> FALSE]])
    BY <1>5 DEF PR!ReadForAdd
  <2>2. /\ position \in 0..MaxPosition
        /\ last => \A t \in PR!Rows : steps[t].position < position
    BY <2>1, <1>t, NextPositionPR, RegistersAssumption DEF PR!Named
  <2>4. PICK row : row = [reference |-> reference, position |-> position, started |-> FALSE]
    OBVIOUS
  <2>5. row \in PR!StepRows /\ row.position = position
    BY <2>2, <2>4 DEF PR!StepRows
  <2>6. PICK begun \in BOOLEAN : begun = (programme = "APPROVED")
    OBVIOUS
  <2> DEFINE state == [pc |-> "write", id |-> s, new |-> TRUE, last |-> last,
                       begun |-> begun, row |-> row]
  <2>7. /\ state \in PR!Pending /\ state.pc = "write" /\ state.new = TRUE
        /\ state.last = last /\ state.row = row
    <3>1. row \in PR!StepRows \cup PR!Patches
      BY <2>5
    <3> HIDE DEF PR!StepRows, PR!Patches
    <3> QED
      BY <3>1 DEF PR!Pending
  <2>8. PR!Enter(r, state) /\ UNCHANGED <<programme, steps, papers>>
    BY <2>1, <2>4, <2>6 DEF PR!Begin, PR!local
  <2> HIDE DEF state
  <2>9. PR!Rows' = PR!Rows
    BY <2>8 DEF PR!Rows
  <2>10. req'[r] = state => HeldPR(r)' /\ FreshPR(r)'
    BY <2>2, <2>5, <2>7, <2>8, <2>9 DEF HeldPR, FreshPR
  <2> QED
    BY <2>7, <2>8, <2>10, ReadsPR
<1>6. CASE PR!ReadForUpdate(r)
  <2>1. PICK s \in PR!Rows, patch \in PR!Patches :
          PR!Begin(r, [pc |-> "write", id |-> s, new |-> FALSE, last |-> FALSE, row |-> patch,
                       begun |-> "started" \in DOMAIN patch /\ programme = "APPROVED"])
    BY <1>6 DEF PR!ReadForUpdate
  <2>2. PICK begun \in BOOLEAN : begun = ("started" \in DOMAIN patch /\ programme = "APPROVED")
    OBVIOUS
  <2> DEFINE state == [pc |-> "write", id |-> s, new |-> FALSE, last |-> FALSE, row |-> patch,
                       begun |-> begun]
  <2>3. /\ state \in PR!Pending /\ state.pc = "write" /\ state.new = FALSE
        /\ state.last = FALSE /\ state.row = patch
    <3>1. patch \in PR!StepRows \cup PR!Patches /\ s \in Steps
      BY <1>p
    <3> HIDE DEF PR!StepRows, PR!Patches
    <3> QED
      BY <3>1 DEF PR!Pending
  <2>4. PR!Enter(r, state) /\ UNCHANGED <<programme, steps, papers>>
    BY <2>1, <2>2 DEF PR!Begin, PR!local
  <2> HIDE DEF state
  <2>5. req'[r] = state => HeldPR(r)' /\ FreshPR(r)'
    BY <2>3 DEF HeldPR, FreshPR
  <2> QED
    BY <2>3, <2>4, <2>5, ReadsPR
<1>7. CASE PR!WriteStep(r)
  <2>1. req[r].pc = "write" /\ UNCHANGED <<programme, papers>>
        /\ (PR!Enter(r, PR!Idle) \/ PR!Enter(r, [pc |-> "progress"]))
        /\ \/ steps' = steps
           \/ /\ req[r].new \/ req[r].id \in PR!Rows
              /\ steps' = [steps EXCEPT ![req[r].id] = PR!Patched(steps[req[r].id], req[r].row)]
    BY <1>7, <1>t DEF PR!WriteStep, PR!At, PR!Release, RowsPR
  <2>2. req[r].id \in Steps /\ req[r].new \in BOOLEAN
        /\ IF req[r].new THEN req[r].row \in PR!StepRows ELSE req[r].row \in PR!Patches
    BY <2>1, <1>t, RequestPR DEF HeldPR
  <2>3. CASE steps' = steps
    <3>1. RowsPR'
      BY <2>1, <2>3, <1>u
    <3> QED
      BY <2>1, <3>1, <1>w, EndsPR, EnterPR DEF HeldPR, FreshPR
  <2>4. CASE /\ req[r].new \/ req[r].id \in PR!Rows
             /\ steps' = [steps EXCEPT ![req[r].id] = PR!Patched(steps[req[r].id], req[r].row)]
    <3>1. PR!Patched(steps[req[r].id], req[r].row) \in PR!StepRows
      BY <2>2, <2>4, <1>p, PatchedPR
    <3>2. steps' \in [Steps -> PR!StepRows \cup {PR!NoStep}]
          /\ \A s \in PR!Rows : steps'[s] \in PR!StepRows
      BY <2>2, <2>4, <3>1, <1>t, <1>p DEF RowsPR
    <3>3. RowsPR'
      BY <2>1, <3>2, <1>s
    <3> QED
      BY <2>1, <3>3, <1>w, EndsPR, EnterPR DEF HeldPR, FreshPR
  <2> QED
    BY <2>1, <2>3, <2>4
<1>8. CASE PR!ReadForDelete(r)
  <2>1. PICK s \in PR!Rows : PR!PapersOf(s) = {} /\ PR!Begin(r, [pc |-> "delete", id |-> s])
    BY <1>8 DEF PR!ReadForDelete, PR!Deletable
  <2>2. [pc |-> "delete", id |-> s] \in PR!Pending
    BY <1>p DEF PR!Pending
  <2>3. PR!Enter(r, [pc |-> "delete", id |-> s]) /\ UNCHANGED <<programme, steps, papers>>
    BY <2>1 DEF PR!Begin, PR!local
  <2>4. req'[r] = [pc |-> "delete", id |-> s] => HeldPR(r)' /\ FreshPR(r)'
    BY <2>1, <2>3 DEF HeldPR, FreshPR, PR!PapersOf
  <2> QED
    BY <2>2, <2>3, <2>4, ReadsPR
<1>9. CASE PR!Delete(r)
  <2>1. req[r].pc = "delete" /\ PR!Enter(r, PR!Idle) /\ programme' = programme
        /\ steps' = [steps EXCEPT ![req[r].id] = PR!NoStep]
        /\ papers' = [k \in PR!PaperKeys |-> IF papers[k] = req[r].id THEN "unlinked" ELSE papers[k]]
    BY <1>9 DEF PR!Delete, PR!At, PR!Release, PR!Orphaned
  <2>2. req[r].id \in Steps
    BY <2>1, <1>t, RequestPR
  <2>3. steps' \in [Steps -> PR!StepRows \cup {PR!NoStep}]
    BY <2>1, <1>t DEF RowsPR
  <2>4. PR!Rows \ {req[r].id} \subseteq PR!Rows'
    BY <2>1, <2>2, <1>t DEF RowsPR, PR!Rows
  <2>5. \A k \in PR!PaperKeys : papers'[k] \in PR!Rows' \cup {"unlinked", "none"}
    BY <2>1, <2>4, <1>t DEF RowsPR
  <2>6. papers' \in [PR!PaperKeys -> PR!Rows' \cup {"unlinked", "none"}]
    BY <2>1, <2>5
  <2>7. RowsPR'
    BY <2>1, <2>3, <2>6, <1>t DEF RowsPR
  <2> QED
    BY <2>1, <2>7, EndsPR
<1>10. CASE PR!ReadForReorder(r)
  <2>1. PICK n \in 1..MaxPosition + 1 : \E ordered \in [1..n -> PR!Rows],
                                          order \in [PR!Rows -> 0..n - 1] :
          /\ \A s \in PR!Rows : ordered[order[s] + 1] = s
          /\ PR!Begin(r, [pc |-> "reorder", order |-> order])
    BY <1>10 DEF PR!ReadForReorder
  <2>2. PICK ordered \in [1..n -> PR!Rows], order \in [PR!Rows -> 0..n - 1] :
          /\ \A s \in PR!Rows : ordered[order[s] + 1] = s
          /\ PR!Begin(r, [pc |-> "reorder", order |-> order])
    BY <2>1
  <2>3. \A s, t \in PR!Rows : order[s] = order[t] => s = t
    BY <2>2
  <2>4. order \in UNION {[S -> 0..MaxPosition] : S \in SUBSET Steps}
    <3>1. 0..n - 1 \subseteq 0..MaxPosition
      BY RegistersAssumption
    <3>2. order \in [PR!Rows -> 0..MaxPosition]
      BY <3>1
    <3>3. PR!Rows \in SUBSET Steps
      BY <1>p
    <3> HIDE DEF PR!Rows
    <3> QED
      BY <3>2, <3>3
  <2>5. PICK Orders : Orders = UNION {[S -> 0..MaxPosition] : S \in SUBSET Steps}
    OBVIOUS
  <2>6. [pc |-> "reorder", order |-> order] \in [pc : {"reorder"}, order : Orders]
    BY <2>4, <2>5
  <2>7. [pc |-> "reorder", order |-> order] \in PR!Pending
    BY <2>5, <2>6 DEF PR!Pending
  <2>8. PR!Enter(r, [pc |-> "reorder", order |-> order]) /\ UNCHANGED <<programme, steps, papers>>
    BY <2>2 DEF PR!Begin, PR!local
  <2>9. PR!Rows' = PR!Rows
    BY <2>8 DEF PR!Rows
  <2>10. req'[r] = [pc |-> "reorder", order |-> order] => HeldPR(r)' /\ FreshPR(r)'
    BY <2>2, <2>3, <2>9 DEF HeldPR, FreshPR
  <2> QED
    BY <2>7, <2>8, <2>10, ReadsPR
<1>11. CASE PR!Reorder(r)
  <2>1. req[r].pc = "reorder" /\ PR!Enter(r, PR!Idle) /\ UNCHANGED <<programme, papers>>
    BY <1>11 DEF PR!Reorder, PR!At, PR!Release
  <2>2. PICK order : order = req[r].order
    OBVIOUS
  <2>3. steps' = IF DOMAIN order \subseteq PR!Rows
                   THEN [s \in Steps |-> IF s \in DOMAIN order
                           THEN [steps[s] EXCEPT !.position = order[s]] ELSE steps[s]]
                   ELSE steps
    BY <1>11, <2>2 DEF PR!Reorder
  <2>4. order \in UNION {[S -> 0..MaxPosition] : S \in SUBSET Steps}
    BY <2>1, <2>2, <1>t, RequestPR
  <2>5. PICK S \in SUBSET Steps : order \in [S -> 0..MaxPosition]
    BY <2>4
  <2>6. DOMAIN order = S
    BY <2>5
  <2>7. CASE S \subseteq PR!Rows
    <3>1. ASSUME NEW s \in Steps
          PROVE  /\ steps'[s] \in PR!StepRows \cup {PR!NoStep}
                 /\ s \in PR!Rows => steps'[s] \in PR!StepRows
      <4>1. CASE s \in S
        <5>1. steps'[s] = [steps[s] EXCEPT !.position = order[s]]
          BY <2>3, <2>6, <2>7, <4>1
        <5>2. steps[s] \in PR!StepRows /\ order[s] \in 0..MaxPosition
          BY <2>5, <2>7, <4>1, <1>p
        <5> QED
          BY <5>1, <5>2 DEF PR!StepRows
      <4>2. CASE s \notin S
        <5>1. steps'[s] = steps[s]
          BY <2>3, <2>6, <2>7, <4>2
        <5> QED
          BY <5>1, <1>p, <1>t DEF RowsPR
      <4> QED
        BY <4>1, <4>2
    <3>2. steps' \in [Steps -> PR!StepRows \cup {PR!NoStep}]
      BY <2>3, <2>6, <2>7, <3>1
    <3>3. RowsPR'
      BY <2>1, <3>1, <3>2, <1>p, <1>s
    <3> QED
      BY <2>1, <3>3, EndsPR
  <2>8. CASE ~(S \subseteq PR!Rows)
    <3>1. RowsPR'
      BY <2>1, <2>3, <2>6, <2>8, <1>u
    <3> QED
      BY <2>1, <3>1, EndsPR
  <2> QED
    BY <2>7, <2>8
<1>12. CASE PR!ReadForPaper(r)
  <2>1. PICK s \in PR!Rows : PR!PapersOf(s) = {}
          /\ PR!Begin(r, [pc |-> "taken", id |-> s, reference |-> steps[s].reference])
    BY <1>12 DEF PR!ReadForPaper
  <2>2. PICK reference : reference = steps[s].reference
    OBVIOUS
  <2>3. reference \in References /\ s \in Steps
    BY <2>2, <1>p DEF PR!StepRows
  <2>4. [pc |-> "taken", id |-> s, reference |-> reference] \in PR!Pending
    BY <2>3 DEF PR!Pending
  <2>5. PR!Enter(r, [pc |-> "taken", id |-> s, reference |-> reference])
        /\ UNCHANGED <<programme, steps, papers>>
    BY <2>1, <2>2 DEF PR!Begin, PR!local
  <2>6. req'[r] = [pc |-> "taken", id |-> s, reference |-> reference]
          => HeldPR(r)' /\ FreshPR(r)'
    BY <2>1, <2>5 DEF HeldPR, FreshPR, PR!PapersOf
  <2> QED
    BY <2>4, <2>5, <2>6, ReadsPR
<1>13. CASE PR!ChooseReference(r)
  <2>1. req[r].pc = "taken" /\ UNCHANGED <<programme, steps, papers>>
    BY <1>13 DEF PR!ChooseReference, PR!At, PR!local
  <2>2. PICK key : key = <<req[r].reference,
                           IF papers[<<req[r].reference, 0>>] = "none" THEN 0 ELSE 1>>
    OBVIOUS
  <2>3. req[r].id \in Steps /\ req[r].reference \in References
    BY <2>1, <1>t, RequestPR
  <2>4. key \in PR!PaperKeys
    BY <2>2, <2>3 DEF PR!PaperKeys
  <2> DEFINE state == [pc |-> "paper", id |-> req[r].id, key |-> key]
  <2>5. state \in PR!Pending /\ state.pc = "paper" /\ state.id = req[r].id
    <3> HIDE DEF PR!PaperKeys
    <3> QED
      BY <2>3, <2>4 DEF PR!Pending
  <2>6. PR!Enter(r, state)
    BY <1>13, <2>2 DEF PR!ChooseReference
  <2> HIDE DEF state
  <2>7. alone /\ FreshPR(r) => PR!PapersOf(req[r].id) = {}
    BY <2>1 DEF FreshPR
  <2>8. req[r] # PR!Idle
    BY <2>1, <1>i
  <2>9. req'[r] = state => HeldPR(r)'
    BY <2>5 DEF HeldPR
  <2>10. req'[r] = state /\ alone /\ FreshPR(r) => FreshPR(r)'
    BY <2>1, <2>5, <2>7 DEF FreshPR, PR!PapersOf
  <2> QED
    BY <2>1, <2>5, <2>6, <2>8, <2>9, <2>10, ReadsPR
<1>16. CASE PR!ReadForLinkedPaper(r)
  <2>1. PICK s \in PR!Rows, reference \in References :
          PR!Begin(r, [pc |-> "linked", id |-> s, key |-> <<reference, 0>>])
    BY <1>16 DEF PR!ReadForLinkedPaper
  <2>2. PICK key : key = <<reference, 0>>
    OBVIOUS
  <2>3. key \in PR!PaperKeys /\ s \in Steps
    BY <2>2, <1>p DEF PR!PaperKeys
  <2>4. [pc |-> "linked", id |-> s, key |-> key] \in PR!Pending
    <3> HIDE DEF PR!PaperKeys
    <3> QED
      BY <2>3 DEF PR!Pending
  <2>5. PR!Enter(r, [pc |-> "linked", id |-> s, key |-> key])
        /\ UNCHANGED <<programme, steps, papers>>
    BY <2>1, <2>2 DEF PR!Begin, PR!local
  <2>6. req'[r] = [pc |-> "linked", id |-> s, key |-> key] => HeldPR(r)' /\ FreshPR(r)'
    BY DEF HeldPR, FreshPR
  <2> QED
    BY <2>4, <2>5, <2>6, ReadsPR
<1>14. CASE PR!CreatePaper(r)
  <2>1. UNCHANGED <<programme, steps>>
        /\ \/ papers' = papers /\ PR!Enter(r, PR!Idle)
           \/ /\ req[r].id \in PR!Rows /\ papers' = [papers EXCEPT ![req[r].key] = req[r].id]
              /\ PR!Enter(r, [pc |-> "start", id |-> req[r].id])
    BY <1>14 DEF PR!CreatePaper, PR!Release
  <2>2. CASE papers' = papers /\ PR!Enter(r, PR!Idle)
    BY <2>1, <2>2, <1>u, EndsPR
  <2>3. CASE /\ req[r].id \in PR!Rows /\ papers' = [papers EXCEPT ![req[r].key] = req[r].id]
             /\ PR!Enter(r, [pc |-> "start", id |-> req[r].id])
    <3>1. PR!Rows' = PR!Rows
      BY <2>1 DEF PR!Rows
    <3>2. RowsPR'
      BY <2>1, <2>3, <3>1, <1>t DEF RowsPR
    <3>3. [pc |-> "start", id |-> req[r].id] \in PR!Pending
      BY <2>3, <1>p DEF PR!Pending
    <3>4. req'[r] = [pc |-> "start", id |-> req[r].id] => HeldPR(r)' /\ FreshPR(r)'
      BY DEF HeldPR, FreshPR
    <3> QED
      BY <2>3, <3>2, <3>3, <3>4, EnterPR
  <2> QED
    BY <2>1, <2>2, <2>3
<1>15. CASE PR!StartStep(r)
  <2>1. req[r].pc = "start" /\ PR!Enter(r, PR!Idle) /\ UNCHANGED <<programme, papers>>
        /\ steps' = IF req[r].id \in PR!Rows
                      THEN [steps EXCEPT ![req[r].id].started = TRUE] ELSE steps
    BY <1>15 DEF PR!StartStep, PR!At, PR!Release
  <2>2. CASE req[r].id \in PR!Rows
    <3>1. PICK row : row = [steps[req[r].id] EXCEPT !.started = TRUE]
      OBVIOUS
    <3>2. row \in PR!StepRows
      BY <2>2, <3>1, <1>p DEF PR!StepRows
    <3>3. steps' \in [Steps -> PR!StepRows \cup {PR!NoStep}]
          /\ \A s \in PR!Rows : steps'[s] \in PR!StepRows
      BY <2>1, <2>2, <3>1, <3>2, <1>t, <1>p DEF RowsPR
    <3>4. RowsPR'
      BY <2>1, <3>3, <1>s
    <3> QED
      BY <2>1, <3>4, EndsPR
  <2>3. CASE req[r].id \notin PR!Rows
    BY <2>1, <2>3, <1>u, EndsPR
  <2> QED
    BY <2>2, <2>3
<1> QED
  BY <1>1, <1>2, <1>3, <1>4, <1>5, <1>6, <1>7, <1>8, <1>9, <1>10, <1>11, <1>12, <1>13,
     <1>14, <1>15, <1>16

\* What StepsKeepPlaceAndPapers says of a step.
LEMMA StepPR ==
  ASSUME InvPR, PR!Next, alone'
  PROVE  /\ \A k \in PR!PaperKeys : papers[k] \in Steps => papers'[k] = papers[k]
         /\ \A q \in Requests :
              papers' # papers /\ req[q].pc = "paper" => PR!PapersOf(req[q].id) = {}
         /\ \A q \in Requests :
              steps' # steps /\ req[q].pc = "write" /\ req[q].last =>
                \A t \in PR!Rows : steps[t].position < steps'[req[q].id].position
         /\ \A q \in Requests :
              req[q].pc = "reorder" =>
                \A s, t \in PR!Rows : s # t => steps'[s].position # steps'[t].position
         /\ programme # programme' /\ programme' = "APPROVED" => PR!Rows # {}
<1>1. PICK r \in Requests :
        \/ PR!ReadForApproval(r) \/ PR!CountSteps(r) \/ PR!Approve(r) \/ PR!ReadForAdd(r)
        \/ PR!ReadForUpdate(r) \/ PR!WriteStep(r) \/ PR!MarkInProgress(r) \/ PR!ReadForDelete(r)
        \/ PR!Delete(r) \/ PR!ReadForReorder(r) \/ PR!Reorder(r) \/ PR!ReadForPaper(r)
        \/ PR!ChooseReference(r) \/ PR!ReadForLinkedPaper(r) \/ PR!CreatePaper(r)
        \/ PR!StartStep(r)
  BY DEF PR!Next
<1>t. PR!TypeOK /\ RowsPR /\ HeldPR(r)
  BY DEF InvPR, PR!TypeOK, RowsPR
<1>p. /\ \A s \in Steps : s \in PR!Rows <=> steps[s] \in PR!StepRows
      /\ \A s \in PR!Rows : s \in Steps /\ steps[s].position \in 0..MaxPosition
  BY <1>t, PlacesPR
<1>i. PR!Idle.pc = "idle"
  BY DEF PR!Idle
<1>2. ASSUME NEW q \in Requests, req[q].pc # "idle"
      PROVE  q = r /\ FreshPR(r)
  <2>1. PICK state : PR!Enter(r, state)
    BY <1>1 DEF PR!ReadForApproval, PR!CountSteps, PR!Approve, PR!ReadForAdd, PR!ReadForUpdate,
       PR!WriteStep, PR!MarkInProgress, PR!ReadForDelete, PR!Delete, PR!ReadForReorder,
       PR!Reorder, PR!ReadForPaper, PR!ChooseReference, PR!ReadForLinkedPaper,
       PR!CreatePaper, PR!StartStep, PR!Begin, PR!Release
  <2>2. \A s \in Requests : s # r => req[s] = PR!Idle
    BY <2>1 DEF PR!Enter, PR!Others
  <2>3. alone \/ req[r] = PR!Idle
    BY <2>1 DEF PR!Enter
  <2> QED
    BY <1>2, <1>i, <2>2, <2>3 DEF InvPR
<1>3. /\ req[r].pc # "reorder" => \A q \in Requests : req[q].pc # "reorder"
      /\ req[r].pc # "paper" => \A q \in Requests : req[q].pc # "paper"
      /\ req[r].pc # "write" => \A q \in Requests : req[q].pc # "write"
  BY <1>2
<1>4. CASE \/ PR!ReadForApproval(r) \/ PR!CountSteps(r) \/ PR!ReadForAdd(r) \/ PR!ReadForUpdate(r)
           \/ PR!ReadForDelete(r) \/ PR!ReadForReorder(r) \/ PR!ReadForPaper(r)
           \/ PR!ChooseReference(r) \/ PR!ReadForLinkedPaper(r)
  <2>1. UNCHANGED <<programme, steps, papers>> /\ req[r].pc # "reorder"
    BY <1>4, <1>i DEF PR!ReadForApproval, PR!CountSteps, PR!ReadForAdd, PR!ReadForUpdate,
       PR!ReadForDelete, PR!ReadForReorder, PR!ReadForPaper, PR!ChooseReference,
       PR!ReadForLinkedPaper, PR!Begin, PR!local, PR!At
  <2> QED
    BY <2>1, <1>3
<1>5. CASE PR!Approve(r) \/ PR!MarkInProgress(r)
  <2>1. UNCHANGED <<steps, papers>> /\ req[r].pc \in {"approve", "progress"}
        /\ (programme' = "APPROVED" => req[r].pc = "approve")
    BY <1>5 DEF PR!Approve, PR!MarkInProgress, PR!At
  <2>2. req[r].pc = "approve" => PR!Rows # {}
    BY <1>2 DEF FreshPR
  <2> QED
    BY <2>1, <2>2, <1>3
<1>6. CASE PR!WriteStep(r)
  <2>1. req[r].pc = "write" /\ UNCHANGED <<programme, papers>>
        /\ \/ steps' = steps
           \/ /\ req[r].new \/ req[r].id \in PR!Rows
              /\ steps' = [steps EXCEPT ![req[r].id] = PR!Patched(steps[req[r].id], req[r].row)]
    BY <1>6, <1>t DEF PR!WriteStep, PR!At, RowsPR
  <2>2. ASSUME steps' # steps, req[r].last
        PROVE  \A t \in PR!Rows : steps[t].position < steps'[req[r].id].position
    <3>1. /\ req[r].id \in Steps /\ req[r].row \in PR!StepRows
          /\ \A t \in PR!Rows : steps[t].position < req[r].row.position
      BY <2>1, <2>2, <1>2, <1>t, RequestPR DEF HeldPR, FreshPR
    <3>2. steps'[req[r].id] = PR!Patched(steps[req[r].id], req[r].row)
      BY <2>1, <2>2, <3>1, <1>t DEF RowsPR
    <3>3. steps'[req[r].id].position = req[r].row.position
      BY <3>1, <3>2, PatchedPR
    <3> QED
      BY <3>1, <3>3
  <2> QED
    BY <2>1, <2>2, <1>2, <1>3
<1>7. CASE PR!Delete(r)
  <2>1. req[r].pc = "delete" /\ programme' = programme
        /\ papers' = [k \in PR!PaperKeys |-> IF papers[k] = req[r].id THEN "unlinked" ELSE papers[k]]
    BY <1>7 DEF PR!Delete, PR!At, PR!Orphaned
  <2>2. PR!PapersOf(req[r].id) = {}
    BY <2>1, <1>2 DEF FreshPR
  <2>3. \A k \in PR!PaperKeys : papers'[k] = papers[k]
    BY <2>1, <2>2 DEF PR!PapersOf
  <2> QED
    BY <2>1, <2>3, <1>3
<1>8. CASE PR!Reorder(r)
  <2>1. req[r].pc = "reorder" /\ UNCHANGED <<programme, papers>>
    BY <1>8 DEF PR!Reorder, PR!At
  <2>2. PICK order : order = req[r].order
    OBVIOUS
  <2>3. steps' = IF DOMAIN order \subseteq PR!Rows
                   THEN [s \in Steps |-> IF s \in DOMAIN order
                           THEN [steps[s] EXCEPT !.position = order[s]] ELSE steps[s]]
                   ELSE steps
    BY <1>8, <2>2 DEF PR!Reorder
  <2>4. /\ DOMAIN order = PR!Rows
        /\ \A s, t \in PR!Rows : order[s] = order[t] => s = t
    BY <2>1, <2>2, <1>2 DEF FreshPR
  <2>5. \A s \in PR!Rows : steps'[s] = [steps[s] EXCEPT !.position = order[s]]
    BY <2>3, <2>4, <1>p
  <2>6. \A s \in PR!Rows : steps'[s].position = order[s]
    BY <2>5, <1>p DEF PR!StepRows
  <2>7. \A s, t \in PR!Rows : s # t => steps'[s].position # steps'[t].position
    BY <2>4, <2>6
  <2> QED
    BY <2>1, <2>7, <1>3
<1>9. CASE PR!CreatePaper(r)
  <2>1. req[r].pc \in {"paper", "linked"} /\ UNCHANGED <<programme, steps>>
        /\ \/ papers' = papers
           \/ /\ papers[req[r].key] = "none"
              /\ papers' = [papers EXCEPT ![req[r].key] = req[r].id]
    BY <1>9 DEF PR!CreatePaper, PR!At
  <2>2. req[r].pc = "paper" => PR!PapersOf(req[r].id) = {}
    BY <1>2 DEF FreshPR
  <2>3. "none" \notin Steps
    BY RegistersAssumption
  <2>4. \A k \in PR!PaperKeys : papers[k] \in Steps => papers'[k] = papers[k]
    BY <2>1, <2>3, <1>t DEF RowsPR
  <2>5. \A q \in Requests : req[q].pc = "paper" => q = r
    BY <1>2
  <2> QED
    BY <2>1, <2>2, <2>4, <2>5, <1>3
<1>10. CASE PR!StartStep(r)
  <2>1. req[r].pc = "start" /\ UNCHANGED <<programme, papers>>
    BY <1>10 DEF PR!StartStep, PR!At
  <2> QED
    BY <2>1, <1>3
<1> QED
  BY <1>1, <1>4, <1>5, <1>6, <1>7, <1>8, <1>9, <1>10

-----------------------------------------------------------------------------
(* Library *)

\* Rows are numbered from 1, and no version exceeds the number of its row.
LibraryOK ==
  /\ library \in [LB!Ids -> LB!Versions \cup {LB!NoItem}]
  /\ \A i \in LB!Rows : library[i].parent < i /\ library[i].version <= i
  /\ \A i \in LB!Rows, j \in LB!Ids : j < i => j \in LB!Rows

HeldLB(r) ==
  /\ req[r].pc \in {"number", "insert"} => req[r].row.status = "DRAFT"
  /\ req[r].pc = "number" =>
       req[r].row.parent \in LB!Rows /\ req[r].row.version <= req[r].row.parent
  /\ req[r].pc = "insert" =>
       \A i \in LB!Ids \ LB!Rows : req[r].row.parent < i /\ req[r].row.version <= i
  /\ req[r].pc \in {"edit", "status", "retire", "publish"} => req[r].id \in LB!Rows
  /\ req[r].pc = "status" => req[r].to \in {"PENDING_APPROVAL", "RETIRED"}

FreshLB(r) ==
  /\ req[r].pc = "insert" => \A code : code = req[r].row.code =>
       req[r].row.parent = 0 \/ req[r].row.version > LB!Latest(code)
  /\ req[r].pc = "edit" => library[req[r].id].status \in LB!InWork
  /\ req[r].pc = "status" => library[req[r].id].status # "RETIRED"
  /\ req[r].pc \in {"retire", "publish"} => library[req[r].id].status = "PENDING_APPROVAL"
  /\ req[r].pc = "retire" => library[req[r].id].code = req[r].code
  /\ req[r].pc = "publish" => \A code : code = library[req[r].id].code =>
       req[r].rows = LB!Published(code) \ {req[r].id}

InvLB ==
  /\ LibraryOK
  /\ req \in [Requests -> LB!Pending]
  /\ \A r \in Requests : HeldLB(r)
  /\ alone => \A r \in Requests : FreshLB(r)

LEMMA TypeLB == InvLB => LB!TypeOK
BY DEF InvLB, LibraryOK, LB!TypeOK

LEMMA RequestLB ==
  ASSUME InvLB, NEW r \in Requests
  PROVE  /\ req[r].pc \in {"idle", "insert", "number", "edit", "retire", "status", "publish"}
         /\ req[r].pc \in {"number", "insert"} => req[r] \in [pc : {"insert", "number"}, row : LB!Versions]
         /\ req[r].pc \in {"edit", "status", "retire", "publish"} => req[r].id \in LB!Ids
         /\ req[r].pc \in {"edit", "retire"} => req[r].code \in Codes
         /\ req[r].pc = "status" => req[r].to \in LB!Statuses
         /\ req[r].pc = "publish" => req[r].rows \in SUBSET LB!Ids
<1>1. req[r] \in LB!Pending
  BY DEF InvLB
<1> HIDE DEF LB!Versions, LB!Ids, LB!Statuses
<1> QED
  BY <1>1 DEF LB!Pending, LB!Idle

\* What is no row has no status.
LEMMA ItemsLB ==
  ASSUME InvLB
  PROVE  /\ \A i \in LB!Ids : i \in LB!Rows <=> library[i] \in LB!Versions
         /\ LB!Rows \subseteq LB!Ids
         /\ LB!NoItem \notin LB!Versions
<1>1. LB!NoItem.status = "none"
  BY DEF LB!NoItem
<1>2. \A v \in LB!Versions : v.status # "none"
  BY DEF LB!Versions, LB!Statuses
<1> HIDE DEF LB!NoItem, LB!Versions, LB!Ids
<1> QED
  BY <1>1, <1>2 DEF InvLB, LibraryOK, LB!Rows

\* The highest version of a code is one, and it is before every free row.
LEMMA LatestLB ==
  ASSUME InvLB, NEW code
  PROVE  /\ LB!Latest(code) \in Nat
         /\ \A i \in LB!Own(code) : library[i].version <= LB!Latest(code)
         /\ LB!Latest(code) = 0 \/ \E i \in LB!Rows : LB!Latest(code) <= i
<1>1. \A i \in LB!Own(code) : i \in LB!Rows /\ i \in 1..MaxItems /\ library[i].version \in Nat
                             /\ library[i].version <= i
  BY ItemsLB DEF InvLB, LibraryOK, LB!Own, LB!Versions, LB!Ids
<1>m. MaxItems \in Nat
  BY RegistersAssumption
<1>2. CASE LB!Own(code) = {}
  <2>1. LB!Latest(code) = 0
    BY <1>2 DEF LB!Latest
  <2> QED
    BY <1>2, <2>1
<1>3. CASE LB!Own(code) # {}
  <2> DEFINE Above == {n \in Nat : \A i \in LB!Own(code) : library[i].version <= n}
  <2>1. MaxItems \in Above
    BY <1>1, <1>m
  <2>2. PICK n \in Above : \A m \in Above : n <= m
    BY <2>1, LeastNat
  <2>3. n \in Nat /\ \A i \in LB!Own(code) : library[i].version <= n
    BY <2>2
  <2>4. \E i \in LB!Own(code) : library[i].version = n
    <3>1. CASE n = 0
      BY <1>1, <1>3, <2>3, <3>1
    <3>2. CASE n # 0
      <4>1. n - 1 \in Nat /\ ~(n <= n - 1)
        BY <2>3, <3>2
      <4>2. n - 1 \notin Above
        BY <2>2, <4>1
      <4>3. PICK i \in LB!Own(code) : ~(library[i].version <= n - 1)
        BY <4>1, <4>2
      <4> QED
        BY <1>1, <2>3, <4>1, <4>3
    <3> QED
      BY <3>1, <3>2
  <2> HIDE DEF Above
  <2>5. \E v \in {library[i].version : i \in LB!Own(code)} :
          \A i \in LB!Own(code) : library[i].version <= v
    BY <2>3, <2>4
  <2>6. LB!Latest(code) = CHOOSE v \in {library[i].version : i \in LB!Own(code)} :
                            \A i \in LB!Own(code) : library[i].version <= v
    BY <1>3 DEF LB!Latest
  <2>7. /\ LB!Latest(code) \in {library[i].version : i \in LB!Own(code)}
        /\ \A i \in LB!Own(code) : library[i].version <= LB!Latest(code)
    BY <2>5, <2>6
  <2> QED
    BY <1>1, <2>7
<1> QED
  BY <1>2, <1>3

\* A row is added after all others.
LEMMA NewRowLB ==
  ASSUME InvLB, LB!Rows # LB!Ids
  PROVE  /\ LB!Cardinality(LB!Rows) + 1 \in LB!Ids \ LB!Rows
         /\ \A i \in LB!Rows : i < LB!Cardinality(LB!Rows) + 1
         /\ \A j \in LB!Ids : j < LB!Cardinality(LB!Rows) + 1 => j \in LB!Rows
<1>m. MaxItems \in Nat
  BY RegistersAssumption
<1>1. LB!Rows \subseteq LB!Ids /\ LB!Ids = 1..MaxItems
  BY DEF LB!Rows, LB!Ids
<1>2. PICK n \in LB!Ids \ LB!Rows : \A m \in LB!Ids \ LB!Rows : n <= m
  <2>1. LB!Ids \ LB!Rows \in SUBSET Nat
    BY <1>1
  <2>2. LB!Ids \ LB!Rows # {}
    BY <1>1, Zenon
  <2> QED
    BY <2>1, <2>2, LeastNat
<1>3. \A i \in LB!Rows : i < n
  BY <1>1, <1>2 DEF InvLB, LibraryOK
<1>4. \A j \in LB!Ids : j < n => j \in LB!Rows
  BY <1>1, <1>2
<1>5. LB!Rows = 1..n - 1
  <2>1. \A i \in LB!Rows : i \in 1..n - 1
    BY <1>1, <1>2, <1>3, <1>m
  <2>2. \A i \in 1..n - 1 : i \in LB!Rows
    BY <1>1, <1>2, <1>4, <1>m
  <2> QED
    BY <2>1, <2>2
<1>6. Cardinality(LB!Rows) = n - 1
  BY <1>1, <1>2, <1>5, FS_Interval
<1>7. LB!Cardinality(LB!Rows) = Cardinality(LB!Rows)
  BY DEF LB!Cardinality, Cardinality
<1> QED
  BY <1>1, <1>2, <1>3, <1>4, <1>6, <1>7

LEMMA EnterLB ==
  ASSUME InvLB, NEW r \in Requests, NEW state \in LB!Pending, LB!Enter(r, state),
         LibraryOK', LB!Rows \subseteq LB!Rows', req'[r] = state => HeldLB(r)',
         req'[r] = state /\ (alone \/ req[r] = LB!Idle) /\ (alone => FreshLB(r)) => FreshLB(r)'
  PROVE  InvLB'
<1>1. /\ req' \in [Requests -> LB!Pending] /\ req'[r] = state
      /\ \A s \in Requests : s # r => req'[s] = req[s]
      /\ alone' => (\A s \in Requests : s # r => req[s] = LB!Idle) /\ (alone \/ req[r] = LB!Idle)
  BY DEF InvLB, LB!Enter, LB!Others
<1>2. ASSUME NEW s \in Requests
      PROVE  HeldLB(s)'
  <2>1. CASE s = r
    BY <1>1, <2>1
  <2>2. CASE s # r
    BY <1>1, <2>2 DEF InvLB, HeldLB
  <2> QED
    BY <2>1, <2>2
<1>3. ASSUME alone', NEW s \in Requests
      PROVE  FreshLB(s)'
  <2>1. CASE s = r
    BY <1>1, <1>3, <2>1 DEF InvLB
  <2>2. CASE s # r
    <3>1. req'[s].pc = "idle"
      BY <1>1, <1>3, <2>2 DEF LB!Idle
    <3> QED
      BY <3>1 DEF FreshLB
  <2> QED
    BY <2>1, <2>2
<1> QED
  BY <1>1, <1>2, <1>3 DEF InvLB

LEMMA InitLB == LB!Init => InvLB
<1> SUFFICES ASSUME LB!Init
             PROVE  InvLB
  OBVIOUS
<1>1. \A r \in Requests : req[r].pc = "idle"
  BY DEF LB!Init, LB!NoRequests, LB!Idle
<1>2. req \in [Requests -> LB!Pending]
  BY DEF LB!Init, LB!NoRequests, LB!Pending
<1>3. PICK first \in {LB!NoItem} \cup {LB!Item(FALSE, code, 1, "PUBLISHED", 0) : code \in Codes} :
        library = [i \in LB!Ids |-> IF i = 1 THEN first ELSE LB!NoItem]
  BY DEF LB!Init
<1>4. first = LB!NoItem \/ (first \in LB!Versions /\ first.parent = 0 /\ first.version = 1)
  <2>1. \A code \in Codes : LB!Item(FALSE, code, 1, "PUBLISHED", 0)
          \in [own : BOOLEAN, code : Codes, version : {1}, status : {"PUBLISHED"}, parent : {0}]
    BY DEF LB!Item
  <2>2. first = LB!NoItem \/ first
          \in [own : BOOLEAN, code : Codes, version : {1}, status : {"PUBLISHED"}, parent : {0}]
    BY <1>3, <2>1
  <2> QED
    BY <2>2 DEF LB!Versions, LB!Statuses
<1>5. library \in [LB!Ids -> LB!Versions \cup {LB!NoItem}]
  BY <1>3, <1>4
<1>6. \A i \in LB!Rows : i = 1 /\ library[i] = first /\ first # LB!NoItem
  BY <1>3 DEF LB!Rows
<1>7. LB!Ids = 1..MaxItems /\ MaxItems \in Nat
  BY RegistersAssumption DEF LB!Ids
<1>8. LibraryOK
  BY <1>4, <1>5, <1>6, <1>7 DEF LibraryOK
<1> QED
  BY <1>1, <1>2, <1>8 DEF InvLB, HeldLB, FreshLB

\* A step that writes no row.
LEMMA ReadsLB ==
  ASSUME InvLB, NEW r \in Requests, NEW state \in LB!Pending, LB!Enter(r, state),
         UNCHANGED library, req'[r] = state => HeldLB(r)',
         req'[r] = state /\ (alone \/ req[r] = LB!Idle) /\ (alone => FreshLB(r)) => FreshLB(r)'
  PROVE  InvLB'
<1>1. LibraryOK' /\ LB!Rows \subseteq LB!Rows'
  BY DEF InvLB, LibraryOK, LB!Rows
<1> QED
  BY <1>1, EnterLB

\* A write of a row: what was one stays one.
LEMMA EndsLB ==
  ASSUME InvLB, NEW r \in Requests, LB!Enter(r, LB!Idle),
         library' \in [LB!Ids -> LB!Versions \cup {LB!NoItem}],
         \A i \in LB!Rows : /\ library'[i] \in LB!Versions
                            /\ library'[i].parent = library[i].parent
                            /\ library'[i].version = library[i].version,
         \A i \in LB!Ids \ LB!Rows : library'[i] # LB!NoItem =>
           /\ library'[i].parent < i /\ library'[i].version <= i
           /\ \A j \in LB!Ids : j < i => j \in LB!Rows
  PROVE  InvLB'
<1>1. LB!Idle \in LB!Pending /\ LB!Idle.pc = "idle"
  BY DEF LB!Pending, LB!Idle
<1>2. req'[r] = LB!Idle => HeldLB(r)' /\ FreshLB(r)'
  BY <1>1 DEF HeldLB, FreshLB
<1>3. LB!Rows \subseteq LB!Rows'
  BY ItemsLB DEF LB!Rows
<1>4. LB!Rows' \subseteq LB!Ids
  BY DEF LB!Rows
<1>5. ASSUME NEW i \in LB!Rows'
      PROVE  /\ library'[i].parent < i /\ library'[i].version <= i
             /\ \A j \in LB!Ids : j < i => j \in LB!Rows'
  <2>1. CASE i \in LB!Rows
    BY <1>3, <2>1 DEF InvLB, LibraryOK
  <2>2. CASE i \notin LB!Rows
    <3>1. i \in LB!Ids \ LB!Rows /\ library'[i] # LB!NoItem
      BY <2>2, <1>4 DEF LB!Rows
    <3> QED
      BY <1>3, <3>1
  <2> QED
    BY <2>1, <2>2
<1>6. LibraryOK'
  BY <1>5 DEF LibraryOK
<1> QED
  BY <1>1, <1>2, <1>3, <1>6, EnterLB

LEMMA NextLB ==
  ASSUME InvLB, LB!Next
  PROVE  InvLB'
<1>1. PICK r \in Requests :
        \/ LB!ReadForCreate(r) \/ LB!ReadForVersion(r) \/ LB!ReadLatest(r) \/ LB!Insert(r)
        \/ LB!ReadForEdit(r) \/ LB!Edit(r) \/ LB!ReadForDecision(r) \/ LB!WriteStatus(r)
        \/ LB!FindPublished(r) \/ LB!Publish(r)
  BY DEF LB!Next
<1>t. LibraryOK /\ HeldLB(r) /\ (alone => FreshLB(r))
  BY DEF InvLB
<1>v. /\ \A i \in LB!Ids : i \in LB!Rows <=> library[i] \in LB!Versions
      /\ LB!Rows \subseteq LB!Ids /\ LB!NoItem \notin LB!Versions
      /\ library \in [LB!Ids -> LB!Versions \cup {LB!NoItem}]
  BY ItemsLB DEF InvLB, LibraryOK
<1>m. LB!Ids = 1..MaxItems /\ MaxItems \in Nat
  BY RegistersAssumption DEF LB!Ids
<1>i. LB!Idle.pc = "idle"
  BY DEF LB!Idle
<1>0. ASSUME LB!Enter(r, LB!Idle), UNCHANGED library
      PROVE  InvLB'
  <2>1. \A i \in LB!Ids \ LB!Rows : library'[i] = LB!NoItem
    BY <1>0 DEF LB!Rows
  <2> QED
    BY <1>0, <1>v, <2>1, EndsLB
\* A write of one row leaves its parent and its version.
<1>w. ASSUME NEW i \in LB!Rows, NEW row \in LB!Versions, LB!Enter(r, LB!Idle),
             row.parent = library[i].parent, row.version = library[i].version,
             library' = [library EXCEPT ![i] = row]
      PROVE  InvLB'
  <2>1. \A j \in LB!Ids : library'[j] = IF j = i THEN row ELSE library[j]
    BY <1>w, <1>v
  <2>2. library' \in [LB!Ids -> LB!Versions \cup {LB!NoItem}]
    BY <1>w, <1>v
  <2>3. \A j \in LB!Ids \ LB!Rows : library'[j] = LB!NoItem
    BY <2>1 DEF LB!Rows
  <2>4. \A j \in LB!Rows : /\ library'[j] \in LB!Versions
                           /\ library'[j].parent = library[j].parent
                           /\ library'[j].version = library[j].version
    BY <1>w, <2>1, <1>v
  <2> QED
    BY <1>w, <2>2, <2>3, <2>4, EndsLB
<1>2. CASE LB!ReadForCreate(r)
  <2>1. PICK code \in Codes :
          LB!Begin(r, [pc |-> "insert", row |-> LB!Item(TRUE, code, 1, "DRAFT", 0)])
    BY <1>2 DEF LB!ReadForCreate
  <2>2. PICK row : row = LB!Item(TRUE, code, 1, "DRAFT", 0)
    OBVIOUS
  <2>3. row \in [own : BOOLEAN, code : Codes, version : {1}, status : {"DRAFT"}, parent : {0}]
    BY <2>2 DEF LB!Item
  <2>4. row \in LB!Versions /\ row.version = 1 /\ row.status = "DRAFT" /\ row.parent = 0
    BY <2>3 DEF LB!Versions, LB!Statuses
  <2>5. [pc |-> "insert", row |-> row] \in LB!Pending
    <3> HIDE DEF LB!Versions
    <3> QED
      BY <2>4 DEF LB!Pending
  <2>6. LB!Enter(r, [pc |-> "insert", row |-> row]) /\ UNCHANGED library
    BY <2>1, <2>2 DEF LB!Begin
  <2>7. req'[r] = [pc |-> "insert", row |-> row] => HeldLB(r)' /\ FreshLB(r)'
    BY <2>4, <1>m DEF HeldLB, FreshLB
  <2> QED
    BY <2>5, <2>6, <2>7, ReadsLB
<1>3. CASE LB!ReadForVersion(r)
  <2>1. PICK i \in LB!Rows : LB!Begin(r, [pc |-> "number", row |->
          LB!Item(TRUE, library[i].code, library[i].version, "DRAFT", i)])
    BY <1>3 DEF LB!ReadForVersion
  <2>2. PICK row : row = LB!Item(TRUE, library[i].code, library[i].version, "DRAFT", i)
    OBVIOUS
  <2>3. library[i].code \in Codes /\ library[i].version \in Nat /\ i \in LB!Ids
        /\ library[i].version <= i
    BY <1>v, <1>t DEF LibraryOK, LB!Versions
  <2>4. row \in [own : BOOLEAN, code : Codes, version : {library[i].version},
                 status : {"DRAFT"}, parent : {i}]
    BY <2>2, <2>3 DEF LB!Item
  <2>5. row \in LB!Versions /\ row.version = library[i].version /\ row.status = "DRAFT"
        /\ row.parent = i
    BY <2>3, <2>4 DEF LB!Versions, LB!Statuses
  <2>6. [pc |-> "number", row |-> row] \in LB!Pending
    <3> HIDE DEF LB!Versions
    <3> QED
      BY <2>5 DEF LB!Pending
  <2>7. LB!Enter(r, [pc |-> "number", row |-> row]) /\ UNCHANGED library
    BY <2>1, <2>2 DEF LB!Begin
  <2>8. req'[r] = [pc |-> "number", row |-> row] => HeldLB(r)' /\ FreshLB(r)'
    BY <2>3, <2>5, <2>7 DEF HeldLB, FreshLB, LB!Rows
  <2> QED
    BY <2>6, <2>7, <2>8, ReadsLB
<1>4. CASE LB!ReadLatest(r)
  <2>1. req[r].pc = "number" /\ UNCHANGED library
    BY <1>4 DEF LB!ReadLatest, LB!At
  <2>2. PICK old : old = req[r].row
    OBVIOUS
  <2>3. /\ req[r] \in [pc : {"insert", "number"}, row : LB!Versions] /\ old \in LB!Versions
        /\ old.status = "DRAFT" /\ old.parent \in LB!Rows /\ old.version <= old.parent
    BY <2>1, <2>2, <1>t, RequestLB DEF HeldLB
  <2>4. PICK n : n = LB!NextVersion(old)
    OBVIOUS
  <2>5. LB!Latest(old.code) \in Nat /\ old.version \in Nat
        /\ (LB!Latest(old.code) = 0 \/ \E i \in LB!Rows : LB!Latest(old.code) <= i)
    BY <2>3, LatestLB DEF LB!Versions
  <2>6. n \in Nat /\ n > LB!Latest(old.code)
        /\ n = 1 + (IF LB!Latest(old.code) > old.version THEN LB!Latest(old.code) ELSE old.version)
    BY <2>4, <2>5 DEF LB!NextVersion
  <2>7. PICK row : row = [old EXCEPT !.version = n]
    OBVIOUS
  <2>8. /\ row \in LB!Versions /\ row.status = "DRAFT" /\ row.parent = old.parent
        /\ row.version = n /\ row.code = old.code
    BY <2>3, <2>6, <2>7 DEF LB!Versions
  <2>9. [req[r] EXCEPT !.pc = "insert", !.row.version = n] = [pc |-> "insert", row |-> row]
    <3>1. PICK state : state = [req[r] EXCEPT !.pc = "insert", !.row.version = n]
      OBVIOUS
    <3> HIDE DEF LB!Versions
    <3>2. state = [pc |-> "insert", row |-> row]
      BY <2>2, <2>3, <2>7, <3>1
    <3> QED
      BY <3>1, <3>2
  <2>10. LB!Enter(r, [pc |-> "insert", row |-> row])
    BY <1>4, <2>2, <2>4, <2>9 DEF LB!ReadLatest
  <2>11. [pc |-> "insert", row |-> row] \in LB!Pending
    <3> HIDE DEF LB!Versions
    <3> QED
      BY <2>8 DEF LB!Pending
  <2>12. ASSUME NEW i \in LB!Ids \ LB!Rows
         PROVE  row.parent < i /\ row.version <= i
    <3>1. \A j \in LB!Rows : j < i
      BY <1>t, <1>v, <1>m DEF LibraryOK
    <3>2. old.parent < i /\ old.parent \in Nat /\ i \in Nat
      <4>1. old.parent \in 1..MaxItems /\ i \in 1..MaxItems /\ old.parent < i
        BY <2>3, <3>1, <1>v, <1>m
      <4> QED
        BY <4>1, <1>m
    <3>3. LB!Latest(old.code) < i
      <4>1. CASE LB!Latest(old.code) = 0
        BY <4>1, <1>m
      <4>2. CASE LB!Latest(old.code) # 0
        <5>1. PICK j \in LB!Rows : LB!Latest(old.code) <= j
          BY <2>5, <4>2
        <5> QED
          BY <5>1, <3>1, <2>5, <1>v, <1>m
      <4> QED
        BY <4>1, <4>2
    <3> QED
      BY <2>3, <2>5, <2>6, <2>8, <3>2, <3>3
  <2>13. LB!Rows' = LB!Rows
    BY <2>1 DEF LB!Rows
  <2>14. req'[r] = [pc |-> "insert", row |-> row] => HeldLB(r)'
    BY <2>8, <2>12, <2>13 DEF HeldLB
  <2>15. req'[r] = [pc |-> "insert", row |-> row] => FreshLB(r)'
    <3>1. \A code : (LB!Latest(code))' = LB!Latest(code)
      BY <2>1, <2>13 DEF LB!Latest, LB!Own
    <3>2. \A code : code = row.code => row.version > LB!Latest(code)
      BY <2>6, <2>8
    <3> QED
      BY <3>1, <3>2 DEF FreshLB
  <2> QED
    BY <2>1, <2>10, <2>11, <2>14, <2>15, ReadsLB
<1>5. CASE LB!Insert(r)
  <2>1. req[r].pc = "insert" /\ LB!Enter(r, LB!Idle) /\ LB!Rows # LB!Ids
    BY <1>5 DEF LB!Insert, LB!At, LB!Release
  <2>2. PICK n : n = LB!Cardinality(LB!Rows) + 1
    OBVIOUS
  <2>3. library' = library \/ library' = [library EXCEPT ![n] = req[r].row]
    BY <1>5, <2>2 DEF LB!Insert
  <2>4. /\ n \in LB!Ids \ LB!Rows /\ \A j \in LB!Ids : j < n => j \in LB!Rows
    BY <2>1, <2>2, NewRowLB
  <2>5. req[r].row \in LB!Versions /\ req[r].row.parent < n /\ req[r].row.version <= n
    BY <2>1, <2>4, <1>t, RequestLB DEF HeldLB
  <2>6. CASE library' = [library EXCEPT ![n] = req[r].row]
    <3>1. library' \in [LB!Ids -> LB!Versions \cup {LB!NoItem}]
          /\ \A j \in LB!Ids : library'[j] = IF j = n THEN req[r].row ELSE library[j]
      BY <2>4, <2>5, <2>6, <1>v
    <3>2. \A i \in LB!Rows : library'[i] = library[i]
      BY <2>4, <3>1, <1>v
    <3>3. \A i \in LB!Ids \ LB!Rows : library'[i] # LB!NoItem => i = n /\ library'[i] = req[r].row
      BY <3>1 DEF LB!Rows
    <3> QED
      BY <2>1, <2>4, <2>5, <3>1, <3>2, <3>3, <1>v, EndsLB
  <2> QED
    BY <2>1, <2>3, <2>6, <1>0
<1>6. CASE LB!ReadForEdit(r)
  <2>1. PICK i \in LB!Rows, code \in Codes :
          /\ library[i].status \in LB!InWork
          /\ LB!Begin(r, [pc |-> "edit", id |-> i, code |-> code])
    BY <1>6 DEF LB!ReadForEdit
  <2>2. [pc |-> "edit", id |-> i, code |-> code] \in LB!Pending
    BY <1>v DEF LB!Pending
  <2>3. LB!Enter(r, [pc |-> "edit", id |-> i, code |-> code]) /\ UNCHANGED library
    BY <2>1 DEF LB!Begin
  <2>4. req'[r] = [pc |-> "edit", id |-> i, code |-> code] => HeldLB(r)' /\ FreshLB(r)'
    BY <2>1, <2>3 DEF HeldLB, FreshLB, LB!Rows
  <2> QED
    BY <2>2, <2>3, <2>4, ReadsLB
<1>7. CASE LB!Edit(r)
  <2>1. req[r].pc = "edit" /\ LB!Enter(r, LB!Idle)
        /\ (library' = library \/ library' = [library EXCEPT ![req[r].id].code = req[r].code])
    BY <1>7 DEF LB!Edit, LB!At, LB!Release
  <2>2. req[r].id \in LB!Rows /\ req[r].code \in Codes
    BY <2>1, <1>t, RequestLB DEF HeldLB
  <2>3. PICK row : row = [library[req[r].id] EXCEPT !.code = req[r].code]
    OBVIOUS
  <2>4. /\ row \in LB!Versions /\ row.parent = library[req[r].id].parent
        /\ row.version = library[req[r].id].version
    BY <2>2, <2>3, <1>v DEF LB!Versions
  <2> QED
    BY <2>1, <2>2, <2>3, <2>4, <1>0, <1>w
<1>8. CASE LB!ReadForDecision(r)
  <2>1. PICK i \in LB!Rows :
          \/ /\ library[i].status = "DRAFT"
             /\ LB!Begin(r, [pc |-> "status", id |-> i, to |-> "PENDING_APPROVAL"])
          \/ /\ library[i].status # "RETIRED"
             /\ LB!Begin(r, [pc |-> "status", id |-> i, to |-> "RETIRED"])
          \/ /\ library[i].status = "PENDING_APPROVAL"
             /\ LB!Begin(r, [pc |-> "retire", id |-> i, code |-> library[i].code])
    BY <1>8 DEF LB!ReadForDecision
  <2>2. ASSUME NEW to \in {"PENDING_APPROVAL", "RETIRED"}, library[i].status # "RETIRED",
               LB!Begin(r, [pc |-> "status", id |-> i, to |-> to])
        PROVE  InvLB'
    <3>1. [pc |-> "status", id |-> i, to |-> to] \in LB!Pending
      BY <1>v DEF LB!Pending, LB!Statuses
    <3>2. LB!Enter(r, [pc |-> "status", id |-> i, to |-> to]) /\ UNCHANGED library
      BY <2>2 DEF LB!Begin
    <3>3. req'[r] = [pc |-> "status", id |-> i, to |-> to] => HeldLB(r)' /\ FreshLB(r)'
      BY <2>2, <3>2 DEF HeldLB, FreshLB, LB!Rows
    <3> QED
      BY <3>1, <3>2, <3>3, ReadsLB
  <2>3. ASSUME library[i].status = "PENDING_APPROVAL",
               LB!Begin(r, [pc |-> "retire", id |-> i, code |-> library[i].code])
        PROVE  InvLB'
    <3>1. PICK code : code = library[i].code
      OBVIOUS
    <3>2. code \in Codes
      BY <3>1, <1>v DEF LB!Versions
    <3>3. [pc |-> "retire", id |-> i, code |-> code] \in LB!Pending
      BY <3>2, <1>v DEF LB!Pending
    <3>4. LB!Enter(r, [pc |-> "retire", id |-> i, code |-> code]) /\ UNCHANGED library
      BY <2>3, <3>1 DEF LB!Begin
    <3>5. req'[r] = [pc |-> "retire", id |-> i, code |-> code] => HeldLB(r)' /\ FreshLB(r)'
      BY <2>3, <3>1, <3>4 DEF HeldLB, FreshLB, LB!Rows
    <3> QED
      BY <3>3, <3>4, <3>5, ReadsLB
  <2> QED
    BY <2>1, <2>2, <2>3
<1>9. CASE LB!WriteStatus(r)
  <2>1. req[r].pc = "status" /\ LB!Enter(r, LB!Idle)
        /\ library' = [library EXCEPT ![req[r].id].status = req[r].to]
    BY <1>9 DEF LB!WriteStatus, LB!At, LB!Release
  <2>2. req[r].id \in LB!Rows /\ req[r].to \in LB!Statuses
    BY <2>1, <1>t, RequestLB DEF HeldLB
  <2>3. PICK row : row = [library[req[r].id] EXCEPT !.status = req[r].to]
    OBVIOUS
  <2>4. /\ row \in LB!Versions /\ row.parent = library[req[r].id].parent
        /\ row.version = library[req[r].id].version
    BY <2>2, <2>3, <1>v DEF LB!Versions
  <2> QED
    BY <2>1, <2>2, <2>3, <2>4, <1>w
<1>10. CASE LB!FindPublished(r)
  <2>1. req[r].pc = "retire" /\ UNCHANGED library
    BY <1>10 DEF LB!FindPublished, LB!At
  <2>2. req[r].id \in LB!Rows
    BY <2>1, <1>t DEF HeldLB
  <2>3. PICK rows : rows = LB!Published(req[r].code) \ {req[r].id}
    OBVIOUS
  <2>4. rows \in SUBSET LB!Ids
    BY <2>3, <1>v DEF LB!Published, LB!Own
  <2> DEFINE state == [pc |-> "publish", id |-> req[r].id, rows |-> rows]
  <2>5. state \in LB!Pending /\ state.pc = "publish" /\ state.id = req[r].id /\ state.rows = rows
    BY <2>2, <2>4, <1>v DEF LB!Pending
  <2>6. LB!Enter(r, state)
    BY <1>10, <2>3 DEF LB!FindPublished, LB!ToRetire
  <2> HIDE DEF state
  <2>7. req'[r] = state => HeldLB(r)'
    BY <2>1, <2>2, <2>5 DEF HeldLB, LB!Rows
  <2>8. alone /\ FreshLB(r) => library[req[r].id].status = "PENDING_APPROVAL"
                               /\ library[req[r].id].code = req[r].code
    BY <2>1 DEF FreshLB
  <2>9. \A code : LB!Published(code)' = LB!Published(code)
    BY <2>1 DEF LB!Published, LB!Own, LB!Rows
  <2>10. req'[r] = state /\ alone /\ FreshLB(r) => FreshLB(r)'
    <3> SUFFICES ASSUME req'[r] = state, alone, FreshLB(r)
                 PROVE  FreshLB(r)'
      OBVIOUS
    <3>1. library'[state.id].status = "PENDING_APPROVAL"
      BY <2>1, <2>5, <2>8
    <3>2. \A code : code = library'[state.id].code =>
            state.rows = (LB!Published(code))' \ {state.id}
      BY <2>1, <2>3, <2>5, <2>8, <2>9
    <3> QED
      BY <2>5, <3>1, <3>2 DEF FreshLB
  <2>11. req[r] # LB!Idle
    BY <2>1, <1>i
  <2> QED
    BY <2>1, <2>5, <2>6, <2>7, <2>10, <2>11, ReadsLB
<1>11. CASE LB!Publish(r)
  <2>1. req[r].pc = "publish" /\ LB!Enter(r, LB!Idle)
        /\ library' = [i \in LB!Ids |->
             IF i = req[r].id THEN [library[i] EXCEPT !.status = "PUBLISHED"]
             ELSE IF i \in req[r].rows /\ library[i].status = "PUBLISHED"
               THEN [library[i] EXCEPT !.status = "RETIRED"]
               ELSE library[i]]
    BY <1>11 DEF LB!Publish, LB!At, LB!Release
  <2>2. req[r].id \in LB!Rows
    BY <2>1, <1>t DEF HeldLB
  <2>3. LB!NoItem.status = "none"
    BY DEF LB!NoItem
  <2>4. ASSUME NEW i \in LB!Ids
        PROVE  /\ i \notin LB!Rows => library'[i] = LB!NoItem
               /\ i \in LB!Rows => /\ library'[i] \in LB!Versions
                                   /\ library'[i].parent = library[i].parent
                                   /\ library'[i].version = library[i].version
    <3>1. CASE i \notin LB!Rows
      <4>1. library[i] = LB!NoItem /\ i # req[r].id
        BY <2>2, <3>1 DEF LB!Rows
      <4> QED
        BY <2>1, <2>3, <3>1, <4>1
    <3>2. CASE i \in LB!Rows
      <4>1. library[i] \in LB!Versions
        BY <3>2, <1>v
      <4>2. \E status \in LB!Statuses :
              library'[i] = library[i] \/ library'[i] = [library[i] EXCEPT !.status = status]
        BY <2>1 DEF LB!Statuses
      <4> QED
        BY <3>2, <4>1, <4>2 DEF LB!Versions
    <3> QED
      BY <3>1, <3>2
  <2>5. library' \in [LB!Ids -> LB!Versions \cup {LB!NoItem}]
    BY <2>1, <2>4
  <2> QED
    BY <2>1, <2>4, <2>5, <1>v, EndsLB
<1> QED
  BY <1>1, <1>2, <1>3, <1>4, <1>5, <1>6, <1>7, <1>8, <1>9, <1>10, <1>11

\* What OnePublishedVersion says of a step.
LEMMA StepLB ==
  ASSUME InvLB, LB!Next, alone', NEW i \in LB!Ids
  PROVE  /\ library'[i].status = "PUBLISHED" /\ library[i].status # "PUBLISHED" =>
              \A j \in LB!Ids \ {i} : library'[j].status = "PUBLISHED" =>
                 ~library'[j].own \/ library'[j].code # library'[i].code
         /\ library[i].status = "PUBLISHED" => library'[i].code = library[i].code
         /\ library[i].status = "RETIRED" => library'[i] = library[i]
         /\ library[i] = LB!NoItem /\ library'[i] # LB!NoItem =>
              \/ library'[i].parent = 0
              \/ library'[i].version > LB!Latest(library'[i].code)
<1>1. PICK r \in Requests :
        \/ LB!ReadForCreate(r) \/ LB!ReadForVersion(r) \/ LB!ReadLatest(r) \/ LB!Insert(r)
        \/ LB!ReadForEdit(r) \/ LB!Edit(r) \/ LB!ReadForDecision(r) \/ LB!WriteStatus(r)
        \/ LB!FindPublished(r) \/ LB!Publish(r)
  BY DEF LB!Next
<1>t. HeldLB(r)
  BY DEF InvLB
<1>v. /\ \A j \in LB!Ids : j \in LB!Rows <=> library[j] \in LB!Versions
      /\ LB!Rows \subseteq LB!Ids /\ LB!NoItem \notin LB!Versions
      /\ library \in [LB!Ids -> LB!Versions \cup {LB!NoItem}]
  BY ItemsLB DEF InvLB, LibraryOK
<1>n. LB!NoItem.status = "none"
  BY DEF LB!NoItem
<1>2. req[r].pc # "idle" => FreshLB(r)
  <2>1. PICK state : LB!Enter(r, state)
    BY <1>1 DEF LB!ReadForCreate, LB!ReadForVersion, LB!ReadLatest, LB!Insert, LB!ReadForEdit,
       LB!Edit, LB!ReadForDecision, LB!WriteStatus, LB!FindPublished, LB!Publish,
       LB!Begin, LB!Release
  <2>2. alone \/ req[r] = LB!Idle
    BY <2>1 DEF LB!Enter
  <2> QED
    BY <2>2 DEF InvLB, LB!Idle
<1>3. CASE \/ LB!ReadForCreate(r) \/ LB!ReadForVersion(r) \/ LB!ReadLatest(r)
           \/ LB!ReadForEdit(r) \/ LB!ReadForDecision(r) \/ LB!FindPublished(r)
  <2>1. UNCHANGED library
    BY <1>3 DEF LB!ReadForCreate, LB!ReadForVersion, LB!ReadLatest, LB!ReadForEdit,
       LB!ReadForDecision, LB!FindPublished, LB!Begin
  <2> QED
    BY <2>1
<1>4. CASE LB!Insert(r)
  <2>1. req[r].pc = "insert" /\ LB!Rows # LB!Ids
    BY <1>4 DEF LB!Insert, LB!At
  <2>2. PICK n : n = LB!Cardinality(LB!Rows) + 1
    OBVIOUS
  <2>3. library' = library \/ library' = [library EXCEPT ![n] = req[r].row]
    BY <1>4, <2>2 DEF LB!Insert
  <2>4. n \in LB!Ids \ LB!Rows
    BY <2>1, <2>2, NewRowLB
  <2>5. req[r].row.status = "DRAFT"
        /\ (req[r].row.parent = 0 \/ req[r].row.version > LB!Latest(req[r].row.code))
    BY <2>1, <1>t, <1>2 DEF HeldLB, FreshLB
  <2>6. library[n] = LB!NoItem
    BY <2>4 DEF LB!Rows
  <2>7. \A j \in LB!Ids : library'[j] = library[j] \/ (j = n /\ library'[j] = req[r].row)
    BY <2>3, <2>4, <1>v
  <2> QED
    BY <2>5, <2>6, <2>7, <1>n
<1>5. CASE LB!Edit(r)
  <2>1. req[r].pc = "edit"
        /\ (library' = library \/ library' = [library EXCEPT ![req[r].id].code = req[r].code])
    BY <1>5 DEF LB!Edit, LB!At
  <2>2. req[r].id \in LB!Rows /\ library[req[r].id].status \in {"DRAFT", "PENDING_APPROVAL"}
    BY <2>1, <1>t, <1>2 DEF HeldLB, FreshLB, LB!InWork
  <2>3. PICK row : row = [library[req[r].id] EXCEPT !.code = req[r].code]
    OBVIOUS
  <2>4. row.status = library[req[r].id].status
    BY <2>2, <2>3, <1>v DEF LB!Versions
  <2>5. \A j \in LB!Ids : library'[j] = library[j] \/ (j = req[r].id /\ library'[j] = row)
    BY <2>1, <2>2, <2>3, <1>v
  <2>6. library[req[r].id] # LB!NoItem
    BY <2>2, <1>v
  <2> QED
    BY <2>2, <2>4, <2>5, <2>6
<1>6. CASE LB!WriteStatus(r)
  <2>1. req[r].pc = "status" /\ library' = [library EXCEPT ![req[r].id].status = req[r].to]
    BY <1>6 DEF LB!WriteStatus, LB!At
  <2>2. /\ req[r].id \in LB!Rows /\ library[req[r].id].status # "RETIRED"
        /\ req[r].to \in {"PENDING_APPROVAL", "RETIRED"}
    BY <2>1, <1>t, <1>2 DEF HeldLB, FreshLB
  <2>3. PICK row : row = [library[req[r].id] EXCEPT !.status = req[r].to]
    OBVIOUS
  <2>4. row.status = req[r].to /\ row.code = library[req[r].id].code
    BY <2>2, <2>3, <1>v DEF LB!Versions
  <2>5. \A j \in LB!Ids : library'[j] = library[j] \/ (j = req[r].id /\ library'[j] = row)
    BY <2>1, <2>2, <2>3, <1>v
  <2>6. library[req[r].id] # LB!NoItem
    BY <2>2, <1>v
  <2> QED
    BY <2>2, <2>4, <2>5, <2>6
<1>7. CASE LB!Publish(r)
  <2>1. req[r].pc = "publish"
        /\ library' = [j \in LB!Ids |->
             IF j = req[r].id THEN [library[j] EXCEPT !.status = "PUBLISHED"]
             ELSE IF j \in req[r].rows /\ library[j].status = "PUBLISHED"
               THEN [library[j] EXCEPT !.status = "RETIRED"]
               ELSE library[j]]
    BY <1>7 DEF LB!Publish, LB!At
  <2>2. PICK id, code : id = req[r].id /\ code = library[id].code
    OBVIOUS
  <2>3. /\ id \in LB!Rows /\ library[id].status = "PENDING_APPROVAL"
        /\ req[r].rows = LB!Published(code) \ {id}
    BY <2>1, <2>2, <1>t, <1>2 DEF HeldLB, FreshLB
  <2>4. /\ library'[id].status = "PUBLISHED" /\ library'[id].code = code
        /\ library[id] # LB!NoItem
    BY <2>1, <2>2, <2>3, <1>v DEF LB!Versions
  <2>5. ASSUME NEW j \in LB!Ids, j # id
        PROVE  /\ library'[j] = library[j] \/ library'[j] = [library[j] EXCEPT !.status = "RETIRED"]
               /\ library[j].status # "PUBLISHED" => library'[j] = library[j]
               /\ library[j].status = "PUBLISHED" /\ j \in req[r].rows =>
                    library'[j] = [library[j] EXCEPT !.status = "RETIRED"]
    BY <2>1, <2>2, <2>5
  <2>6. ASSUME NEW j \in LB!Ids, j # id, library[j].status = "PUBLISHED"
        PROVE  /\ library'[j].code = library[j].code
               /\ library[j] # LB!NoItem
               /\ library'[j].status = "PUBLISHED" =>
                    library'[j] = library[j] /\ j \notin req[r].rows
    <3>1. library[j] \in LB!Versions /\ library[j] # LB!NoItem
      BY <2>6, <1>n, <1>v
    <3>2. [library[j] EXCEPT !.status = "RETIRED"].status = "RETIRED"
          /\ [library[j] EXCEPT !.status = "RETIRED"].code = library[j].code
      BY <3>1 DEF LB!Versions
    <3> QED
      BY <2>5, <2>6, <3>1, <3>2
  <2>7. ASSUME NEW j \in LB!Ids, j # id, library'[j].status = "PUBLISHED"
        PROVE  ~library'[j].own \/ library'[j].code # code
    <3>1. library[j].status = "PUBLISHED"
      BY <2>5, <2>7
    <3>2. library'[j] = library[j] /\ j \notin LB!Published(code) /\ library[j] # LB!NoItem
      BY <2>3, <2>6, <2>7, <3>1
    <3> QED
      BY <3>1, <3>2 DEF LB!Published, LB!Own, LB!Rows
  <2>8. CASE i = id
    BY <2>3, <2>4, <2>2, <2>7, <2>8
  <2>9. CASE i # id
    BY <2>5, <2>6, <2>9, <1>n
  <2> QED
    BY <2>8, <2>9
<1> QED
  BY <1>1, <1>3, <1>4, <1>5, <1>6, <1>7

-----------------------------------------------------------------------------
(* All registers.  A behaviour is one of its subject; the rows of the      *)
(* others stay as Init leaves them.                                        *)
Inv ==
  /\ subject \in {"timesheet", "library", "programme", "plan", "documents", "access",
                  "universe", "risks"}
  /\ subject = "timesheet" => InvTS
  /\ subject = "library" => InvLB
  /\ subject = "programme" => InvPR
  /\ subject = "plan" => InvPL
  /\ subject = "documents" => InvDC
  /\ subject = "access" => InvAC
  /\ subject = "universe" => InvUN /\ LoneUN
  /\ subject = "risks" => InvRK
  /\ AC!NoHitOlderThanTTL
  /\ RowIsScored

LEMMA InitHolds == Init => Inv
<1> SUFFICES ASSUME Init PROVE Inv
  OBVIOUS
<1>1. TTL \in Nat
  BY RegistersAssumption
<1>2. /\ InvTS /\ InvPR /\ InvPL /\ InvDC
      /\ InvAC /\ InvUN /\ LoneUN /\ InvRK /\ InvLB
  BY <1>1, InitTS, InitPR, InitPL, InitDC, InitAC, InitUN, LoneInitUN, InitRK, InitLB
     DEF Init
<1>3. AC!NoHitOlderThanTTL
  BY <1>2 DEF InvAC
<1>4. RowIsScored
  BY DEF Init, RK!Init, RowIsScored, ScoreOf, RK!Score
<1> QED
  BY <1>2, <1>3, <1>4 DEF Inv, Init

\* What a step of another register leaves of the rows.
LEMMA RestHolds ==
  ASSUME Inv
  PROVE  /\ cache' = cache => AC!NoHitOlderThanTTL'
         /\ risk' = risk => RowIsScored'
<1>1. cache' = cache => AC!NoHitOlderThanTTL'
  BY DEF Inv, AC!NoHitOlderThanTTL
<1>2. risk' = risk => RowIsScored'
  BY DEF Inv, RowIsScored
<1> QED
  BY <1>1, <1>2

\* The parts of the invariant speak of the rows and the requests only.
LEMMA StutterHolds ==
  ASSUME Inv, UNCHANGED vars
  PROVE  Inv'
<1>1. /\ UNCHANGED <<subject, req, alone, sheet, entries, library, programme, steps, papers>>
      /\ UNCHANGED <<plan, items, audits, docs, store, request, report, cache, tree, risk, models>>
  BY DEF vars
<1>2. InvTS => InvTS'
  BY <1>1 DEF InvTS, FreshTS, TS!TypeOK, TS!Editable, TS!Pending, TS!Totals
<1>3. InvLB => InvLB'
  <2>1. LibraryOK => LibraryOK'
    BY <1>1 DEF LibraryOK, LB!Rows
  <2>2. ASSUME NEW r \in Requests
        PROVE  (HeldLB(r) => HeldLB(r)') /\ (FreshLB(r) => FreshLB(r)')
    BY <1>1 DEF HeldLB, FreshLB, LB!Rows, LB!Published, LB!Own, LB!Latest
  <2> QED
    BY <1>1, <2>1, <2>2 DEF InvLB
<1>4. InvPR => InvPR'
  BY <1>1 DEF InvPR, HeldPR, FreshPR, PR!TypeOK, PR!Rows, PR!PapersOf
<1>5. InvPL => InvPL'
  BY <1>1 DEF InvPL, FreshPL, PL!TypeOK, PL!Rows
<1>6. InvDC => InvDC'
  BY <1>1 DEF InvDC, HeldDC, FreshDC, DC!TypeOK, DC!Rows, DC!Live, DC!Uploaded, DC!Closed
<1>7. InvAC => InvAC'
  BY <1>1 DEF InvAC, AC!TypeOK, AC!NoHitOlderThanTTL, LoadsAreYoung, AC!At
<1>8. (InvUN => InvUN') /\ (LoneUN => LoneUN')
  BY <1>1 DEF InvUN, TreeOK, HeldUN, LoneUN, FreshUN, UN!Live, UN!Children
<1>9. InvRK => InvRK'
  BY <1>1 DEF InvRK, FreshRK, RK!Defaults
<1> QED
  BY <1>1, <1>2, <1>3, <1>4, <1>5, <1>6, <1>7, <1>8, <1>9, RestHolds DEF Inv

LEMMA StepHolds == Inv /\ [Next]_vars => Inv'
<1> SUFFICES ASSUME Inv, [Next]_vars PROVE Inv'
  OBVIOUS
<1>0. TTL \in Nat
  BY RegistersAssumption
<1>1. CASE subject = "timesheet" /\ TS!Next
           /\ UNCHANGED <<subject, library, programmes, plans, documents, cache, tree, risks>>
  BY <1>1, NextTS, RestHolds DEF Inv, risks
<1>2. CASE subject = "library" /\ LB!Next
           /\ UNCHANGED <<subject, timesheet, programmes, plans, documents, cache, tree, risks>>
  BY <1>2, NextLB, RestHolds DEF Inv, risks
<1>3. CASE subject = "programme" /\ PR!Next
           /\ UNCHANGED <<subject, timesheet, library, plans, documents, cache, tree, risks>>
  BY <1>3, NextPR, RestHolds DEF Inv, risks
<1>4. CASE subject = "plan" /\ PL!Next
           /\ UNCHANGED <<subject, timesheet, library, programmes, documents, cache, tree, risks>>
  BY <1>4, NextPL, RestHolds DEF Inv, risks
<1>5. CASE subject = "documents" /\ DC!Next
           /\ UNCHANGED <<subject, timesheet, library, programmes, plans, cache, tree, risks>>
  BY <1>5, NextDC, RestHolds DEF Inv, risks
<1>6. CASE subject = "access" /\ AC!Next
           /\ UNCHANGED <<subject, timesheet, library, programmes, plans, documents, tree, risks>>
  <2>1. InvAC'
    BY <1>0, <1>6, NextAC DEF Inv
  <2> QED
    BY <1>6, <2>1, RestHolds DEF Inv, InvAC, risks
<1>7. CASE subject = "universe" /\ UN!Next
           /\ UNCHANGED <<subject, timesheet, library, programmes, plans, documents, cache, risks>>
  BY <1>7, NextUN, LoneNextUN, RestHolds DEF Inv, risks
<1>8. CASE subject = "risks" /\ RK!Next
           /\ UNCHANGED <<subject, timesheet, library, programmes, plans, documents, cache, tree>>
  <2>1. RowIsScored' /\ InvRK'
    BY <1>8, StepRK, NextRK DEF Inv
  <2> QED
    BY <1>8, <2>1, RestHolds DEF Inv
<1>9. CASE UNCHANGED vars
  BY <1>9, StutterHolds
<1> QED
  BY <1>1, <1>2, <1>3, <1>4, <1>5, <1>6, <1>7, <1>8, <1>9 DEF Next

\* A step of a register that is not the subject is none of its rows, and the
\* step that a request is at tells the register.
LEMMA StepOf ==
  ASSUME Inv, [Next]_vars
  PROVE  /\ (subject = "timesheet" /\ TS!Next) \/ entries' = entries
         /\ (subject = "library" /\ LB!Next) \/ library' = library
         /\ (subject = "programme" /\ PR!Next) \/ UNCHANGED <<programme, steps, papers>>
         /\ (subject = "plan" /\ PL!Next) \/ UNCHANGED <<plan, items, audits>>
         /\ (subject = "documents" /\ DC!Next) \/ UNCHANGED <<docs, store, request, report>>
         /\ (subject = "universe" /\ UN!Next) \/ tree' = tree
         /\ (subject = "risks" /\ RK!Next) \/ UNCHANGED <<risk, models>>
<1>1. CASE Next
  BY <1>1 DEF Next, timesheet, programmes, plans, documents, risks
<1>2. CASE UNCHANGED vars
  BY <1>2 DEF vars
<1> QED
  BY <1>1, <1>2

LEMMA RegisterOf ==
  ASSUME Inv, NEW r \in Requests
  PROVE  /\ req[r].pc = "reorder" => subject = "programme"
         /\ req[r].pc \in {"rescore", "promote"} => subject = "risks"
<1>1. subject = "timesheet" => req[r].pc \in {"idle", "write", "commit", "decide"}
  BY RequestTS DEF Inv, InvTS
<1>2. subject = "library" => req[r].pc \notin {"reorder", "rescore", "promote"}
  BY RequestLB DEF Inv, InvLB
<1>3. subject = "programme" => req[r].pc \notin {"rescore", "promote"}
  BY RequestPR DEF Inv, InvPR
<1>4. subject = "plan" => req[r].pc \notin {"reorder", "rescore", "promote"}
  BY RequestPL DEF Inv, InvPL
<1>5. subject = "documents" => req[r].pc \notin {"reorder", "rescore", "promote"}
  BY RequestDC DEF Inv, InvDC
<1>6. subject = "access" => req[r].pc \notin {"reorder", "rescore", "promote"}
  <2>1. subject = "access" =>
          req[r].pc \in {"idle", "query", "store", "invalidate"}
    BY DEF Inv, InvAC, AC!TypeOK, AC!Idle
  <2> QED
    BY <2>1
<1>7. subject = "universe" => req[r].pc \notin {"reorder", "rescore", "promote"}
  BY RequestUN DEF Inv, InvUN
<1>8. subject = "risks" => req[r].pc # "reorder"
  BY RequestRK DEF Inv
<1> QED
  BY <1>1, <1>2, <1>3, <1>4, <1>5, <1>6, <1>7, <1>8 DEF Inv

LEMMA Invariance == Spec => []Inv
BY InitHolds, StepHolds, PTL DEF Spec

-----------------------------------------------------------------------------
(* Whatever requests overlap in a register, its rows, its links and what   *)
(* its requests carry have the types of the schema.                        *)
THEOREM TypesHold == Spec => []TypeOK
<1>1. ASSUME Inv PROVE TypeOK
  <2>1. /\ subject = "timesheet" => TS!TypeOK
        /\ subject = "library" => LB!TypeOK
        /\ subject = "programme" => PR!TypeOK
        /\ subject = "plan" => PL!TypeOK
        /\ subject = "documents" => DC!TypeOK
        /\ subject = "access" => AC!TypeOK
        /\ subject = "universe" => UN!TypeOK
        /\ subject = "risks" => RK!TypeOK
    BY <1>1, TypeLB, TypeUN, TypeRK DEF Inv, InvTS, InvPR, InvPL, InvDC, InvAC
  <2> QED
    BY <1>1, <2>1, Zenon DEF Inv, TypeOK
<1> QED
  BY <1>1, Invariance, PTL

(* No process answers from its cache with a value superseded a time to     *)
(* live ago or longer, whatever loads, changes, invalidations and restarts *)
(* overlap (load, invalidate).                                             *)
THEOREM NoOldHits == Spec => []NoHitOlderThanTTL
<1>1. Inv => NoHitOlderThanTTL
  BY DEF Inv, NoHitOlderThanTTL
<1> QED
  BY <1>1, Invariance, PTL

(* An edit of a timesheet that nothing disturbs leaves the total equal to  *)
(* the sum of the hours, whatever overlapping edits had left of it before, *)
(* and touches no hours that are submitted or approved.                    *)
THEOREM TotalsRestored == Spec => EditsRestoreTheTotal
<1>1. ASSUME Inv, [Next]_vars, alone', entries' # entries
      PROVE  sheet'.total = TS!SumOf(entries') /\ sheet.status \in TS!Editable
  BY <1>1, StepOf, StepTS DEF Inv
<1> QED
  BY <1>1, Invariance, PTL DEF Spec, EditsRestoreTheTotal, TS!EditsRestoreTheTotal

(* However edits and assessments overlap, the score of a risk is that of   *)
(* its own inputs under one model.  A write that nothing disturbs also     *)
(* compares it with the appetite of the row and changes no input it does   *)
(* not name, and one that makes a model the default leaves no other.       *)
THEOREM ScoresHold == Spec => ScoresFollowInputs
<1>1. ASSUME Inv, Inv', [Next]_vars
      PROVE  risk'.score \in {RK!Score(risk', w) : w \in Models \cup {RK!DEFAULT_WEIGHT}}
  BY <1>1 DEF Inv, RowIsScored, ScoreOf, RK!Score
<1>2. ASSUME Inv, [Next]_vars, ~UNCHANGED <<req, alone, risk, models>>, alone',
             NEW r \in Requests
      PROVE  /\ RK!At(r, "rescore") =>
                  /\ risk'.within = (risk'.score <= risk'.appetite)
                  /\ \A f \in (RK!Scored \cup {"appetite"}) \ req[r].named : risk'[f] = risk[f]
             /\ RK!At(r, "promote") /\ req[r].to = "default" => RK!Defaults' = {req[r].id}
  <2>1. CASE subject = "risks" /\ RK!Next
    BY <1>2, <2>1, StepRK DEF Inv, RK!At, RK!Scored, Named
  <2>2. CASE subject # "risks"
    BY <1>2, <2>2, RegisterOf DEF RK!At
  <2>3. subject = "risks" => RK!Next
    BY <1>2 DEF Next, vars
  <2> QED
    BY <2>1, <2>2, <2>3
<1>3. Inv /\ Inv' /\ [Next]_vars =>
        [/\ risk'.score \in {RK!Score(risk', w) : w \in Models \cup {RK!DEFAULT_WEIGHT}}
         /\ alone' => \A r \in Requests :
              /\ RK!At(r, "rescore") =>
                   /\ risk'.within = (risk'.score <= risk'.appetite)
                   /\ \A f \in (RK!Scored \cup {"appetite"}) \ req[r].named :
                        risk'[f] = risk[f]
              /\ RK!At(r, "promote") /\ req[r].to = "default" => RK!Defaults' = {req[r].id}
        ]_(RK!vars)
  BY <1>1, <1>2, Zenon DEF RK!vars
<1> QED
  BY <1>3, Invariance, PTL DEF Spec, ScoresFollowInputs, RK!ScoresFollowInputs

(* An undisturbed request keeps the approver with the status of the plan,  *)
(* and every engagement with its item: none is replaced or made without an *)
(* item, and one that ends gives its item the same end.                    *)
THEOREM PlanLinksHold == Spec => PlanKeepsApproverAndLinks
<1>1. ASSUME Inv, [Next]_vars, ~UNCHANGED <<req, alone, plan, items, audits>>, alone'
      PROVE  /\ PL!ApproverAgrees => PL!ApproverAgrees'
             /\ \A i \in Items : items[i].audit # NoOne => items'[i].audit = items[i].audit
             /\ \A i \in Items, e \in Audits :
                  items[i].audit = e /\ audits'[e] # audits[e] =>
                    items'[i].status = audits'[e]
             /\ \A e \in Audits : audits'[e] = "live" /\ audits[e] = "none" =>
                  \E i \in Items : items'[i].audit = e
  <2>1. CASE subject = "plan" /\ PL!Next
    BY <1>1, <2>1, StepPL DEF Inv
  <2>2. CASE subject # "plan"
    <3>1. UNCHANGED <<plan, items, audits>>
      BY <1>1, <2>2, StepOf
    <3>2. PL!ApproverAgrees => PL!ApproverAgrees'
      BY <3>1 DEF PL!ApproverAgrees
    <3> QED
      BY <1>1, <3>1, <3>2
  <2>3. subject = "plan" => PL!Next
    BY <1>1 DEF Next, vars
  <2> QED
    BY <2>1, <2>2, <2>3
<1>2. Inv /\ [Next]_vars =>
        [alone' =>
             /\ PL!ApproverAgrees => PL!ApproverAgrees'
             /\ \A i \in Items : items[i].audit # NoOne => items'[i].audit = items[i].audit
             /\ \A i \in Items, e \in Audits :
                  items[i].audit = e /\ audits'[e] # audits[e] =>
                    items'[i].status = audits'[e]
             /\ \A e \in Audits : audits'[e] = "live" /\ audits[e] = "none" =>
                  \E i \in Items : items'[i].audit = e]_(PL!vars)
  BY <1>1, Zenon DEF PL!vars
<1> QED
  BY <1>2, Invariance, PTL
     DEF Spec, PlanKeepsApproverAndLinks, PL!PlanKeepsApproverAndLinks

(* An undisturbed request never parts a document from the content that was *)
(* checked, never takes the engagement's report away, and never changes a  *)
(* request for documents that is accepted or cancelled.                    *)
THEOREM DocumentsHold == Spec => DocumentsStayWhole
<1>1. ASSUME Inv, [Next]_vars, alone', ~UNCHANGED <<req, alone, docs, store, request, report>>
      PROVE  /\ \A d \in Docs : DC!IntactIn(d) => DC!IntactIn(d)'
             /\ report \in DC!Uploaded => report' \in DC!Uploaded' \cup {NoOne}
             /\ request.status \in DC!Closed => request' = request
  <2>1. CASE subject = "documents" /\ DC!Next
    BY <1>1, <2>1, StepDC DEF Inv
  <2>2. CASE UNCHANGED <<docs, store, request, report>>
    BY <2>2 DEF DC!IntactIn, DC!Uploaded, DC!Live, DC!Rows
  <2> QED
    BY <1>1, <2>1, <2>2, StepOf
<1>2. Inv /\ [Next]_vars =>
        [alone' => /\ \A d \in Docs : DC!IntactIn(d) => DC!IntactIn(d)'
                   /\ report \in DC!Uploaded => report' \in DC!Uploaded' \cup {NoOne}
                   /\ request.status \in DC!Closed => request' = request]_(DC!vars)
  BY <1>1, Zenon DEF DC!vars
<1> QED
  BY <1>2, Invariance, PTL DEF Spec, DocumentsStayWhole, DC!DocumentsStayWhole

(* An undisturbed request never makes a second published version of a code *)
(* of the organisation, whatever overlapping approvals left before; it     *)
(* changes no published content, revives no retired version, and numbers a *)
(* new version of an item above every other of its code.                   *)
THEOREM OnePublishedHolds == Spec => OnePublishedVersion
<1> DEFINE Kept(i) ==
      /\ library'[i].status = "PUBLISHED" /\ library[i].status # "PUBLISHED" =>
           \A j \in LB!Ids \ {i} : library'[j].status = "PUBLISHED" =>
              ~library'[j].own \/ library'[j].code # library'[i].code
      /\ library[i].status = "PUBLISHED" => library'[i].code = library[i].code
      /\ library[i].status = "RETIRED" => library'[i] = library[i]
      /\ library[i] = LB!NoItem /\ library'[i] # LB!NoItem =>
           \/ library'[i].parent = 0
           \/ library'[i].version > LB!Latest(library'[i].code)
<1>1. ASSUME Inv, [Next]_vars, alone', NEW i \in LB!Ids
      PROVE  Kept(i)
  <2>1. CASE subject = "library" /\ LB!Next
    BY <1>1, <2>1, StepLB DEF Inv
  <2>2. CASE library' = library
    BY <2>2
  <2> QED
    BY <1>1, <2>1, <2>2, StepOf
<1>2. Inv /\ [Next]_vars => [alone' => \A i \in LB!Ids : Kept(i)]_(LB!vars)
  BY <1>1, Zenon
<1> QED
  BY <1>2, Invariance, PTL DEF Spec, OnePublishedVersion, LB!OnePublishedVersion

(* An undisturbed request makes a workpaper from a step only if the step   *)
(* has none, takes no workpaper's step away, puts a new step after all     *)
(* others unless told where, reorders so that no two steps share a         *)
(* position, and approves no empty programme.                              *)
THEOREM StepsHold == Spec => StepsKeepPlaceAndPapers
<1>1. ASSUME Inv, [Next]_vars, ~UNCHANGED <<req, alone, programme, steps, papers>>, alone'
      PROVE  /\ \A k \in PR!PaperKeys : papers[k] \in Steps => papers'[k] = papers[k]
             /\ \A r \in Requests :
                  /\ papers' # papers /\ PR!At(r, "paper") => PR!PapersOf(req[r].id) = {}
                  /\ steps' # steps /\ PR!At(r, "write") /\ req[r].last =>
                       \A t \in PR!Rows : steps[t].position < steps'[req[r].id].position
                  /\ PR!At(r, "reorder") =>
                       \A s, t \in PR!Rows : s # t => steps'[s].position # steps'[t].position
             /\ programme # programme' /\ programme' = "APPROVED" => PR!Rows # {}
  <2>1. CASE subject = "programme" /\ PR!Next
    BY <1>1, <2>1, StepPR DEF Inv, PR!At
  <2>2. CASE subject # "programme"
    <3>1. UNCHANGED <<programme, steps, papers>>
      BY <1>1, <2>2, StepOf
    <3> QED
      BY <1>1, <2>2, <3>1, RegisterOf DEF PR!At
  <2>3. subject = "programme" => PR!Next
    BY <1>1 DEF Next, vars
  <2> QED
    BY <2>1, <2>2, <2>3
<1>2. Inv /\ [Next]_vars =>
        [alone' =>
             /\ \A k \in PR!PaperKeys : papers[k] \in Steps => papers'[k] = papers[k]
             /\ \A r \in Requests :
                  /\ papers' # papers /\ PR!At(r, "paper") => PR!PapersOf(req[r].id) = {}
                  /\ steps' # steps /\ PR!At(r, "write") /\ req[r].last =>
                       \A t \in PR!Rows : steps[t].position < steps'[req[r].id].position
                  /\ PR!At(r, "reorder") =>
                       \A s, t \in PR!Rows : s # t => steps'[s].position # steps'[t].position
             /\ programme # programme' /\ programme' = "APPROVED" => PR!Rows # {}]_(PR!vars)
  BY <1>1, Zenon DEF PR!vars
<1> QED
  BY <1>2, Invariance, PTL
     DEF Spec, StepsKeepPlaceAndPapers, PR!StepsKeepPlaceAndPapers

(* As long as no branch can be longer than what a move looks up, because   *)
(* there are no more entities, an undisturbed request closes no cycle,     *)
(* whatever cycles overlapping moves left before, and leaves no entity     *)
(* under a deleted parent that was not there (updateEntity, isDescendant,  *)
(* deleteEntity, createEntity).                                            *)
THEOREM TreeHolds ==
  ASSUME Cardinality(Entities) <= MaxHops + 1
  PROVE  Spec => TreeStaysATree
<1>1. ASSUME Inv, [Next]_vars, alone'
      PROVE  UN!OnCycle' \subseteq UN!OnCycle /\ UN!Astray' \subseteq UN!Astray
  <2>1. CASE subject = "universe" /\ UN!Next
    <3>1. Size <= MaxHops + 1 /\ InvUN /\ LoneUN
      BY <1>1, <2>1 DEF Size, Inv
    <3>2. Cycles(tree') \subseteq Cycles(tree) /\ UN!Astray' \subseteq UN!Astray
      BY <1>1, <2>1, <3>1, StepUN
    <3> QED
      BY <3>2, CyclesDef
  <2>2. CASE tree' = tree
    <3>1. UN!OnCycle' = UN!OnCycle
      BY <2>2, CyclesDef
    <3> QED
      BY <2>2, <3>1 DEF UN!Astray, UN!Live
  <2> QED
    BY <1>1, <2>1, <2>2, StepOf
<1>2. Inv /\ [Next]_vars =>
        [alone' => UN!OnCycle' \subseteq UN!OnCycle
                   /\ UN!Astray' \subseteq UN!Astray]_(UN!vars)
  BY <1>1, Zenon
<1> QED
  BY <1>2, Invariance, PTL DEF Spec, TreeStaysATree, UN!TreeStaysATree
=============================================================================
