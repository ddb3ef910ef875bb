------------------------------- MODULE Access -------------------------------
(***************************************************************************)
(* The access cache of every API process, for one user: roles, permissions *)
(* and status as one value.  A change of the user invalidates the entry of *)
(* the process that served the change, and of no other.  A load takes the  *)
(* time before its query, and may store what the query found after a       *)
(* change was made and invalidated.                                        *)
(*                                                                         *)
(* Ages are kept in ticks, relative to now, so that time has no bound.     *)
(***************************************************************************)
EXTENDS Handlers, Integers

CONSTANTS
  Processes,    \* processes of the API
  TTL           \* CACHE_TTL_MS, in ticks

VARIABLE cache  \* each process's entry: ticks left, and how long it is superseded

vars == <<req, alone, cache>>

Current == -1       \* a value no change has superseded
NoEntry == [left |-> 0, old |-> Current]

Older(age) == IF age \in 0..TTL - 1 THEN age + 1 ELSE age

\* Broken variant: an entry lives for TTL from when it is stored.
LeftFromStore(elapsed) == TTL

Left(elapsed) == TTL - elapsed

\* load: a hit changes nothing; a miss, or a fresh load, goes to the database.
Load(r) ==
  \E p \in Processes :
    /\ req[r] = Idle
    /\ Enter(r, [pc |-> "query", process |-> p, elapsed |-> 0])
    /\ UNCHANGED cache

Query(r) ==
  /\ At(r, "query")
  /\ Enter(r, [pc |-> "store", process |-> req[r].process,
               elapsed |-> req[r].elapsed, old |-> Current])
  /\ UNCHANGED cache

Store(r) ==
  /\ At(r, "store")
  /\ cache' = [cache EXCEPT ![req[r].process] =
       IF Left(req[r].elapsed) <= 0 THEN NoEntry
       ELSE [left |-> Left(req[r].elapsed), old |-> req[r].old]]
  /\ Release(r)

Superseded(entry) == [entry EXCEPT !.old = IF @ = Current THEN 0 ELSE @]

\* setRoles, update, resetPassword, resetMfa, login: the user is written ...
Change(r) ==
  \E p \in Processes :
    /\ req[r] = Idle
    /\ req' = [s \in Requests |->
         IF s = r THEN [pc |-> "invalidate", process |-> p]
         ELSE IF At(s, "store") THEN Superseded(req[s]) ELSE req[s]]
    /\ alone' = (\A s \in Others(r) : req[s] = Idle)
    /\ cache' = [q \in Processes |->
         IF cache[q] = NoEntry THEN NoEntry ELSE Superseded(cache[q])]

\* ... and then invalidate is called.
Invalidate(r) ==
  /\ At(r, "invalidate")
  /\ cache' = [cache EXCEPT ![req[r].process] = NoEntry]
  /\ Release(r)

\* A process restarts: its map is empty and its requests are gone.
Restart(p) ==
  /\ cache' = [cache EXCEPT ![p] = NoEntry]
  /\ req' = [r \in Requests |->
       IF req[r] # Idle /\ req[r].process = p THEN Idle ELSE req[r]]
  /\ alone' = FALSE

Tick ==
  /\ cache' = [p \in Processes |->
       IF cache[p].left <= 1 THEN NoEntry
       ELSE [left |-> cache[p].left - 1, old |-> Older(cache[p].old)]]
  /\ req' = [r \in Requests |->
       CASE At(r, "query") -> [req[r] EXCEPT !.elapsed = Older(@)]
         [] At(r, "store") -> [req[r] EXCEPT !.elapsed = Older(@), !.old = Older(@)]
         [] OTHER -> req[r]]
  /\ alone' = FALSE

Init ==
  /\ cache = [p \in Processes |-> NoEntry]
  /\ NoRequests

Next ==
  \/ \E r \in Requests :
       \/ Load(r)
       \/ Query(r)
       \/ Store(r)
       \/ Change(r)
       \/ Invalidate(r)
  \/ \E p \in Processes : Restart(p)
  \/ Tick

Spec == Init /\ [][Next]_vars

-----------------------------------------------------------------------------
Ages == {Current} \cup 0..TTL

\* Ages are bounded by TTL, and no expired entry is kept.
TypeOK ==
  /\ cache \in [Processes -> {NoEntry} \cup [left : 1..TTL, old : Ages]]
  /\ req \in [Requests ->
       {Idle} \cup [pc : {"query"}, process : Processes, elapsed : 0..TTL]
              \cup [pc : {"store"}, process : Processes, elapsed : 0..TTL, old : Ages]
              \cup [pc : {"invalidate"}, process : Processes]]

(* No process answers from its cache with a value that was superseded a    *)
(* TTL ago or longer: what an entry has left and what it is out of date    *)
(* never add up to more than TTL, whatever loads, changes and restarts     *)
(* overlap (load, invalidate).                                             *)
NoHitOlderThanTTL ==
  \A p \in Processes : cache[p].left > 0 /\ cache[p].old # Current =>
    cache[p].left + cache[p].old <= TTL
=============================================================================
