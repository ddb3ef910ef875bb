-------------------------- MODULE SessionsProofs --------------------------
(***************************************************************************)
(* Proofs about Sessions: the types of the rows and of the refreshes, that *)
(* an undisturbed session is never taken for a replay, and that a session  *)
(* that has ended stays ended.                                             *)
(***************************************************************************)
EXTENDS Sessions, TLAPS

-----------------------------------------------------------------------------
(* The inductive invariant *)

Row == [family : Families, live : BOOLEAN]

Refresh ==
  [pc : {"read", "kill", "create", "refuse", "revoke", "grant"},
   token : Tokens \cup {NoToken}, next : Tokens \cup {NoToken},
   heard : BOOLEAN, late : BOOLEAN]

\* What is held has a row, and nothing else has.
RowsAreHeld == \A k \in Tokens : tokens[k] # NoRow <=> k \in Held

\* A refresh that goes on after its check was sent with a token.
CheckedHasToken ==
  \A c \in Calls :
    flight[c].pc \in {"kill", "create", "revoke", "grant"} => flight[c].token # NoToken

\* The token of a refresh that was sent late is not live, and is not found so.
LateIsRefused ==
  \A c \in Calls :
    flight[c].late =>
      /\ flight[c].pc \in {"read", "kill", "refuse"}
      /\ flight[c].token = NoToken \/ ~tokens[flight[c].token].live

\* The live tokens of the family of an undisturbed refresh, step by step.
OnlyLive(c) ==
  LET q == flight[c] IN
  /\ q.pc # "kill"
  /\ q.pc \in {"read", "create"} =>
       q.token = NoToken \/ LiveIn(tokens[q.token].family) = {q.token}
  /\ q.pc = "revoke" =>
       LiveIn(tokens[q.token].family) = {q.token, q.next} /\ q.token # q.next
  /\ q.pc = "grant"  => LiveIn(tokens[q.next].family) = {q.next}

Undisturbed ==
  /\ \A c, d \in Flying : c = d
  /\ \A c \in Flying : flight[c].heard
  /\ \A c \in Calls : OnlyLive(c)
  /\ Flying = {} /\ jar # NoToken => LiveIn(tokens[jar].family) = {jar}

IInv ==
  /\ TypeOK
  /\ RowsAreHeld
  /\ CheckedHasToken
  /\ LateIsRefused
  /\ ~disturbed => Undisturbed

-----------------------------------------------------------------------------
(* Ids and rows *)

LEMMA RowFacts ==
  ASSUME TypeOK, RowsAreHeld
  PROVE  /\ NoToken \notin Tokens /\ NoToken \notin Families
         /\ NoRow \notin Row /\ NoRow.family = NoToken /\ NoRow.live = FALSE
         /\ \A k \in Tokens : k \in Held => tokens[k] \in Row /\ tokens[k].family \in Families
         /\ \A k \in Tokens : k \notin Held => tokens[k] = NoRow
         /\ \A c \in Calls : flight[c].token # NoToken => flight[c].token \in Tokens \cap Held
         /\ \A c \in Calls : flight[c].next # NoToken => flight[c].next \in Tokens \cap Held
         /\ jar # NoToken => jar \in Tokens \cap Held
<1>1. NoToken \notin Tokens /\ NoToken \notin Families
  BY FreshIds
<1>2. NoRow \notin Row /\ NoRow.family = NoToken /\ NoRow.live = FALSE
  BY <1>1 DEF NoRow, Row
<1>3. \A k \in Tokens : tokens[k] \in {NoRow} \cup Row
  BY DEF TypeOK, Row
<1>4. \A r \in Row : r.family \in Families
  BY DEF Row
<1>5. /\ \A k \in Tokens : k \in Held => tokens[k] \in Row /\ tokens[k].family \in Families
      /\ \A k \in Tokens : k \notin Held => tokens[k] = NoRow
  BY <1>3, <1>4 DEF RowsAreHeld
<1>6. \A c \in Calls : /\ flight[c].token \in Tokens \cup {NoToken}
                       /\ flight[c].next \in Tokens \cup {NoToken}
  <2> SUFFICES ASSUME NEW c \in Calls
               PROVE  /\ flight[c].token \in Tokens \cup {NoToken}
                      /\ flight[c].next \in Tokens \cup {NoToken}
    OBVIOUS
  <2>1. flight[c] \in {NoFlight} \cup Refresh
    BY DEF TypeOK, Refresh
  <2> QED
    BY <2>1 DEF NoFlight, Refresh
<1>7. jar \in Tokens \cup {NoToken}
  BY DEF TypeOK
<1> QED
  BY <1>1, <1>2, <1>5, <1>6, <1>7 DEF Held

\* An id is free while some call has made no next token.
LEMMA FreeTokenFacts ==
  ASSUME TypeOK, RowsAreHeld, NEW c \in Calls, flight[c].next = NoToken
  PROVE  FreeToken \in Tokens /\ FreeToken \notin Held /\ tokens[FreeToken] = NoRow
<1> DEFINE t == [d \in Calls |-> flight[d].token]
           n == [d \in Calls |-> flight[d].next]
<1>1. \A d \in Calls : /\ flight[d].token \in Tokens \cup {NoToken}
                       /\ flight[d].next \in Tokens \cup {NoToken}
  BY RowFacts
<1>2. t \in [Calls -> Tokens \cup {NoToken}] /\ n \in [Calls -> Tokens \cup {NoToken}]
  BY <1>1
<1>3. jar \in Tokens \cup {NoToken} /\ n[c] = NoToken
  BY DEF TypeOK
<1> HIDE DEF t, n
<1>4. PICK k \in Tokens : k # jar /\ \A d \in Calls : k # t[d] /\ k # n[d]
  BY <1>2, <1>3, FreshIds
<1>5. k \notin Held
  BY <1>4 DEF Held, t, n
<1>6. tokens[k] = NoRow
  BY <1>5 DEF RowsAreHeld
<1>7. FreeToken \in Tokens /\ tokens[FreeToken] = NoRow
  BY <1>6 DEF FreeToken
<1> QED
  BY <1>7 DEF RowsAreHeld

\* A family is free while only the cookie holds a token.
LEMMA FreeFamilyFacts ==
  ASSUME TypeOK, RowsAreHeld, Flying = {}
  PROVE  FreeFamily \in Families /\ Family(FreeFamily) = {}
<1>1. \A k \in Held : k = jar \/ k = NoToken
  BY DEF Held, Flying, NoFlight
<1> DEFINE f == IF jar = NoToken THEN NoToken ELSE tokens[jar].family
<1>2. f \in Families \cup {NoToken}
  BY RowFacts
<1>3. PICK g \in Families : g # f
  BY <1>2, FreshIds
<1>4. \A k \in Tokens : tokens[k].family # g
  <2> SUFFICES ASSUME NEW k \in Tokens, tokens[k].family = g
               PROVE  FALSE
    OBVIOUS
  <2>1. k \in Held
    BY RowFacts, <1>3
  <2>2. k = jar /\ jar # NoToken
    BY <2>1, <1>1, RowFacts
  <2> QED
    BY <2>2, <1>3
<1>5. Family(g) = {}
  BY <1>4 DEF Family
<1> QED
  BY <1>5 DEF FreeFamily

LEMMA RevokeAllFacts ==
  ASSUME TypeOK, RowsAreHeld, NEW K
  PROVE  /\ RevokeAll(K) \in [Tokens -> {NoRow} \cup Row]
         /\ \A k \in Tokens :
              /\ RevokeAll(K)[k].family = tokens[k].family
              /\ RevokeAll(K)[k].live <=> tokens[k].live /\ k \notin K
              /\ RevokeAll(K)[k] = NoRow <=> tokens[k] = NoRow
<1> DEFINE R == RevokeAll(K)
<1>1. \A k \in Tokens :
        R[k] = IF k \in K THEN [tokens[k] EXCEPT !.live = FALSE] ELSE tokens[k]
  BY DEF RevokeAll
<1>2. \A k \in Tokens : tokens[k] \in {NoRow} \cup Row
  BY DEF TypeOK, Row
<1>3. NoRow = [family |-> NoToken, live |-> FALSE] /\ NoToken \notin Families
  BY FreshIds DEF NoRow
<1>4. \A k \in Tokens :
        /\ R[k] \in {NoRow} \cup Row
        /\ R[k].family = tokens[k].family
        /\ R[k].live <=> tokens[k].live /\ k \notin K
        /\ R[k] = NoRow <=> tokens[k] = NoRow
  <2> SUFFICES ASSUME NEW k \in Tokens
               PROVE  /\ R[k] \in {NoRow} \cup Row
                      /\ R[k].family = tokens[k].family
                      /\ R[k].live <=> tokens[k].live /\ k \notin K
                      /\ R[k] = NoRow <=> tokens[k] = NoRow
    OBVIOUS
  <2> HIDE DEF R
  <2>1. CASE tokens[k] \in Row /\ k \in K
    <3>1. PICK f \in Families, l \in BOOLEAN : tokens[k] = [family |-> f, live |-> l]
      BY <2>1 DEF Row
    <3>2. R[k] = [family |-> f, live |-> FALSE]
      BY <1>1, <2>1, <3>1
    <3> QED
      BY <3>1, <3>2, <1>3, <2>1 DEF Row
  <2>2. CASE tokens[k] = NoRow /\ k \in K
    BY <1>1, <2>2, <1>3
  <2>3. CASE k \notin K
    BY <1>1, <1>2, <2>3
  <2> QED
    BY <2>1, <2>2, <2>3, <1>2
<1>5. R = [k \in Tokens |-> R[k]]
  BY DEF RevokeAll
<1> HIDE DEF R
<1>6. R \in [Tokens -> {NoRow} \cup Row]
  BY <1>4, <1>5
<1> QED
  BY <1>4, <1>6 DEF R

\* A step that makes no token, and revokes those in K.
LEMMA RevokingRows ==
  ASSUME TypeOK, RowsAreHeld, NEW K, Held' \cap Tokens \subseteq Held,
         tokens' = [k \in Tokens |-> IF k \in Held' THEN RevokeAll(K)[k] ELSE NoRow]
  PROVE  /\ tokens' \in [Tokens -> {NoRow} \cup Row]
         /\ RowsAreHeld'
         /\ \A k \in Tokens : tokens'[k].live <=> tokens[k].live /\ k \notin K /\ k \in Held'
         /\ \A k \in Tokens : k \in Held' => tokens'[k].family = tokens[k].family
         /\ \A f : LiveIn(f)' \subseteq LiveIn(f)
         /\ \A f : LiveIn(f)' = (LiveIn(f) \ K) \cap Held'
<1> DEFINE R == RevokeAll(K)
<1>1. /\ R \in [Tokens -> {NoRow} \cup Row]
      /\ \A k \in Tokens :
              /\ R[k].family = tokens[k].family
              /\ R[k].live <=> tokens[k].live /\ k \notin K
              /\ R[k] = NoRow <=> tokens[k] = NoRow
  BY RevokeAllFacts
<1> HIDE DEF R
<1>2. \A k \in Tokens : tokens'[k] = IF k \in Held' THEN R[k] ELSE NoRow
  BY DEF R
<1>3. tokens' \in [Tokens -> {NoRow} \cup Row]
  BY <1>1 DEF R
<1>4. RowsAreHeld'
  BY <1>1, <1>2 DEF RowsAreHeld
<1>5. NoRow.live = FALSE
  BY DEF NoRow
<1>6. /\ \A k \in Tokens : tokens'[k].live <=> tokens[k].live /\ k \notin K /\ k \in Held'
      /\ \A k \in Tokens : k \in Held' => tokens'[k].family = tokens[k].family
  BY <1>1, <1>2, <1>5
<1>7. \A f : LiveIn(f)' = {k \in Tokens : tokens'[k].family = f /\ tokens'[k].live}
  BY DEF LiveIn, Family
<1>8. \A f : LiveIn(f) = {k \in Tokens : tokens[k].family = f /\ tokens[k].live}
  BY DEF LiveIn, Family
<1>9. \A f : LiveIn(f)' = (LiveIn(f) \ K) \cap Held'
  BY <1>6, <1>7, <1>8
<1> QED
  BY <1>3, <1>4, <1>6, <1>9

LEMMA StoreRows ==
  ASSUME TypeOK, Store(tokens)
  PROVE  tokens' = [k \in Tokens |-> IF k \in Held' THEN RevokeAll({})[k] ELSE NoRow]
BY DEF Store, RevokeAll

-----------------------------------------------------------------------------
(* Refreshes *)

\* A refresh that goes from one step of the API to the next.
LEMMA FlightMoves ==
  ASSUME TypeOK, NEW c \in Calls, flight[c] # NoFlight,
         NEW p \in {"read", "kill", "create", "refuse", "revoke", "grant"},
         NEW n \in Tokens \cup {NoToken}, NEW h \in BOOLEAN,
         flight' = [flight EXCEPT ![c] = [pc |-> p, token |-> flight[c].token, next |-> n,
                                          heard |-> h, late |-> flight[c].late]]
  PROVE  /\ flight' \in [Calls -> {NoFlight} \cup Refresh]
         /\ flight'[c] = [pc |-> p, token |-> flight[c].token, next |-> n,
                          heard |-> h, late |-> flight[c].late]
         /\ flight'[c] # NoFlight
         /\ \A d \in Calls : d # c => flight'[d] = flight[d]
         /\ Flying' = Flying
<1>1. flight \in [Calls -> {NoFlight} \cup Refresh]
  BY DEF TypeOK, Refresh
<1>2. flight[c] \in Refresh
  BY <1>1
<1>3. [pc |-> p, token |-> flight[c].token, next |-> n, heard |-> h, late |-> flight[c].late]
        \in Refresh
  BY <1>2 DEF Refresh
<1>4. flight'[c] # NoFlight
  BY <1>1 DEF NoFlight
<1> QED
  BY <1>1, <1>3, <1>4 DEF Flying

LEMMA FlightTypes ==
  ASSUME TypeOK, NEW c \in Calls
  PROVE  /\ flight[c] \in {NoFlight} \cup Refresh
         /\ flight[c].pc = "none" <=> flight[c] = NoFlight
         /\ flight[c] # NoFlight =>
              /\ flight[c].pc \in {"read", "kill", "create", "refuse", "revoke", "grant"}
              /\ flight[c].heard \in BOOLEAN
              /\ flight[c].late \in BOOLEAN
              /\ flight[c].token \in Tokens \cup {NoToken}
              /\ flight[c].next \in Tokens \cup {NoToken}
         /\ NoFlight.pc = "none" /\ NoFlight.token = NoToken /\ NoFlight.next = NoToken
         /\ NoFlight.heard = FALSE /\ NoFlight.late = FALSE
<1>1. flight[c] \in {NoFlight} \cup Refresh
  BY DEF TypeOK, Refresh
<1>2. \A q \in Refresh :
        /\ q.pc \in {"read", "kill", "create", "refuse", "revoke", "grant"}
        /\ q.heard \in BOOLEAN /\ q.late \in BOOLEAN
        /\ q.token \in Tokens \cup {NoToken} /\ q.next \in Tokens \cup {NoToken}
  BY DEF Refresh
<1>3. /\ NoFlight.pc = "none" /\ NoFlight.token = NoToken /\ NoFlight.next = NoToken
      /\ NoFlight.heard = FALSE /\ NoFlight.late = FALSE
  BY DEF NoFlight
<1> QED
  BY <1>1, <1>2, <1>3

\* What one refresh of an undisturbed session says of the others.
LEMMA Alone ==
  ASSUME TypeOK, Undisturbed, NEW c \in Calls, flight[c] # NoFlight
  PROVE  /\ \A d \in Calls : d # c => flight[d] = NoFlight
         /\ flight[c].heard
         /\ OnlyLive(c)
BY DEF Undisturbed, Flying

LEMMA HeldSame ==
  ASSUME jar' = jar,
         \A c \in Calls : flight'[c].token = flight[c].token /\ flight'[c].next = flight[c].next
  PROVE  Held' = Held
BY DEF Held

-----------------------------------------------------------------------------
(* Each action keeps the invariant *)

LEMMA Meet401Keeps ==
  ASSUME IInv, NEW c \in Calls, Meet401(c)
  PROVE  IInv'
<1> DEFINE q == [pc |-> "read", token |-> jar, next |-> NoToken, heard |-> TRUE,
                 late |-> Ended(jar)]
<1> USE DEF IInv
<1>0. flight[c] = NoFlight /\ waiting' = waiting \cup {c} /\ UNCHANGED <<tab, jar, access, tokens>>
  BY DEF Meet401
<1>a. NoFlight.pc = "none" /\ NoFlight.token = NoToken /\ NoFlight.next = NoToken
  BY DEF NoFlight
<1>1. CASE TabFlight(c) # {}
  <2>1. UNCHANGED <<flight, disturbed>>
    BY <1>1 DEF Meet401
  <2>2. TypeOK'
    BY <2>1, <1>0, <1>1 DEF TypeOK, TabFlight, Flying
  <2>3. RowsAreHeld' /\ CheckedHasToken' /\ LateIsRefused'
    BY <2>1, <1>0 DEF RowsAreHeld, Held, CheckedHasToken, LateIsRefused
  <2>4. ~disturbed' => Undisturbed'
    BY <2>1, <1>0 DEF Undisturbed, Flying, OnlyLive, LiveIn, Family
  <2> QED
    BY <2>2, <2>3, <2>4
<1>2. CASE TabFlight(c) = {}
  <2>1. flight' = [flight EXCEPT ![c] = q]
    BY <1>2 DEF Meet401
  <2>2. disturbed' = (disturbed \/ \E d \in Flying : tab[d] # tab[c])
    BY <1>2 DEF Meet401
  <2>3. Ended(jar) \in BOOLEAN
    BY DEF Ended
  <2>4. q \in Refresh /\ q.pc = "read" /\ q.token = jar /\ q.next = NoToken
        /\ q.heard /\ (q.late <=> Ended(jar))
    BY <2>3 DEF Refresh, TypeOK
  <2> HIDE DEF q
  <2>5. flight \in [Calls -> {NoFlight} \cup Refresh]
    BY DEF TypeOK, Refresh
  <2>6. flight' \in [Calls -> {NoFlight} \cup Refresh] /\ flight'[c] = q
        /\ \A d \in Calls : d # c => flight'[d] = flight[d]
    BY <2>1, <2>4, <2>5
  <2>7. q # NoFlight
    BY <2>4, <1>a
  <2>8. Flying' = Flying \cup {c}
    BY <2>6, <2>7 DEF Flying
  <2>9. Held' = Held
    <3>1. \A k : k \in Held' <=> k \in Held
      BY <1>0, <1>a, <2>4, <2>6 DEF Held
    <3> QED
      BY <3>1
  <2>10. TypeOK'
    <3>1. \A d \in Calls : flight'[d].pc \in {"revoke", "grant"} <=> flight'[d].next # NoToken
      BY <2>4, <2>6 DEF TypeOK
    <3>2. c \in TabFlight(c)'
      BY <2>4, <2>6, <2>7 DEF TabFlight, Flying
    <3>3. \A d \in waiting : TabFlight(d)' # {}
      <4> SUFFICES ASSUME NEW d \in waiting
                   PROVE  TabFlight(d)' # {}
        OBVIOUS
      <4>1. PICK e \in Flying : tab[e] = tab[d] /\ flight[e].heard
        BY DEF TypeOK, TabFlight
      <4>2. e # c
        BY <4>1, <1>0 DEF Flying
      <4>3. e \in TabFlight(d)'
        BY <4>1, <4>2, <2>6, <2>8, <1>0 DEF TabFlight, Flying
      <4> QED
        BY <4>3
    <3>4. \A d \in waiting' : TabFlight(d)' # {}
      BY <1>0, <3>2, <3>3
    <3>5. disturbed' \in BOOLEAN
      BY <2>2 DEF TypeOK
    <3> QED
      BY <1>0, <2>6, <3>1, <3>4, <3>5 DEF TypeOK, Refresh
  <2>11. RowsAreHeld'
    BY <2>9, <1>0 DEF RowsAreHeld
  <2>12. CheckedHasToken'
    BY <2>4, <2>6 DEF CheckedHasToken
  <2>13. LateIsRefused'
    <3>1. Ended(jar) => jar = NoToken \/ ~tokens[jar].live
      <4>1. jar # NoToken => jar \in Tokens
        BY DEF TypeOK
      <4> QED
        BY <4>1 DEF Ended, LiveIn, Family
    <3> QED
      BY <3>1, <2>4, <2>6, <1>0 DEF LateIsRefused
  <2>14. ASSUME ~disturbed'
         PROVE  Undisturbed'
    <3>1. Undisturbed /\ \A d \in Flying : tab[d] = tab[c]
      BY <2>2, <2>14
    <3>2. Flying = {}
      BY <3>1, <1>2 DEF Undisturbed, TabFlight
    <3>3. \A f : LiveIn(f)' = LiveIn(f)
      BY <1>0 DEF LiveIn, Family
    <3>4. \A d \in Calls : d # c => flight'[d] = NoFlight
      BY <3>2, <2>6 DEF Flying
    <3>5. \A d \in Calls : OnlyLive(d)'
      BY <3>1, <3>2, <3>3, <3>4, <1>0, <1>a, <2>4, <2>6 DEF OnlyLive, Undisturbed
    <3> QED
      BY <2>4, <2>6, <2>8, <3>2, <3>5 DEF Undisturbed
  <2> QED
    BY <2>10, <2>11, <2>12, <2>13, <2>14
<1> QED
  BY <1>1, <1>2

\* A step of the API changes no cookie, and is one refresh that moves on.
LEMMA WaitersKeepTheirFlight ==
  ASSUME TypeOK, NEW c \in Calls, flight[c] # NoFlight,
         NEW p \in {"read", "kill", "create", "refuse", "revoke", "grant"},
         NEW n \in Tokens \cup {NoToken},
         p \in {"revoke", "grant"} <=> n # NoToken,
         flight' = [flight EXCEPT ![c] = [pc |-> p, token |-> flight[c].token, next |-> n,
                                   heard |-> flight[c].heard, late |-> flight[c].late]],
         UNCHANGED <<client, disturbed>>,
         tokens' \in [Tokens -> {NoRow} \cup Row]
  PROVE  TypeOK'
<1>1. flight[c].heard \in BOOLEAN
  BY FlightTypes
<1>2. /\ flight' \in [Calls -> {NoFlight} \cup Refresh]
      /\ flight'[c].pc = p /\ flight'[c].next = n /\ flight'[c].heard = flight[c].heard
      /\ \A d \in Calls : d # c => flight'[d] = flight[d]
      /\ Flying' = Flying
  BY <1>1, FlightMoves
<1>3. \A d \in Calls : TabFlight(d)' = TabFlight(d)
  BY <1>2 DEF TabFlight, client, Flying
<1>4. \A d \in Calls : flight'[d].pc \in {"revoke", "grant"} <=> flight'[d].next # NoToken
  BY <1>2 DEF TypeOK
<1>5. waiting \subseteq Calls
  BY DEF TypeOK
<1>6. \A d \in waiting' : TabFlight(d)' # {}
  BY <1>3, <1>5 DEF TypeOK, client
<1> QED
  BY <1>2, <1>4, <1>6 DEF TypeOK, client, Refresh, Row

LEMMA AdvanceMoves ==
  ASSUME TypeOK, NEW c \in Calls, flight[c] # NoFlight,
         NEW p \in {"read", "kill", "create", "refuse", "revoke", "grant"}, Advance(c, p)
  PROVE  flight' = [flight EXCEPT ![c] = [pc |-> p, token |-> flight[c].token,
                      next |-> flight[c].next, heard |-> flight[c].heard,
                      late |-> flight[c].late]]
<1>1. flight[c] \in Refresh
  BY DEF TypeOK, Refresh
<1>2. PICK o \in {"read", "kill", "create", "refuse", "revoke", "grant"},
           t \in Tokens \cup {NoToken}, n \in Tokens \cup {NoToken},
           h \in BOOLEAN, l \in BOOLEAN :
        flight[c] = [pc |-> o, token |-> t, next |-> n, heard |-> h, late |-> l]
  BY <1>1 DEF Refresh
<1>3. [flight[c] EXCEPT !.pc = p] = [pc |-> p, token |-> t, next |-> n, heard |-> h, late |-> l]
  BY <1>2
<1>4. flight' = [flight EXCEPT ![c] = [flight[c] EXCEPT !.pc = p]]
  BY DEF Advance
<1> QED
  BY <1>2, <1>3, <1>4

\* The check, the revocation of a family and that of a token: no token is made.
LEMMA AdvanceKeeps ==
  ASSUME IInv, NEW c \in Calls, flight[c] # NoFlight,
         NEW p \in {"kill", "create", "refuse", "grant"}, Advance(c, p),
         UNCHANGED <<client, disturbed>>,
         p = "grant" <=> flight[c].next # NoToken,
         p \in {"kill", "create", "grant"} => flight[c].token # NoToken,
         flight[c].late => p \in {"kill", "refuse"},
         NEW K, tokens' = [k \in Tokens |-> IF k \in Held' THEN RevokeAll(K)[k] ELSE NoRow],
         Undisturbed => OnlyLive(c)'
  PROVE  IInv'
<1> USE DEF IInv
<1>0. flight' = [flight EXCEPT ![c] = [pc |-> p, token |-> flight[c].token,
                      next |-> flight[c].next, heard |-> flight[c].heard,
                      late |-> flight[c].late]]
  BY AdvanceMoves
<1>1. flight[c].heard \in BOOLEAN /\ flight[c].late \in BOOLEAN
      /\ flight[c].next \in Tokens \cup {NoToken}
  BY FlightTypes
<1>2. /\ flight'[c].pc = p /\ flight'[c].token = flight[c].token
      /\ flight'[c].next = flight[c].next /\ flight'[c].heard = flight[c].heard
      /\ flight'[c].late = flight[c].late
      /\ \A d \in Calls : d # c => flight'[d] = flight[d]
      /\ Flying' = Flying
  BY <1>0, <1>1, FlightMoves
<1>3. Held' = Held
  BY <1>2 DEF Held, client
<1>4. /\ tokens' \in [Tokens -> {NoRow} \cup Row]
      /\ RowsAreHeld'
      /\ \A k \in Tokens : tokens'[k].live => tokens[k].live
  BY <1>3, RevokingRows
<1>5. TypeOK'
  BY <1>0, <1>1, <1>4, WaitersKeepTheirFlight
<1>6. CheckedHasToken'
  BY <1>2 DEF CheckedHasToken
<1>7. LateIsRefused'
  BY <1>2, <1>4, RowFacts DEF LateIsRefused
<1>8. ASSUME ~disturbed'
      PROVE  Undisturbed'
  <2>1. Undisturbed
    BY <1>8
  <2>2. \A d \in Calls : d # c => flight'[d] = NoFlight
    BY <2>1, <1>2, Alone
  <2>3. \A d \in Calls : OnlyLive(d)'
    BY <2>1, <2>2 DEF OnlyLive, NoFlight
  <2>4. Flying # {}
    BY DEF Flying
  <2> QED
    BY <2>1, <2>3, <2>4, <1>2 DEF Undisturbed, Flying
<1> QED
  BY <1>4, <1>5, <1>6, <1>7, <1>8

LEMMA ReadTokenKeeps ==
  ASSUME IInv, NEW c \in Calls, ReadToken(c)
  PROVE  IInv'
<1> USE DEF IInv
<1>1. PICK p : /\ flight[c].pc = "read" /\ Advance(c, p) /\ UNCHANGED <<client, tokens, disturbed>>
               /\ p = Checked(flight[c].token)
                  \/ (p = "refuse" /\ Checked(flight[c].token) = "create")
  BY DEF ReadToken
<1>2. flight[c] # NoFlight /\ flight[c].next = NoToken
  BY <1>1, FlightTypes DEF TypeOK
<1>3. p \in {"kill", "create", "refuse"}
      /\ (flight[c].token = NoToken => p = "refuse")
      /\ (p = "create" => tokens[flight[c].token].live)
      /\ (p = "kill" => ~tokens[flight[c].token].live)
  BY <1>1 DEF Checked
<1>4. flight' = [flight EXCEPT ![c] = [pc |-> p, token |-> flight[c].token,
                      next |-> flight[c].next, heard |-> flight[c].heard,
                      late |-> flight[c].late]]
  BY <1>1, <1>2, <1>3, AdvanceMoves
<1>5. /\ flight'[c].pc = p /\ flight'[c].token = flight[c].token
      /\ flight'[c].next = flight[c].next
      /\ \A d \in Calls : d # c => flight'[d] = flight[d]
  BY <1>2, <1>3, <1>4, FlightMoves, FlightTypes
<1>6. Held' = Held
  BY <1>1, <1>5 DEF Held, client
<1>7. tokens' = [k \in Tokens |-> IF k \in Held' THEN RevokeAll({})[k] ELSE NoRow]
  <2>1. \A k \in Tokens : k \notin Held' => tokens[k] = NoRow
    BY <1>6 DEF RowsAreHeld
  <2>2. tokens = [k \in Tokens |-> tokens[k]]
    BY DEF TypeOK
  <2> QED
    BY <1>1, <2>1, <2>2 DEF RevokeAll
<1>8. ASSUME Undisturbed
      PROVE  OnlyLive(c)'
  <2>1. flight[c].token = NoToken \/ LiveIn(tokens[flight[c].token].family) = {flight[c].token}
    BY <1>1, <1>8 DEF Undisturbed, OnlyLive
  <2>2. flight[c].token # NoToken => tokens[flight[c].token].live
    BY <2>1, RowFacts DEF LiveIn
  <2>3. \A f : LiveIn(f)' = LiveIn(f)
    BY <1>1 DEF LiveIn, Family
  <2> QED
    BY <1>1, <1>3, <1>5, <2>1, <2>2, <2>3 DEF OnlyLive
<1>9. flight[c].late => p \in {"kill", "refuse"}
  BY <1>3 DEF LateIsRefused
<1> QED
  BY <1>1, <1>2, <1>3, <1>7, <1>8, <1>9, AdvanceKeeps

LEMMA KillKeeps ==
  ASSUME IInv, NEW c \in Calls, Kill(c)
  PROVE  IInv'
<1> USE DEF IInv
<1> DEFINE K == Family(tokens[flight[c].token].family)
<1>1. flight[c].pc = "kill" /\ Advance(c, "refuse") /\ UNCHANGED <<client, disturbed>>
      /\ Store(RevokeAll(K))
  BY DEF Kill
<1>2. flight[c] # NoFlight /\ flight[c].next = NoToken
  BY <1>1, FlightTypes DEF TypeOK
<1>3. tokens' = [k \in Tokens |-> IF k \in Held' THEN RevokeAll(K)[k] ELSE NoRow]
  BY <1>1 DEF Store
<1>4. ~Undisturbed
  BY <1>1 DEF Undisturbed, OnlyLive
<1> QED
  BY <1>1, <1>2, <1>3, <1>4, AdvanceKeeps

LEMMA RevokeOldKeeps ==
  ASSUME IInv, NEW c \in Calls, RevokeOld(c)
  PROVE  IInv'
<1> USE DEF IInv
<1> DEFINE K == {flight[c].token}
<1>1. flight[c].pc = "revoke" /\ Advance(c, "grant") /\ UNCHANGED <<client, disturbed>>
      /\ tokens' = RevokeAll(K)
  BY DEF RevokeOld
<1>2. flight[c] # NoFlight /\ flight[c].next # NoToken /\ flight[c].token # NoToken
  BY <1>1, FlightTypes DEF TypeOK, CheckedHasToken
<1>3. flight' = [flight EXCEPT ![c] = [pc |-> "grant", token |-> flight[c].token,
                      next |-> flight[c].next, heard |-> flight[c].heard,
                      late |-> flight[c].late]]
  BY <1>1, <1>2, AdvanceMoves
<1>4. /\ flight'[c].pc = "grant" /\ flight'[c].token = flight[c].token
      /\ flight'[c].next = flight[c].next
      /\ \A d \in Calls : d # c => flight'[d] = flight[d]
  BY <1>2, <1>3, FlightMoves, FlightTypes
<1>5. Held' = Held
  BY <1>1, <1>4 DEF Held, client
<1>6. tokens' = [k \in Tokens |-> IF k \in Held' THEN RevokeAll(K)[k] ELSE NoRow]
  <2>1. \A k \in Tokens : k \notin Held' => RevokeAll(K)[k] = NoRow
    BY <1>5, RevokeAllFacts DEF RowsAreHeld
  <2>2. RevokeAll(K) = [k \in Tokens |-> RevokeAll(K)[k]]
    BY DEF RevokeAll
  <2> QED
    BY <1>1, <2>1, <2>2
<1>7. ASSUME Undisturbed
      PROVE  OnlyLive(c)'
  <2> DEFINE t == flight[c].token
             n == flight[c].next
  <2>0. PICK f : f = tokens[t].family
    OBVIOUS
  <2>1. LiveIn(f) = {t, n} /\ t # n
    BY <2>0, <1>1, <1>7 DEF Undisturbed, OnlyLive
  <2>2. n \in Tokens \cap Held /\ tokens[n].family = f
    BY <2>1, <1>2, RowFacts DEF LiveIn, Family
  <2>3. /\ \A g : LiveIn(g)' = (LiveIn(g) \ K) \cap Held'
        /\ \A k \in Tokens : k \in Held' => tokens'[k].family = tokens[k].family
    BY <1>5, <1>6, RevokingRows
  <2>4. tokens'[n].family = f
    BY <2>2, <2>3, <1>5
  <2>5. LiveIn(f)' = {n}
    BY <2>1, <2>2, <2>3, <1>5
  <2> QED
    BY <2>5, <2>4, <1>4 DEF OnlyLive
<1>8. ~flight[c].late
  BY <1>1 DEF LateIsRefused
<1> QED
  BY <1>1, <1>2, <1>6, <1>7, <1>8, AdvanceKeeps

LEMMA CreateNextKeeps ==
  ASSUME IInv, NEW c \in Calls, CreateNext(c)
  PROVE  IInv'
<1> USE DEF IInv
<1> DEFINE row == [family |-> tokens[flight[c].token].family, live |-> TRUE]
<1>1. /\ flight[c].pc = "create"
      /\ flight' = [flight EXCEPT ![c].pc = "revoke", ![c].next = FreeToken]
      /\ tokens' = [tokens EXCEPT ![FreeToken] = row]
      /\ UNCHANGED <<client, disturbed>>
  BY DEF CreateNext
<1>2. flight[c] # NoFlight /\ flight[c].next = NoToken /\ flight[c].token # NoToken
  BY <1>1, FlightTypes DEF TypeOK, CheckedHasToken
<1> DEFINE t == flight[c].token
<1>3. PICK n : n = FreeToken
  OBVIOUS
<1>4. n \in Tokens /\ n \notin Held /\ tokens[n] = NoRow /\ n # NoToken
  BY <1>2, <1>3, FreeTokenFacts, FreshIds
<1>5. t \in Tokens /\ t \in Held /\ tokens[t].family \in Families
  BY <1>2, RowFacts
<1>6. flight' = [flight EXCEPT ![c] = [pc |-> "revoke", token |-> t, next |-> n,
                                   heard |-> flight[c].heard, late |-> flight[c].late]]
  <2>1. flight[c] \in Refresh
    BY <1>2 DEF TypeOK, Refresh
  <2>2. PICK q : q = [flight[c] EXCEPT !.pc = "revoke", !.next = n]
    OBVIOUS
  <2>3. q = [pc |-> "revoke", token |-> t, next |-> n,
             heard |-> flight[c].heard, late |-> flight[c].late]
    BY <2>1, <2>2, <1>4 DEF Refresh
  <2>4. flight' = [flight EXCEPT ![c] = q]
    BY <2>2, <1>1, <1>3
  <2> QED
    BY <2>3, <2>4
<1>7. flight[c].heard \in BOOLEAN
  BY <1>2, FlightTypes
<1>8. /\ flight'[c].pc = "revoke" /\ flight'[c].token = t /\ flight'[c].next = n
      /\ flight'[c].heard = flight[c].heard /\ flight'[c].late = flight[c].late
      /\ \A d \in Calls : d # c => flight'[d] = flight[d]
      /\ Flying' = Flying
  BY <1>2, <1>4, <1>6, <1>7, FlightMoves
<1>9. \A k \in Tokens : k \in Held' <=> k \in Held \/ k = n
  <2>1. \A k : k \in Held' <=> \/ k = jar'
                              \/ \E d \in Calls : k = flight'[d].token \/ k = flight'[d].next
    BY DEF Held
  <2>2. \A k : k \in Held <=> \/ k = jar
                             \/ \E d \in Calls : k = flight[d].token \/ k = flight[d].next
    BY DEF Held
  <2>3. jar' = jar
    BY <1>1 DEF client
  <2> QED
    BY <2>1, <2>2, <2>3, <1>2, <1>8, FreshIds
<1> HIDE DEF t
<1>10. row \in Row /\ row # NoRow /\ row.family = tokens[t].family /\ row.live
  BY <1>5, RowFacts DEF Row, t
<1> HIDE DEF row
<1>11. tokens \in [Tokens -> {NoRow} \cup Row]
  BY DEF TypeOK, Row
<1>12. tokens' \in [Tokens -> {NoRow} \cup Row] /\ tokens'[n] = row
       /\ \A k \in Tokens : k # n => tokens'[k] = tokens[k]
  BY <1>1, <1>3, <1>4, <1>10, <1>11
<1>13. TypeOK'
  BY <1>1, <1>2, <1>4, <1>6, <1>12, WaitersKeepTheirFlight DEF t
<1>14. RowsAreHeld'
  BY <1>4, <1>9, <1>10, <1>12 DEF RowsAreHeld
<1>15. CheckedHasToken'
  BY <1>2, <1>8 DEF CheckedHasToken, t
<1>16. LateIsRefused'
  <2>1. ~flight[c].late
    BY <1>1 DEF LateIsRefused
  <2>2. \A d \in Calls : flight[d].token # n
    BY <1>4 DEF Held
  <2>3. \A d \in Calls : flight[d].token \in Tokens \cup {NoToken}
    BY RowFacts
  <2> QED
    BY <1>8, <1>12, <2>1, <2>2, <2>3 DEF LateIsRefused
<1>17. ASSUME ~disturbed'
       PROVE  Undisturbed'
  <2>1. Undisturbed
    BY <1>17, <1>1
  <2>2. \A d \in Calls : d # c => flight'[d] = NoFlight
    BY <2>1, <1>2, <1>8, Alone
  <2>3. PICK f : f = tokens[t].family
    OBVIOUS
  <2>4. LiveIn(f) = {t}
    BY <2>1, <2>3, <1>1, <1>2 DEF Undisturbed, OnlyLive, t
  <2>5. t # n /\ tokens'[t] = tokens[t]
    BY <1>4, <1>5, <1>12
  <2>6. NoRow.live = FALSE
    BY DEF NoRow
  <2>7. \A k \in Tokens : tokens'[k].family = f /\ tokens'[k].live
                            <=> k = n \/ (tokens[k].family = f /\ tokens[k].live)
    BY <1>4, <1>10, <1>12, <2>3, <2>6
  <2>8. LiveIn(f)' = {t, n}
    BY <2>4, <2>7, <1>4 DEF LiveIn, Family
  <2>9. OnlyLive(c)'
    BY <1>8, <2>3, <2>5, <2>8 DEF OnlyLive
  <2>10. \A d \in Calls : OnlyLive(d)'
    BY <2>2, <2>9 DEF OnlyLive, NoFlight
  <2>11. Flying # {}
    BY <1>2 DEF Flying
  <2> QED
    BY <2>1, <2>10, <2>11, <1>8 DEF Undisturbed, Flying
<1> QED
  BY <1>13, <1>14, <1>15, <1>16, <1>17

\* A refresh ends, with or without a reply.
LEMMA EndKeeps ==
  ASSUME IInv, NEW c \in Calls, flight[c] # NoFlight,
         flight' = [flight EXCEPT ![c] = NoFlight], Settle(c), tab' = tab,
         jar' = jar \/ jar' = flight[c].next,
         access' \in BOOLEAN, disturbed' \in BOOLEAN, Store(tokens),
         ~disturbed' => Undisturbed'
  PROVE  IInv'
<1> USE DEF IInv
<1>a. NoFlight.pc = "none" /\ NoFlight.token = NoToken /\ NoFlight.next = NoToken
      /\ NoFlight.heard = FALSE /\ NoFlight.late = FALSE
  BY DEF NoFlight
<1>1. flight \in [Calls -> {NoFlight} \cup Refresh]
  BY DEF TypeOK, Refresh
<1>2. flight' \in [Calls -> {NoFlight} \cup Refresh] /\ flight'[c] = NoFlight
      /\ \A d \in Calls : d # c => flight'[d] = flight[d]
  BY <1>1
<1>3. Held' \cap Tokens \subseteq Held
  <2>1. NoToken \notin Tokens
    BY FreshIds
  <2> QED
    BY <2>1, <1>a, <1>2 DEF Held
<1>4. /\ tokens' \in [Tokens -> {NoRow} \cup Row]
      /\ RowsAreHeld'
      /\ \A k \in Tokens : tokens'[k].live => tokens[k].live
  BY <1>3, RevokingRows, StoreRows
<1>5. TypeOK'
  <2>1. waiting' \subseteq Calls
    BY DEF TypeOK, Settle
  <2>2. \A d \in waiting' : TabFlight(d)' # {}
    <3> SUFFICES ASSUME NEW d \in waiting'
                 PROVE  TabFlight(d)' # {}
      OBVIOUS
    <3>1. d \in waiting /\ d \in Calls /\ (flight[c].heard => tab[d] # tab[c])
      BY DEF Settle, Settled, TypeOK
    <3>2. PICK e \in Flying : tab[e] = tab[d] /\ flight[e].heard
      BY <3>1 DEF TypeOK, TabFlight
    <3>3. e \in Calls /\ e # c
      BY <3>1, <3>2 DEF Flying
    <3>4. e \in TabFlight(d)'
      BY <3>2, <3>3, <1>2 DEF TabFlight, Flying
    <3> QED
      BY <3>4
  <2>3. \A d \in Calls : flight'[d].pc \in {"revoke", "grant"} <=> flight'[d].next # NoToken
    BY <1>a, <1>2 DEF TypeOK
  <2>4. jar' \in Tokens \cup {NoToken}
    BY FlightTypes DEF TypeOK
  <2> QED
    BY <2>1, <2>2, <2>3, <2>4, <1>2, <1>4 DEF TypeOK, Refresh, Row
<1>6. CheckedHasToken'
  BY <1>a, <1>2 DEF CheckedHasToken
<1>7. LateIsRefused'
  BY <1>a, <1>2, <1>4, RowFacts DEF LateIsRefused
<1> QED
  BY <1>4, <1>5, <1>6, <1>7

LEMMA ReplyKeeps ==
  ASSUME IInv, NEW c \in Calls, Reply(c)
  PROVE  IInv'
<1> USE DEF IInv
<1>1. /\ flight[c].pc \in {"grant", "refuse"}
      /\ IF flight[c].heard
           THEN jar' = flight[c].next /\ access' = (flight[c].pc = "grant")
           ELSE UNCHANGED <<jar, access>>
      /\ Settle(c)
      /\ flight' = [flight EXCEPT ![c] = NoFlight]
      /\ Store(tokens)
      /\ UNCHANGED <<tab, disturbed>>
  BY DEF Reply
<1>2. flight[c] # NoFlight
  BY <1>1, FlightTypes
<1>3. disturbed' \in BOOLEAN /\ access' \in BOOLEAN
  BY <1>1 DEF TypeOK
<1>4. ASSUME ~disturbed'
      PROVE  Undisturbed'
  <2>1. Undisturbed
    BY <1>1, <1>4
  <2>2. flight[c].heard /\ OnlyLive(c) /\ \A d \in Calls : d # c => flight[d] = NoFlight
    BY <2>1, <1>2, Alone
  <2>3. flight \in [Calls -> {NoFlight} \cup Refresh]
    BY DEF TypeOK, Refresh
  <2>4. \A d \in Calls : flight'[d] = NoFlight
    BY <2>2, <2>3, <1>1
  <2>5. Flying' = {}
    BY <2>4 DEF Flying
  <2>6. jar' = flight[c].next
    BY <1>1, <2>2
  <2>7. ASSUME jar' # NoToken
        PROVE  LiveIn(tokens[jar].family)' = {jar'}
    <3> DEFINE n == flight[c].next
    <3>1. flight[c].pc = "grant" /\ n \in Tokens /\ n \in Held
      BY <2>6, <2>7, <1>1, RowFacts DEF TypeOK
    <3>2. PICK f : f = tokens[n].family
      OBVIOUS
    <3>3. LiveIn(f) = {n}
      BY <2>2, <3>1, <3>2 DEF OnlyLive
    <3>4. n \in Held'
      BY <2>6 DEF Held
    <3>5. Held' \cap Tokens \subseteq Held
      BY <2>4, <2>6, <3>1, FreshIds DEF Held, NoFlight
    <3>6. /\ \A g : LiveIn(g)' = (LiveIn(g) \ {}) \cap Held'
          /\ \A k \in Tokens : k \in Held' => tokens'[k].family = tokens[k].family
      BY <3>5, <1>1, StoreRows, RevokingRows
    <3>7. LiveIn(f)' = {n}
      BY <3>3, <3>4, <3>6
    <3>8. tokens'[n].family = f
      BY <3>1, <3>2, <3>4, <3>6
    <3> QED
      BY <3>7, <3>8, <2>6
  <2> QED
    BY <2>4, <2>5, <2>7 DEF Undisturbed, OnlyLive, NoFlight
<1>5. jar' = jar \/ jar' = flight[c].next
  BY <1>1
<1> QED
  BY <1>1, <1>2, <1>3, <1>4, <1>5, EndKeeps

LEMMA CrashKeeps ==
  ASSUME IInv, NEW c \in Calls, Crash(c)
  PROVE  IInv'
<1>1. flight[c] # NoFlight /\ access' = access
  BY DEF Crash, Flying
<1>2. access' \in BOOLEAN /\ disturbed' \in BOOLEAN /\ disturbed'
  BY <1>1 DEF Crash, IInv, TypeOK
<1> QED
  BY <1>1, <1>2, EndKeeps DEF Crash

LEMMA DisconnectKeeps ==
  ASSUME IInv, NEW c \in Calls, Disconnect(c)
  PROVE  IInv'
<1> USE DEF IInv
<1>1. /\ flight[c].heard
      /\ Settle(c)
      /\ flight' = [flight EXCEPT ![c].heard = FALSE]
      /\ disturbed' = TRUE
      /\ UNCHANGED <<tab, jar, access, tokens>>
  BY DEF Disconnect
<1>2. flight[c] # NoFlight
  BY <1>1, FlightTypes
<1>3. flight' = [flight EXCEPT ![c] = [pc |-> flight[c].pc, token |-> flight[c].token,
                    next |-> flight[c].next, heard |-> FALSE, late |-> flight[c].late]]
  <2>1. flight[c] \in Refresh
    BY <1>2 DEF TypeOK, Refresh
  <2>2. PICK q : q = [flight[c] EXCEPT !.heard = FALSE]
    OBVIOUS
  <2>3. q = [pc |-> flight[c].pc, token |-> flight[c].token, next |-> flight[c].next,
             heard |-> FALSE, late |-> flight[c].late]
    BY <2>1, <2>2 DEF Refresh
  <2>4. flight' = [flight EXCEPT ![c] = q]
    BY <2>2, <1>1
  <2> QED
    BY <2>3, <2>4
<1>4. /\ flight' \in [Calls -> {NoFlight} \cup Refresh]
      /\ flight'[c].pc = flight[c].pc /\ flight'[c].token = flight[c].token
      /\ flight'[c].next = flight[c].next /\ flight'[c].late = flight[c].late
      /\ \A d \in Calls : d # c => flight'[d] = flight[d]
      /\ Flying' = Flying
  BY <1>2, <1>3, FlightMoves, FlightTypes
<1>5. Held' = Held
  BY <1>1, <1>4 DEF Held
<1>6. TypeOK'
  <2>1. waiting' \subseteq Calls
    BY <1>1 DEF TypeOK, Settle
  <2>2. \A d \in waiting' : TabFlight(d)' # {}
    <3> SUFFICES ASSUME NEW d \in waiting'
                 PROVE  TabFlight(d)' # {}
      OBVIOUS
    <3>1. d \in waiting /\ d \in Calls /\ tab[d] # tab[c]
      BY <1>1 DEF Settle, Settled, TypeOK
    <3>2. PICK e \in Flying : tab[e] = tab[d] /\ flight[e].heard
      BY <3>1 DEF TypeOK, TabFlight
    <3>3. e \in Calls /\ e # c
      BY <3>1, <3>2 DEF Flying
    <3>4. e \in TabFlight(d)'
      BY <3>2, <3>3, <1>1, <1>4 DEF TabFlight, Flying
    <3> QED
      BY <3>4
  <2>3. \A d \in Calls : flight'[d].pc \in {"revoke", "grant"} <=> flight'[d].next # NoToken
    BY <1>4 DEF TypeOK
  <2> QED
    BY <2>1, <2>2, <2>3, <1>1, <1>4 DEF TypeOK, Refresh
<1>7. RowsAreHeld' /\ CheckedHasToken' /\ LateIsRefused'
  BY <1>1, <1>4, <1>5 DEF RowsAreHeld, CheckedHasToken, LateIsRefused
<1> QED
  BY <1>1, <1>6, <1>7

\* What happens besides the refreshes: only the cookies and the rows change.
LEMMA ElsewhereKeeps ==
  ASSUME IInv, UNCHANGED <<tab, waiting, flight>>,
         jar' \in Tokens \cup {NoToken}, access' \in BOOLEAN, disturbed' \in BOOLEAN,
         tokens' \in [Tokens -> {NoRow} \cup Row], RowsAreHeld',
         \A k \in Tokens \cap Held : tokens'[k].live => tokens[k].live,
         ~disturbed' => Undisturbed'
  PROVE  IInv'
<1> USE DEF IInv
<1>1. TypeOK'
  BY DEF TypeOK, Row, TabFlight, Flying
<1>2. CheckedHasToken' /\ LateIsRefused'
  BY RowFacts DEF CheckedHasToken, LateIsRefused
<1> QED
  BY <1>1, <1>2

LEMMA SignInKeeps ==
  ASSUME IInv, SignIn
  PROVE  IInv'
<1> USE DEF IInv
<1> DEFINE row == [family |-> FreeFamily, live |-> TRUE]
<1>1. /\ Flying = {} /\ jar' = FreeToken /\ access' = TRUE /\ disturbed' = FALSE
      /\ UNCHANGED <<tab, waiting, flight>>
      /\ tokens' = [k \in Tokens |->
           IF k \in Held' THEN [tokens EXCEPT ![FreeToken] = row][k] ELSE NoRow]
  BY DEF SignIn, Store
<1>2. \A c \in Calls : flight[c] = NoFlight
  BY <1>1 DEF Flying
<1>3. PICK c \in Calls : TRUE
  BY FreshIds
<1>4. flight[c].next = NoToken
  BY <1>2, <1>3 DEF NoFlight
<1>5. PICK n : n = FreeToken
  OBVIOUS
<1>6. n \in Tokens /\ n \notin Held /\ tokens[n] = NoRow
  BY <1>3, <1>4, <1>5, FreeTokenFacts
<1>7. PICK f : f = FreeFamily
  OBVIOUS
<1>8. f \in Families /\ Family(f) = {}
  BY <1>1, <1>7, FreeFamilyFacts
<1>9. \A k \in Tokens : k \in Held' <=> k = n
  BY <1>1, <1>2, <1>5, FreshIds DEF Held, NoFlight
<1>10. row \in Row /\ row # NoRow /\ row.family = f /\ row.live
  BY <1>7, <1>8, RowFacts DEF Row
<1> HIDE DEF row
<1>11. \A k \in Tokens : tokens'[k] = IF k = n THEN row ELSE NoRow
  BY <1>1, <1>5, <1>9 DEF TypeOK
<1>12. tokens' \in [Tokens -> {NoRow} \cup Row]
  <2>1. tokens' = [k \in Tokens |-> tokens'[k]]
    BY <1>1
  <2> QED
    BY <2>1, <1>10, <1>11
<1>13. RowsAreHeld'
  BY <1>9, <1>10, <1>11 DEF RowsAreHeld
<1>14. \A k \in Tokens \cap Held : tokens'[k].live => tokens[k].live
  BY <1>6, <1>11 DEF NoRow
<1>15. Undisturbed'
  <2>1. LiveIn(f)' = {n}
    BY <1>6, <1>10, <1>11 DEF LiveIn, Family, NoRow
  <2>2. tokens'[n].family = f /\ jar' = n
    BY <1>1, <1>5, <1>6, <1>10, <1>11
  <2>3. Flying' = {}
    BY <1>1 DEF Flying
  <2> QED
    BY <1>1, <1>2, <2>1, <2>2, <2>3 DEF Undisturbed, OnlyLive, NoFlight
<1> QED
  BY <1>1, <1>5, <1>6, <1>12, <1>13, <1>14, <1>15, ElsewhereKeeps

\* What only revokes tokens, and leaves the cookie or clears it.
LEMMA RevocationKeeps ==
  ASSUME IInv, UNCHANGED <<tab, waiting, flight>>, jar' \in {jar, NoToken},
         access' \in BOOLEAN, disturbed' \in BOOLEAN,
         NEW K, tokens' = [k \in Tokens |-> IF k \in Held' THEN RevokeAll(K)[k] ELSE NoRow],
         ~disturbed' =>
           /\ ~disturbed
           /\ K = {} \/ (Flying = {} /\ (jar' # NoToken => jar \notin K))
  PROVE  IInv'
<1> USE DEF IInv
<1>1. jar \in Tokens \cup {NoToken}
  BY DEF TypeOK
<1>2. Held' \cap Tokens \subseteq Held
  BY FreshIds DEF Held
<1>3. /\ tokens' \in [Tokens -> {NoRow} \cup Row]
      /\ RowsAreHeld'
      /\ \A k \in Tokens : tokens'[k].live => tokens[k].live
      /\ \A k \in Tokens : k \in Held' => tokens'[k].family = tokens[k].family
      /\ \A f : LiveIn(f)' = (LiveIn(f) \ K) \cap Held'
  BY <1>2, RevokingRows
<1>4. ASSUME ~disturbed'
      PROVE  Undisturbed'
  <2>1. Undisturbed /\ (K = {} \/ (Flying = {} /\ (jar' # NoToken => jar \notin K)))
    BY <1>4
  <2>2. Flying' = Flying
    BY DEF Flying
  <2>3. ASSUME NEW c \in Calls
        PROVE  OnlyLive(c)'
    <3>1. CASE flight[c] = NoFlight
      BY <3>1 DEF OnlyLive, NoFlight
    <3>2. CASE flight[c] # NoFlight
      <4>1. K = {} /\ OnlyLive(c)
        BY <2>1, <3>2 DEF Flying, Undisturbed
      <4>2. /\ flight'[c] = flight[c]
            /\ flight[c].token # NoToken => flight[c].token \in Tokens /\ flight[c].token \in Held'
            /\ flight[c].next # NoToken => flight[c].next \in Tokens /\ flight[c].next \in Held'
        BY RowFacts DEF Held
      <4>3. \A f : LiveIn(f)' = LiveIn(f) \cap Held'
        BY <4>1, <1>3
      <4>4. flight[c].pc = "revoke" => flight[c].token # NoToken /\ flight[c].next # NoToken
        BY DEF CheckedHasToken, TypeOK
      <4>5. flight[c].pc = "grant" => flight[c].next # NoToken
        BY DEF TypeOK
      <4>6. flight[c].pc \in {"read", "create"} => OnlyLive(c)'
        <5> SUFFICES ASSUME flight[c].pc \in {"read", "create"}, flight[c].token # NoToken
                     PROVE  LiveIn(tokens[flight[c].token].family)' = {flight'[c].token}
          BY <4>2 DEF OnlyLive
        <5>1. PICK t, f : t = flight[c].token /\ f = tokens[t].family
          OBVIOUS
        <5>2. LiveIn(f) = {t} /\ t \in Tokens /\ t \in Held'
          BY <4>1, <4>2, <5>1 DEF OnlyLive
        <5>3. LiveIn(f)' = {t} /\ tokens'[t].family = f
          BY <4>3, <5>1, <5>2, <1>3
        <5> QED
          BY <5>1, <5>3, <4>2
      <4>7. flight[c].pc = "revoke" => OnlyLive(c)'
        <5> SUFFICES ASSUME flight[c].pc = "revoke"
                     PROVE  /\ LiveIn(tokens[flight[c].token].family)'
                                 = {flight'[c].token, flight'[c].next}
                            /\ flight[c].token # flight[c].next
          BY <4>2 DEF OnlyLive
        <5>1. PICK t, n, f : t = flight[c].token /\ n = flight[c].next /\ f = tokens[t].family
          OBVIOUS
        <5>2. LiveIn(f) = {t, n} /\ t # n /\ t \in Tokens /\ t \in Held' /\ n \in Held'
          BY <4>1, <4>2, <4>4, <5>1 DEF OnlyLive
        <5>3. LiveIn(f)' = {t, n} /\ tokens'[t].family = f
          BY <4>3, <5>1, <5>2, <1>3
        <5> QED
          BY <5>1, <5>2, <5>3, <4>2
      <4>8. flight[c].pc = "grant" => OnlyLive(c)'
        <5> SUFFICES ASSUME flight[c].pc = "grant"
                     PROVE  LiveIn(tokens[flight[c].next].family)' = {flight'[c].next}
          BY <4>2 DEF OnlyLive
        <5>1. PICK n, f : n = flight[c].next /\ f = tokens[n].family
          OBVIOUS
        <5>2. LiveIn(f) = {n} /\ n \in Tokens /\ n \in Held'
          BY <4>1, <4>2, <4>5, <5>1 DEF OnlyLive
        <5>3. LiveIn(f)' = {n} /\ tokens'[n].family = f
          BY <4>3, <5>1, <5>2, <1>3
        <5> QED
          BY <5>1, <5>3, <4>2
      <4> QED
        BY <4>1, <4>2, <4>6, <4>7, <4>8 DEF OnlyLive
    <3> QED
      BY <3>1, <3>2
  <2>4. ASSUME Flying = {}, jar' # NoToken
        PROVE  LiveIn(tokens[jar].family)' = {jar'}
    <3>1. PICK j, f : j = jar /\ f = tokens[j].family
      OBVIOUS
    <3>2. jar' = j /\ j \in Tokens /\ LiveIn(f) = {j} /\ j \notin K /\ j \in Held'
      BY <2>1, <2>4, <3>1, <1>1 DEF Undisturbed, Held
    <3>3. LiveIn(f)' = {j} /\ tokens'[j].family = f
      BY <3>1, <3>2, <1>3
    <3> QED
      BY <3>2, <3>3
  <2> QED
    BY <2>1, <2>2, <2>3, <2>4 DEF Undisturbed
<1>5. jar' \in Tokens \cup {NoToken}
  BY <1>1
<1> QED
  BY <1>3, <1>4, <1>5, ElsewhereKeeps

LEMMA LogoutKeeps ==
  ASSUME IInv, Logout
  PROVE  IInv'
<1> USE DEF IInv
<1>1. /\ jar' = NoToken /\ access' = FALSE
      /\ disturbed' = (disturbed \/ Flying # {})
      /\ UNCHANGED <<tab, waiting, flight>>
      /\ Store(IF tokens[jar].live THEN RevokeAll(Family(tokens[jar].family)) ELSE tokens)
  BY DEF Logout
<1>2. disturbed' \in BOOLEAN /\ access' \in BOOLEAN
  BY <1>1 DEF TypeOK
<1> DEFINE K == IF tokens[jar].live THEN Family(tokens[jar].family) ELSE {}
<1>3. RevokeAll({}) = tokens
  BY DEF RevokeAll, TypeOK
<1>4. tokens' = [k \in Tokens |-> IF k \in Held' THEN RevokeAll(K)[k] ELSE NoRow]
  BY <1>1, <1>3 DEF Store
<1> HIDE DEF K
<1> QED
  BY <1>1, <1>2, <1>4, RevocationKeeps

LEMMA RevokeSessionsKeeps ==
  ASSUME IInv, RevokeSessions
  PROVE  IInv'
<1> USE DEF IInv
<1>1. UNCHANGED <<tab, waiting, jar, access, flight>>
  BY DEF RevokeSessions, client
<1>2. PICK kept \in {{}} \cup {Family(tokens[k].family) : k \in {jar} \ {NoToken}} :
        /\ Store(RevokeAll(Tokens \ kept))
        /\ disturbed' = (disturbed \/ kept = {} \/ Flying # {})
  BY DEF RevokeSessions
<1>3. disturbed' \in BOOLEAN /\ access' \in BOOLEAN
  BY <1>1, <1>2 DEF TypeOK
<1>4. tokens' = [k \in Tokens |-> IF k \in Held' THEN RevokeAll(Tokens \ kept)[k] ELSE NoRow]
  BY <1>2 DEF Store
<1>5. ASSUME ~disturbed'
      PROVE  ~disturbed /\ Flying = {} /\ (jar' # NoToken => jar \notin Tokens \ kept)
  BY <1>2, <1>5 DEF Family
<1> QED
  BY <1>1, <1>3, <1>4, <1>5, RevocationKeeps

LEMMA ExpireKeeps ==
  ASSUME IInv, Expire
  PROVE  IInv'
<1> USE DEF IInv
<1>1. /\ access' = FALSE /\ jar' \in {jar, NoToken}
      /\ UNCHANGED <<tab, waiting, flight, disturbed>>
      /\ Store(tokens)
  BY DEF Expire
<1>2. disturbed' \in BOOLEAN /\ access' \in BOOLEAN
  BY <1>1 DEF TypeOK
<1>3. tokens' = [k \in Tokens |-> IF k \in Held' THEN RevokeAll({})[k] ELSE NoRow]
  BY <1>1, StoreRows
<1> QED
  BY <1>1, <1>2, <1>3, RevocationKeeps

LEMMA InitHolds ==
  ASSUME Init
  PROVE  IInv
<1>1. \A c \in Calls : flight[c] = NoFlight
  BY DEF Init
<1>2. Flying = {} /\ \A k \in Tokens : k \notin Held
  BY <1>1, FreshIds DEF Init, Flying, Held, NoFlight
<1>3. TypeOK
  BY <1>1 DEF Init, TypeOK, NoFlight
<1>4. RowsAreHeld
  BY <1>2 DEF Init, RowsAreHeld
<1>5. CheckedHasToken /\ LateIsRefused
  BY <1>1 DEF CheckedHasToken, LateIsRefused, NoFlight
<1>6. Undisturbed
  BY <1>1, <1>2 DEF Init, Undisturbed, OnlyLive, NoFlight
<1> QED
  BY <1>3, <1>4, <1>5, <1>6 DEF IInv

LEMMA NextKeeps ==
  ASSUME IInv, [Next]_vars
  PROVE  IInv'
<1>1. ASSUME NEW c \in Calls, Meet401(c) \/ ServerStep(c) \/ Disconnect(c) \/ Crash(c)
      PROVE  IInv'
  BY <1>1, Meet401Keeps, ReadTokenKeeps, KillKeeps, CreateNextKeeps, RevokeOldKeeps,
     ReplyKeeps, DisconnectKeeps, CrashKeeps DEF ServerStep
<1>2. CASE UNCHANGED vars
  <2>1. UNCHANGED <<tab, waiting, flight, jar, access, tokens, disturbed>>
    BY <1>2 DEF vars
  <2>2. TypeOK'
    BY <2>1 DEF IInv, TypeOK, TabFlight, Flying
  <2>3. RowsAreHeld' /\ CheckedHasToken' /\ LateIsRefused'
    BY <2>1 DEF IInv, RowsAreHeld, Held, CheckedHasToken, LateIsRefused
  <2>4. ~disturbed' => Undisturbed'
    BY <2>1 DEF IInv, Undisturbed, Flying, OnlyLive, LiveIn, Family
  <2> QED
    BY <2>2, <2>3, <2>4 DEF IInv
<1>3. CASE Next
  BY <1>1, <1>3, SignInKeeps, LogoutKeeps, RevokeSessionsKeeps, ExpireKeeps DEF Next
<1> QED
  BY <1>2, <1>3

-----------------------------------------------------------------------------
(* The theorems *)

LEMMA InvariantHolds == Spec => []IInv
BY InitHolds, NextKeeps, PTL DEF Spec

(* Whatever calls, refreshes, sign-ins, revocations and crashes there are, *)
(* the rows and the cookies keep their types, a next token is there from   *)
(* CreateNext on, and a call that waits has a refresh of its tab that will *)
(* wake it (request, tryRefresh, refresh).                                 *)
THEOREM TypesHold == Spec => []TypeOK
<1>1. IInv => TypeOK
  BY DEF IInv
<1> QED
  BY <1>1, InvariantHolds, PTL

(* A session that only one tab refreshes at a time, with no failure and no *)
(* revocation made elsewhere, is never taken for a replay, and between     *)
(* refreshes the cookie holds its one live token (tryRefresh, refresh).    *)
THEOREM NoFalseAlarmHolds == Spec => []NoFalseAlarm
<1>1. IInv => NoFalseAlarm
  BY DEF IInv, NoFalseAlarm, Undisturbed, OnlyLive
<1> QED
  BY <1>1, InvariantHolds, PTL

-----------------------------------------------------------------------------
(* Sessions that have ended *)

\* A step that only revokes and forgets tokens makes no family live again.
LEMMA RevokingRevivesNone ==
  ASSUME TypeOK, RowsAreHeld, NEW K,
         tokens' = RevokeAll(K) \/ Store(RevokeAll(K)),
         NEW f, LiveIn(f) = {}
  PROVE  LiveIn(f)' = {}
<1> SUFFICES ASSUME NEW k \in Tokens, tokens'[k].family = f, tokens'[k].live
             PROVE  FALSE
  BY DEF LiveIn, Family
<1>1. tokens'[k] = RevokeAll(K)[k] \/ tokens'[k] = NoRow
  BY DEF Store
<1>2. tokens'[k] = RevokeAll(K)[k]
  BY <1>1 DEF NoRow
<1>3. tokens[k].family = f /\ tokens[k].live
  BY <1>2, RevokeAllFacts
<1> QED
  BY <1>3 DEF LiveIn, Family

LEMMA EndedStayEnded ==
  ASSUME IInv, [Next]_vars,
         NEW t \in Tokens \cap Held, NEW f, f = tokens[t].family, LiveIn(f) = {},
         \A c \in Calls : flight[c].pc = "create" /\ ~flight[c].late
                            => tokens[flight[c].token].family # f
  PROVE  LiveIn(f)' = {}
<1> USE DEF IInv
<1>a. RevokeAll({}) = tokens
  BY DEF RevokeAll, TypeOK
<1>b. ASSUME UNCHANGED tokens
      PROVE  LiveIn(f)' = {}
  BY <1>b DEF LiveIn, Family
<1>1. ASSUME NEW c \in Calls, Meet401(c) \/ ReadToken(c) \/ Disconnect(c)
      PROVE  LiveIn(f)' = {}
  BY <1>1, <1>b DEF Meet401, ReadToken, Disconnect
<1>2. ASSUME NEW c \in Calls, Kill(c)
      PROVE  LiveIn(f)' = {}
  BY <1>2, RevokingRevivesNone DEF Kill
<1>3. ASSUME NEW c \in Calls, CreateNext(c)
      PROVE  LiveIn(f)' = {}
  <2>1. /\ flight[c].pc = "create"
        /\ tokens' = [tokens EXCEPT ![FreeToken] =
             [family |-> tokens[flight[c].token].family, live |-> TRUE]]
    BY <1>3 DEF CreateNext
  <2>2. tokens[flight[c].token].family # f
    BY <2>1 DEF LateIsRefused
  <2>3. \A k \in Tokens : tokens'[k].family = f /\ tokens'[k].live
                            => tokens[k].family = f /\ tokens[k].live
    BY <2>1, <2>2 DEF TypeOK
  <2> QED
    BY <2>3 DEF LiveIn, Family
<1>4. ASSUME NEW c \in Calls, RevokeOld(c)
      PROVE  LiveIn(f)' = {}
  BY <1>4, RevokingRevivesNone DEF RevokeOld
<1>5. ASSUME NEW c \in Calls, Reply(c) \/ Crash(c)
      PROVE  LiveIn(f)' = {}
  BY <1>5, <1>a, RevokingRevivesNone DEF Reply, Crash
<1>6. CASE SignIn
  <2>1. Flying = {} /\ Store([tokens EXCEPT ![FreeToken] = [family |-> FreeFamily, live |-> TRUE]])
    BY <1>6 DEF SignIn
  <2>2. FreeFamily # f
    BY <2>1, FreeFamilyFacts DEF Family
  <2>3. \A k \in Tokens : \/ tokens'[k] = NoRow
                          \/ tokens'[k] = tokens[k]
                          \/ tokens'[k] = [family |-> FreeFamily, live |-> TRUE]
    BY <2>1 DEF Store, TypeOK
  <2>4. \A k \in Tokens : tokens'[k].family = f /\ tokens'[k].live
                            => tokens[k].family = f /\ tokens[k].live
    BY <2>2, <2>3 DEF NoRow
  <2> QED
    BY <2>4 DEF LiveIn, Family
<1>7. CASE Logout
  BY <1>7, <1>a, RevokingRevivesNone DEF Logout
<1>8. CASE RevokeSessions
  BY <1>8, RevokingRevivesNone DEF RevokeSessions
<1>9. CASE Expire
  BY <1>9, <1>a, RevokingRevivesNone DEF Expire
<1>10. CASE UNCHANGED vars
  BY <1>10, <1>b DEF vars
<1> QED
  BY <1>1, <1>2, <1>3, <1>4, <1>5, <1>6, <1>7, <1>8, <1>9, <1>10 DEF Next, ServerStep

(* A session that has no live token left has none ever after, unless a     *)
(* refresh sent before its end had already passed its check (refresh,      *)
(* logout, revokeAllSessions).  The invariant it takes is LateIsRefused: a *)
(* token presented after the end of its session is not live when checked.  *)
THEOREM EndedHolds == Spec => EndedSessionsStayEnded
<1>1. ASSUME IInv, [Next]_vars
      PROVE  \A f \in {tokens[k].family : k \in Held \ {NoToken}} :
               /\ LiveIn(f) = {}
               /\ \A c \in Calls : flight[c].pc = "create" /\ ~flight[c].late
                                    => tokens[flight[c].token].family # f
               => LiveIn(f)' = {}
  <2>1. TAKE f \in {tokens[k].family : k \in Held \ {NoToken}}
  <2>2. PICK t \in Held \ {NoToken} : f = tokens[t].family
    OBVIOUS
  <2>3. t \in Tokens
    BY <1>1, RowFacts DEF IInv, Held
  <2> QED
    BY <1>1, <2>2, <2>3, EndedStayEnded
<1> QED
  BY <1>1, InvariantHolds, PTL DEF Spec, EndedSessionsStayEnded
=============================================================================
