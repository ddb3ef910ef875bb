------------------------------ MODULE Sessions ------------------------------
(***************************************************************************)
(* One user's browser and the API: the tabs of the web application share   *)
(* the cookies, and each of them answers a 401 by refreshing the session   *)
(* once for all its calls.  The API rotates the refresh token: it checks   *)
(* the token, makes the next one of its family and then revokes it, and it *)
(* revokes a family of which a revoked token comes back.  Replies get      *)
(* lost, and the API dies between two of its writes.                       *)
(***************************************************************************)
EXTENDS Naturals

CONSTANTS
  Calls,      \* calls of the application, at most so many at a time
  Tabs,
  Tokens,     \* ids of RefreshToken rows; one that nobody holds is used again
  Families,   \* ids of families, likewise
  NoToken     \* no cookie

(* uuidv4 finds an id that is not in use: there is one besides those   *)
(* that the cookie and the refreshes hold before a refresh makes its next, *)
(* and a family besides the one of the cookie.                             *)
ASSUME FreshIds ==
  /\ Calls # {}
  /\ NoToken \notin Tokens \cup Families
  /\ \A j \in Tokens \cup {NoToken}, t, n \in [Calls -> Tokens \cup {NoToken}] :
       (\E c \in Calls : n[c] = NoToken)
         => \E k \in Tokens : k # j /\ \A c \in Calls : k # t[c] /\ k # n[c]
  /\ \A f \in Families \cup {NoToken} : \E g \in Families : g # f

VARIABLES
  tab,        \* the tab each call belongs to
  waiting,    \* the calls that wait for a refresh of their tab
  flight,     \* the refresh a call has started, with what the API has read
              \* (heard: the call still listens; late: history, it was sent
              \* after its session had ended)
  jar,        \* the cookie with the refresh token
  access,     \* whether the cookie with the access token is valid
  tokens,     \* RefreshToken rows: family, and not revoked (live)
  disturbed   \* history: since the sign-in, refreshes have overlapped, failed,
              \* or met a revocation made elsewhere

vars == <<tab, waiting, flight, jar, access, tokens, disturbed>>
client == <<tab, waiting, jar, access>>

NoFlight ==
  [pc |-> "none", token |-> NoToken, next |-> NoToken, heard |-> FALSE, late |-> FALSE]

Flying == {c \in Calls : flight[c] # NoFlight}

Held == {jar} \cup {flight[c].token : c \in Calls} \cup {flight[c].next : c \in Calls}

Family(f) == {k \in Tokens : tokens[k].family = f}

LiveIn(f) == {k \in Family(f) : tokens[k].live}

Ended(token) == token = NoToken \/ LiveIn(tokens[token].family) = {}

NoRow == [family |-> NoToken, live |-> FALSE]

\* The rows that still matter: nobody can present a token that is not held.
Store(rows) == tokens' = [k \in Tokens |-> IF k \in Held' THEN rows[k] ELSE NoRow]

FreeToken == CHOOSE k \in Tokens : tokens[k] = NoRow

FreeFamily == CHOOSE f \in Families : Family(f) = {}

\* updateMany of the tokens not revoked.
RevokeAll(K) == [k \in Tokens |-> IF k \in K THEN [tokens[k] EXCEPT !.live = FALSE]
                                   ELSE tokens[k]]

-----------------------------------------------------------------------------
(* request and tryRefresh of the web application *)

\* Broken variant: every call that meets a 401 refreshes for itself.
OwnFlight(c) == {}

\* The refreshPromise of the tab.
TabFlight(c) == {d \in Flying : tab[d] = tab[c] /\ flight[d].heard}

\* A call is answered 401, and waits for the refresh of its tab.
Meet401(c) ==
  /\ ~access /\ c \notin waiting /\ flight[c] = NoFlight
  /\ waiting' = waiting \cup {c}
  /\ IF TabFlight(c) # {} THEN UNCHANGED <<flight, disturbed>>
     ELSE /\ flight' = [flight EXCEPT ![c] =
               [pc |-> "read", token |-> jar, next |-> NoToken, heard |-> TRUE,
                late |-> Ended(jar)]]
          /\ disturbed' = (disturbed \/ \E d \in Flying : tab[d] # tab[c])
  /\ UNCHANGED <<tab, jar, access, tokens>>

\* Broken variant: only the call that started the refresh learns its outcome.
SettledAlone(c) == {c}

Settled(c) == {d \in Calls : tab[d] = tab[c]}

\* The promise settles, and every call of the tab ends: it is sent again and
\* has its answer, or the tab goes to the sign-in page.
Settle(c) == waiting' = IF flight[c].heard THEN waiting \ Settled(c) ELSE waiting

-----------------------------------------------------------------------------
(* refresh of the API *)

Advance(c, pc) == flight' = [flight EXCEPT ![c].pc = pc]

\* Broken variant: a revoked token is not told from a live one.
CheckedAsLive(token) == IF token = NoToken THEN "refuse" ELSE "create"

Checked(token) ==
  IF token = NoToken THEN "refuse" ELSE IF tokens[token].live THEN "create" ELSE "kill"

\* A live token is refused as well if it has expired, if its user is inactive or
\* if its check meets an error; an error after the check is left out.
ReadToken(c) ==
  /\ flight[c].pc = "read"
  /\ \/ Advance(c, Checked(flight[c].token))
     \/ Checked(flight[c].token) = "create" /\ Advance(c, "refuse")
  /\ UNCHANGED <<client, tokens, disturbed>>

\* A revoked token came back.
Kill(c) ==
  /\ flight[c].pc = "kill"
  /\ Advance(c, "refuse")
  /\ UNCHANGED <<client, disturbed>>
  /\ Store(RevokeAll(Family(tokens[flight[c].token].family)))

CreateNext(c) ==
  /\ flight[c].pc = "create"
  /\ flight' = [flight EXCEPT ![c].pc = "revoke", ![c].next = FreeToken]
  /\ tokens' = [tokens EXCEPT ![FreeToken] =
       [family |-> tokens[flight[c].token].family, live |-> TRUE]]
  /\ UNCHANGED <<client, disturbed>>

RevokeOld(c) ==
  /\ flight[c].pc = "revoke"
  /\ tokens' = RevokeAll({flight[c].token})
  /\ Advance(c, "grant")
  /\ UNCHANGED <<client, disturbed>>

\* The reply sets the cookies, or clears them; nobody may hear it any more.
Reply(c) ==
  /\ flight[c].pc \in {"grant", "refuse"}
  /\ IF flight[c].heard
       THEN jar' = flight[c].next /\ access' = (flight[c].pc = "grant")
       ELSE UNCHANGED <<jar, access>>
  /\ Settle(c)
  /\ flight' = [flight EXCEPT ![c] = NoFlight]
  /\ Store(tokens)
  /\ UNCHANGED <<tab, disturbed>>

\* The connection breaks; the API goes on.
Disconnect(c) ==
  /\ flight[c].heard
  /\ Settle(c)
  /\ flight' = [flight EXCEPT ![c].heard = FALSE]
  /\ disturbed' = TRUE
  /\ UNCHANGED <<tab, jar, access, tokens>>

\* The API dies between two steps of the refresh.
Crash(c) ==
  /\ c \in Flying
  /\ Settle(c)
  /\ flight' = [flight EXCEPT ![c] = NoFlight]
  /\ disturbed' = TRUE
  /\ UNCHANGED <<tab, jar, access>>
  /\ Store(tokens)

-----------------------------------------------------------------------------
(* The rest of the API that issues and revokes tokens, and time *)

\* issueSession; an earlier session is not ended.  Bound: the user signs in
\* while no refresh is on its way.
SignIn ==
  /\ Flying = {}
  /\ jar' = FreeToken
  /\ access' = TRUE
  /\ disturbed' = FALSE
  /\ UNCHANGED <<tab, waiting, flight>>
  /\ Store([tokens EXCEPT ![FreeToken] = [family |-> FreeFamily, live |-> TRUE]])

\* logout revokes the family of a live token only, and clears the cookies; here
\* all in one step.
Logout ==
  /\ jar # NoToken
  /\ jar' = NoToken
  /\ access' = FALSE
  /\ disturbed' = (disturbed \/ Flying # {})
  /\ UNCHANGED <<tab, waiting, flight>>
  /\ Store(IF tokens[jar].live THEN RevokeAll(Family(tokens[jar].family)) ELSE tokens)

\* resetPassword, resetMfa and update of a user revoke all, changePassword
\* all but the family of the cookie.
RevokeSessions ==
  /\ UNCHANGED <<client, flight>>
  /\ \E kept \in {{}} \cup {Family(tokens[k].family) : k \in {jar} \ {NoToken}} :
       /\ Store(RevokeAll(Tokens \ kept))
       /\ disturbed' = (disturbed \/ kept = {} \/ Flying # {})

\* The access token expires, or both cookies do.
Expire ==
  /\ access' = FALSE
  /\ jar' \in {jar, NoToken}
  /\ UNCHANGED <<tab, waiting, flight, disturbed>>
  /\ Store(tokens)

Init ==
  /\ tab \in [Calls -> Tabs]
  /\ waiting = {}
  /\ flight = [c \in Calls |-> NoFlight]
  /\ jar = NoToken
  /\ access = FALSE
  /\ tokens = [k \in Tokens |-> NoRow]
  /\ disturbed = FALSE

ServerStep(c) ==
  \/ ReadToken(c)
  \/ Kill(c)
  \/ CreateNext(c)
  \/ RevokeOld(c)
  \/ Reply(c)

Next ==
  \/ \E c \in Calls :
       \/ Meet401(c)
       \/ ServerStep(c)
       \/ Disconnect(c)
       \/ Crash(c)
  \/ SignIn
  \/ Logout
  \/ RevokeSessions
  \/ Expire

(* The event loop of the API runs on, and nothing makes a handler wait for *)
(* another.  Calls, users, time and faults may stop.                       *)
Fairness == \A c \in Calls : WF_vars(ServerStep(c))

Spec == Init /\ [][Next]_vars
FairSpec == Spec /\ Fairness

-----------------------------------------------------------------------------
\* The rows and cookies have their types, a refresh has a next token from its
\* creation on, and a call that waits has a refresh of its tab to wait for.
TypeOK ==
  /\ tab \in [Calls -> Tabs]
  /\ waiting \subseteq Calls
  /\ flight \in [Calls -> {NoFlight} \cup
       [pc : {"read", "kill", "create", "refuse", "revoke", "grant"},
        token : Tokens \cup {NoToken}, next : Tokens \cup {NoToken},
        heard : BOOLEAN, late : BOOLEAN]]
  /\ jar \in Tokens \cup {NoToken}
  /\ access \in BOOLEAN /\ disturbed \in BOOLEAN
  /\ tokens \in [Tokens -> {NoRow} \cup [family : Families, live : BOOLEAN]]
  /\ \A c \in Calls : flight[c].pc \in {"revoke", "grant"} <=> flight[c].next # NoToken
  /\ \A c \in waiting : TabFlight(c) # {}

(* A session that only one tab refreshes at a time, with no failure and no *)
(* revocation made elsewhere, is never taken for a replay, and between     *)
(* refreshes the cookie holds the one live token of its family, however    *)
(* many calls of the tab meet a 401 (tryRefresh, refresh).                 *)
NoFalseAlarm ==
  ~disturbed =>
    /\ \A c \in Calls : flight[c].pc # "kill"
    /\ Flying = {} /\ jar # NoToken => LiveIn(tokens[jar].family) = {jar}

(* A session that has no live token left has none ever after, unless a     *)
(* refresh that was sent before its end had already passed its check:      *)
(* whatever a logout, a reset or a replay has ended stays ended (refresh,  *)
(* logout, revokeAllSessions).                                             *)
EndedSessionsStayEnded ==
  [][\A f \in {tokens[k].family : k \in Held \ {NoToken}} :
       /\ LiveIn(f) = {}
       /\ \A c \in Calls : flight[c].pc = "create" /\ ~flight[c].late
                            => tokens[flight[c].token].family # f
       => LiveIn(f)' = {}]_vars

(* Every call of the application ends, with an answer or at the sign-in    *)
(* page, whatever refreshes fail or overlap (request, tryRefresh).         *)
EveryCallEnds == \A c \in Calls : c \in waiting ~> c \notin waiting
=============================================================================
