---------------------------- MODULE OAuthSession ----------------------------
(***************************************************************************)
(* The OAuth sessions of one user with one provider: logins and logouts of *)
(* OAuthManager and OAuthClientManager (utils/oauth.py), and requests that *)
(* need a token and refresh it, over models/oauth_sessions.py.  Each model *)
(* method is one transaction; everything between two of them interleaves.  *)
(* The provider replaces the refresh token at every refresh, or never.     *)
(***************************************************************************)
EXTENDS Naturals, FiniteSets

CONSTANTS
    Requests, Logins,   \* what may run at the same time
    Limit,              \* OAUTH_MAX_SESSIONS_PER_USER; 1 for OAuthClientManager
    MaxSessions, MaxTokens, MaxFaults    \* bounds

VARIABLES
    rotates,      \* the provider replaces refresh tokens
    stored,       \* the refresh token in a session's row; 0 if there is no row
    current,      \* the one the provider takes; 0 before the session's login
    request,      \* of each request: what it does, for which session, with which
                  \* token, and (history) whether another one did so meanwhile
    login,        \* of each login: the sessions it has yet to prune
    logout,       \* of the logout: the same
    made,         \* sessions created so far; their ids are 1..made, oldest first
    spoilt,       \* history: sessions a refresh of which died, or met an error, halfway
    unpruned      \* history: how many rows logins should have deleted, and did not

faults == <<spoilt, unpruned>>
oauthVars == <<rotates, stored, current, request, login, logout, made, faults>>

Ids == 1..MaxSessions
Live == {s \in Ids : stored[s] # 0}
Idle == [at |-> "idle"]
NotRunning == [at |-> "idle", todo |-> {}]

Init ==
    /\ rotates \in BOOLEAN
    /\ stored = [s \in Ids |-> 0] /\ current = [s \in Ids |-> 0]
    /\ request = [r \in Requests |-> Idle]
    /\ login = [l \in Logins |-> NotRunning] /\ logout = NotRunning
    /\ made = 0 /\ spoilt = {} /\ unpruned = 0
-----------------------------------------------------------------------------
\* get_oauth_token: the row is read; its access token is about to expire, or
\* the caller forces a refresh.
Get(r, s) ==
    /\ request[r].at = "idle" /\ s \in Live
    /\ LET others == {q \in Requests : request[q].at # "idle" /\ request[q].sid = s} IN
       request' = [q \in Requests |->
           IF q = r THEN [at |-> "refresh", sid |-> s, token |-> stored[s], raced |-> others # {}]
           ELSE IF q \in others THEN [request[q] EXCEPT !.raced = TRUE] ELSE request[q]]
    /\ UNCHANGED <<rotates, stored, current, login, logout, made, faults>>

GoOn(r, at, token) == request' = [request EXCEPT ![r].at = at, ![r].token = token]

\* _perform_token_refresh: the provider takes the token and answers with a new
\* one, or with none, and the old one is kept;
Granted(r) ==
    LET s == request[r].sid IN
    /\ request[r].at = "refresh" /\ request[r].token = current[s]
    /\ LET new == IF rotates THEN current[s] + 1 ELSE current[s] IN
        /\ new <= MaxTokens
        /\ current' = [current EXCEPT ![s] = new]
        /\ GoOn(r, "store", new)
    /\ UNCHANGED <<rotates, stored, login, logout, made, faults>>

\* the provider has replaced the token already, and refuses this one;
Refused(r) ==
    /\ request[r].at = "refresh" /\ request[r].token # current[request[r].sid]
    /\ GoOn(r, "refused", request[r].token)
    /\ UNCHANGED <<rotates, stored, current, login, logout, made, faults>>

\* it cannot be reached, or its answer is lost, with or without a new token.
Unanswered(r) ==
    LET s == request[r].sid IN
    /\ request[r].at = "refresh"
    /\ GoOn(r, "failed", request[r].token)
    /\ \/ UNCHANGED current
       \/ /\ rotates /\ request[r].token = current[s] /\ current[s] < MaxTokens
          /\ current' = [current EXCEPT ![s] = @ + 1]
    /\ UNCHANGED <<rotates, stored, login, logout, made, faults>>

Finish(r) == request' = [request EXCEPT ![r] = Idle]

\* Mutant: the row is written whether it is there or not.
StoreUpserts(r) ==
    /\ request[r].at = "store"
    /\ stored' = [stored EXCEPT ![request[r].sid] = request[r].token]
    /\ Finish(r)
    /\ UNCHANGED <<rotates, current, login, logout, made, faults>>

\* Mutant: a token that was there is preserved.
StoreKeepsOld(r) ==
    /\ request[r].at = "store"
    /\ Finish(r)
    /\ UNCHANGED <<rotates, stored, current, login, logout, made, faults>>

\* The request ends halfway, and its session's row stays as it is.
Spoils(r) ==
    /\ spoilt' = spoilt \cup {request[r].sid}
    /\ Cardinality(spoilt') + unpruned <= MaxFaults
    /\ Finish(r)
    /\ UNCHANGED <<rotates, stored, current, login, logout, made, unpruned>>

\* update_session_by_id: an UPDATE, which does nothing when the row is gone; the
\* caller then gets no token, and no row is deleted.
Store(r) ==
    LET s == request[r].sid IN
    /\ request[r].at = "store"
    /\ stored' = IF s \in Live THEN [stored EXCEPT ![s] = request[r].token] ELSE stored
    /\ Finish(r)
    /\ UNCHANGED <<rotates, current, login, logout, made, faults>>

\* The UPDATE fails, which is swallowed: the row keeps its token, though the provider has
\* replaced it.  The caller raises on the None that it gets, and no row is deleted.
StoreFails(r) == request[r].at = "store" /\ Spoils(r)

\* No token: get_oauth_token deletes the session, whatever the reason and
\* whatever its row holds by now.
DropSession(r) ==
    /\ request[r].at \in {"refused", "failed"}
    /\ stored' = [stored EXCEPT ![request[r].sid] = 0]
    /\ Finish(r)
    /\ UNCHANGED <<rotates, current, login, logout, made, faults>>

\* The DELETE fails, which is swallowed too.
DropFails(r) == request[r].at \in {"refused", "failed"} /\ Spoils(r)

Die(r) == request[r].at # "idle" /\ Spoils(r)
-----------------------------------------------------------------------------
Newer(s, t) == s > t

\* Mutant: one more is kept.
TooManyByOne == {s \in Live : Cardinality({t \in Live : Newer(t, s)}) >= Limit}

\* provider_sessions[Limit - 1:], newest first
TooMany == {s \in Live : Cardinality({t \in Live : Newer(t, s)}) >= Limit - 1}

\* An error of the database, which the model method swallows: n rows are not deleted.
Unpruned(n) ==
    /\ unpruned' = unpruned + n
    /\ Cardinality(spoilt) + unpruned' <= MaxFaults

\* handle_callback: the sessions are listed, or none are after an error, ...
LoginList(l) ==
    /\ login[l].at = "idle" /\ made < MaxSessions
    /\ \E todo \in {TooMany, {}} :
        /\ login' = [login EXCEPT ![l] = [at |-> "prune", todo |-> todo]]
        /\ Unpruned(Cardinality(TooMany \ todo))
    /\ UNCHANGED <<rotates, stored, current, request, logout, made, spoilt>>

\* ... the old ones are deleted one by one, each or not, ...
LoginPrune(l) ==
    /\ \E s \in login[l].todo :
        /\ \A t \in login[l].todo : t = s \/ Newer(s, t)
        /\ \/ stored' = [stored EXCEPT ![s] = 0] /\ UNCHANGED unpruned
           \/ UNCHANGED stored /\ s \in Live /\ Unpruned(1)
        /\ login' = [login EXCEPT ![l].todo = @ \ {s}]
    /\ UNCHANGED <<rotates, current, request, logout, made, spoilt>>

\* ... and the new one is created.  (If that fails, the login never gets here, and the
\* user is signed in without a session.)
LoginCreate(l) ==
    /\ login[l].at = "prune" /\ login[l].todo = {} /\ made < MaxSessions
    /\ made' = made + 1
    /\ stored' = [stored EXCEPT ![made'] = 1] /\ current' = [current EXCEPT ![made'] = 1]
    /\ login' = [login EXCEPT ![l] = NotRunning]
    /\ UNCHANGED <<rotates, request, logout, faults>>

\* The back-channel logout lists the sessions and deletes them one by one, in any
\* order; what an error or a crash keeps it from deleting, it never gets to.
LogoutList ==
    /\ logout.at = "idle"
    /\ logout' = [at |-> "delete", todo |-> Live]
    /\ UNCHANGED <<rotates, stored, current, request, login, made, faults>>

LogoutDelete ==
    /\ \E s \in logout.todo :
        /\ stored' = [stored EXCEPT ![s] = 0]
        /\ logout' = [logout EXCEPT !.todo = @ \ {s}]
    /\ UNCHANGED <<rotates, current, request, login, made, faults>>

LogoutEnds ==
    /\ logout.at = "delete" /\ logout.todo = {}
    /\ logout' = NotRunning
    /\ UNCHANGED <<rotates, stored, current, request, login, made, faults>>

\* delete_oauth_session_by_provider: one DELETE.
Disconnect ==
    /\ Live # {}
    /\ stored' = [s \in Ids |-> 0]
    /\ UNCHANGED <<rotates, current, request, login, logout, made, faults>>

Next ==
    \/ \E r \in Requests, s \in Ids : Get(r, s)
    \/ \E r \in Requests : \/ Granted(r) \/ Refused(r) \/ Unanswered(r)
                           \/ Store(r) \/ StoreFails(r) \/ DropSession(r) \/ DropFails(r) \/ Die(r)
    \/ \E l \in Logins : LoginList(l) \/ LoginPrune(l) \/ LoginCreate(l)
    \/ LogoutList \/ LogoutDelete \/ LogoutEnds \/ Disconnect

Spec == Init /\ [][Next]_oauthVars
-----------------------------------------------------------------------------
TypeOK ==
    /\ rotates \in BOOLEAN
    /\ stored \in [Ids -> 0..MaxTokens] /\ current \in [Ids -> 0..MaxTokens]
    /\ \A r \in Requests : \/ request[r] = Idle
                           \/ request[r] \in [at : {"refresh", "store", "refused", "failed"},
                                              sid : Ids, token : 1..MaxTokens, raced : BOOLEAN]
    /\ login \in [Logins -> [at : {"idle", "prune"}, todo : SUBSET Ids]]
    /\ logout \in [at : {"idle", "delete"}, todo : SUBSET Ids]
    /\ made \in 0..MaxSessions /\ spoilt \subseteq Ids /\ unpruned \in 0..MaxFaults

\* handle_callback, "Enforce max concurrent sessions per user/provider to
\* prevent unbounded growth": each login prunes by the list it has read, so
\* logins at the same time may exceed the limit, by one for each but the first,
\* and by the rows that an error of the database has kept from being deleted; never
\* by more, however many logins and refreshes there have been.
SessionsStayBounded == Cardinality(Live) <= Limit + Cardinality(Logins) - 1 + unpruned

\* A session that a logout or a login has deleted stays out, although a refresh
\* that was under way stores its token after it.
LoggedOutStaysOut == [][\A s \in 1..made : stored[s] = 0 => stored'[s] = 0]_oauthVars

\* The provider refuses the token of a session, and get_oauth_token deletes the
\* session, only if two requests refreshed it at the same time, or an earlier
\* refresh of this session died or could not write its row.
RefusedOnlyInRace ==
    \A r \in Requests : request[r].at = "refused" =>
        request[r].raced \/ request[r].sid \in spoilt
=============================================================================
