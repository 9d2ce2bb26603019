---------------------------- MODULE BrowserSession ----------------------------
(***************************************************************************)
(* The login session of one browser tab: ApiClient, which attaches the     *)
(* access token to each request and trades the refresh token for a new     *)
(* pair when a request is refused, and AuthProvider, which logs in and out *)
(* and asks /auth/me who the stored tokens belong to.                      *)
(*                                                                         *)
(* JavaScript runs one callback at a time; an action is what one callback  *)
(* does until it awaits the network again.  The server decides a request   *)
(* at one moment and the browser learns of it at a later one.              *)
(***************************************************************************)
EXTENDS Naturals, FiniteSets

CONSTANTS
  Users,          \* accounts
  Logins,         \* submissions of the login form; each that succeeds opens a session
  Requests,       \* requests of pages, apart from /auth/me
  Hydration,      \* the request for /auth/me after the page is loaded
  MaxRefreshes,   \* bounds how often the tokens of one session are renewed
  MaxReloads,     \* bounds how often the page is loaded again
  NoUser,         \* "user === null"
  NoTokens,       \* "tokens === null"
  NoRefresh,      \* "refreshPromise === null"
  NoReply         \* the server has not answered yet

ASSUME BrowserSessionAssumption ==
  /\ Hydration \notin Requests
  /\ NoUser \notin Users
  /\ MaxRefreshes \in Nat /\ MaxReloads \in Nat
  /\ NoTokens \notin Logins \X (0..MaxRefreshes)
  /\ NoReply \notin {"ok", "401", "error", "renewed", "refused", "lost"}
  /\ NoRefresh \notin [pair : Logins \X (0..MaxRefreshes), reply : {"renewed", "refused", "lost", NoReply}]

VARIABLES
  tokens,    \* the token pair in memory and, through saveTokens, in localStorage
  user,      \* the user that pages show
  loading,   \* isLoading
  refresh,   \* the request for /auth/refresh in flight: its pair and the reply
  request,   \* request[c]: where call c is, the pair it carries, and the reply
  login,     \* login[l]: "idle", "sent", "accepted" or "over"
  owner,     \* owner[l]: the account that login l is for
  expired,   \* pairs whose access token has expired
  lapsed,    \* pairs whose refresh token has expired as well
  reloads,   \* how often the page was loaded again
  crossed,   \* history: a refresh or /auth/me was under way when the user last logged in or out
  strays     \* history: calls whose session ended under way, by the user or a network failure
vars == <<tokens, user, loading, refresh, request, login, owner, expired, lapsed, reloads,
          crossed, strays>>
server == <<owner, expired, lapsed>>
history == <<crossed, strays>>

Calls == Requests \cup {Hydration}
\* The pair that login l brought, or the n-th that came of refreshing it.
Pairs == Logins \X (0..MaxRefreshes)
Owner(pair) == owner[pair[1]]
\* The last pair stands for all that follow it and does not expire.
Renewed(pair) == IF pair[2] < MaxRefreshes THEN <<pair[1], pair[2] + 1>> ELSE pair

Untouched == [at |-> "idle", pair |-> NoTokens, reply |-> NoReply]
InFlight(c) == request[c].at \in {"sent", "waiting", "resent"}
UnderWay == {c \in Calls : InFlight(c)}

TypeOK ==
  /\ tokens \in Pairs \cup {NoTokens}
  /\ user \in Users \cup {NoUser}
  /\ loading \in BOOLEAN
  /\ refresh \in [pair : Pairs, reply : {"renewed", "refused", "lost", NoReply}] \cup {NoRefresh}
  /\ request \in [Calls -> [at : {"idle", "sent", "waiting", "resent", "done", "failed"},
                            pair : Pairs \cup {NoTokens},
                            reply : {"ok", "401", "error", NoReply}]]
  /\ login \in [Logins -> {"idle", "sent", "accepted", "over"}]
  /\ owner \in [Logins -> Users \cup {NoUser}]
  /\ lapsed \subseteq expired /\ expired \subseteq Pairs
  /\ reloads \in 0..MaxReloads
  /\ crossed \in BOOLEAN /\ strays \subseteq Calls

\* The page is opened for the first time: there are no tokens to load.
Init ==
  /\ tokens = NoTokens /\ user = NoUser /\ loading = FALSE
  /\ refresh = NoRefresh
  /\ request = [c \in Calls |-> Untouched]
  /\ login = [l \in Logins |-> "idle"]
  /\ owner = [l \in Logins |-> NoUser]
  /\ expired = {} /\ lapsed = {}
  /\ reloads = 0
  /\ crossed = FALSE /\ strays = {}

(***************************************************************************)
(* The server.  It keeps no sessions: a token is good until it expires.    *)
(***************************************************************************)
Serve(c) ==
  /\ request[c].at \in {"sent", "resent"} /\ request[c].reply = NoReply
  /\ request' = [request EXCEPT ![c].reply =
                   IF request[c].pair \in Pairs \ expired THEN "ok" ELSE "401"]
  /\ UNCHANGED <<tokens, user, loading, refresh, login, server, reloads, history>>

ServeRefresh ==
  /\ refresh # NoRefresh /\ refresh.reply = NoReply
  /\ refresh' = [refresh EXCEPT !.reply = IF refresh.pair \in lapsed THEN "refused" ELSE "renewed"]
  /\ UNCHANGED <<tokens, user, loading, request, login, server, reloads, history>>

\* The right password, or not.
ServeLogin(l) ==
  /\ login[l] = "sent"
  /\ \E verdict \in {"accepted", "over"} : login' = [login EXCEPT ![l] = verdict]
  /\ UNCHANGED <<tokens, user, loading, refresh, request, server, reloads, history>>

\* A request or its answer is lost, or the server fails.
NetworkFails ==
  /\ \/ /\ \E c \in Calls : /\ request[c].at \in {"sent", "resent"} /\ request[c].reply = NoReply
                            /\ request' = [request EXCEPT ![c].reply = "error"]
        /\ UNCHANGED <<refresh, login>>
     \/ /\ refresh # NoRefresh /\ refresh.reply = NoReply
        /\ refresh' = [refresh EXCEPT !.reply = "lost"]
        /\ UNCHANGED <<request, login>>
     \/ /\ \E l \in Logins : login[l] = "sent" /\ login' = [login EXCEPT ![l] = "over"]
        /\ UNCHANGED <<refresh, request>>
  /\ UNCHANGED <<tokens, user, loading, server, reloads, history>>

\* The pairs that the browser holds or has sent with a call.
Held == ({tokens} \cup {request[c].pair : c \in Calls}
           \cup IF refresh = NoRefresh THEN {} ELSE {refresh.pair}) \ {NoTokens}

\* Tokens expire in the order they were issued; a request is over long before
\* a token it was given afresh expires.
Expire(pair) ==
  /\ pair \in Held \ expired /\ pair[2] < MaxRefreshes
  /\ \A older \in Held : older[1] = pair[1] /\ older[2] < pair[2] => older \in expired
  /\ \A c \in Calls : request[c].at = "resent" => request[c].pair # pair
  /\ expired' = expired \cup {pair}
  /\ UNCHANGED <<tokens, user, loading, refresh, request, login, owner, lapsed, reloads, history>>

Lapse(pair) ==
  /\ pair \in (Held \cap expired) \ lapsed
  /\ \A older \in Held : older[1] = pair[1] /\ older[2] < pair[2] => older \in lapsed
  /\ lapsed' = lapsed \cup {pair}
  /\ UNCHANGED <<tokens, user, loading, refresh, request, login, owner, expired, reloads, history>>

(***************************************************************************)
(* ApiClient.                                                              *)
(***************************************************************************)
Sent(where, pair) == [at |-> where, pair |-> pair, reply |-> NoReply]

\* Pages that need a user ask for their data (RequireAuth).
StartRequest(r) ==
  /\ user # NoUser
  /\ request[r].at = "idle"
  /\ request' = [request EXCEPT ![r] = Sent("sent", tokens)]
  /\ UNCHANGED <<tokens, user, loading, refresh, login, server, reloads, history>>

\* fetchWithAuth returns or throws; for /auth/me AuthProvider shows the user of
\* the tokens the call carried, or drops tokens and user, whatever the failure.
Settle(c, verdict) ==
  /\ request' = [request EXCEPT ![c].at = verdict, ![c].reply = NoReply]
  /\ \/ c # Hydration /\ UNCHANGED <<tokens, user, loading, strays>>
     \/ /\ c = Hydration /\ verdict = "done"
        /\ user' = Owner(request[c].pair) /\ loading' = FALSE
        /\ UNCHANGED <<tokens, strays>>
     \/ /\ c = Hydration /\ verdict = "failed"
        /\ tokens' = NoTokens /\ user' = NoUser /\ loading' = FALSE
        /\ strays' = IF request[c].reply = "error" THEN strays \cup UnderWay ELSE strays

\* The reply to a call that the client does not answer with a refresh.
ReceiveReply(c) ==
  /\ \/ request[c].reply = "ok" /\ Settle(c, "done")
     \/ request[c].reply = "error" /\ Settle(c, "failed")
     \/ /\ request[c].reply = "401" /\ (request[c].at = "resent" \/ tokens = NoTokens)
        /\ Settle(c, "failed")
  /\ UNCHANGED <<refresh, login, server, reloads, crossed>>

\* A mutation of AwaitRefresh: the first refusal logs the user out.
AwaitRefreshLogsOut(c) ==
  /\ request[c].at = "sent" /\ request[c].reply = "401"
  /\ tokens' = NoTokens
  /\ request' = [request EXCEPT ![c].at = "failed", ![c].reply = NoReply]
  /\ UNCHANGED <<user, loading, refresh, login, server, reloads, history>>

\* A refused call waits for the refresh in flight, or for one it starts.
AwaitRefresh(c) ==
  /\ request[c].at = "sent" /\ request[c].reply = "401" /\ tokens # NoTokens
  /\ request' = [request EXCEPT ![c].at = "waiting", ![c].reply = NoReply]
  /\ refresh' = IF refresh = NoRefresh THEN [pair |-> tokens, reply |-> NoReply] ELSE refresh
  /\ UNCHANGED <<tokens, user, loading, login, server, reloads, history>>

Waiters == {c \in Calls : request[c].at = "waiting"}

\* A mutation of ReceiveRenewal: only one of those who waited goes on.
ReceiveRenewalOnce ==
  /\ refresh # NoRefresh /\ refresh.reply = "renewed"
  /\ tokens' = Renewed(refresh.pair)
  /\ \E first \in Waiters :
       request' = [c \in Calls |-> IF c = first THEN Sent("resent", tokens')
                                   ELSE IF c \in Waiters THEN [request[c] EXCEPT !.at = "failed"]
                                   ELSE request[c]]
  /\ refresh' = NoRefresh
  /\ UNCHANGED <<user, loading, login, server, reloads, history>>

\* A mutation of ReceiveRenewal: those who waited are forgotten.
ReceiveRenewalSilent ==
  /\ refresh # NoRefresh /\ refresh.reply = "renewed"
  /\ tokens' = Renewed(refresh.pair)
  /\ refresh' = NoRefresh
  /\ UNCHANGED <<user, loading, request, login, server, reloads, history>>

\* The new pair replaces whatever is there, and all who waited go on with it.
ReceiveRenewal ==
  /\ refresh # NoRefresh /\ refresh.reply = "renewed"
  /\ tokens' = Renewed(refresh.pair)
  /\ request' = [c \in Calls |-> IF c \in Waiters THEN Sent("resent", tokens') ELSE request[c]]
  /\ refresh' = NoRefresh
  /\ UNCHANGED <<user, loading, login, server, reloads, history>>

\* The tokens that are there now are dropped, and all who waited fail, whether
\* the refresh was refused or lost.
ReceiveRefusal ==
  /\ refresh # NoRefresh /\ refresh.reply \in {"refused", "lost"}
  /\ tokens' = NoTokens
  /\ request' = [c \in Calls |-> IF c \in Waiters THEN [request[c] EXCEPT !.at = "failed"]
                                 ELSE request[c]]
  /\ IF Hydration \in Waiters THEN user' = NoUser /\ loading' = FALSE
                              ELSE UNCHANGED <<user, loading>>
  /\ refresh' = NoRefresh
  /\ strays' = IF refresh.reply = "lost" THEN strays \cup UnderWay ELSE strays
  /\ UNCHANGED <<login, server, reloads, crossed>>

(***************************************************************************)
(* AuthProvider.                                                           *)
(***************************************************************************)
\* The session changes: what is under way knows nothing of it.
ChangesSession ==
  /\ crossed' = (refresh # NoRefresh \/ loading)
  /\ strays' = strays \cup UnderWay

\* The form is offered to those who are not logged in, also while loading.
SubmitLogin(l, u) ==
  /\ user = NoUser
  /\ login[l] = "idle"
  /\ \A other \in Logins : login[other] \notin {"sent", "accepted"}
  /\ login' = [login EXCEPT ![l] = "sent"]
  /\ owner' = [owner EXCEPT ![l] = u]
  /\ UNCHANGED <<tokens, user, loading, refresh, request, expired, lapsed, reloads, history>>

ReceiveLogin(l) ==
  /\ login[l] = "accepted"
  /\ login' = [login EXCEPT ![l] = "over"]
  /\ tokens' = <<l, 0>>
  /\ user' = owner[l]
  /\ ChangesSession
  /\ UNCHANGED <<loading, refresh, request, server, reloads>>

\* A mutation of Logout: the tokens stay.
LogoutKeepsTokens ==
  /\ user # NoUser
  /\ user' = NoUser
  /\ ChangesSession
  /\ UNCHANGED <<tokens, loading, refresh, request, login, server, reloads>>

\* Requests in flight go on, and so does a refresh.
Logout ==
  /\ user # NoUser
  /\ tokens' = NoTokens /\ user' = NoUser
  /\ ChangesSession
  /\ UNCHANGED <<loading, refresh, request, login, server, reloads>>

\* The page is loaded again: everything in flight is forgotten, and the stored
\* tokens are taken up to ask whose they are.
Dropped(c) == IF InFlight(c) THEN [request[c] EXCEPT !.at = "failed", !.reply = NoReply] ELSE request[c]

\* A mutation of Reload: isLoading starts as false.
ReloadNotLoading ==
  /\ reloads < MaxReloads
  /\ reloads' = reloads + 1 /\ crossed' = FALSE /\ strays' = {}
  /\ user' = NoUser /\ refresh' = NoRefresh
  /\ loading' = FALSE
  /\ login' = [l \in Logins |-> IF login[l] = "idle" THEN "idle" ELSE "over"]
  /\ request' = [c \in Calls |-> IF c = Hydration /\ tokens # NoTokens
                                 THEN Sent("sent", tokens) ELSE Dropped(c)]
  /\ UNCHANGED <<tokens, server>>

Reload ==
  /\ reloads < MaxReloads
  /\ reloads' = reloads + 1 /\ crossed' = FALSE /\ strays' = {}
  /\ user' = NoUser /\ refresh' = NoRefresh
  /\ loading' = (tokens # NoTokens)
  /\ login' = [l \in Logins |-> IF login[l] = "idle" THEN "idle" ELSE "over"]
  /\ request' = [c \in Calls |-> IF c = Hydration /\ tokens # NoTokens
                                 THEN Sent("sent", tokens) ELSE Dropped(c)]
  /\ UNCHANGED <<tokens, server>>

(***************************************************************************)
(* The specification.                                                      *)
(***************************************************************************)
Receive(c) == ReceiveReply(c) \/ AwaitRefresh(c)
ReceiveRefresh == ReceiveRenewal \/ ReceiveRefusal

Next ==
  \/ \E c \in Calls : Serve(c) \/ Receive(c)
  \/ \E r \in Requests : StartRequest(r)
  \/ ServeRefresh \/ ReceiveRefresh
  \/ \E l \in Logins : (\E u \in Users : SubmitLogin(l, u)) \/ ServeLogin(l) \/ ReceiveLogin(l)
  \/ Logout \/ Reload
  \/ NetworkFails
  \/ \E pair \in Pairs : Expire(pair) \/ Lapse(pair)

Spec == Init /\ [][Next]_vars

\* The server answers, and the browser runs the callbacks.
FairSpec ==
  /\ Spec
  /\ \A c \in Calls : WF_vars(Serve(c)) /\ WF_vars(Receive(c))
  /\ WF_vars(ServeRefresh) /\ WF_vars(ReceiveRefresh)

(***************************************************************************)
(* Properties.                                                             *)
(***************************************************************************)
\* Requests are made in the name of the user that the pages show, unless the user
\* logged in or out while a refresh or /auth/me was under way, whose result then
\* replaces the tokens or the user; the next login or logout with nothing of the
\* kind under way, or a reload, puts that right.
UserOwnsTokens ==
  crossed \/ (user # NoUser /\ tokens # NoTokens => Owner(tokens) = user)

\* When nobody is logged in, no tokens are kept, with the same exception (the
\* test "logout clears the stored session").
LogoutClears == crossed \/ (user = NoUser /\ ~ loading => tokens = NoTokens)

\* What the network does to a call, itself or through the refresh it waits for.
LostOnTheWay(r) ==
  \/ request[r].reply = "error"
  \/ request[r].at = "waiting" /\ refresh.reply = "lost"

\* As long as a session can be refreshed, no request of a page fails for want
\* of a good token, however many are refused at once (the test "queues
\* concurrent 401s behind a single refresh"), unless the network fails it or
\* the session ends under way.
NoVainFailure ==
  [][\A r \in Requests :
       /\ InFlight(r) /\ request'[r].at = "failed" /\ reloads' = reloads
       => \/ request[r].pair = NoTokens \/ request[r].pair \in lapsed
          \/ LostOnTheWay(r) \/ r \in strays \/ crossed]_vars

\* Tokens are dropped by a logout, when they can no longer be refreshed, or when
\* the network fails the refresh or /auth/me; a login that succeeded stays (the
\* test "login persists tokens to localStorage and sets user").
KeepsGoodTokens ==
  [][tokens # NoTokens /\ tokens' = NoTokens
       => \/ tokens \in lapsed
          \/ user # NoUser /\ user' = NoUser /\ loading' = loading
          \/ refresh # NoRefresh /\ refresh.reply = "lost"
          \/ request[Hydration].reply = "error"
          \/ crossed]_vars

\* Every request of a page is answered or fails, also behind a refresh that is
\* lost or belongs to an earlier user, and the page does not stay blank
\* (RequireAuth renders nothing while loading).
CallsSettle ==
  /\ \A r \in Requests : InFlight(r) ~> ~ InFlight(r)
  /\ loading ~> ~ loading
===============================================================================
