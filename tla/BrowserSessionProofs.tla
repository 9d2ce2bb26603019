------------------------- MODULE BrowserSessionProofs -------------------------
(***************************************************************************)
(* What holds of BrowserSession for any number of users, logins, requests, *)
(* renewals and reloads, for users who log in and out at any moment and on *)
(* networks that fail.                                                     *)
(***************************************************************************)
EXTENDS BrowserSession, TLAPS

USE BrowserSessionAssumption

(***************************************************************************)
(* Types.                                                                  *)
(***************************************************************************)
\* A renewed pair is a pair of the same login, and a later one unless it
\* stands for all later ones.
LEMMA RenewedType ==
  ASSUME NEW pair \in Pairs
  PROVE  /\ Renewed(pair) \in Pairs
         /\ Renewed(pair)[1] = pair[1]
         /\ pair[2] < MaxRefreshes => Renewed(pair)[2] = pair[2] + 1
         /\ pair[2] = MaxRefreshes => Renewed(pair) = pair
  BY DEF Renewed, Pairs

\* Only a call that is under way has a reply, and only a good pair gets data.
RepliesFit ==
  \A c \in Calls :
    /\ request[c].reply # NoReply => request[c].at \in {"sent", "resent"}
    /\ request[c].reply = "ok" => request[c].pair \in Pairs

Typed == TypeOK /\ RepliesFit

LEMMA InitTyped == Init => Typed
<1> SUFFICES ASSUME Init PROVE Typed
  OBVIOUS
<1>1. request \in [Calls -> [at : {"idle"}, pair : {NoTokens}, reply : {NoReply}]]
  BY DEF Init, Untouched
<1>2. RepliesFit
  BY <1>1 DEF RepliesFit
<1>3. loading \in BOOLEAN /\ crossed \in BOOLEAN
  BY DEF Init
<1>4. TypeOK
  BY <1>1, <1>3 DEF Init, TypeOK
<1> QED BY <1>2, <1>4 DEF Typed

LEMMA TypedStep == Typed /\ [Next]_vars => Typed'
<1> SUFFICES ASSUME Typed, [Next]_vars PROVE Typed'
  OBVIOUS
<1> USE DEF Typed, TypeOK, RepliesFit, server, history, ChangesSession
<1>1. ASSUME NEW c \in Calls, Serve(c) PROVE Typed'
  BY <1>1 DEF Serve
<1>2. ASSUME NEW c \in Calls, ReceiveReply(c) PROVE Typed'
  <2>1. request[c].at \in {"sent", "resent"}
    BY <1>2 DEF ReceiveReply
  <2>2. CASE request[c].reply = "ok"
    <3>1. Owner(request[c].pair) \in Users \cup {NoUser}
      BY <2>2 DEF Owner, Pairs
    <3> HIDE DEF RepliesFit
    <3>2. Settle(c, "done")
      BY <1>2, <2>2 DEF ReceiveReply
    <3>3. TypeOK'
      BY <1>2, <3>1, <3>2 DEF ReceiveReply, Settle
    <3>4. RepliesFit'
      BY <3>2 DEF Settle, RepliesFit
    <3> QED BY <3>3, <3>4
  <2>3. CASE request[c].reply # "ok"
    <3>1. Settle(c, "failed")
      BY <1>2, <2>3 DEF ReceiveReply
    <3> QED BY <1>2, <3>1 DEF ReceiveReply, Settle
  <2> QED BY <2>2, <2>3
<1>3. ASSUME NEW c \in Calls, AwaitRefresh(c) PROVE Typed'
  BY <1>3 DEF AwaitRefresh
<1>4. ASSUME NEW r \in Requests, StartRequest(r) PROVE Typed'
  BY <1>4 DEF StartRequest, Sent, Calls
<1>5. CASE ServeRefresh
  BY <1>5 DEF ServeRefresh
<1>6. CASE ReceiveRenewal
  <2>1. tokens' \in Pairs
    BY <1>6, RenewedType DEF ReceiveRenewal
  <2> QED BY <1>6, <2>1 DEF ReceiveRenewal, Sent, Waiters
<1>7. CASE ReceiveRefusal
  <2>1. loading' \in BOOLEAN /\ user' \in Users \cup {NoUser}
    BY <1>7 DEF ReceiveRefusal
  <2>2. request' \in [Calls -> [at : {"idle", "sent", "waiting", "resent", "done", "failed"},
                               pair : Pairs \cup {NoTokens},
                               reply : {"ok", "401", "error", NoReply}]]
    BY <1>7 DEF ReceiveRefusal, Waiters
  <2>3. RepliesFit'
    BY <1>7 DEF ReceiveRefusal, Waiters
  <2>4. strays' \subseteq Calls
    BY <1>7 DEF ReceiveRefusal, UnderWay
  <2> HIDE DEF RepliesFit
  <2> QED BY <1>7, <2>1, <2>2, <2>3, <2>4 DEF ReceiveRefusal
<1>8. ASSUME NEW l \in Logins, NEW u \in Users, SubmitLogin(l, u) PROVE Typed'
  BY <1>8 DEF SubmitLogin
<1>9. ASSUME NEW l \in Logins, ServeLogin(l) \/ ReceiveLogin(l) PROVE Typed'
  <2>1. ServeLogin(l) => Typed'
    BY DEF ServeLogin
  <2>2. ASSUME ReceiveLogin(l) PROVE Typed'
    <3>1. crossed' \in BOOLEAN /\ strays' \subseteq Calls
      BY <2>2 DEF ReceiveLogin, UnderWay
    <3> HIDE DEF ChangesSession
    <3> QED BY <2>2, <3>1 DEF ReceiveLogin, Pairs
  <2> QED BY <1>9, <2>1, <2>2
<1>10. CASE Logout
  <2>1. crossed' \in BOOLEAN /\ strays' \subseteq Calls
    BY <1>10 DEF Logout, UnderWay
  <2> HIDE DEF ChangesSession
  <2> QED BY <1>10, <2>1 DEF Logout
<1>11. CASE Reload
  <2>1. loading' \in BOOLEAN
    BY <1>11 DEF Reload
  <2>2. login' \in [Logins -> {"idle", "sent", "accepted", "over"}] /\ reloads' \in 0..MaxReloads
    BY <1>11 DEF Reload
  <2> DEFINE Kept == [at : {"idle", "sent", "waiting", "resent", "done", "failed"},
                      pair : Pairs \cup {NoTokens}, reply : {"ok", "401", "error", NoReply}]
  <2>3. ASSUME NEW c \in Calls
        PROVE  /\ Dropped(c) \in Kept /\ Sent("sent", tokens) \in Kept
               /\ Dropped(c).reply = NoReply
    <3>1. Sent("sent", tokens) \in Kept
      BY DEF Sent
    <3>2. CASE InFlight(c)
      <4>1. request[c].pair \in Pairs \cup {NoTokens}
            /\ request[c] = [at |-> request[c].at, pair |-> request[c].pair, reply |-> request[c].reply]
        OBVIOUS
      <4>2. Dropped(c) = [at |-> "failed", pair |-> request[c].pair, reply |-> NoReply]
        BY <3>2, <4>1 DEF Dropped
      <4> QED BY <3>1, <4>1, <4>2
    <3>3. CASE ~ InFlight(c)
      <4>1. Dropped(c) = request[c] /\ request[c].at \notin {"sent", "waiting", "resent"}
        BY <3>3 DEF Dropped, InFlight
      <4> QED BY <3>1, <4>1
    <3> QED BY <3>2, <3>3
  <2>4. request' = [c \in Calls |-> IF c = Hydration /\ tokens # NoTokens
                                    THEN Sent("sent", tokens) ELSE Dropped(c)]
    BY <1>11 DEF Reload
  <2>5. request' \in [Calls -> Kept] /\ \A c \in Calls : request'[c].reply = NoReply
    <3> HIDE DEF Typed, TypeOK, RepliesFit, Kept
    <3>1. Sent("sent", tokens).reply = NoReply
      BY DEF Sent
    <3> QED BY <2>3, <2>4, <3>1
  <2>6. RepliesFit'
    BY <2>5
  <2> QED BY <1>11, <2>1, <2>2, <2>5, <2>6 DEF Reload
<1>12. CASE NetworkFails
  BY <1>12 DEF NetworkFails
<1>13. ASSUME NEW pair \in Pairs, Expire(pair) \/ Lapse(pair) PROVE Typed'
  BY <1>13 DEF Expire, Lapse
<1>14. CASE UNCHANGED vars
  BY <1>14 DEF vars
<1> QED
  BY <1>1, <1>2, <1>3, <1>4, <1>5, <1>6, <1>7, <1>8, <1>9, <1>10, <1>11, <1>12, <1>13, <1>14
  DEF Next, Receive, ReceiveRefresh

\* The types of the variables of BrowserSession.
THEOREM TypeCorrect == Spec => []TypeOK
<1>1. Typed => TypeOK
  BY DEF Typed
<1> QED
  BY <1>1, InitTyped, TypedStep, PTL DEF Spec

\* Every pair that is held is a pair.
LEMMA HeldPairs ==
  ASSUME Typed
  PROVE  Held \subseteq Pairs
BY DEF Typed, TypeOK, Held

\* What a renewal does to the calls.
LEMMA RenewalCalls ==
  ASSUME Typed, ReceiveRenewal
  PROVE  \A k \in Calls :
           /\ InFlight(k)' <=> InFlight(k)
           /\ \/ request[k].at # "waiting" /\ request'[k] = request[k]
              \/ /\ request[k].at = "waiting"
                 /\ request'[k] = [at |-> "resent", pair |-> tokens', reply |-> NoReply]
BY DEF ReceiveRenewal, Waiters, Sent, InFlight, Typed, TypeOK

\* What a refusal does to the calls.
LEMMA RefusalCalls ==
  ASSUME Typed, ReceiveRefusal
  PROVE  \A k \in Calls :
           /\ request'[k].pair = request[k].pair
           /\ request'[k].reply = request[k].reply
           /\ request'[k].at = IF request[k].at = "waiting" THEN "failed" ELSE request[k].at
           /\ InFlight(k)' => InFlight(k)
BY DEF ReceiveRefusal, Waiters, InFlight, Typed, TypeOK

\* What a reload does to the calls.
LEMMA ReloadCalls ==
  ASSUME Typed, Reload
  PROVE  \A k \in Calls :
           \/ /\ k = Hydration /\ tokens # NoTokens
              /\ request'[k] = [at |-> "sent", pair |-> tokens, reply |-> NoReply]
           \/ /\ k = Hydration => tokens = NoTokens
              /\ ~ InFlight(k)' /\ request'[k].pair = request[k].pair
              /\ request'[k].reply = NoReply
<1> SUFFICES ASSUME NEW k \in Calls
             PROVE  \/ /\ k = Hydration /\ tokens # NoTokens
                       /\ request'[k] = [at |-> "sent", pair |-> tokens, reply |-> NoReply]
                    \/ /\ k = Hydration => tokens = NoTokens
                       /\ ~ InFlight(k)' /\ request'[k].pair = request[k].pair
                       /\ request'[k].reply = NoReply
  OBVIOUS
<1>1. request'[k] = IF k = Hydration /\ tokens # NoTokens THEN Sent("sent", tokens) ELSE Dropped(k)
  BY DEF Reload
<1>2. /\ Dropped(k).at \notin {"sent", "waiting", "resent"} /\ Dropped(k).pair = request[k].pair
        /\ Dropped(k).reply = NoReply
  BY DEF Dropped, InFlight, Typed, TypeOK, RepliesFit
<1> QED BY <1>1, <1>2 DEF Sent, InFlight

(***************************************************************************)
(* How calls end, for any user, on any network.                            *)
(***************************************************************************)
\* Who waits is waited for: a refresh is in flight for every call that waits
\* for one, and the page is blank only while /auth/me is asked (fetchWithAuth,
\* refreshAccessToken, AuthProvider).
NobodyWaitsInVain ==
  /\ \A c \in Calls : request[c].at = "waiting" => refresh # NoRefresh
  /\ loading <=> InFlight(Hydration)

\* How much of its way a call still has before it: the answer of the server, the
\* wait for a refresh, and the same once more with the new pair.
WayLeft(q) ==
  CASE q.at = "sent" /\ q.reply = NoReply -> 5
    [] q.at = "sent" /\ q.reply # NoReply -> 4
    [] q.at = "waiting" -> 3
    [] q.at = "resent" /\ q.reply = NoReply -> 2
    [] q.at = "resent" /\ q.reply # NoReply -> 1
    [] OTHER -> 0

\* No step sets a call back, whatever becomes of its refresh, and the steps that
\* CallsSettle waits for bring it forward: a call is refreshed once and resent
\* once (fetchWithAuth), and only a reload asks /auth/me anew.
CallsWearOut ==
  [][\A c \in Calls :
       /\ request[c].at # "idle" /\ (c # Hydration \/ reloads' = reloads)
            => WayLeft(request'[c]) <= WayLeft(request[c])
       /\ Serve(c) \/ Receive(c) \/ (ReceiveRefresh /\ c \in Waiters)
            => WayLeft(request'[c]) < WayLeft(request[c])]_vars

LEMMA WayTyped ==
  ASSUME Typed, NEW c \in Calls
  PROVE  /\ WayLeft(request[c]) \in 0..5
         /\ WayLeft(request[c]) > 0 <=> InFlight(c)
BY DEF WayLeft, InFlight, Typed, TypeOK

\* What a step does to one call.
Answered(c) ==
  /\ request[c].at \in {"sent", "resent"} /\ request[c].reply = NoReply
  /\ request'[c].at = request[c].at /\ request'[c].reply # NoReply
Ended(c) ==
  request[c].at \in {"sent", "resent"} /\ request[c].reply # NoReply /\ request'[c].at \in {"done", "failed"}
Waits(c) ==
  /\ request[c].at = "sent" /\ request[c].reply # NoReply
  /\ request'[c].at = "waiting" /\ refresh' # NoRefresh
Released(c) ==
  /\ request[c].at = "waiting"
  /\ request'[c].at = "failed" \/ (request'[c].at = "resent" /\ request'[c].reply = NoReply)
Started(c) == c \in Requests /\ request[c].at = "idle" /\ request'[c].at = "sent"
Forgotten(c) ==
  /\ ~ InFlight(c)' /\ refresh' = NoRefresh
  /\ c # Hydration \/ ~ loading'
AskedAgain(c) == c = Hydration /\ reloads' # reloads /\ request'[c].at = "sent" /\ loading'

\* The server and the network answer.
LEMMA WayServer ==
  ASSUME Typed, NEW c \in Calls
  PROVE  /\ \A k \in Calls : Serve(k) =>
              IF k = c THEN Answered(c) ELSE request'[c] = request[c]
         /\ NetworkFails => Answered(c) \/ request'[c] = request[c]
<1>1. ASSUME NEW k \in Calls, Serve(k) PROVE IF k = c THEN Answered(c) ELSE request'[c] = request[c]
  BY <1>1 DEF Serve, Answered, Typed, TypeOK
<1>2. ASSUME NetworkFails PROVE Answered(c) \/ request'[c] = request[c]
  BY <1>2 DEF NetworkFails, Answered, Typed, TypeOK
<1> QED BY <1>1, <1>2

\* The client takes the answer.
LEMMA WayClient ==
  ASSUME Typed, NEW c \in Calls
  PROVE  /\ \A k \in Calls : ReceiveReply(k) =>
              IF k = c THEN Ended(c) ELSE request'[c] = request[c]
         /\ \A k \in Calls : AwaitRefresh(k) =>
              IF k = c THEN Waits(c) ELSE request'[c] = request[c]
         /\ ReceiveRefresh =>
              IF c \in Waiters THEN Released(c) ELSE request'[c] = request[c]
<1>1. ASSUME NEW k \in Calls, ReceiveReply(k)
      PROVE  IF k = c THEN Ended(c) ELSE request'[c] = request[c]
  <2>1. request[k].reply # NoReply
    BY <1>1 DEF ReceiveReply
  <2>2. request[k].at \in {"sent", "resent"}
    BY <2>1 DEF Typed, RepliesFit
  <2>3. PICK verdict \in {"done", "failed"} :
          request' = [request EXCEPT ![k].at = verdict, ![k].reply = NoReply]
    BY <1>1 DEF ReceiveReply, Settle
  <2> QED BY <2>1, <2>2, <2>3 DEF Ended, Typed, TypeOK
<1>2. ASSUME NEW k \in Calls, AwaitRefresh(k)
      PROVE  IF k = c THEN Waits(c) ELSE request'[c] = request[c]
  <2>1. refresh' # NoRefresh
    <3>1. [pair |-> tokens, reply |-> NoReply] \in [pair : Pairs, reply : {"renewed", "refused", "lost", NoReply}]
      BY <1>2 DEF AwaitRefresh, Typed, TypeOK
    <3> QED BY <1>2, <3>1 DEF AwaitRefresh, Pairs
  <2> QED BY <1>2, <2>1 DEF AwaitRefresh, Waits, Typed, TypeOK
<1>3. ASSUME ReceiveRefresh
      PROVE  IF c \in Waiters THEN Released(c) ELSE request'[c] = request[c]
  BY <1>3 DEF ReceiveRefresh, ReceiveRenewal, ReceiveRefusal, Waiters, Released, Sent, Typed, TypeOK
<1> QED BY <1>1, <1>2, <1>3

\* The page begins anew.
LEMMA WayReload ==
  ASSUME Typed, NEW c \in Calls, Reload
  PROVE  Forgotten(c) \/ AskedAgain(c)
<1>1. reloads' # reloads
  BY DEF Reload, Typed, TypeOK
<1>2. refresh' = NoRefresh /\ (loading' <=> tokens # NoTokens)
  BY DEF Reload
<1> QED BY <1>1, <1>2, ReloadCalls DEF Forgotten, AskedAgain

\* A step does one of these things to a call, or nothing.
LEMMA WayStep ==
  ASSUME Typed, [Next]_vars, NEW c \in Calls
  PROVE  \/ request'[c] = request[c]
         \/ Answered(c) \/ Ended(c) \/ Waits(c) \/ Started(c)
         \/ ReceiveRefresh /\ Released(c)
         \/ Reload /\ (Forgotten(c) \/ AskedAgain(c))
<1>1. ASSUME NEW r \in Requests, StartRequest(r) PROVE Started(c) \/ request'[c] = request[c]
  BY <1>1 DEF StartRequest, Started, Sent, Typed, TypeOK
<1>2. ASSUME ServeRefresh \/ Logout \/ UNCHANGED vars PROVE request' = request
  BY <1>2 DEF ServeRefresh, Logout, vars
<1>3. ASSUME NEW l \in Logins, (\E u \in Users : SubmitLogin(l, u)) \/ ServeLogin(l) \/ ReceiveLogin(l)
      PROVE  request' = request
  BY <1>3 DEF SubmitLogin, ServeLogin, ReceiveLogin
<1>4. ASSUME NEW pair \in Pairs, Expire(pair) \/ Lapse(pair) PROVE request' = request
  BY <1>4 DEF Expire, Lapse
<1>5. ASSUME NEW k \in Calls, Serve(k) PROVE Answered(c) \/ request'[c] = request[c]
  BY <1>5, WayServer
<1>6. ASSUME NEW k \in Calls, Receive(k) PROVE Ended(c) \/ Waits(c) \/ request'[c] = request[c]
  BY <1>6, WayClient DEF Receive
<1>7. CASE ReceiveRefresh
  BY <1>7, WayClient
<1>8. CASE Reload
  BY <1>8, WayReload
<1>9. CASE NetworkFails
  BY <1>9, WayServer
<1> QED BY <1>1, <1>2, <1>3, <1>4, <1>5, <1>6, <1>7, <1>8, <1>9 DEF Next

LEMMA RefreshStays ==
  ASSUME Typed, [Next]_vars, refresh # NoRefresh
  PROVE  refresh' # NoRefresh \/ ReceiveRefresh \/ Reload
<1>1. refresh \in [pair : Pairs, reply : {"renewed", "refused", "lost", NoReply}]
      /\ NoRefresh \notin [pair : Pairs, reply : {"renewed", "refused", "lost", NoReply}]
  BY DEF Typed, TypeOK, Pairs
<1>2. ASSUME ServeRefresh \/ NetworkFails PROVE refresh' # NoRefresh
  BY <1>1, <1>2 DEF ServeRefresh, NetworkFails
<1>3. ASSUME ~ ServeRefresh, ~ NetworkFails, ~ ReceiveRefresh, ~ Reload PROVE refresh' # NoRefresh
  BY <1>3 DEF Next, vars, server, Serve, Receive, ReceiveReply, AwaitRefresh, StartRequest, SubmitLogin,
     ServeLogin, ReceiveLogin, Logout, Expire, Lapse
<1> QED BY <1>2, <1>3

LEMMA LoadingStep ==
  ASSUME Typed, [Next]_vars, loading <=> InFlight(Hydration)
  PROVE  (loading <=> InFlight(Hydration))'
<1> USE DEF InFlight
<1>1. Hydration \in Calls /\ Hydration \notin Requests
  BY DEF Calls
<1>2. ASSUME NEW c \in Calls, Serve(c) PROVE (loading <=> InFlight(Hydration))'
  <2>1. loading' = loading
    BY <1>2 DEF Serve
  <2> QED BY <1>1, <1>2, <2>1, WayServer DEF Answered
<1>3. CASE NetworkFails
  <2>1. loading' = loading
    BY <1>3 DEF NetworkFails
  <2> QED BY <1>1, <1>3, <2>1, WayServer DEF Answered
<1>4. ASSUME NEW c \in Calls, ReceiveReply(c) PROVE (loading <=> InFlight(Hydration))'
  <2>1. CASE c = Hydration
    <3>1. ~ loading'
      BY <1>4, <2>1 DEF ReceiveReply, Settle
    <3> QED BY <1>1, <1>4, <2>1, <3>1, WayClient DEF Ended
  <2>2. CASE c # Hydration
    <3>1. loading' = loading
      BY <1>4, <2>2 DEF ReceiveReply, Settle
    <3> QED BY <1>1, <1>4, <2>2, <3>1, WayClient
  <2> QED BY <2>1, <2>2
<1>5. ASSUME NEW c \in Calls, AwaitRefresh(c) PROVE (loading <=> InFlight(Hydration))'
  <2>1. loading' = loading
    BY <1>5 DEF AwaitRefresh
  <2> QED BY <1>1, <1>5, <2>1, WayClient DEF Waits
<1>6. CASE ReceiveRenewal
  <2>1. loading' = loading
    BY <1>6 DEF ReceiveRenewal
  <2> QED BY <1>1, <1>6, <2>1, RenewalCalls
<1>7. CASE ReceiveRefusal
  <2>1. loading' <=> loading /\ request[Hydration].at # "waiting"
    BY <1>1, <1>7 DEF ReceiveRefusal, Waiters
  <2> QED BY <1>1, <1>7, <2>1, RefusalCalls
<1>8. CASE Reload
  <2>1. loading' <=> tokens # NoTokens
    BY <1>8 DEF Reload
  <2> QED BY <1>1, <1>8, <2>1, ReloadCalls
<1>9. ASSUME NEW r \in Requests, StartRequest(r) PROVE (loading <=> InFlight(Hydration))'
  <2>1. loading' = loading /\ request'[Hydration] = request[Hydration]
    BY <1>1, <1>9 DEF StartRequest, Typed, TypeOK
  <2> QED BY <2>1
<1>10. ASSUME UNCHANGED <<loading, request>> PROVE (loading <=> InFlight(Hydration))'
  BY <1>10
<1> QED BY <1>2, <1>3, <1>4, <1>5, <1>6, <1>7, <1>8, <1>9, <1>10
        DEF Next, vars, Receive, ReceiveRefresh, ServeRefresh, SubmitLogin, ServeLogin, ReceiveLogin, Logout,
            Expire, Lapse

\* Nobody's call or page hangs on something that is not there, for users who
\* log in and out at any moment and networks that fail.
THEOREM WaitersAreServed == Spec => []NobodyWaitsInVain
<1>1. Init => NobodyWaitsInVain
  BY DEF Init, Untouched, NobodyWaitsInVain, InFlight, Calls
<1>2. ASSUME Typed, NobodyWaitsInVain, [Next]_vars PROVE NobodyWaitsInVain'
  <2>1. ASSUME NEW c \in Calls, request'[c].at = "waiting" PROVE refresh' # NoRefresh
    <3>1. CASE Waits(c)
      BY <3>1 DEF Waits
    <3>2. CASE ~ Waits(c)
      <4>1. request'[c] = request[c]
        BY <1>2, <2>1, <3>2, WayStep
        DEF Answered, Ended, Started, Released, Forgotten, AskedAgain, InFlight
      <4>2. c \in Waiters /\ refresh # NoRefresh
        BY <1>2, <2>1, <4>1 DEF Waiters, NobodyWaitsInVain
      <4>3. ~ ReceiveRefresh
        BY <1>2, <2>1, <4>2, WayClient DEF Released
      <4>4. ~ Reload
        BY <1>2, <2>1, WayReload DEF Forgotten, AskedAgain, InFlight
      <4> QED BY <1>2, <4>2, <4>3, <4>4, RefreshStays
    <3> QED BY <3>1, <3>2
  <2>2. (loading <=> InFlight(Hydration))'
    BY <1>2, LoadingStep DEF NobodyWaitsInVain
  <2> QED BY <2>1, <2>2 DEF NobodyWaitsInVain
<1>3. Typed /\ NobodyWaitsInVain /\ [Next]_vars => (Typed /\ NobodyWaitsInVain)'
  BY <1>2, TypedStep
<1> QED BY <1>1, <1>3, InitTyped, PTL DEF Spec

\* A call makes at most five steps before it is settled, and nothing but a
\* reload makes it begin again.
THEOREM CallsAlwaysWearOut == Spec => CallsWearOut
<1> DEFINE Worn(c) ==
      /\ request[c].at # "idle" /\ (c # Hydration \/ reloads' = reloads)
           => WayLeft(request'[c]) <= WayLeft(request[c])
      /\ Serve(c) \/ Receive(c) \/ (ReceiveRefresh /\ c \in Waiters)
           => WayLeft(request'[c]) < WayLeft(request[c])
<1>1. ASSUME Typed, [Next]_vars, NEW c \in Calls PROVE Worn(c)
  <2>1. WayLeft(request[c]) \in 0..5 /\ WayLeft(request'[c]) \in 0..5
    <3>1. Typed'
      BY <1>1, TypedStep
    <3> QED BY <1>1, <3>1, WayTyped DEF WayLeft, Typed, TypeOK
  <2>2. ASSUME Answered(c) \/ Ended(c) \/ Waits(c) \/ Released(c)
        PROVE  WayLeft(request'[c]) < WayLeft(request[c])
    BY <2>2 DEF Answered, Ended, Waits, Released, WayLeft
  <2>3. ASSUME Serve(c) \/ Receive(c) \/ (ReceiveRefresh /\ c \in Waiters)
        PROVE  WayLeft(request'[c]) < WayLeft(request[c])
    BY <1>1, <2>2, <2>3, WayServer, WayClient DEF Receive
  <2>4. ASSUME request[c].at # "idle", c # Hydration \/ reloads' = reloads
        PROVE  WayLeft(request'[c]) <= WayLeft(request[c])
    <3>1. CASE Forgotten(c)
      <4>1. WayLeft(request'[c]) = 0
        BY <3>1 DEF Forgotten, InFlight, WayLeft
      <4> QED BY <2>1, <4>1
    <3>2. CASE request'[c] = request[c]
      BY <2>1, <3>2
    <3> QED BY <1>1, <2>1, <2>2, <2>4, <3>1, <3>2, WayStep DEF Started, AskedAgain
  <2> QED BY <2>3, <2>4
<1>2. Typed /\ [Next]_vars => [\A c \in Calls :
       /\ request[c].at # "idle" /\ (c # Hydration \/ reloads' = reloads)
            => WayLeft(request'[c]) <= WayLeft(request[c])
       /\ Serve(c) \/ Receive(c) \/ (ReceiveRefresh /\ c \in Waiters)
            => WayLeft(request'[c]) < WayLeft(request[c])]_vars
  BY <1>1
<1>3. Spec => []Typed
  BY InitTyped, TypedStep, PTL DEF Spec
<1> QED BY <1>2, <1>3, PTL DEF Spec, CallsWearOut

(***************************************************************************)
(* The pairs of tokens.                                                    *)
(***************************************************************************)
\* Tokens are of logins that are over, and those of users.
OfSomebody ==
  /\ \A pair \in Held \cup expired : login[pair[1]] = "over"
  /\ \A l \in Logins : login[l] # "idle" => owner[l] \in Users

\* A call that is sent again has a good pair.
FreshPairs ==
  \A c \in Calls : request[c].at = "resent" =>
    request[c].pair \in Pairs \ expired /\ request[c].reply # "401"

\* The tokens there, and those that are refreshed, are the latest of their login,
\* and the last does not expire.
Latest(pair) == \A other \in Held \cup expired : other[1] = pair[1] => other[2] <= pair[2]
LatestPair ==
  /\ tokens # NoTokens => Latest(tokens)
  /\ refresh # NoRefresh => Latest(refresh.pair)
  /\ \A pair \in expired : pair[2] < MaxRefreshes

\* Pairs lapse in the order they were issued in.
LapseInOrder ==
  \A late \in lapsed : \A pair \in Held :
    pair[1] = late[1] /\ pair[2] <= late[2] => pair \in lapsed

\* The server refuses a pair that has lapsed.
HonestRefusal == refresh # NoRefresh /\ refresh.reply = "refused" => refresh.pair \in lapsed

\* The page asks whose the tokens are while it loads, with tokens.
Asking ==
  /\ loading <=> InFlight(Hydration)
  /\ InFlight(Hydration) => request[Hydration].pair \in Pairs

PairInv ==
  OfSomebody /\ FreshPairs /\ LatestPair /\ LapseInOrder /\ HonestRefusal /\ Asking

LEMMA InitPairs == Init => PairInv
<1> SUFFICES ASSUME Init PROVE PairInv
  OBVIOUS
<1>1. \A c \in Calls : request[c] = [at |-> "idle", pair |-> NoTokens, reply |-> NoReply]
  BY DEF Init, Untouched
<1>2. /\ Held = {} /\ expired = {} /\ lapsed = {} /\ tokens = NoTokens /\ refresh = NoRefresh
      /\ ~ loading /\ Hydration \in Calls
  BY <1>1 DEF Held, Init, Calls
<1>3. \A l \in Logins : login[l] = "idle"
  BY DEF Init
<1>4. OfSomebody /\ FreshPairs /\ LatestPair
  BY <1>1, <1>2, <1>3 DEF OfSomebody, FreshPairs, LatestPair
<1> QED
  BY <1>1, <1>2, <1>4 DEF PairInv, LapseInOrder, HonestRefusal, Asking, InFlight

\* Steps that bring no new pair and let none expire keep the pairs in order.
LEMMA PairsKept ==
  ASSUME Typed, PairInv, Held' \subseteq Held,
         tokens' = tokens \/ tokens' = NoTokens,
         \/ refresh' = NoRefresh
         \/ refresh # NoRefresh /\ refresh'.pair = refresh.pair
         \/ tokens # NoTokens /\ refresh'.pair = tokens,
         UNCHANGED <<expired, lapsed>>
  PROVE  LatestPair' /\ LapseInOrder'
<1>1. \A pair : Latest(pair) => Latest(pair)'
  BY DEF Latest
<1> QED BY <1>1 DEF PairInv, LatestPair, LapseInOrder

LEMMA SomebodyKept ==
  ASSUME Typed, PairInv, Held' \subseteq Held, expired' \subseteq expired \cup Held,
         \A l \in Logins : login[l] = "over" => login'[l] = "over",
         \A l \in Logins : login'[l] # "idle" => login[l] # "idle" /\ owner'[l] = owner[l]
  PROVE  OfSomebody'
<1>1. \A pair \in Held \cup expired : pair[1] \in Logins
  BY HeldPairs DEF Pairs, Typed, TypeOK
<1> QED BY <1>1 DEF PairInv, OfSomebody

\* /auth/me carries a pair, and a renewal gives it another.
LEMMA AskingStep ==
  ASSUME Typed, PairInv, [Next]_vars PROVE Asking'
<1>1. (loading <=> InFlight(Hydration))'
  BY LoadingStep DEF PairInv, Asking
<1>2. ASSUME InFlight(Hydration)' PROVE request'[Hydration].pair \in Pairs
  <2>1. Hydration \in Calls /\ Hydration \notin Requests
    BY DEF Calls
  <2>2. CASE request'[Hydration].pair = request[Hydration].pair /\ InFlight(Hydration)
    BY <2>2 DEF PairInv, Asking
  <2>3. CASE ReceiveRenewal
    <3>1. tokens' \in Pairs
      BY <2>3, RenewedType DEF ReceiveRenewal, Typed, TypeOK
    <3>2. InFlight(Hydration)
      BY <1>2, <2>1, <2>3, RenewalCalls
    <3> QED BY <2>1, <2>3, <3>1, <3>2, RenewalCalls DEF PairInv, Asking
  <2>4. CASE Reload
    <3>1. tokens # NoTokens /\ request'[Hydration].pair = tokens
      BY <1>2, <2>1, <2>4, ReloadCalls
    <3> QED BY <3>1 DEF Typed, TypeOK
  <2>5. CASE ReceiveRefusal
    BY <1>2, <2>1, <2>2, <2>5, RefusalCalls
  <2>6. ASSUME NEW c \in Calls, Serve(c) \/ Receive(c)
        PROVE  request'[Hydration].pair = request[Hydration].pair /\ InFlight(Hydration)
    BY <1>2, <2>1, <2>6 DEF Serve, Receive, ReceiveReply, Settle, AwaitRefresh, InFlight, Typed, TypeOK
  <2>7. ASSUME NEW r \in Requests, StartRequest(r)
        PROVE  request'[Hydration].pair = request[Hydration].pair /\ InFlight(Hydration)
    BY <1>2, <2>1, <2>7 DEF StartRequest, InFlight, Typed, TypeOK
  <2>8. CASE NetworkFails
    <3>1. request'[Hydration].pair = request[Hydration].pair /\ InFlight(Hydration)
      BY <1>2, <2>1, <2>8 DEF NetworkFails, InFlight, Typed, TypeOK
    <3> QED BY <2>2, <3>1
  <2>9. UNCHANGED request => request'[Hydration].pair = request[Hydration].pair /\ InFlight(Hydration)
    BY <1>2 DEF InFlight
  <2> QED
    BY <2>2, <2>3, <2>4, <2>5, <2>6, <2>7, <2>8, <2>9
    DEF Next, ReceiveRefresh, vars, ServeRefresh, SubmitLogin, ServeLogin, ReceiveLogin, Logout, Expire, Lapse
<1> QED BY <1>1, <1>2 DEF Asking

LEMMA PairsServerStep ==
  ASSUME Typed, PairInv, Asking',
         \/ \E c \in Calls : Serve(c)
         \/ ServeRefresh
         \/ NetworkFails
         \/ \E pair \in Pairs : Expire(pair) \/ Lapse(pair)
         \/ UNCHANGED vars
  PROVE  PairInv'
<1>1. ASSUME NEW c \in Calls, Serve(c) PROVE PairInv'
  <2>1. /\ request'[c].reply = IF request[c].pair \in Pairs \ expired THEN "ok" ELSE "401"
        /\ \A k \in Calls : k # c => request'[k] = request[k]
        /\ \A k \in Calls : request'[k].pair = request[k].pair /\ request'[k].at = request[k].at
        /\ UNCHANGED <<tokens, refresh, login, owner, expired, lapsed>>
    BY <1>1 DEF Serve, server, Typed, TypeOK
  <2>2. Held' = Held
    BY <2>1 DEF Held
  <2>3. FreshPairs' /\ HonestRefusal'
    BY <2>1 DEF PairInv, FreshPairs, HonestRefusal
  <2> QED BY <2>1, <2>2, <2>3, PairsKept, SomebodyKept DEF PairInv
<1>2. CASE ServeRefresh
  <2>1. /\ refresh # NoRefresh /\ refresh' # NoRefresh /\ refresh'.pair = refresh.pair
        /\ refresh'.reply = IF refresh.pair \in lapsed THEN "refused" ELSE "renewed"
        /\ UNCHANGED <<tokens, request, login, owner, expired, lapsed>>
    BY <1>2 DEF ServeRefresh, server, Typed, TypeOK, Pairs
  <2>2. Held' = Held
    BY <2>1 DEF Held
  <2>3. FreshPairs' /\ HonestRefusal'
    BY <2>1 DEF PairInv, FreshPairs, HonestRefusal
  <2> QED BY <2>1, <2>2, <2>3, PairsKept, SomebodyKept DEF PairInv
<1>3. CASE NetworkFails
  <2>1. /\ \A k \in Calls : /\ request'[k].pair = request[k].pair /\ request'[k].at = request[k].at
                            /\ request'[k].reply = request[k].reply \/ request'[k].reply = "error"
        /\ UNCHANGED <<tokens, owner, expired, lapsed>>
    BY <1>3 DEF NetworkFails, server, Typed, TypeOK
  <2>2. \/ refresh' = refresh
        \/ refresh # NoRefresh /\ refresh' # NoRefresh /\ refresh'.pair = refresh.pair /\ refresh'.reply = "lost"
    BY <1>3 DEF NetworkFails, Typed, TypeOK, Pairs
  <2>3. \A l \in Logins : login'[l] = login[l] \/ (login'[l] = "over" /\ login[l] = "sent")
    BY <1>3 DEF NetworkFails, Typed, TypeOK
  <2>4. Held' = Held
    BY <2>1, <2>2 DEF Held
  <2>5. FreshPairs' /\ HonestRefusal'
    BY <2>1, <2>2 DEF PairInv, FreshPairs, HonestRefusal
  <2>6. OfSomebody'
    BY <2>1, <2>3, <2>4, SomebodyKept
  <2>7. \/ refresh' = NoRefresh
        \/ refresh # NoRefresh /\ refresh'.pair = refresh.pair
    BY <2>2
  <2>8. LatestPair' /\ LapseInOrder'
    BY <2>1, <2>4, <2>7, PairsKept
  <2> QED BY <2>5, <2>6, <2>8 DEF PairInv
<1>4. ASSUME NEW pair \in Pairs, Expire(pair) PROVE PairInv'
  <2>1. /\ pair \in Held /\ pair[2] < MaxRefreshes
        /\ \A c \in Calls : request[c].at = "resent" => request[c].pair # pair
        /\ expired' = expired \cup {pair}
        /\ UNCHANGED <<tokens, refresh, request, login, owner, lapsed>>
    BY <1>4 DEF Expire
  <2>2. Held' = Held
    BY <2>1 DEF Held
  <2>3. FreshPairs' /\ HonestRefusal'
    BY <2>1 DEF PairInv, FreshPairs, HonestRefusal
  <2>4. \A other : Latest(other) => Latest(other)'
    BY <2>1, <2>2 DEF Latest
  <2>5. LatestPair' /\ LapseInOrder'
    BY <2>1, <2>2, <2>4 DEF PairInv, LatestPair, LapseInOrder
  <2>6. OfSomebody'
    BY <2>1, <2>2, SomebodyKept
  <2> QED BY <2>3, <2>5, <2>6 DEF PairInv
<1>5. ASSUME NEW pair \in Pairs, Lapse(pair) PROVE PairInv'
  <2>1. /\ \A older \in Held : older[1] = pair[1] /\ older[2] < pair[2] => older \in lapsed
        /\ lapsed' = lapsed \cup {pair}
        /\ UNCHANGED <<tokens, refresh, request, login, owner, expired>>
    BY <1>5 DEF Lapse
  <2>2. Held' = Held
    BY <2>1 DEF Held
  <2>3. FreshPairs' /\ HonestRefusal'
    BY <2>1 DEF PairInv, FreshPairs, HonestRefusal
  <2>4. LatestPair'
    BY <2>1, <2>2 DEF PairInv, LatestPair, Latest
  <2>5. \A older \in Held : older[1] = pair[1] /\ older[2] <= pair[2] => older \in lapsed'
    BY <2>1, HeldPairs DEF Pairs
  <2>6. LapseInOrder'
    BY <2>1, <2>2, <2>5 DEF PairInv, LapseInOrder
  <2>7. OfSomebody'
    BY <2>1, <2>2, SomebodyKept
  <2> QED BY <2>3, <2>4, <2>6, <2>7 DEF PairInv
<1>6. CASE UNCHANGED vars
  <2>1. UNCHANGED <<tokens, refresh, request, login, owner, expired, lapsed>>
    BY <1>6 DEF vars
  <2>2. Held' = Held
    BY <2>1 DEF Held
  <2>3. FreshPairs' /\ HonestRefusal'
    BY <2>1 DEF PairInv, FreshPairs, HonestRefusal
  <2>4. OfSomebody' /\ LatestPair' /\ LapseInOrder'
    BY <2>1, <2>2 DEF PairInv, OfSomebody, LatestPair, Latest, LapseInOrder
  <2> QED BY <2>3, <2>4 DEF PairInv
<1> QED BY <1>1, <1>2, <1>3, <1>4, <1>5, <1>6

LEMMA PairsClientStep ==
  ASSUME Typed, PairInv, Asking',
         \/ \E r \in Requests : StartRequest(r)
         \/ \E c \in Calls : Receive(c)
         \/ ReceiveRefusal
  PROVE  PairInv'
<1>1. ASSUME NEW r \in Requests, StartRequest(r) PROVE PairInv'
  <2>1. /\ r \in Calls
        /\ request'[r] = [at |-> "sent", pair |-> tokens, reply |-> NoReply]
        /\ \A k \in Calls : k # r => request'[k] = request[k]
        /\ UNCHANGED <<tokens, refresh, login, owner, expired, lapsed>>
    BY <1>1 DEF StartRequest, Sent, Calls, server, Typed, TypeOK
  <2>2. Held' \subseteq Held
    BY <2>1 DEF Held
  <2>3. FreshPairs' /\ HonestRefusal'
    BY <2>1 DEF PairInv, FreshPairs, HonestRefusal
  <2> QED BY <2>1, <2>2, <2>3, PairsKept, SomebodyKept DEF PairInv
<1>2. ASSUME NEW c \in Calls, AwaitRefresh(c) PROVE PairInv'
  <2>1. /\ request'[c].at = "waiting" /\ request'[c].reply = NoReply
        /\ request'[c].pair = request[c].pair
        /\ \A k \in Calls : k # c => request'[k] = request[k]
        /\ tokens \in Pairs /\ tokens # NoTokens
        /\ \/ refresh # NoRefresh /\ refresh' = refresh
           \/ refresh' = [pair |-> tokens, reply |-> NoReply]
        /\ UNCHANGED <<tokens, login, owner, expired, lapsed>>
    BY <1>2 DEF AwaitRefresh, server, Typed, TypeOK
  <2>2. Held' \subseteq Held
    BY <2>1 DEF Held
  <2>3. FreshPairs' /\ HonestRefusal'
    BY <2>1 DEF PairInv, FreshPairs, HonestRefusal
  <2> QED BY <2>1, <2>2, <2>3, PairsKept, SomebodyKept DEF PairInv
<1>3. ASSUME NEW c \in Calls, ReceiveReply(c) PROVE PairInv'
  <2>1. PICK verdict \in {"done", "failed"} : Settle(c, verdict)
    BY <1>3 DEF ReceiveReply
  <2>2. (tokens' = tokens \/ tokens' = NoTokens) /\ UNCHANGED <<refresh, login, owner, expired, lapsed>>
    BY <1>3, <2>1 DEF Settle, ReceiveReply, server
  <2>3. /\ request'[c].at = verdict
        /\ \A k \in Calls : k # c => request'[k] = request[k]
        /\ \A k \in Calls : request'[k].pair = request[k].pair
    BY <2>1 DEF Settle, Typed, TypeOK
  <2>4. Held' \subseteq Held
    BY <2>2, <2>3 DEF Held
  <2>5. FreshPairs' /\ HonestRefusal'
    BY <2>2, <2>3 DEF PairInv, FreshPairs, HonestRefusal
  <2> QED BY <2>2, <2>4, <2>5, PairsKept, SomebodyKept DEF PairInv
<1>4. CASE ReceiveRefusal
  <2>1. refresh' = NoRefresh /\ tokens' = NoTokens /\ UNCHANGED <<login, owner, expired, lapsed>>
    BY <1>4 DEF ReceiveRefusal, server
  <2>2. Held' \subseteq Held
    BY <1>4, <2>1, RefusalCalls DEF Held
  <2>3. FreshPairs' /\ HonestRefusal'
    BY <1>4, <2>1, RefusalCalls DEF PairInv, FreshPairs, HonestRefusal
  <2> QED BY <2>1, <2>2, <2>3, PairsKept, SomebodyKept DEF PairInv
<1> QED BY <1>1, <1>2, <1>3, <1>4 DEF Receive

LEMMA PairsRenewalStep ==
  ASSUME Typed, PairInv, Asking', ReceiveRenewal PROVE PairInv'
<1> DEFINE old == refresh.pair
<1>1. /\ refresh # NoRefresh /\ refresh' = NoRefresh /\ UNCHANGED <<login, owner, expired, lapsed>>
      /\ tokens' = Renewed(old) /\ old \in Pairs
      /\ tokens' \in Pairs /\ tokens'[1] = old[1] /\ tokens' # NoTokens
  BY RenewedType DEF ReceiveRenewal, server, Typed, TypeOK, Pairs
<1>2. old \in Held
  BY <1>1 DEF Held, Pairs
<1> HIDE DEF old
<1>3. \/ old[2] = MaxRefreshes /\ tokens' = old
      \/ tokens'[2] = old[2] + 1
  BY <1>1, RenewedType DEF Pairs
<1>4. /\ lapsed \subseteq expired
      /\ \A pair \in Held \cup expired : pair \in Pairs /\ (pair[1] = old[1] => pair[2] <= old[2])
      /\ \A pair \in expired : pair[2] < MaxRefreshes
  BY <1>1, HeldPairs DEF PairInv, LatestPair, Latest, Typed, TypeOK, old
<1>5. \A pair \in expired : pair[1] = tokens'[1] => pair[2] < tokens'[2]
  BY <1>1, <1>3, <1>4 DEF Pairs
<1>6. Held' \subseteq Held \cup {tokens'}
  BY <1>1, RenewalCalls DEF Held
<1>7. HonestRefusal'
  BY <1>1 DEF HonestRefusal
<1>8. FreshPairs'
  <2>1. tokens' \notin expired
    BY <1>1, <1>5 DEF Pairs
  <2> QED BY <1>1, <2>1, RenewalCalls DEF PairInv, FreshPairs
<1>9. LatestPair'
  <2>1. Latest(tokens)'
    BY <1>1, <1>3, <1>4, <1>5, <1>6 DEF Latest, Pairs
  <2> QED BY <1>1, <1>4, <2>1 DEF LatestPair
<1>10. LapseInOrder'
  <2>1. \A late \in lapsed : tokens'[1] = late[1] => ~ (tokens'[2] <= late[2])
    BY <1>1, <1>4, <1>5 DEF Pairs
  <2> QED BY <1>1, <1>6, <2>1 DEF PairInv, LapseInOrder
<1>11. OfSomebody'
  BY <1>1, <1>2, <1>6 DEF PairInv, OfSomebody
<1> QED BY <1>7, <1>8, <1>9, <1>10, <1>11 DEF PairInv

LEMMA PairsUserStep ==
  ASSUME Typed, PairInv, Asking',
         \/ \E l \in Logins : (\E u \in Users : SubmitLogin(l, u)) \/ ServeLogin(l) \/ ReceiveLogin(l)
         \/ Logout
         \/ Reload
  PROVE  PairInv'
<1>1. ASSUME NEW l \in Logins, (\E u \in Users : SubmitLogin(l, u)) \/ ServeLogin(l) PROVE PairInv'
  <2>1. UNCHANGED <<tokens, refresh, request, expired, lapsed>>
    BY <1>1 DEF SubmitLogin, ServeLogin, server
  <2>2. Held' = Held
    BY <2>1 DEF Held
  <2>3. FreshPairs' /\ HonestRefusal'
    BY <2>1 DEF PairInv, FreshPairs, HonestRefusal
  <2>4. /\ login'[l] # "idle" /\ owner'[l] \in Users
        /\ login[l] # "over"
        /\ \A m \in Logins : m # l => login'[m] = login[m] /\ owner'[m] = owner[m]
    <3>1. ASSUME NEW u \in Users, SubmitLogin(l, u)
          PROVE  /\ login'[l] = "sent" /\ owner'[l] = u /\ login[l] = "idle"
                 /\ \A m \in Logins : m # l => login'[m] = login[m] /\ owner'[m] = owner[m]
      BY <3>1 DEF SubmitLogin, Typed, TypeOK
    <3>2. ASSUME ServeLogin(l)
          PROVE  /\ login'[l] \in {"accepted", "over"} /\ owner' = owner /\ login[l] = "sent"
                 /\ \A m \in Logins : m # l => login'[m] = login[m] /\ owner'[m] = owner[m]
      BY <3>2 DEF ServeLogin, server, Typed, TypeOK
    <3>3. ServeLogin(l) => owner[l] \in Users
      BY <3>2 DEF PairInv, OfSomebody
    <3> QED BY <1>1, <3>1, <3>2, <3>3
  <2>5. \A pair \in Held \cup expired : pair[1] \in Logins /\ pair[1] # l
    BY <2>4, HeldPairs DEF Pairs, PairInv, OfSomebody, Typed, TypeOK
  <2>6. OfSomebody'
    BY <2>1, <2>2, <2>4, <2>5 DEF PairInv, OfSomebody
  <2> QED BY <2>1, <2>2, <2>3, <2>6, PairsKept DEF PairInv
<1>2. ASSUME NEW l \in Logins, ReceiveLogin(l) PROVE PairInv'
  <2>1. /\ login[l] = "accepted" /\ login'[l] = "over"
        /\ \A m \in Logins : m # l => login'[m] = login[m]
        /\ tokens' = <<l, 0>> /\ tokens' # NoTokens /\ tokens' \in Pairs
        /\ UNCHANGED <<refresh, request, owner, expired, lapsed>>
    BY <1>2 DEF ReceiveLogin, server, Pairs, Typed, TypeOK
  <2>2. Held' \subseteq Held \cup {tokens'}
    BY <2>1 DEF Held
  <2>3. \A pair \in Held \cup expired : pair[1] # l /\ pair[1] \in Logins
    BY <2>1, HeldPairs DEF PairInv, OfSomebody, Pairs, Typed, TypeOK
  <2>4. FreshPairs' /\ HonestRefusal'
    BY <2>1 DEF PairInv, FreshPairs, HonestRefusal
  <2>5. LatestPair'
    <3>1. Latest(tokens)'
      BY <2>1, <2>2, <2>3 DEF Latest
    <3>2. refresh # NoRefresh => Latest(refresh.pair)'
      <4>1. refresh # NoRefresh => refresh.pair \in Held
        BY DEF Held, Typed, TypeOK, Pairs
      <4> QED BY <2>1, <2>2, <2>3, <4>1 DEF PairInv, LatestPair, Latest
    <3> QED BY <2>1, <3>1, <3>2 DEF PairInv, LatestPair
  <2>6. LapseInOrder'
    BY <2>1, <2>2, <2>3 DEF PairInv, LapseInOrder, Typed, TypeOK
  <2>7. OfSomebody'
    BY <2>1, <2>2, <2>3 DEF PairInv, OfSomebody
  <2> QED BY <2>4, <2>5, <2>6, <2>7 DEF PairInv
<1>3. CASE Logout
  <2>1. tokens' = NoTokens /\ UNCHANGED <<refresh, request, login, owner, expired, lapsed>>
    BY <1>3 DEF Logout, server
  <2>2. Held' \subseteq Held
    BY <2>1 DEF Held
  <2>3. FreshPairs' /\ HonestRefusal'
    BY <2>1 DEF PairInv, FreshPairs, HonestRefusal
  <2> QED BY <2>1, <2>2, <2>3, PairsKept, SomebodyKept DEF PairInv
<1>4. CASE Reload
  <2>1. refresh' = NoRefresh /\ UNCHANGED <<tokens, owner, expired, lapsed>>
    BY <1>4 DEF Reload, server
  <2>2. Held' \subseteq Held
    BY <1>4, <2>1, ReloadCalls DEF Held
  <2>3. \A c \in Calls : request'[c].at # "resent"
    BY <1>4, ReloadCalls DEF InFlight
  <2>4. FreshPairs' /\ HonestRefusal'
    BY <2>1, <2>3 DEF FreshPairs, HonestRefusal
  <2>5. \A l \in Logins : login'[l] = IF login[l] = "idle" THEN "idle" ELSE "over"
    BY <1>4 DEF Reload
  <2> QED BY <2>1, <2>2, <2>4, <2>5, PairsKept, SomebodyKept DEF PairInv
<1> QED BY <1>1, <1>2, <1>3, <1>4

LEMMA PairsStep == Typed /\ PairInv /\ [Next]_vars => PairInv'
BY AskingStep, PairsServerStep, PairsClientStep, PairsRenewalStep, PairsUserStep DEF Next, ReceiveRefresh

(***************************************************************************)
(* The session.                                                            *)
(***************************************************************************)
\* A refresh is for the tokens that are there, which are those of the user, and
\* the calls whose session has not ended carry pairs of the same login, or lapsed
\* ones if the tokens are gone.
RefreshFits == refresh # NoRefresh => tokens # NoTokens /\ refresh.pair = tokens
OneSession ==
  \A c \in Calls \ strays :
    InFlight(c) /\ request[c].pair # NoTokens /\ tokens # NoTokens
      => request[c].pair[1] = tokens[1]
DroppedLate ==
  tokens = NoTokens =>
    \A c \in Calls \ strays : InFlight(c) => request[c].pair = NoTokens \/ request[c].pair \in lapsed
Owned == user # NoUser /\ tokens # NoTokens => Owner(tokens) = user
Cleared == user = NoUser /\ ~ loading => tokens = NoTokens
\* While the page loads, it shows no user, and /auth/me is the only call.
LoadingAlone ==
  loading => /\ user = NoUser /\ Hydration \notin strays
             /\ \A r \in Requests : ~ InFlight(r)
             /\ refresh # NoRefresh => request[Hydration].at = "waiting"

Coherent == RefreshFits /\ OneSession /\ DroppedLate /\ Owned /\ Cleared /\ LoadingAlone
\* A login or logout that crosses a refresh or /auth/me may break all of it.
SessionInv == crossed \/ Coherent

LEMMA InitSession == Init => SessionInv
<1> SUFFICES ASSUME Init PROVE Coherent
  BY DEF SessionInv
<1>1. \A c \in Calls : ~ InFlight(c) /\ request[c].pair = NoTokens
  BY DEF Init, Untouched, InFlight
<1>2. tokens = NoTokens /\ refresh = NoRefresh /\ user = NoUser /\ ~ loading
  BY DEF Init
<1> QED
  BY <1>1, <1>2 DEF Coherent, RefreshFits, OneSession, DroppedLate, Owned, Cleared, LoadingAlone

\* Steps of the server and the ends of requests: nobody's session changes.
LEMMA CallsMoveOn ==
  ASSUME Typed, SessionInv,
         UNCHANGED <<tokens, user, loading, crossed, strays>>,
         tokens # NoTokens => Owner(tokens)' = Owner(tokens),
         lapsed \subseteq lapsed',
         \A c \in Calls : request'[c].pair = request[c].pair /\ (InFlight(c)' => InFlight(c)),
         request'[Hydration].at = request[Hydration].at,
         \/ refresh' = refresh
         \/ refresh # NoRefresh /\ refresh' # NoRefresh /\ refresh'.pair = refresh.pair
  PROVE  SessionInv'
<1> SUFFICES ASSUME Coherent PROVE Coherent'
  BY DEF SessionInv
<1>1. RefreshFits' /\ OneSession' /\ DroppedLate'
  BY DEF Coherent, RefreshFits, OneSession, DroppedLate
<1>2. LoadingAlone'
  BY DEF Coherent, LoadingAlone, Calls
<1>3. Owned' /\ Cleared'
  BY DEF Coherent, Owned, Cleared
<1> QED BY <1>1, <1>2, <1>3 DEF Coherent

LEMMA SessionServerStep ==
  ASSUME Typed, PairInv, SessionInv,
         \/ \E c \in Calls : Serve(c)
         \/ ServeRefresh
         \/ NetworkFails
         \/ \E pair \in Pairs : Expire(pair) \/ Lapse(pair)
         \/ \E l \in Logins : (\E u \in Users : SubmitLogin(l, u)) \/ ServeLogin(l)
         \/ UNCHANGED vars
  PROVE  SessionInv'
<1>1. \A c \in Calls : request'[c].pair = request[c].pair /\ request'[c].at = request[c].at
  BY DEF Serve, ServeRefresh, NetworkFails, Expire, Lapse, SubmitLogin, ServeLogin, vars, Typed, TypeOK
<1>2. (\A c \in Calls : InFlight(c)' => InFlight(c)) /\ request'[Hydration].at = request[Hydration].at
  BY <1>1 DEF InFlight, Calls
<1>3. \/ refresh' = refresh
      \/ refresh # NoRefresh /\ refresh' # NoRefresh /\ refresh'.pair = refresh.pair
  BY DEF Serve, ServeRefresh, NetworkFails, Expire, Lapse, SubmitLogin, ServeLogin, vars, Typed, TypeOK, Pairs
<1>4. UNCHANGED <<tokens, user, loading, crossed, strays>> /\ lapsed \subseteq lapsed'
  BY DEF Serve, ServeRefresh, NetworkFails, Expire, Lapse, SubmitLogin, ServeLogin, vars, server, history
<1>5. ASSUME tokens # NoTokens PROVE Owner(tokens)' = Owner(tokens)
  <2>1. tokens \in Held /\ tokens[1] \in Logins /\ login[tokens[1]] = "over"
    BY <1>5 DEF Held, PairInv, OfSomebody, Typed, TypeOK, Pairs
  <2>2. owner'[tokens[1]] = owner[tokens[1]]
    BY <2>1 DEF Serve, ServeRefresh, NetworkFails, Expire, Lapse, SubmitLogin, ServeLogin, vars, server,
       Typed, TypeOK
  <2> QED BY <1>4, <2>2 DEF Owner
<1> QED BY <1>1, <1>2, <1>3, <1>4, <1>5, CallsMoveOn

LEMMA SessionRequestStep ==
  ASSUME Typed, PairInv, SessionInv,
         \/ \E r \in Requests : StartRequest(r)
         \/ \E c \in Calls : AwaitRefresh(c)
  PROVE  SessionInv'
<1>1. ASSUME NEW r \in Requests, StartRequest(r), Coherent PROVE Coherent'
  <2>1. /\ r \in Calls /\ r # Hydration /\ Hydration \in Calls
        /\ request'[r].pair = tokens /\ user # NoUser
        /\ \A c \in Calls : c # r => request'[c] = request[c] /\ (InFlight(c)' <=> InFlight(c))
        /\ UNCHANGED <<tokens, user, loading, refresh, owner, lapsed, strays>>
    BY <1>1 DEF StartRequest, Sent, Calls, InFlight, server, history, Typed, TypeOK
  <2>2. RefreshFits' /\ LoadingAlone'
    BY <1>1, <2>1 DEF Coherent, RefreshFits, LoadingAlone
  <2>3. OneSession' /\ DroppedLate'
    BY <1>1, <2>1 DEF Coherent, OneSession, DroppedLate
  <2>4. Owned' /\ Cleared'
    BY <1>1, <2>1 DEF Coherent, Owned, Cleared, Owner
  <2> QED BY <2>2, <2>3, <2>4 DEF Coherent
<1>2. ASSUME NEW c \in Calls, AwaitRefresh(c), Coherent PROVE Coherent'
  <2>1. /\ Hydration \in Calls
        /\ \A k \in Calls : request'[k].pair = request[k].pair /\ (InFlight(k)' <=> InFlight(k))
        /\ InFlight(c) /\ request'[c].at = "waiting"
        /\ \A k \in Calls : k # c => request'[k] = request[k]
    BY <1>2 DEF AwaitRefresh, InFlight, Calls, Typed, TypeOK
  <2>2. /\ tokens # NoTokens
        /\ refresh' = IF refresh = NoRefresh THEN [pair |-> tokens, reply |-> NoReply] ELSE refresh
        /\ UNCHANGED <<tokens, user, loading, owner, lapsed, strays>>
    BY <1>2 DEF AwaitRefresh, server, history
  <2>3. RefreshFits' /\ OneSession' /\ DroppedLate'
    BY <1>2, <2>1, <2>2 DEF Coherent, RefreshFits, OneSession, DroppedLate
  <2>4. LoadingAlone'
    BY <1>2, <2>1, <2>2 DEF Coherent, LoadingAlone, Calls
  <2>5. Owned' /\ Cleared'
    BY <1>2, <2>2 DEF Coherent, Owned, Cleared, Owner
  <2> QED BY <2>3, <2>4, <2>5 DEF Coherent
<1>3. UNCHANGED crossed
  BY DEF StartRequest, AwaitRefresh, history
<1> QED BY <1>1, <1>2, <1>3 DEF SessionInv

LEMMA SessionReplyStep ==
  ASSUME Typed, PairInv, SessionInv, NEW c \in Calls, ReceiveReply(c) PROVE SessionInv'
<1>1. /\ request[c].at \in {"sent", "resent"} /\ InFlight(c)
      /\ UNCHANGED <<refresh, login, owner, lapsed, crossed>>
  BY DEF ReceiveReply, server, Typed, RepliesFit, InFlight
<1>2. PICK verdict \in {"done", "failed"} : Settle(c, verdict)
  BY DEF ReceiveReply
<1>3. request' = [request EXCEPT ![c].at = verdict, ![c].reply = NoReply]
  BY <1>2 DEF Settle
<1>4. /\ ~ InFlight(c)'
      /\ \A k \in Calls : request'[k].pair = request[k].pair /\ (InFlight(k)' => InFlight(k))
      /\ \A k \in Calls : k # c => request'[k] = request[k]
  BY <1>3 DEF InFlight, Typed, TypeOK
<1>5. CASE c # Hydration
  <2>1. UNCHANGED <<tokens, user, loading, strays>> /\ request'[Hydration].at = request[Hydration].at
    BY <1>2, <1>4, <1>5 DEF Settle, Calls
  <2>2. Owner(tokens)' = Owner(tokens)
    BY <1>1, <2>1 DEF Owner
  <2> QED BY <1>1, <1>4, <2>1, <2>2, CallsMoveOn
<1>6. CASE c = Hydration
  <2> SUFFICES ASSUME Coherent PROVE Coherent'
    BY <1>1 DEF SessionInv
  <2>1. /\ request[c].pair \in Pairs /\ request[c].pair # NoTokens /\ c \notin strays
        /\ loading /\ refresh = NoRefresh /\ \A r \in Requests : ~ InFlight(r)
    BY <1>1, <1>6 DEF PairInv, Asking, Coherent, LoadingAlone, Pairs
  <2>2. Owner(request[c].pair) \in Users
    <3>1. request[c].pair \in Held /\ request[c].pair[1] \in Logins /\ login[request[c].pair[1]] = "over"
      BY <2>1 DEF Held, Pairs, PairInv, OfSomebody
    <3> QED BY <3>1 DEF PairInv, OfSomebody, Owner
  <2>3. \A k \in Calls : ~ InFlight(k)'
    BY <1>4, <1>6, <2>1 DEF Calls
  <2>4. ~ loading' /\ refresh' = NoRefresh
    BY <1>1, <1>2, <1>6, <2>1 DEF Settle
  <2>5. RefreshFits' /\ OneSession' /\ DroppedLate' /\ LoadingAlone'
    BY <2>3, <2>4 DEF RefreshFits, OneSession, DroppedLate, LoadingAlone
  <2>6. CASE verdict = "done"
    <3>1. user' = Owner(request[c].pair) /\ UNCHANGED tokens
      BY <1>2, <1>6, <2>6 DEF Settle
    <3>2. tokens # NoTokens => Owner(tokens) = Owner(request[c].pair)
      BY <1>1, <2>1 DEF Coherent, OneSession, Owner
    <3>3. Owned' /\ Cleared'
      BY <1>1, <2>2, <3>1, <3>2 DEF Owned, Cleared, Owner
    <3> QED BY <2>5, <3>3 DEF Coherent
  <2>7. CASE verdict = "failed"
    <3>1. tokens' = NoTokens
      BY <1>2, <1>6, <2>7 DEF Settle
    <3>2. Owned' /\ Cleared'
      BY <3>1 DEF Owned, Cleared
    <3> QED BY <2>5, <3>2 DEF Coherent
  <2> QED BY <2>6, <2>7
<1> QED BY <1>5, <1>6

LEMMA SessionRenewalStep ==
  ASSUME Typed, PairInv, SessionInv, ReceiveRenewal PROVE SessionInv'
<1>1. /\ refresh # NoRefresh /\ refresh.pair \in Pairs /\ refresh' = NoRefresh
      /\ tokens' = Renewed(refresh.pair)
      /\ UNCHANGED <<user, loading, owner, lapsed, crossed, strays>>
  BY DEF ReceiveRenewal, server, history, Typed, TypeOK
<1>2. tokens' \in Pairs /\ tokens' # NoTokens /\ tokens'[1] = refresh.pair[1]
  BY <1>1, RenewedType DEF Pairs
<1> SUFFICES ASSUME Coherent PROVE Coherent'
  BY <1>1 DEF SessionInv
<1>3. refresh.pair = tokens /\ tokens # NoTokens
  BY <1>1 DEF Coherent, RefreshFits
<1>4. RefreshFits' /\ DroppedLate'
  BY <1>1, <1>2 DEF RefreshFits, DroppedLate
<1>5. OneSession'
  BY <1>1, <1>2, <1>3, RenewalCalls DEF Coherent, OneSession
<1>6. Owned' /\ Cleared'
  BY <1>1, <1>2, <1>3 DEF Coherent, Owned, Cleared, Owner
<1>7. LoadingAlone'
  BY <1>1, RenewalCalls DEF Coherent, LoadingAlone, Calls
<1> QED BY <1>4, <1>5, <1>6, <1>7 DEF Coherent

\* When the tokens there have lapsed, so have those that calls of their session
\* carry.
LEMMA CallsLapseToo ==
  ASSUME Typed, PairInv, Coherent, tokens # NoTokens, tokens \in lapsed,
         NEW c \in Calls \ strays, InFlight(c), request[c].pair # NoTokens
  PROVE  request[c].pair \in lapsed
<1>1. request[c].pair \in Held /\ tokens \in Held
  BY DEF Held
<1>2. request[c].pair[1] = tokens[1]
  BY DEF Coherent, OneSession
<1>3. request[c].pair[2] <= tokens[2]
  BY <1>1, <1>2 DEF PairInv, LatestPair, Latest
<1> QED BY <1>1, <1>2, <1>3 DEF PairInv, LapseInOrder

\* A refresh that is refused was of the tokens that are there, and they lapsed.
LEMMA RefusedTokensLapsed ==
  ASSUME PairInv, Coherent, refresh # NoRefresh, refresh.reply = "refused"
  PROVE  tokens # NoTokens /\ tokens \in lapsed
BY DEF Coherent, RefreshFits, PairInv, HonestRefusal

LEMMA SessionRefusalStep ==
  ASSUME Typed, PairInv, SessionInv, ReceiveRefusal PROVE SessionInv'
<1>1. /\ refresh # NoRefresh /\ refresh.reply \in {"refused", "lost"} /\ refresh' = NoRefresh
      /\ tokens' = NoTokens
      /\ strays' = IF refresh.reply = "lost" THEN strays \cup UnderWay ELSE strays
      /\ UNCHANGED <<lapsed, crossed>>
  BY DEF ReceiveRefusal, server
<1> SUFFICES ASSUME Coherent PROVE Coherent'
  BY <1>1 DEF SessionInv
<1>2. ~ loading'
  BY <1>1 DEF ReceiveRefusal, Coherent, LoadingAlone, Waiters, Calls
<1>3. RefreshFits' /\ OneSession' /\ Owned' /\ Cleared' /\ LoadingAlone'
  BY <1>1, <1>2 DEF RefreshFits, OneSession, Owned, Cleared, LoadingAlone
<1>4. DroppedLate'
  <2>1. CASE refresh.reply = "lost"
    BY <1>1, <2>1, RefusalCalls DEF DroppedLate, UnderWay
  <2>2. CASE refresh.reply = "refused"
    <3>1. \A c \in Calls \ strays : InFlight(c) => request[c].pair = NoTokens \/ request[c].pair \in lapsed
      BY <1>1, <2>2, RefusedTokensLapsed, CallsLapseToo
    <3> QED BY <1>1, <2>2, <3>1, RefusalCalls DEF DroppedLate
  <2> QED BY <1>1, <2>1, <2>2
<1> QED BY <1>3, <1>4 DEF Coherent

\* A user who logs in or out with no refresh or /auth/me under way leaves behind
\* only calls of the session that ended.
LEMMA SessionUserStep ==
  ASSUME Typed, PairInv, (\E l \in Logins : ReceiveLogin(l)) \/ Logout PROVE SessionInv'
<1>1. strays' = strays \cup UnderWay /\ UNCHANGED <<loading, refresh, request, owner>>
  BY DEF ReceiveLogin, Logout, ChangesSession, server
<1>2. crossed' = (refresh # NoRefresh \/ loading)
  BY DEF ReceiveLogin, Logout, ChangesSession
<1> SUFFICES ASSUME refresh = NoRefresh, ~ loading PROVE Coherent'
  BY <1>2 DEF SessionInv
<1>3. \A c \in Calls \ strays' : ~ InFlight(c)'
  BY <1>1 DEF UnderWay, InFlight
<1>4. RefreshFits' /\ LoadingAlone' /\ OneSession' /\ DroppedLate'
  BY <1>1, <1>3 DEF RefreshFits, LoadingAlone, OneSession, DroppedLate
<1>5. CASE Logout
  BY <1>4, <1>5 DEF Logout, Coherent, Owned, Cleared
<1>6. ASSUME NEW l \in Logins, ReceiveLogin(l) PROVE Coherent'
  <2>1. tokens' = <<l, 0>> /\ user' = owner[l] /\ owner[l] \in Users
    BY <1>6 DEF ReceiveLogin, PairInv, OfSomebody
  <2>2. Owned' /\ Cleared'
    BY <1>1, <2>1 DEF Owned, Cleared, Owner
  <2> QED BY <1>4, <2>2 DEF Coherent
<1> QED BY <1>5, <1>6

LEMMA SessionReloadStep ==
  ASSUME Typed, Reload PROVE SessionInv'
<1>1. /\ ~ crossed' /\ strays' = {} /\ user' = NoUser /\ refresh' = NoRefresh
      /\ loading' = (tokens # NoTokens) /\ UNCHANGED tokens
  BY DEF Reload
<1>2. \A c \in Calls : InFlight(c)' => c = Hydration /\ tokens # NoTokens /\ request'[c].pair = tokens
  BY ReloadCalls
<1>3. RefreshFits' /\ OneSession' /\ DroppedLate' /\ Owned' /\ Cleared'
  BY <1>1, <1>2 DEF RefreshFits, OneSession, DroppedLate, Owned, Cleared
<1>4. LoadingAlone'
  BY <1>1, <1>2 DEF LoadingAlone, Calls
<1> QED BY <1>3, <1>4 DEF SessionInv, Coherent

LEMMA SessionStep == Typed /\ PairInv /\ SessionInv /\ [Next]_vars => SessionInv'
BY SessionServerStep, SessionRequestStep, SessionReplyStep, SessionRenewalStep, SessionRefusalStep,
   SessionUserStep, SessionReloadStep
DEF Next, Receive, ReceiveRefresh

LEMMA SessionInvariant == Spec => [](Typed /\ PairInv /\ SessionInv)
<1>1. Init => Typed /\ PairInv /\ SessionInv
  BY InitTyped, InitPairs, InitSession
<1>2. Typed /\ PairInv /\ SessionInv /\ [Next]_vars => (Typed /\ PairInv /\ SessionInv)'
  BY TypedStep, PairsStep, SessionStep
<1> QED BY <1>1, <1>2, PTL DEF Spec

\* Whatever the user and the network do, requests are made in the name of the
\* user that the pages show, until a login or logout crosses a refresh or
\* /auth/me.
THEOREM UserAlwaysOwnsTokens == Spec => []UserOwnsTokens
<1>1. SessionInv => UserOwnsTokens
  BY DEF SessionInv, Coherent, Owned, UserOwnsTokens
<1> QED BY <1>1, SessionInvariant, PTL

\* With the same exception no tokens are kept when nobody is logged in.
THEOREM LogoutAlwaysClears == Spec => []LogoutClears
<1>1. SessionInv => LogoutClears
  BY DEF SessionInv, Coherent, Cleared, LogoutClears
<1> QED BY <1>1, SessionInvariant, PTL

\* A call of a page fails only when its reply was received or its refresh
\* refused, or when the page is loaded again.
LEMMA WhoFails ==
  ASSUME Typed, [Next]_vars, NEW c \in Calls, request[c].at # "failed", request'[c].at = "failed"
  PROVE  ReceiveReply(c) \/ ReceiveRefusal \/ Reload
<1> USE DEF Typed, TypeOK
<1>1. ASSUME NEW k \in Calls, Serve(k) \/ AwaitRefresh(k) PROVE request'[c].at # "failed"
  BY <1>1 DEF Serve, AwaitRefresh
<1>2. ASSUME NEW k \in Calls, k # c, ReceiveReply(k) PROVE request'[c].at # "failed"
  BY <1>2 DEF ReceiveReply, Settle
<1>3. ASSUME NEW r \in Requests, StartRequest(r) PROVE request'[c].at # "failed"
  BY <1>3 DEF StartRequest, Sent
<1>4. ASSUME ServeRefresh \/ Logout \/ UNCHANGED vars PROVE request'[c].at # "failed"
  BY <1>4 DEF ServeRefresh, Logout, vars
<1>5. CASE ReceiveRenewal
  BY <1>5, RenewalCalls
<1>6. ASSUME NEW l \in Logins, (\E u \in Users : SubmitLogin(l, u)) \/ ServeLogin(l) \/ ReceiveLogin(l)
      PROVE  request'[c].at # "failed"
  BY <1>6 DEF SubmitLogin, ServeLogin, ReceiveLogin
<1>7. ASSUME NetworkFails PROVE request'[c].at # "failed"
  BY <1>7 DEF NetworkFails
<1>8. ASSUME NEW pair \in Pairs, Expire(pair) \/ Lapse(pair) PROVE request'[c].at # "failed"
  BY <1>8 DEF Expire, Lapse
<1> QED
  BY <1>1, <1>2, <1>3, <1>4, <1>5, <1>6, <1>7, <1>8 DEF Next, Receive, ReceiveRefresh

\* No request of a page fails as long as its session can be refreshed, however
\* many requests are refused at once, unless the network fails it or the session
\* ended under way.
THEOREM GoodRequestsNeverFail == Spec => NoVainFailure
<1> DEFINE Excused(r) ==
             \/ request[r].pair = NoTokens \/ request[r].pair \in lapsed
             \/ LostOnTheWay(r) \/ r \in strays \/ crossed
<1>1. ASSUME Typed, PairInv, SessionInv, [Next]_vars, NEW r \in Requests,
             InFlight(r), request'[r].at = "failed", reloads' = reloads
      PROVE  Excused(r)
  <2>1. r \in Calls /\ r # Hydration /\ request[r].at # "failed"
    BY <1>1 DEF Calls, InFlight
  <2>2. CASE ReceiveReply(r)
    <3>1. CASE request[r].reply = "error"
      BY <3>1 DEF LostOnTheWay
    <3>2. CASE request[r].reply = "ok"
      BY <1>1, <2>1, <2>2, <3>2 DEF ReceiveReply, Settle, Typed, TypeOK
    <3>3. CASE request[r].reply = "401" /\ (request[r].at = "resent" \/ tokens = NoTokens)
      BY <1>1, <2>1, <3>3 DEF PairInv, FreshPairs, SessionInv, Coherent, DroppedLate
    <3> QED BY <2>2, <3>1, <3>2, <3>3 DEF ReceiveReply
  <2>3. CASE ReceiveRefusal
    <3>1. request[r].at = "waiting"
      BY <1>1, <2>1, <2>3, RefusalCalls
    <3>2. refresh # NoRefresh /\ refresh.reply \in {"refused", "lost"}
      BY <2>3 DEF ReceiveRefusal
    <3>3. CASE refresh.reply = "lost"
      BY <3>1, <3>3 DEF LostOnTheWay
    <3>4. CASE refresh.reply = "refused"
      BY <1>1, <2>1, <3>2, <3>4, RefusedTokensLapsed, CallsLapseToo DEF SessionInv
    <3> QED BY <3>2, <3>3, <3>4
  <2>4. CASE Reload
    BY <1>1, <2>4 DEF Reload, Typed, TypeOK
  <2> QED BY <1>1, <2>1, <2>2, <2>3, <2>4, WhoFails
<1>2. Typed /\ PairInv /\ SessionInv /\ [Next]_vars
        => [\A r \in Requests :
              /\ InFlight(r) /\ request'[r].at = "failed" /\ reloads' = reloads
              => \/ request[r].pair = NoTokens \/ request[r].pair \in lapsed
                 \/ LostOnTheWay(r) \/ r \in strays \/ crossed]_vars
  BY <1>1
<1> QED BY <1>2, SessionInvariant, PTL DEF Spec, NoVainFailure

\* Tokens are dropped by a logout, when they can no longer be refreshed, or when
\* the network fails the refresh or /auth/me, until a login or logout crosses one
\* of these.
THEOREM GoodTokensAreKept == Spec => KeepsGoodTokens
<1> DEFINE Excused == \/ tokens \in lapsed
                      \/ user # NoUser /\ user' = NoUser /\ loading' = loading
                      \/ refresh # NoRefresh /\ refresh.reply = "lost"
                      \/ request[Hydration].reply = "error"
                      \/ crossed
<1>1. ASSUME Typed, PairInv, SessionInv, [Next]_vars, tokens # NoTokens, tokens' = NoTokens
      PROVE  Excused
  <2>1. ~ UNCHANGED tokens
    BY <1>1
  <2>2. ASSUME NEW c \in Calls, ReceiveReply(c) PROVE Excused
    <3>1. CASE request[c].reply = "error"
      BY <1>1, <2>2, <3>1 DEF ReceiveReply, Settle
    <3>2. CASE request[c].reply = "ok"
      BY <1>1, <2>2, <3>2 DEF ReceiveReply, Settle
    <3>3. CASE request[c].reply = "401" /\ request[c].at = "resent"
      BY <1>1, <3>3 DEF PairInv, FreshPairs
    <3> QED BY <1>1, <2>2, <3>1, <3>2, <3>3 DEF ReceiveReply
  <2>3. CASE ReceiveRefusal
    <3>1. refresh # NoRefresh /\ refresh.reply \in {"refused", "lost"}
      BY <2>3 DEF ReceiveRefusal
    <3> QED BY <1>1, <3>1, RefusedTokensLapsed DEF SessionInv
  <2>4. CASE ReceiveRenewal
    BY <1>1, <2>4, RenewedType DEF ReceiveRenewal, Typed, TypeOK, Pairs
  <2>5. ASSUME NEW l \in Logins, ReceiveLogin(l) PROVE FALSE
    BY <1>1, <2>5 DEF ReceiveLogin
  <2>6. CASE Logout
    BY <2>6 DEF Logout
  <2> QED
    BY <1>1, <2>1, <2>2, <2>3, <2>4, <2>5, <2>6
    DEF Next, Receive, ReceiveRefresh, Serve, ServeRefresh, StartRequest, AwaitRefresh, SubmitLogin,
        ServeLogin, Reload, NetworkFails, Expire, Lapse, vars
<1>2. Typed /\ PairInv /\ SessionInv /\ [Next]_vars
        => [tokens # NoTokens /\ tokens' = NoTokens
              => \/ tokens \in lapsed
                 \/ user # NoUser /\ user' = NoUser /\ loading' = loading
                 \/ refresh # NoRefresh /\ refresh.reply = "lost"
                 \/ request[Hydration].reply = "error"
                 \/ crossed]_vars
  BY <1>1
<1> QED BY <1>2, SessionInvariant, PTL DEF Spec, KeepsGoodTokens

===============================================================================
