---------------------------- MODULE AuthSession -----------------------------
(***************************************************************************)
(* The login sessions of one user on one device: the rows of AuthSession,  *)
(* the handlers that issue, rotate and revoke them, and the desktop client *)
(* (one window), which keeps the newest pair of tokens, renews it when an  *)
(* access token is refused as expired, and lets the other requests wait.   *)
(*                                                                         *)
(* A pair is an access token and the refresh token of the session issued   *)
(* with it; both have the session's number. Times to live are the two sets *)
(* of expired tokens. Left out: passwords, registration, cookies and the   *)
(* other devices of the user, whose sessions no request of this one names. *)
(***************************************************************************)
EXTENDS Naturals

CONSTANTS
    Calls,       \* what the client may have under way at once
    MaxSessions, \* bound on rows: the insert of one more fails
    MaxFaults    \* bound on failed statements, broken connections and closed windows

ASSUME AuthAssumption == MaxSessions \in Nat /\ MaxFaults \in Nat

VARIABLES
    session,     \* row -> "none", or "live" or "revoked" (revoked_at)
    origin,      \* history: row -> the row of the login it descends from
    stale,       \* access tokens that have expired
    outdated,    \* sessions past expires_at
    held,        \* the pair in the client's store, which outlives its window; 0: none
    isRefreshing,
    call,        \* call of the client -> what it is and what it waits for
    handler,     \* the API's handler of the call's last request
    excuse,      \* history: <<row of a login, what may have cost it a session>>
    faults

apiVars == <<session, origin>>
clientVars == <<held, isRefreshing, call>>
clockVars == <<stale, outdated>>
authVars == <<apiVars, clockVars, clientVars, handler, excuse, faults>>

Sessions == 1..MaxSessions
Pairs == 0..MaxSessions
NoCall == [phase |-> "idle", op |-> "fetch", body |-> 0, retried |-> FALSE]
NoRequest == [phase |-> "none", op |-> "fetch", bearer |-> 0, token |-> 0, heir |-> 0]

CallType ==
    [phase : {"idle", "asking", "waiting", "renewing"},
     op : {"fetch", "login", "logout"}, body : Pairs, retried : BOOLEAN]

HandlerType ==
    [phase : {"none", "asked", "found", "revoked", "ok", "expired", "refused"},
     op : {"fetch", "login", "logout", "refresh"}, bearer : Pairs, token : Pairs, heir : Pairs]

AuthTypeOK ==
    /\ session \in [Sessions -> {"none", "live", "revoked"}]
    /\ origin \in [Sessions -> Pairs]
    /\ stale \subseteq Pairs /\ outdated \subseteq Sessions
    /\ held \in Pairs
    /\ isRefreshing \in BOOLEAN
    /\ call \in [Calls -> CallType]
    /\ handler \in [Calls -> HandlerType]
    /\ excuse \subseteq (Pairs \X {"quit", "unheard", "failed", "crossed"})
    /\ faults \in 0..MaxFaults

AuthInit ==
    /\ session = [s \in Sessions |-> "none"]
    /\ origin = [s \in Sessions |-> 0]
    /\ stale = {} /\ outdated = {}
    /\ held = 0 /\ isRefreshing = FALSE
    /\ call = [c \in Calls |-> NoCall]
    /\ handler = [c \in Calls |-> NoRequest]
    /\ excuse = {}
    /\ faults = 0

Fault == faults < MaxFaults /\ faults' = faults + 1

\* The logins that the sessions in S descend from have this excuse.
Excused(S, why) == {<<origin[s], why>> : s \in S \cap Sessions}

-----------------------------------------------------------------------------
(* The API. *)

HandlerAt(c, op, phase) == handler[c].op = op /\ handler[c].phase = phase

Reply(c, phase) == handler' = [handler EXCEPT ![c].phase = phase]

\* The middleware: an access token is good until it expires, whatever became of
\* its session.
JWTAuth(c) ==
    /\ HandlerAt(c, "fetch", "asked") \/ HandlerAt(c, "logout", "asked")
    /\ handler[c].bearer \in stale
    /\ Reply(c, "expired")
    /\ UNCHANGED <<apiVars, clockVars, clientVars, excuse, faults>>

\* Any other request that needs a login.
Serve(c) ==
    /\ HandlerAt(c, "fetch", "asked") /\ handler[c].bearer \notin stale
    /\ Reply(c, "ok")
    /\ UNCHANGED <<apiVars, clockVars, clientVars, excuse, faults>>

\* Logout looks for the session of the refresh token in the body.
LogoutLooks(c) ==
    /\ HandlerAt(c, "logout", "asked") /\ handler[c].bearer \notin stale
    /\ Reply(c, IF session[handler[c].token] = "live" THEN "found" ELSE "refused")
    /\ UNCHANGED <<apiVars, clockVars, clientVars, excuse, faults>>

Revoke(s) == session' = [session EXCEPT ![s] = "revoked"]

LogoutRevokes(c) ==
    /\ HandlerAt(c, "logout", "found")
    /\ Revoke(handler[c].token)
    /\ Reply(c, "ok")
    /\ UNCHANGED <<origin, clockVars, clientVars, excuse, faults>>

\* Refresh loads the session of its token, and the user.
RefreshLooks(c) ==
    LET s == handler[c].token IN
    /\ HandlerAt(c, "refresh", "asked")
    /\ Reply(c, IF session[s] = "live" /\ s \notin outdated THEN "found" ELSE "refused")
    /\ UNCHANGED <<apiVars, clockVars, clientVars, excuse, faults>>

\* The update names the row, not what was read of it.
RefreshRevokes(c) ==
    /\ HandlerAt(c, "refresh", "found")
    /\ Revoke(handler[c].token)
    /\ Reply(c, "revoked")
    /\ UNCHANGED <<origin, clockVars, clientVars, excuse, faults>>

\* Login and Refresh end with a new session, and answer with its pair.
Inserting(c) == HandlerAt(c, "login", "asked") \/ HandlerAt(c, "refresh", "revoked")

Insert(c, n) ==
    /\ session[n] = "none" /\ \A s \in 1..(n - 1) : session[s] # "none"
    /\ session' = [session EXCEPT ![n] = "live"]
    /\ origin' = [origin EXCEPT ![n] = IF handler[c].op = "login" THEN n
                                       ELSE origin[handler[c].token]]

Issue(c) ==
    /\ Inserting(c)
    /\ \/ \E n \in Sessions : /\ Insert(c, n)
                              /\ handler' = [handler EXCEPT ![c].phase = "ok", ![c].heir = n]
       \/ /\ \A n \in Sessions : session[n] # "none"
          /\ Reply(c, "refused")
          /\ UNCHANGED apiVars
    /\ UNCHANGED <<clockVars, clientVars, excuse, faults>>

\* A handler is about to execute a statement.
Executes(c) ==
    \/ handler[c].phase = "found" \/ Inserting(c) \/ HandlerAt(c, "refresh", "asked")
    \/ (HandlerAt(c, "logout", "asked") /\ handler[c].bearer \notin stale)

\* It fails, and the handler with it: it was not executed, or it was and the
\* connection to the database broke.
StatementFails(c) ==
    /\ Fault
    /\ Executes(c)
    /\ Reply(c, "refused")
    /\ \/ /\ excuse' = excuse \cup Excused({handler[c].token}, "failed")
          /\ UNCHANGED apiVars
       \/ /\ handler[c].phase = "found"
          /\ Revoke(handler[c].token)
          /\ UNCHANGED <<origin, excuse>>
       \/ /\ Inserting(c)
          /\ \E n \in Sessions : Insert(c, n) /\ excuse' = excuse \cup {<<origin'[n], "failed">>}
    /\ UNCHANGED <<clockVars, clientVars>>

\* A handler nobody waits for ends, and nobody hears of its session.
Unheard(c) ==
    /\ call[c].phase = "idle" /\ handler[c].phase \in {"ok", "expired", "refused"}
    /\ handler' = [handler EXCEPT ![c] = NoRequest]
    /\ excuse' = excuse \cup Excused({handler[c].heir}, "unheard")
    /\ UNCHANGED <<apiVars, clockVars, clientVars, faults>>

-----------------------------------------------------------------------------
(* The client. *)

Request(op, bearer, token) ==
    [phase |-> "asked", op |-> op, bearer |-> bearer, token |-> token, heir |-> 0]

Start(c, op, body) ==
    /\ call[c] = NoCall /\ handler[c] = NoRequest
    /\ call' = [call EXCEPT ![c] = [NoCall EXCEPT !.phase = "asking", !.op = op, !.body = body]]
    /\ handler' = [handler EXCEPT ![c] = Request(op, held, body)]
    /\ UNCHANGED <<apiVars, clockVars, held, isRefreshing, excuse, faults>>

\* Some page asks for something; the form logs in, once at a time; the title bar
\* logs out, once at a time, with the refresh token it has on display.
Fetch(c) == held # 0 /\ Start(c, "fetch", 0)
Login(c) == held = 0 /\ (\A d \in Calls : call[d].op # "login") /\ Start(c, "login", 0)
Logout(c) == held # 0 /\ (\A d \in Calls : call[d].op # "logout") /\ Start(c, "logout", held)

\* The store takes a new pair, or none, for the sake of a call that was about the
\* pair `about'. What it drops may be another pair, which came in between.
Store(new, about) ==
    /\ held' = new
    /\ excuse' = excuse \cup Excused({held} \ {new, about}, "crossed")

Waiting == {c \in Calls : call[c].phase = "waiting"}

EndCalls(C) == call' = [c \in Calls |-> IF c \in C THEN NoCall ELSE call[c]]

\* A call has its answer or its error, and a logout then clears the store whichever
\* it is.
Answered(c) ==
    /\ EndCalls({c})
    /\ IF call[c].op = "logout" THEN Store(0, call[c].body)
       ELSE IF call[c].op = "login" /\ handler[c].phase = "ok" THEN Store(handler[c].heir, 0)
       ELSE UNCHANGED <<held, excuse>>

Receive(c) ==
    /\ call[c].phase = "asking"
    /\ \/ handler[c].phase \in {"ok", "refused"}
       \/ handler[c].phase = "expired" /\ (call[c].retried \/ (~isRefreshing /\ held = 0))
    /\ Answered(c)
    /\ handler' = [handler EXCEPT ![c] = NoRequest]
    /\ UNCHANGED <<apiVars, clockVars, isRefreshing, faults>>

\* Mutant of Renew: the client does not see that a refresh is under way.
RenewBeside(c) ==
    /\ call[c].phase = "asking" /\ handler[c].phase = "expired" /\ ~call[c].retried /\ held # 0
    /\ isRefreshing' = TRUE
    /\ call' = [call EXCEPT ![c].phase = "renewing", ![c].retried = TRUE]
    /\ handler' = [handler EXCEPT ![c] = Request("refresh", 0, held)]
    /\ UNCHANGED <<apiVars, clockVars, held, excuse, faults>>

\* The first call whose access token is refused as expired renews the pair; the
\* others wait for it.
Renew(c) ==
    /\ call[c].phase = "asking" /\ handler[c].phase = "expired" /\ ~call[c].retried
    /\ \/ /\ isRefreshing
          /\ call' = [call EXCEPT ![c].phase = "waiting"]
          /\ handler' = [handler EXCEPT ![c] = NoRequest]
          /\ UNCHANGED isRefreshing
       \/ /\ ~isRefreshing /\ held # 0
          /\ isRefreshing' = TRUE
          /\ call' = [call EXCEPT ![c].phase = "renewing", ![c].retried = TRUE]
          /\ handler' = [handler EXCEPT ![c] = Request("refresh", 0, held)]
    /\ UNCHANGED <<apiVars, clockVars, held, excuse, faults>>

\* The new pair is stored, and the call and those that wait send their requests
\* again, as they were but for the access token.
Renewed(c) ==
    LET again == {c} \cup Waiting  new == handler[c].heir IN
    /\ call[c].phase = "renewing" /\ handler[c].phase = "ok"
    /\ Store(new, handler[c].token)
    /\ isRefreshing' = FALSE
    /\ call' = [d \in Calls |-> IF d \in again THEN [call[d] EXCEPT !.phase = "asking"] ELSE call[d]]
    /\ handler' = [d \in Calls |-> IF d \in again THEN Request(call[d].op, new, call[d].body)
                                   ELSE handler[d]]
    /\ UNCHANGED <<apiVars, clockVars, faults>>

\* The pair was not renewed: the store is cleared, and all of them fail.
GiveUp(c) ==
    /\ Store(0, handler[c].token)
    /\ isRefreshing' = FALSE
    /\ EndCalls({c} \cup Waiting)

NotRenewed(c) ==
    /\ call[c].phase = "renewing" /\ handler[c].phase = "refused"
    /\ GiveUp(c)
    /\ handler' = [handler EXCEPT ![c] = NoRequest]
    /\ UNCHANGED <<apiVars, clockVars, faults>>

\* A request on its way is lost, or reaches the API though nobody waits for it.
MayBeLost(C) ==
    \E lost \in SUBSET {c \in C : handler[c].phase = "asked"} :
       handler' = [c \in Calls |-> IF c \in lost THEN NoRequest ELSE handler[c]]

\* The connection of a call breaks: that is an error to the client; the handler
\* goes on.
Breaks(c) ==
    /\ call[c].phase \in {"asking", "renewing"}
    /\ Fault
    /\ LET cleared == IF call[c].phase = "renewing" THEN {handler[c].token}
                      ELSE IF call[c].op = "logout" THEN {call[c].body} ELSE {}
       IN  /\ excuse' = excuse \cup Excused(cleared, "unheard") \cup
                          (IF cleared = {} THEN {} ELSE Excused({held} \ cleared, "crossed"))
           /\ held' = IF cleared = {} THEN held ELSE 0
    /\ IF call[c].phase = "renewing"
       THEN isRefreshing' = FALSE /\ EndCalls({c} \cup Waiting)
       ELSE EndCalls({c}) /\ UNCHANGED isRefreshing
    /\ MayBeLost({c})
    /\ UNCHANGED <<apiVars, clockVars>>

\* The window is closed and opened again: the calls are gone, the store is not.
Quit ==
    /\ Fault
    /\ EndCalls(Calls)
    /\ isRefreshing' = FALSE
    /\ MayBeLost(Calls)
    /\ excuse' = excuse \cup Excused({handler[c].token : c \in Calls}, "quit")
    /\ UNCHANGED <<apiVars, clockVars, held>>

-----------------------------------------------------------------------------
(* Time. *)

\* An access token expires while the store keeps it or a request bears it;
\* otherwise nobody can tell.
AccessExpires(s) ==
    /\ s \in {held} \cup {handler[c].bearer : c \in Calls} /\ s \notin stale
    /\ stale' = stale \cup {s}
    /\ UNCHANGED <<apiVars, outdated, clientVars, handler, excuse, faults>>

\* All sessions have the same time to live: an older one expires first.
SessionExpires(s) ==
    /\ session[s] # "none" /\ outdated = 1..(s - 1)
    /\ outdated' = outdated \cup {s}
    /\ UNCHANGED <<apiVars, stale, clientVars, handler, excuse, faults>>

Handle(c) ==
    \/ JWTAuth(c) \/ Serve(c) \/ LogoutLooks(c) \/ LogoutRevokes(c)
    \/ RefreshLooks(c) \/ RefreshRevokes(c) \/ Issue(c) \/ Unheard(c)

React(c) == Receive(c) \/ Renew(c) \/ Renewed(c) \/ NotRenewed(c)

AuthNext ==
    \/ \E c \in Calls : Fetch(c) \/ Login(c) \/ Logout(c) \/ Handle(c) \/ React(c)
                        \/ StatementFails(c) \/ Breaks(c)
    \/ Quit
    \/ \E s \in Sessions : AccessExpires(s) \/ SessionExpires(s)

AuthSpec == AuthInit /\ [][AuthNext]_authVars

-----------------------------------------------------------------------------
(* Properties. *)

Why(s) == {e[2] : e \in {f \in excuse : f[1] = origin[s]}}

\* A handler still works on the session, or its answer with the session is on its way.
Named(s) == \E c \in Calls : s \in {handler[c].token, handler[c].heir}

\* Refresh reads the session, revokes it and inserts the next one in three
\* statements, and the update would revoke a revoked session again: two refreshes of
\* one token make two sessions. The client sees to it that there is one at a time, so
\* a login has one live session, unless the window was closed during a refresh or
\* a logout.
OneLivePerLogin ==
    \A s, t \in Sessions :
       session[s] = "live" /\ session[t] = "live" /\ origin[s] = origin[t] =>
          s = t \/ "quit" \in Why(s)

\* What the store keeps is good for the next refresh: the session is not revoked
\* while it is held, but for a refresh or a logout whose answer is still to come, or
\* that the window was closed on.
HeldIsLive ==
    held # 0 => \/ session[held] = "live"
                \/ Named(held)
                \/ "quit" \in Why(held)

\* A session that is live is in the store or in work. One that is neither, and that
\* nobody can end before it expires, was left by a failed statement, by an answer
\* nobody heard, by closing the window, or by a call that cleared or overwrote
\* another pair than its own: a logout sent again after a refresh, a late refresh
\* after a logout and a login.
NoSessionStrays ==
    \A s \in Sessions :
       session[s] = "live" /\ s \notin outdated => s = held \/ Named(s) \/ Why(s) # {}

\* Who waits, waits for a refresh that is in work, and there is one at a time: a way
\* out of it that forgot the flag or the queue would leave them waiting for ever.
WaitersHaveRefresh ==
    /\ Waiting # {} => isRefreshing
    /\ isRefreshing => \E c \in Calls : call[c].phase = "renewing" /\ handler[c].op = "refresh"
    /\ \A c, d \in Calls :
          call[c].phase = "renewing" /\ call[d].phase = "renewing" => c = d

\* The sessions of the server, the pair in the store and the calls of the client
\* agree, although no transaction and no lock makes them: refreshes, logouts and
\* logins cross each other, answers are lost, and the window is closed on them.
SessionsAgree == OneLivePerLogin /\ HeldIsLive /\ NoSessionStrays /\ WaitersHaveRefresh

\* Logout (auth_handler.go:57) "revokes the session of the current access token":
\* when it has answered, and neither a statement failed nor the window was closed,
\* the session of the access token that the request bore is revoked.
LogoutRevokesBearer ==
    \A c \in Calls :
       HandlerAt(c, "logout", "ok") \/ HandlerAt(c, "logout", "refused") =>
          session[handler[c].bearer] = "revoked" \/ faults > 0

=============================================================================
