------------------------------ MODULE WebSessions ------------------------------
(***************************************************************************)
(* The administrator's sessions of the web application (web/security.py and *)
(* the handlers of web/app.py): login nonces, the login limiter, sessions   *)
(* kept by the process or by the database, and the audit log, under         *)
(* requests that run concurrently and a process that may be restarted.      *)
(* Every backend call reads the clock before it takes its lock; a thread's  *)
(* `now' is what it read.                                                   *)
(***************************************************************************)
EXTENDS Integers, FiniteSets, Sequences

CONSTANTS
  WebThread,          (* requests served at a time                           *)
  WebClient,          (* client fingerprints                                 *)
  WebToken,           (* bound: session tokens the factory gives out         *)
  WebNonce,           (* bound: login nonces                                 *)
  WebIdle,            (* session_idle_minutes                                *)
  WebAbsolute,        (* session_absolute_hours                              *)
  NonceLife,          (* ten minutes                                         *)
  LoginAttempts,      (* login_attempts                                      *)
  LoginWindow,        (* login_window_seconds                                *)
  RequestLimit,       (* request_limit; the window is the model's run        *)
  MaxWebClock,        (* bound: time                                         *)
  MaxWebCrash         (* bound: restarts and audit events that fail          *)

ASSUME WebAssumption ==
  /\ {WebIdle, WebAbsolute, NonceLife, LoginAttempts, LoginWindow, RequestLimit}
       \subseteq Nat \ {0}
  /\ {MaxWebClock, MaxWebCrash} \subseteq Nat
  /\ "no cookie" \notin WebToken

VARIABLES
  webStore,           (* which session, limiter and audit backends are used  *)
  webClock,           (* the time                                            *)
  webSession,         (* web_admin_sessions, or the dictionary               *)
  webNonce,           (* the nonces handed out and not consumed              *)
  webAttempts,        (* login attempts of each client, in order of arrival  *)
  webRequests,        (* requests counted against each client                *)
  webThread,          (* what each request is doing                          *)
  webAudit,           (* the audit log                                       *)
  webIssued,          (* history: tokens issued                              *)
  webEnded,           (* history: tokens revoked, expired or lost            *)
  webPassed,          (* history: posts each nonce let through               *)
  webCrashes          (* restarts and failed audit events so far             *)

webStateVars == <<webSession, webNonce, webAttempts, webRequests>>
webHistory == <<webIssued, webEnded, webPassed>>
webVars == <<webStore, webClock, webStateVars, webThread, webAudit, webHistory, webCrashes>>

NoRow == [client |-> "none"]
WebIdleThread == [at |-> "idle"]

-----------------------------------------------------------------------------
(* Sessions *)

WebExpired(row, now, client) ==
  \/ now >= row.created + WebAbsolute
  \/ now >= row.seen + WebIdle
  \/ row.client # client

(* SessionStore.authenticate, PostgresSessionStore.authenticate              *)
SessionIsOpen(t, now, client) ==
  /\ webSession[t] # NoRow
  /\ ~webSession[t].revoked
  /\ ~WebExpired(webSession[t], now, client)

(* An invalid session is dropped from memory or revoked in the database.     *)
Ended(t) == IF webStore = "memory" THEN NoRow ELSE [webSession[t] EXCEPT !.revoked = TRUE]

Authenticated(t, now, client) ==
  IF t = "no cookie" \/ webSession[t] = NoRow THEN webSession
  ELSE IF webSession[t].revoked THEN webSession
  ELSE IF SessionIsOpen(t, now, client) THEN [webSession EXCEPT ![t].seen = now]
  ELSE [webSession EXCEPT ![t] = Ended(t)]

(* issue: the database first forgets sessions that are over.                 *)
Purged(now) ==
  [t \in WebToken |->
     IF webStore = "postgres" /\ webSession[t] # NoRow
          /\ (webSession[t].revoked \/ now >= webSession[t].created + WebAbsolute)
     THEN NoRow ELSE webSession[t]]

IssueSession(t, now, client) ==
  [Purged(now) EXCEPT ![t] = [client |-> client, created |-> now, seen |-> now, revoked |-> FALSE]]

RevokeSession(t) == IF webSession[t] = NoRow THEN webSession ELSE [webSession EXCEPT ![t] = Ended(t)]

-----------------------------------------------------------------------------
(* Login nonces: kept by the process *)

PurgedNonces(now) ==
  [n \in WebNonce |-> IF webNonce[n] # NoRow /\ now >= webNonce[n].expires THEN NoRow ELSE webNonce[n]]

(* LoginNonceStore.consume                                                   *)
ReadNonce(n, now) == PurgedNonces(now)

PopNonce(n, now) == [m \in WebNonce |-> IF m = n THEN NoRow ELSE PurgedNonces(now)[m]]

NonceIsGood(n, now, client) ==
  /\ webNonce[n] # NoRow /\ now < webNonce[n].expires
  /\ webNonce[n].client = client

(* _login_response and LoginNonceStore.issue: a form with a fresh nonce.     *)
(* Bound: without a nonce left the form carries none, and a name may be used *)
(* again for another nonce while it has let nothing through.                 *)
LoginForm(kept, client) ==
  LET free == {n \in WebNonce : webPassed[n] = 0 /\ kept[n] = NoRow} IN
  \/ free = {} /\ webNonce' = kept
  \/ \E n \in free :
       webNonce' = [m \in WebNonce |->
         IF m = n THEN [client |-> client, expires |-> webClock + NonceLife] ELSE kept[m]]

-----------------------------------------------------------------------------
(* Limiters *)

(* The deque drops its head while it is old; the table drops every old row.  *)
DropOldHead(times, threshold) ==
  LET late == {i \in DOMAIN times : times[i] > threshold} IN
  IF late = {} THEN <<>> ELSE SubSeq(times, CHOOSE i \in late : \A j \in late : i <= j, Len(times))

DeleteOld(times, threshold) ==
  LET kept[i \in 0..Len(times)] ==
        IF i = 0 THEN <<>>
        ELSE IF times[i] > threshold THEN Append(kept[i - 1], times[i])
        ELSE kept[i - 1]
  IN  kept[Len(times)]

Recent(times, now) ==
  IF webStore = "memory" THEN DropOldHead(times, now - LoginWindow)
  ELSE DeleteOld(times, now - LoginWindow)

MayAttempt(client, now) == Len(Recent(webAttempts[client], now)) < LoginAttempts

(* The request limiter's window is the whole run of the model.               *)
MayRequest(client) == webRequests[client] < RequestLimit

RecentAttempts(client, now) ==
  [c \in WebClient |-> IF c = client \/ webStore = "postgres" THEN Recent(webAttempts[c], now)
                       ELSE webAttempts[c]]

-----------------------------------------------------------------------------
(* Requests *)

Goto(th, step) == webThread' = [webThread EXCEPT ![th] = step]
Return(th) == Goto(th, WebIdleThread)
Audited(event, token) == webAudit' = webAudit \cup {[event |-> event, token |-> token]}

(* What a request carries: a session's cookie, or a login form's nonce; and  *)
(* whether the password or the form's token is right.                        *)
Request ==
  [at : {"form", "view"}, token : WebToken \cup {"no cookie"}, nonce : {"none"}, good : {TRUE}]
    \cup [at : {"logout"}, token : WebToken, nonce : {"none"}, good : BOOLEAN]
    \cup [at : {"consume"}, token : {"no cookie"}, nonce : WebNonce, good : BOOLEAN]

(* The middleware: a request over the limit is refused; one to the           *)
(* administrator's pages is audited.                                         *)
WebRequest(th, client, request) ==
  /\ webThread[th] = WebIdleThread
  /\ MayRequest(client)
  /\ webRequests' = [webRequests EXCEPT ![client] = @ + 1]
  /\ Goto(th, [at |-> request.at, token |-> request.token, nonce |-> request.nonce,
               good |-> request.good, client |-> client, now |-> webClock, ended |-> FALSE])
  /\ UNCHANGED <<webStore, webClock, webSession, webNonce, webAttempts, webAudit, webHistory, webCrashes>>

WebRefused(th, client) ==
  /\ webThread[th] = WebIdleThread
  /\ ~MayRequest(client)
  /\ Audited("REQUEST_RATE_LIMITED", "none")
  /\ UNCHANGED <<webStore, webClock, webStateVars, webThread, webHistory, webCrashes>>

(* _session_for, and what becomes of the request.                            *)
Authenticate(th) ==
  LET r == webThread[th]
      open == r.token # "no cookie" /\ SessionIsOpen(r.token, r.now, r.client)
      after == Authenticated(r.token, r.now, r.client)
  IN
  /\ r.at \in {"form", "view", "logout"}
  /\ webSession' = after
  /\ webEnded' = webEnded \cup {t \in WebToken : webSession[t] # NoRow /\ (after[t] = NoRow \/ after[t].revoked)}
  /\ \/ /\ r.at = "form" /\ open
        /\ Return(th)
        /\ UNCHANGED <<webNonce, webAudit>>
     \/ /\ r.at = "form" /\ ~open
        /\ LoginForm(PurgedNonces(webClock), r.client)
        /\ Return(th)
        /\ UNCHANGED webAudit
     \/ /\ r.at \in {"view", "logout"} /\ ~open
        /\ Audited("SESSION_REJECTED", "none")
        /\ Return(th)
        /\ UNCHANGED webNonce
     \/ /\ r.at = "view" /\ open
        /\ Goto(th, [r EXCEPT !.at = "viewed", !.ended = r.token \in webEnded])
        /\ UNCHANGED <<webNonce, webAudit>>
     \/ /\ r.at = "logout" /\ open /\ ~r.good
        /\ Audited("CSRF_REJECTED", r.token)
        /\ Return(th)
        /\ UNCHANGED webNonce
     \/ /\ r.at = "logout" /\ open /\ r.good
        /\ Goto(th, [r EXCEPT !.at = "revoke", !.ended = r.token \in webEnded])
        /\ UNCHANGED <<webNonce, webAudit>>
  /\ UNCHANGED <<webStore, webClock, webAttempts, webRequests, webIssued, webPassed, webCrashes>>

Revoke(th) ==
  LET r == webThread[th] IN
  /\ r.at = "revoke"
  /\ webSession' = RevokeSession(r.token)
  /\ webEnded' = webEnded \cup {r.token}
  /\ Goto(th, [r EXCEPT !.at = "revoked"])
  /\ UNCHANGED <<webStore, webClock, webNonce, webAttempts, webRequests, webAudit, webIssued,
                 webPassed, webCrashes>>

(* login: the nonce is consumed, the attempt is counted, the password is     *)
(* checked, the attempts are cleared and a session is issued.                *)
ConsumeNonce(th) ==
  LET r == webThread[th] IN
  /\ r.at = "consume"
  /\ \/ /\ NonceIsGood(r.nonce, r.now, r.client)
        /\ webNonce' = PopNonce(r.nonce, r.now)
        /\ webPassed' = [webPassed EXCEPT ![r.nonce] = @ + 1]
        /\ Goto(th, [r EXCEPT !.at = "attempt", !.now = webClock])
        /\ UNCHANGED webAudit
     \/ /\ ~NonceIsGood(r.nonce, r.now, r.client)
        /\ LoginForm(PopNonce(r.nonce, r.now), r.client)
        /\ Audited("CSRF_REJECTED", "none")
        /\ Return(th)
        /\ UNCHANGED webPassed
  /\ UNCHANGED <<webStore, webClock, webSession, webAttempts, webRequests, webIssued, webEnded,
                 webCrashes>>

AllowAttempt(th) ==
  LET r == webThread[th] IN
  /\ r.at = "attempt"
  /\ \/ /\ MayAttempt(r.client, r.now)
        /\ webAttempts' = [RecentAttempts(r.client, r.now) EXCEPT ![r.client] = Append(@, r.now)]
        /\ \/ r.good /\ Goto(th, [r EXCEPT !.at = "clear"]) /\ UNCHANGED <<webNonce, webAudit>>
           \/ /\ ~r.good
              /\ LoginForm(PurgedNonces(webClock), r.client)
              /\ Audited("LOGIN_FAILED", "none")
              /\ Return(th)
     \/ /\ ~MayAttempt(r.client, r.now)
        /\ webAttempts' = RecentAttempts(r.client, r.now)
        /\ LoginForm(PurgedNonces(webClock), r.client)
        /\ Audited("LOGIN_RATE_LIMITED", "none")
        /\ Return(th)
  /\ UNCHANGED <<webStore, webClock, webSession, webRequests, webHistory, webCrashes>>

ClearAttempts(th) ==
  LET r == webThread[th] IN
  /\ r.at = "clear"
  /\ webAttempts' = [webAttempts EXCEPT ![r.client] = <<>>]
  /\ Goto(th, [r EXCEPT !.at = "issue", !.now = webClock])
  /\ UNCHANGED <<webStore, webClock, webSession, webNonce, webRequests, webAudit, webHistory, webCrashes>>

LoginSucceeds(th) ==
  LET r == webThread[th] IN
  /\ r.at = "issue"
  /\ \E t \in WebToken \ webIssued :
       /\ webSession' = IssueSession(t, r.now, r.client)
       /\ webIssued' = webIssued \cup {t}
       /\ webEnded' = webEnded \cup {u \in WebToken : webSession[u] # NoRow /\ Purged(r.now)[u] = NoRow}
       /\ Goto(th, [r EXCEPT !.at = "issued", !.token = t, !.nonce = "none", !.now = webClock])
  /\ UNCHANGED <<webStore, webClock, webNonce, webAttempts, webRequests, webAudit, webPassed, webCrashes>>

(* The audit event is the last thing a request does.                         *)
EventOf == [viewed |-> "ADMIN_VIEWED", revoked |-> "LOGOUT_SUCCEEDED", issued |-> "LOGIN_SUCCEEDED"]

AppendAudit(th) ==
  /\ webThread[th].at \in DOMAIN EventOf
  /\ Audited(EventOf[webThread[th].at], webThread[th].token)
  /\ Return(th)
  /\ UNCHANGED <<webStore, webClock, webStateVars, webHistory, webCrashes>>

(* The insert into the audit log may raise: the client gets an error, and    *)
(* what was committed before it stays.                                       *)
AuditFails(th) ==
  /\ webThread[th].at \in DOMAIN EventOf
  /\ webStore = "postgres" /\ webCrashes < MaxWebCrash
  /\ webCrashes' = webCrashes + 1
  /\ Return(th)
  /\ UNCHANGED <<webStore, webClock, webStateVars, webAudit, webHistory>>

(* A restart loses the nonces and what the process kept itself.              *)
WebRestart ==
  /\ webCrashes < MaxWebCrash
  /\ webCrashes' = webCrashes + 1
  /\ webThread' = [th \in WebThread |-> WebIdleThread]
  /\ webNonce' = [n \in WebNonce |-> NoRow]
  /\ IF webStore = "postgres"
     THEN UNCHANGED <<webSession, webAttempts, webRequests, webAudit, webEnded>>
     ELSE /\ webSession' = [t \in WebToken |-> NoRow]
          /\ webAttempts' = [c \in WebClient |-> <<>>]
          /\ webRequests' = [c \in WebClient |-> 0]
          /\ webAudit' = {}
          /\ webEnded' = webEnded \cup webIssued
  /\ UNCHANGED <<webStore, webClock, webIssued, webPassed>>

WebTick ==
  /\ webClock < MaxWebClock
  /\ webClock' = webClock + 1
  /\ UNCHANGED <<webStore, webStateVars, webThread, webAudit, webHistory, webCrashes>>

WebInit ==
  /\ webStore \in {"memory", "postgres"}
  /\ webClock = 0
  /\ webSession = [t \in WebToken |-> NoRow]
  /\ webNonce = [n \in WebNonce |-> NoRow]
  /\ webAttempts = [c \in WebClient |-> <<>>]
  /\ webRequests = [c \in WebClient |-> 0]
  /\ webThread = [th \in WebThread |-> WebIdleThread]
  /\ webAudit = {}
  /\ webIssued = {} /\ webEnded = {}
  /\ webPassed = [n \in WebNonce |-> 0]
  /\ webCrashes = 0

WebNext ==
  \/ WebTick
  \/ WebRestart
  \/ \E th \in WebThread :
       \/ \E client \in WebClient, request \in Request : WebRequest(th, client, request)
       \/ \E client \in WebClient : WebRefused(th, client)
       \/ Authenticate(th) \/ Revoke(th)
       \/ ConsumeNonce(th) \/ AllowAttempt(th) \/ ClearAttempts(th) \/ LoginSucceeds(th)
       \/ AppendAudit(th) \/ AuditFails(th)

WebSpec == WebInit /\ [][WebNext]_webVars

-----------------------------------------------------------------------------
(* Properties *)

WebTypeOK ==
  /\ webClock \in 0..MaxWebClock /\ webCrashes \in 0..MaxWebCrash
  /\ webRequests \in [WebClient -> 0..RequestLimit]
  /\ webIssued \subseteq WebToken /\ webEnded \subseteq webIssued
  /\ \A t \in WebToken : webSession[t] # NoRow => webSession[t].client \in WebClient

(* A login form is good for one post, however many requests carry its nonce  *)
(* and however they interleave (LoginNonceStore.consume).                    *)
NonceAdmitsOnce == \A n \in WebNonce : webPassed[n] <= 1

(* A session that was revoked, expired or lost never admits another request, *)
(* whether its row is gone, purged or revoked                                *)
(* (PostgresSessionStore.authenticate, issue and revoke).                    *)
EndedSessionsStayEnded ==
  \A th \in WebThread : webThread[th] # WebIdleThread => ~webThread[th].ended

(* The audit log and the sessions tell the same story: a login or logout     *)
(* that is on record happened, and with a durable log a session that was     *)
(* issued is on record unless its request is about to write it, a restart    *)
(* cut the request off or the write failed (the handlers of web/app.py).     *)
AuditMatchesSessions ==
  LET Recorded(event) == {a.token : a \in {b \in webAudit : b.event = event}} IN
  /\ Recorded("LOGIN_SUCCEEDED") \cup Recorded("ADMIN_VIEWED") \subseteq webIssued
  /\ Recorded("LOGOUT_SUCCEEDED") \subseteq webEnded
  /\ webCrashes = 0 =>
       webIssued \subseteq Recorded("LOGIN_SUCCEEDED")
                             \cup {webThread[th].token : th \in {t \in WebThread : webThread[t].at = "issued"}}

(* No client has more attempts on the books than the limiter allows          *)
(* (_PostgresSlidingWindowLimiter.allow).                                    *)
AttemptsStayWithinTheLimit == \A c \in WebClient : Len(webAttempts[c]) <= LoginAttempts

(* A nonce admits one login, an ended session never authenticates again, the *)
(* audit log and the sessions agree, and the limiter holds, whatever         *)
(* requests overlap and wherever the process restarts.                       *)
SessionsAreAccountedFor ==
  /\ NonceAdmitsOnce /\ EndedSessionsStayEnded /\ AuditMatchesSessions
  /\ AttemptsStayWithinTheLimit
=============================================================================
