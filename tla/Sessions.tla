------------------------------ MODULE Sessions ------------------------------
(***************************************************************************)
(* Who decides: the sessions of the console (app/console_api.py, a single-   *)
(* page application in web/), of the dashboard (app/dashboard.py, pages the  *)
(* server renders) and the bearer endpoint (app/main.py), with one browser   *)
(* whose tabs share each door's cookie, and a server that restarts.          *)
(*                                                                         *)
(* The server keeps no sessions: a cookie is good while the secret that      *)
(* signed it is in force and its expiry is not reached.  `sessions' lists    *)
(* the cookies ever signed.  Requests of a tab overlap and their answers      *)
(* arrive in any order; the approval engine's answer to a decision is any    *)
(* of those Approvals shows.                                                *)
(***************************************************************************)
EXTENDS Identity, FiniteSets

CONSTANTS
    Configurations, \* the settings an operator may start the server with
    Tabs,           \* the browser's tabs
    Door,           \* for a tab, which of the two doors it has open
    Slots,          \* requests in flight at a time (bound)
    MaxSessions,    \* cookies signed (bound)
    MaxStarts       \* starts of the process (bound)

Doors == {"console", "dashboard"}
Kinds == {"login", "logout", "session", "read", "decide"}

(* "refused" is any other status than 200 and 401: it is shown as an error.  *)
Answers == {"none", "ok", "unauthorized", "refused"}

ASSUME SessionsAssumption ==
    /\ Configurations \subseteq Settings
    /\ \E c \in Configurations : ValidSettings(c)
    /\ Door \in [Tabs -> Doors]
    /\ MaxSessions \in Nat /\ MaxStarts \in Nat

VARIABLES
    settings,   \* the running process's settings
    starts,     \* starts so far: the name of the running process
    sessions,   \* cookies signed: for whom, with which secret, and (history)
                \*   whether that was a reviewer's key
    expired,    \* those of them whose expires_at has passed
    jar,        \* for each door, the cookie the browser holds, 0 for none
    shows,      \* for each tab, the session its page or its state holds, or 0
    ready,      \* for each tab, whether the probe or the page has come back
    net,        \* requests and answers in flight
    decision    \* history: the last decision the engine accepted, if any

server == <<settings, starts, sessions, expired>>
browser == <<jar, shows, ready>>
vars == <<settings, starts, sessions, expired, jar, shows, ready, net, decision>>

(* effective_session_secret: the configured one (0), or the process's own.   *)
Secret == IF settings.secret THEN 0 ELSE starts

Live(s) == VerifySession(sessions, expired, Secret, s)

Sids == 0..Len(sessions)

(* `as' is the session the tab held when the request was made, and whose     *)
(* token a decision carries; `orphan' that its page is gone.                 *)
Message == [slot : Slots, tab : Tabs, kind : Kinds, as : Nat, cookie : Nat,
            key : Keys \cup {NoKey}, answer : Answers, sid : Nat, orphan : BOOLEAN]

TypeOK ==
    /\ settings \in Settings /\ ValidSettings(settings)
    /\ starts \in Nat
    /\ sessions \in Seq([id : Keys \cup {Anonymous}, secret : Nat, held : BOOLEAN])
    /\ \A s \in DOMAIN sessions : sessions[s].secret <= starts
    /\ expired \subseteq DOMAIN sessions
    /\ jar \in [Doors -> Sids] /\ shows \in [Tabs -> Sids] /\ ready \in [Tabs -> BOOLEAN]
    /\ net \subseteq Message
    /\ \A m \in net : m.as \in Sids /\ m.cookie \in Sids /\ m.sid \in Sids

Init ==
    /\ settings \in {c \in Configurations : ValidSettings(c)}
    /\ starts = 1
    /\ sessions = <<>>
    /\ expired = {}
    /\ jar = [d \in Doors |-> 0]
    /\ shows = [t \in Tabs |-> 0]
    /\ ready = [t \in Tabs |-> TRUE]
    /\ net = {}
    /\ decision = <<>>

------------------------------------------------------------------------------
(* The browser asks                                                         *)

Request(n, t, kind, key) ==
    [slot |-> n, tab |-> t, kind |-> kind, as |-> shows[t], cookie |-> jar[Door[t]],
     key |-> key, answer |-> "none", sid |-> 0, orphan |-> FALSE]

Free(n) == \A m \in net : m.slot # n

(* The page of a tab is gone: what it only asked to know matters to nobody.  *)
Orphaned(t) ==
    {m \in net : m.tab # t} \cup
    {[m EXCEPT !.orphan = TRUE] : m \in {n \in net : n.tab = t /\ n.kind \notin {"session", "read"}}}

LoggingIn(t) == \E m \in net : m.tab = t /\ m.kind = "login" /\ ~m.orphan

(* The console's form is shown while the probe is out, or without a session;  *)
(* it is disabled while it submits.  The dashboard's is a page of its own,   *)
(* left as it is submitted.                                                 *)
SignIn(t, key) ==
    \E n \in Slots :
        /\ Free(n) /\ ~LoggingIn(t)
        /\ IF Door[t] = "console"
           THEN /\ ~(ready[t] /\ shows[t] # 0)
                /\ net' = net \cup {Request(n, t, "login", key)}
                /\ UNCHANGED browser
           ELSE /\ net' = Orphaned(t) \cup {Request(n, t, "login", key)}
                /\ shows' = [shows EXCEPT ![t] = 0]
                /\ ready' = [ready EXCEPT ![t] = FALSE]
                /\ UNCHANGED jar
        /\ UNCHANGED <<server, decision>>

(* signOut, a page's calls and submitDecision: only a rendered page with a   *)
(* session has them.  No guard outlives a change of page, so a second        *)
(* decision may be made while the first is out.                             *)
Ask(t, kind) ==
    \E n \in Slots :
        /\ Free(n)
        /\ ready[t] /\ shows[t] # 0
        /\ net' = net \cup {Request(n, t, kind, NoKey)}
        /\ UNCHANGED <<server, browser, decision>>

(* A page load: the tab's requests lose their page, and the session is asked  *)
(* for.  The console's state meanwhile is sessionStorage's.                  *)
Reload(t) ==
    \E n \in Slots :
        /\ Free(n)
        /\ net' = Orphaned(t) \cup {Request(n, t, "session", NoKey)}
        /\ ready' = [ready EXCEPT ![t] = FALSE]
        /\ UNCHANGED <<server, jar, shows, decision>>

------------------------------------------------------------------------------
(* The server answers                                                       *)

Answer(m, answer, sid) == net' = (net \ {m}) \cup {[m EXCEPT !.answer = answer, !.sid = sid, !.key = NoKey]}

Refuse(m, answer) == Answer(m, answer, 0) /\ UNCHANGED <<sessions, decision>>

(* create_session_cookie                                                    *)
NewSession(who) ==
    [id |-> who.id, secret |-> Secret, held |-> who.id \in settings.reviewer]

(* console_login, dashboard_login_submit: a session for a reviewer's key.    *)
HandleLogin(m) ==
    LET who == ResolveIdentity(settings, m.key) IN
    CASE m.key = NoKey -> Refuse(m, "refused")
      [] m.key # NoKey /\ who = Nobody -> Refuse(m, "unauthorized")
      [] m.key # NoKey /\ who.class = "SERVICE" -> Refuse(m, "refused")
      [] m.key # NoKey /\ who.class = "REVIEWER" ->
            /\ Len(sessions) < MaxSessions
            /\ sessions' = Append(sessions, NewSession(who))
            /\ Answer(m, "ok", Len(sessions) + 1)
            /\ UNCHANGED decision

(* The session the cookie stands for, and with it the CSRF token.            *)
ConsoleSession(m) ==
    IF Live(m.cookie) THEN Answer(m, "ok", m.cookie) /\ UNCHANGED <<sessions, decision>>
    ELSE Refuse(m, "unauthorized")

(* The page with the session's token in it, or a redirect to the form.  No    *)
(* page presents a bearer key here, which shows the queue without buttons.   *)
DashboardIndex(m) ==
    IF Live(m.cookie) THEN Answer(m, "ok", m.cookie) /\ UNCHANGED <<sessions, decision>>
    ELSE Refuse(m, "refused")

(* console_approvals, console_decisions, console_stats.                      *)
HandleRead(m) == Refuse(m, IF Live(m.cookie) THEN "ok" ELSE "unauthorized")

(* What the engine says to a decision of the session's reviewer.             *)
Decided(m) ==
    \/ Refuse(m, "refused")
    \/ /\ Answer(m, "ok", 0)
       /\ decision' = <<[by |-> sessions[m.cookie].id,
                         shown |-> sessions[m.as].id,
                         held |-> sessions[m.cookie].held]>>
       /\ UNCHANGED sessions

(* The session, the token, the engine, at either door.                       *)
ConsoleDecide(m) ==
    IF ~Live(m.cookie) THEN Refuse(m, "unauthorized")
    ELSE IF ~VerifyToken(m.as, m.cookie) THEN Refuse(m, "refused")
    ELSE Decided(m)

DashboardDecide(m) ==
    IF ~Live(m.cookie) THEN Refuse(m, "unauthorized")
    ELSE IF ~VerifyToken(m.as, m.cookie) THEN Refuse(m, "refused")
    ELSE Decided(m)

(* console_logout, dashboard_logout ask for nothing.                         *)
Handle(m) ==
    /\ m.answer = "none"
    /\ CASE m.kind = "login" -> HandleLogin(m)
         [] m.kind = "logout" -> Refuse(m, "ok")
         [] m.kind = "session" -> IF Door[m.tab] = "console" THEN ConsoleSession(m) ELSE DashboardIndex(m)
         [] m.kind = "read" -> HandleRead(m)
         [] m.kind = "decide" -> IF Door[m.tab] = "console" THEN ConsoleDecide(m) ELSE DashboardDecide(m)
    /\ UNCHANGED <<settings, starts, expired, browser>>

(* decide_approval_endpoint, with whatever its caller presents: a bearer     *)
(* key, or a cookie's value and a token.                                    *)
CallDecision(key, cookie, token) ==
    LET session == IF Live(cookie) THEN cookie ELSE 0
        who == ResolveDecisionIdentity(settings, sessions, key, session, token)
        bySession == key = NoKey /\ session # 0 IN
    /\ who.class = "REVIEWER"
    /\ bySession => token \in DOMAIN sessions
    /\ decision' = <<[by |-> who.id,
                      shown |-> IF bySession THEN sessions[token].id ELSE key,
                      held |-> IF bySession THEN sessions[session].held
                               ELSE who.id \in settings.reviewer]>>
    /\ UNCHANGED <<server, browser, net>>

------------------------------------------------------------------------------
(* The browser is answered                                                  *)

(* What fetch makes of a request: its answer, or an error if the request or   *)
(* its answer was lost.                                                     *)
Outcomes(m) == {"lost"} \cup ({m.answer} \ {"none"})

(* set_cookie and delete_cookie.                                            *)
SetCookie(m, outcome) ==
    IF outcome = "ok" /\ m.kind \in {"login", "logout"}
    THEN [jar EXCEPT ![Door[m.tab]] = m.sid] ELSE jar

(* Fault: a 403 or a 409 ends the session like a 401 (DroppedForAReason).    *)
UnwelcomeIfRefused(answer) == answer \in {"unauthorized", "refused"}

(* The answers for which unauthorizedHandler is called.                      *)
Unwelcome(answer) == answer = "unauthorized"

(* A page that is gone hears nothing, but its cookie may still be set.       *)
ReceiveOrphan(m, outcome) ==
    /\ m.orphan
    /\ net' = net \ {m}
    /\ jar' = SetCookie(m, outcome)
    /\ UNCHANGED <<server, shows, ready, decision>>

(* A console page: what AuthProvider makes of an answer.  Every failure of   *)
(* the probe counts as "no session", every end of a sign-out as signed out;  *)
(* which session an answer is about is not asked.                           *)
ReceiveConsole(m, outcome) ==
    /\ ~m.orphan /\ Door[m.tab] = "console"
    /\ net' = net \ {m}
    /\ jar' = SetCookie(m, outcome)
    /\ shows' = [shows EXCEPT ![m.tab] =
           CASE m.kind = "login" -> IF outcome = "ok" THEN m.sid ELSE @
             [] m.kind = "logout" -> 0
             [] m.kind = "session" -> IF outcome = "ok" THEN m.sid ELSE 0
             [] m.kind \in {"read", "decide"} -> IF Unwelcome(outcome) THEN 0 ELSE @]
    /\ ready' = [ready EXCEPT ![m.tab] = @ \/ m.kind = "session"]
    /\ UNCHANGED <<server, decision>>

(* A dashboard page: a sign-in leads to the index, a sign-out or the index    *)
(* without a session to the form, and a decision's answer to a fragment.     *)
ReceiveDashboard(m, outcome) ==
    /\ ~m.orphan /\ Door[m.tab] = "dashboard"
    /\ jar' = SetCookie(m, outcome)
    /\ IF m.kind = "login" /\ outcome = "ok"
       THEN /\ net' = (net \ {m}) \cup
                   {[m EXCEPT !.kind = "session", !.cookie = m.sid,
                              !.answer = "none", !.sid = 0]}
            /\ UNCHANGED <<shows, ready>>
       ELSE /\ net' = net \ {m}
            /\ shows' = [shows EXCEPT ![m.tab] =
                   IF m.kind \in {"read", "decide"} THEN @
                   ELSE IF m.kind = "session" /\ outcome = "ok" THEN m.sid ELSE 0]
            /\ ready' = [ready EXCEPT ![m.tab] = TRUE]
    /\ UNCHANGED <<server, decision>>

------------------------------------------------------------------------------
(* Time and operators                                                       *)

Expire(s) ==
    /\ s \in DOMAIN sessions \ expired
    /\ expired' = expired \cup {s}
    /\ UNCHANGED <<settings, starts, sessions, browser, net, decision>>

(* Fault: settings are taken as they are (TypeOK).                           *)
RestartUnchecked(c) ==
    /\ starts < MaxStarts
    /\ settings' = c
    /\ starts' = starts + 1
    /\ UNCHANGED <<sessions, expired, browser, net, decision>>

(* The process restarts, with other settings perhaps; what it was doing is   *)
(* lost.                                                                    *)
Restart(c) ==
    /\ starts < MaxStarts /\ ValidSettings(c)
    /\ settings' = c
    /\ starts' = starts + 1
    /\ UNCHANGED <<sessions, expired, browser, net, decision>>

Next ==
    \/ \E t \in Tabs :
           \/ \E key \in Keys \cup {NoKey} : SignIn(t, key)
           \/ \E kind \in {"logout", "read", "decide"} : Ask(t, kind)
           \/ Reload(t)
    \/ \E m \in net : Handle(m)
    \/ \E m \in net : \E outcome \in Outcomes(m) :
           ReceiveOrphan(m, outcome) \/ ReceiveConsole(m, outcome) \/ ReceiveDashboard(m, outcome)
    \/ \E key \in Keys \cup {NoKey} : CallDecision(key, 0, 0)
    \/ \E cookie, token \in DOMAIN sessions : CallDecision(NoKey, cookie, token)
    \/ \E s \in DOMAIN sessions : Expire(s)
    \/ \E c \in Configurations : Restart(c)

Spec == Init /\ [][Next]_vars

------------------------------------------------------------------------------
(* Whoever decides held a reviewer's key when it was checked: at the request  *)
(* for a bearer key, at sign-in for a session (SEC-006).  In particular not   *)
(* the anonymous identity of a server without keys.                         *)
OnlyReviewersDecide ==
    \A i \in DOMAIN decision : decision[i].held

(* A decision is recorded for the reviewer its page showed when the button    *)
(* was pressed, though another tab may have signed in as someone else         *)
(* meanwhile: the cookie has changed, but the token has not (SEC-007).       *)
ActsAsShown == \A i \in DOMAIN decision : decision[i].by = decision[i].shown

(* A console tab lets go of a session that is good only because it was asked  *)
(* to, because its probe was lost, or for an answer to a request that was     *)
(* made without this session: before the tab held it, or with the cookie     *)
(* another tab had put in its place.                                        *)
DroppedForAReason ==
    [][\A t \in Tabs :
          (Door[t] = "console" /\ shows[t] # 0 /\ shows'[t] # shows[t] /\ Live(shows[t]))
          => \E m \in net \ net' :
                 /\ m.tab = t
                 /\ \/ m.kind \in {"login", "logout"}
                    \/ m.kind = "session" /\ m.answer # "unauthorized"
                    \/ m.as # shows[t]
                    \/ m.cookie # shows[t]]_vars
==============================================================================
