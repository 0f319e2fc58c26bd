--------------------------- MODULE SessionsProofs ---------------------------
(***************************************************************************)
(* Who decides, for any keys, settings, tabs and number of requests in       *)
(* flight.  The argument: a session is signed for a reviewer's key only       *)
(* (SessionsAreHeld), a decision is taken with a session's token only while   *)
(* that session's cookie is presented, and the rest of the browser's and the  *)
(* server's state has no part in it.                                        *)
(***************************************************************************)
EXTENDS Sessions, TLAPS

SessionsAreHeld == \A s \in DOMAIN sessions : sessions[s].held

SInv == TypeOK /\ SessionsAreHeld /\ OnlyReviewersDecide /\ ActsAsShown

Signed == [id : Keys \cup {Anonymous}, secret : Nat, held : BOOLEAN]

(* What TypeOK says of the messages, for as many sessions as there are.      *)
MessagesOf(M, n) == \A m \in M : m \in Message /\ m.as \in 0..n /\ m.cookie \in 0..n /\ m.sid \in 0..n

ServerOK ==
    /\ settings \in Settings /\ ValidSettings(settings)
    /\ starts \in Nat
    /\ sessions \in Seq(Signed)
    /\ \A s \in DOMAIN sessions : sessions[s].secret <= starts
    /\ expired \subseteq DOMAIN sessions

BrowserOK ==
    /\ jar \in [Doors -> Sids] /\ shows \in [Tabs -> Sids] /\ ready \in [Tabs -> BOOLEAN]

LEMMA MessageOK ==
    ASSUME NEW n, NEW x \in Message, x.as \in 0..n, x.cookie \in 0..n, x.sid \in 0..n
    PROVE  MessagesOf({x}, n)
  BY DEF MessagesOf

LEMMA TypeParts == TypeOK <=> ServerOK /\ BrowserOK /\ MessagesOf(net, Len(sessions))
  BY DEF TypeOK, ServerOK, BrowserOK, MessagesOf, Sids, Signed

LEMMA InitSInv == Init => SInv
<1> SUFFICES ASSUME Init PROVE SInv
  OBVIOUS
<1>1. settings \in Settings /\ ValidSettings(settings) /\ sessions = <<>> /\ net = {} /\ decision = <<>>
  BY SessionsAssumption DEF Init
<1>2. ServerOK
  BY <1>1 DEF Init, ServerOK
<1>3. BrowserOK
  BY <1>1 DEF Init, BrowserOK, Sids
<1>4. MessagesOf(net, Len(sessions))
  BY <1>1 DEF MessagesOf
<1> QED BY <1>1, <1>2, <1>3, <1>4, TypeParts DEF SInv, SessionsAreHeld, OnlyReviewersDecide, ActsAsShown

(* A request a tab makes, and the tab's earlier ones losing their page.      *)
LEMMA RequestOK ==
    ASSUME TypeOK, NEW n \in Slots, NEW t \in Tabs, NEW kind \in Kinds, NEW key \in Keys \cup {NoKey}
    PROVE  /\ MessagesOf({Request(n, t, kind, key)}, Len(sessions))
           /\ MessagesOf(Orphaned(t), Len(sessions))
<1>1. /\ jar[Door[t]] \in Sids /\ shows[t] \in Sids /\ Len(sessions) \in Nat
      /\ net \subseteq Message
      /\ \A m \in net : m.as \in Sids /\ m.cookie \in Sids /\ m.sid \in Sids
  BY SessionsAssumption DEF TypeOK, Sids
<1>2. Request(n, t, kind, key) \in Message
  BY <1>1 DEF Request, Message, Answers, Sids
<1>3. MessagesOf({Request(n, t, kind, key)}, Len(sessions))
  <2> DEFINE x == Request(n, t, kind, key)
  <2>1. x.as = shows[t] /\ x.cookie = jar[Door[t]] /\ x.sid = 0
    BY DEF Request
  <2>2. x.as \in 0..Len(sessions) /\ x.cookie \in 0..Len(sessions) /\ x.sid \in 0..Len(sessions)
    BY <1>1, <2>1 DEF Sids
  <2> QED BY <1>2, <2>2, MessageOK
<1>4. ASSUME NEW m \in net PROVE MessagesOf({[m EXCEPT !.orphan = TRUE]}, Len(sessions))
  <2> DEFINE x == [m EXCEPT !.orphan = TRUE]
  <2>1. m \in Message
    BY <1>1
  <2>2. x \in Message /\ x.as = m.as /\ x.cookie = m.cookie /\ x.sid = m.sid
    BY <2>1 DEF Message
  <2> QED BY <1>1, <2>2 DEF MessagesOf, Sids
<1> QED BY <1>1, <1>3, <1>4 DEF MessagesOf, Orphaned, Sids

(* The answer to a request, with a session of those signed by then.          *)
LEMMA AnswerOK ==
    ASSUME TypeOK, NEW m \in net, NEW answer \in Answers, NEW k \in Nat, k >= Len(sessions),
           NEW sid \in 0..k, Answer(m, answer, sid)
    PROVE  MessagesOf(net', k)
<1>1. /\ Len(sessions) \in Nat /\ net \subseteq Message
      /\ \A x \in net : x.as \in Sids /\ x.cookie \in Sids /\ x.sid \in Sids
  BY DEF TypeOK
<1>2. MessagesOf(net, k)
  BY <1>1 DEF MessagesOf, Sids
<1>3. MessagesOf({[m EXCEPT !.answer = answer, !.sid = sid, !.key = NoKey]}, k)
  <2> DEFINE x == [m EXCEPT !.answer = answer, !.sid = sid, !.key = NoKey]
  <2>1. m \in Message /\ sid \in Nat /\ NoKey \in Keys \cup {NoKey} /\ answer \in Answers
    BY <1>1
  <2>2. x \in Message
    BY <2>1 DEF Message
  <2>3. x.as = m.as /\ x.cookie = m.cookie /\ x.sid = sid
    BY <2>1 DEF Message
  <2>4. m.as \in 0..k /\ m.cookie \in 0..k
    BY <1>2 DEF MessagesOf
  <2>5. x.as \in 0..k /\ x.cookie \in 0..k /\ x.sid \in 0..k
    BY <2>3, <2>4
  <2>6. MessagesOf({x}, k)
    <3> HIDE DEF x
    <3> QED BY <2>2, <2>5, MessageOK
  <2> QED BY <2>6
<1> QED BY <1>2, <1>3 DEF Answer, MessagesOf

(* Only a reviewer's key makes a reviewer.                                   *)
LEMMA ReviewerHasKey ==
    ASSUME NEW c \in Settings, NEW key \in Keys \cup {NoKey}, ResolveIdentity(c, key).class = "REVIEWER"
    PROVE  ResolveIdentity(c, key).id = key /\ key \in c.reviewer
  BY DEF ResolveIdentity, Nobody

------------------------------------------------------------------------------
(* Steps that leave the server and the decision alone.                       *)
LEMMA BrowserStep ==
    ASSUME SInv, UNCHANGED <<server, decision>>, BrowserOK', MessagesOf(net', Len(sessions))
    PROVE  SInv'
<1>1. ServerOK
  BY TypeParts DEF SInv
<1>2. ServerOK'
  BY <1>1 DEF ServerOK, server
<1>3. MessagesOf(net, Len(sessions))'
  BY DEF server, MessagesOf
<1>4. TypeOK'
  BY <1>2, <1>3, TypeParts, PTL
<1> QED BY <1>4 DEF SInv, SessionsAreHeld, OnlyReviewersDecide, ActsAsShown, server

LEMMA AskingKeeps ==
    ASSUME SInv, NEW t \in Tabs,
           \/ \E key \in Keys \cup {NoKey} : SignIn(t, key)
           \/ \E kind \in {"logout", "read", "decide"} : Ask(t, kind)
           \/ Reload(t)
    PROVE  SInv'
<1>1. TypeOK /\ BrowserOK /\ MessagesOf(net, Len(sessions)) /\ Len(sessions) \in Nat
  BY TypeParts DEF SInv, TypeOK
<1>2. /\ UNCHANGED <<server, decision>>
      /\ UNCHANGED jar
      /\ \/ UNCHANGED <<shows, ready>>
         \/ shows' = [shows EXCEPT ![t] = 0] /\ ready' = [ready EXCEPT ![t] = FALSE]
         \/ shows' = shows /\ ready' = [ready EXCEPT ![t] = FALSE]
  BY DEF SignIn, Ask, Reload, browser
<1>3. BrowserOK'
  <2>1. /\ Sids' = Sids /\ 0 \in Sids
        /\ jar \in [Doors -> Sids] /\ shows \in [Tabs -> Sids] /\ ready \in [Tabs -> BOOLEAN]
    BY <1>1, <1>2 DEF BrowserOK, server, Sids
  <2>2. jar' \in [Doors -> Sids]
    BY <1>2, <2>1
  <2>3. shows' \in [Tabs -> Sids]
    BY <1>2, <2>1
  <2>4. ready' \in [Tabs -> BOOLEAN]
    BY <1>2, <2>1
  <2> QED BY <2>1, <2>2, <2>3, <2>4 DEF BrowserOK
<1>4. MessagesOf(net', Len(sessions))
  <2>1. PICK n \in Slots, kind \in Kinds, key \in Keys \cup {NoKey} :
            \/ net' = net \cup {Request(n, t, kind, key)}
            \/ net' = Orphaned(t) \cup {Request(n, t, kind, key)}
    BY DEF SignIn, Ask, Reload, Kinds
  <2> QED BY <1>1, <2>1, RequestOK DEF MessagesOf
<1> QED BY <1>2, <1>3, <1>4, BrowserStep

LEMMA ReceivingKeeps ==
    ASSUME SInv, NEW m \in net, NEW outcome \in Outcomes(m),
           \/ ReceiveOrphan(m, outcome)
           \/ ReceiveConsole(m, outcome)
           \/ ReceiveDashboard(m, outcome)
    PROVE  SInv'
<1>1. /\ TypeOK /\ BrowserOK /\ MessagesOf(net, Len(sessions)) /\ Len(sessions) \in Nat
      /\ m \in Message /\ m.tab \in Tabs /\ m.sid \in Sids
  BY TypeParts DEF SInv, TypeOK, Message
<1>2. SetCookie(m, outcome) \in [Doors -> Sids]
  BY <1>1, SessionsAssumption DEF SetCookie, BrowserOK
<1>3. /\ UNCHANGED <<server, decision>>
      /\ jar' = SetCookie(m, outcome)
  BY DEF ReceiveOrphan, ReceiveConsole, ReceiveDashboard
<1>4. shows' \in [Tabs -> Sids] /\ ready' \in [Tabs -> BOOLEAN]
  <2>1. CASE ReceiveOrphan(m, outcome)
    BY <1>1, <2>1 DEF ReceiveOrphan, BrowserOK
  <2>2. CASE ReceiveConsole(m, outcome)
    <3>1. PICK s \in Sids : shows' = [shows EXCEPT ![m.tab] = s]
      <4>1. shows[m.tab] \in Sids /\ m.sid \in Sids /\ 0 \in Sids /\ m.kind \in Kinds
        BY <1>1 DEF BrowserOK, Sids, Message
      <4>2. CASE m.kind = "login"
        BY <4>1, <4>2, <2>2 DEF ReceiveConsole
      <4>3. CASE m.kind = "logout"
        BY <4>1, <4>3, <2>2 DEF ReceiveConsole
      <4>4. CASE m.kind = "session"
        BY <4>1, <4>4, <2>2 DEF ReceiveConsole
      <4>5. CASE m.kind \in {"read", "decide"}
        BY <4>1, <4>5, <2>2 DEF ReceiveConsole
      <4> QED BY <4>1, <4>2, <4>3, <4>4, <4>5 DEF Kinds
    <3> QED BY <1>1, <2>2, <3>1 DEF ReceiveConsole, BrowserOK
  <2>3. CASE ReceiveDashboard(m, outcome)
    <3>1. PICK s \in Sids : shows' = [shows EXCEPT ![m.tab] = s]
      BY <1>1, <2>3 DEF ReceiveDashboard, BrowserOK, Sids
    <3> QED BY <1>1, <2>3, <3>1 DEF ReceiveDashboard, BrowserOK
  <2> QED BY <2>1, <2>2, <2>3
<1>5. BrowserOK'
  BY <1>2, <1>3, <1>4 DEF BrowserOK, Sids, server
<1>6. MessagesOf(net', Len(sessions))
  <2>1. MessagesOf({[m EXCEPT !.kind = "session", !.cookie = m.sid, !.answer = "none", !.sid = 0]},
                   Len(sessions))
    <3> DEFINE x == [m EXCEPT !.kind = "session", !.cookie = m.sid, !.answer = "none", !.sid = 0]
    <3>1. "session" \in Kinds /\ "none" \in Answers /\ m.sid \in Nat /\ m.as \in Sids /\ 0 \in Sids
      BY <1>1 DEF Kinds, Answers, Message, MessagesOf, Sids
    <3>2. x \in Message /\ x.as = m.as /\ x.cookie = m.sid /\ x.sid = 0
      BY <1>1, <3>1 DEF Message
    <3>3. x.as \in 0..Len(sessions) /\ x.cookie \in 0..Len(sessions) /\ x.sid \in 0..Len(sessions)
      BY <1>1, <3>1, <3>2 DEF Sids
    <3> QED BY <3>2, <3>3, MessageOK
  <2>2. \/ net' = net \ {m}
        \/ net' = (net \ {m}) \cup {[m EXCEPT !.kind = "session", !.cookie = m.sid,
                                              !.answer = "none", !.sid = 0]}
    BY DEF ReceiveOrphan, ReceiveConsole, ReceiveDashboard
  <2> QED BY <1>1, <2>1, <2>2 DEF MessagesOf
<1> QED BY <1>3, <1>5, <1>6, BrowserStep

------------------------------------------------------------------------------
(* An answer that signs nothing and decides nothing.                         *)
LEMMA AnsweringKeeps ==
    ASSUME SInv, NEW m \in net, NEW answer \in Answers, NEW sid \in Sids, Answer(m, answer, sid),
           UNCHANGED <<server, browser>>, (OnlyReviewersDecide /\ ActsAsShown)'
    PROVE  SInv'
<1>1. TypeOK /\ ServerOK /\ BrowserOK /\ Len(sessions) \in Nat
  BY TypeParts DEF SInv, TypeOK
<1>2. MessagesOf(net', Len(sessions))
  BY <1>1, AnswerOK DEF Sids
<1>3. ServerOK' /\ BrowserOK' /\ MessagesOf(net, Len(sessions))'
  BY <1>1, <1>2 DEF ServerOK, BrowserOK, MessagesOf, server, browser, Sids
<1>4. TypeOK'
  BY <1>3, TypeParts, PTL
<1> QED BY <1>4 DEF SInv, SessionsAreHeld, server

LEMMA LoginKeeps ==
    ASSUME SInv, NEW m \in net, HandleLogin(m), UNCHANGED <<settings, starts, expired, browser>>
    PROVE  SInv'
<1> DEFINE who == ResolveIdentity(settings, m.key)
           new == [id |-> who.id, secret |-> Secret, held |-> who.id \in settings.reviewer]
<1>1. /\ TypeOK /\ ServerOK /\ BrowserOK /\ Len(sessions) \in Nat /\ settings \in Settings
      /\ m.key \in Keys \cup {NoKey}
  BY TypeParts DEF SInv, TypeOK, Message
<1>2. CASE \E answer \in Answers : Refuse(m, answer)
  <2>1. UNCHANGED <<server, browser, decision>>
    BY <1>2 DEF Refuse, server
  <2>2. (OnlyReviewersDecide /\ ActsAsShown)'
    BY <2>1 DEF SInv, OnlyReviewersDecide, ActsAsShown
  <2> QED BY <1>2, <2>1, <2>2, <1>1, AnsweringKeeps DEF Refuse, Sids
<1>3. CASE /\ m.key # NoKey /\ who.class = "REVIEWER"
           /\ sessions' = Append(sessions, new)
           /\ Answer(m, "ok", Len(sessions) + 1)
           /\ UNCHANGED decision
  <2>1. who.id = m.key /\ who.id \in settings.reviewer /\ who.id \in Keys
    BY <1>1, <1>3, ReviewerHasKey
  <2>2. Secret \in Nat /\ Secret <= starts
    BY <1>1 DEF Secret, ServerOK
  <2>3. new \in Signed /\ new.held /\ new.secret <= starts
    BY <2>1, <2>2 DEF Signed
  <2>4. /\ sessions' \in Seq(Signed) /\ Len(sessions') = Len(sessions) + 1
        /\ DOMAIN sessions = 1..Len(sessions) /\ DOMAIN sessions' = 1..(Len(sessions) + 1)
        /\ \A s \in 1..Len(sessions) : sessions'[s] = sessions[s]
        /\ sessions'[Len(sessions) + 1] = new
    <3> HIDE DEF new
    <3> QED BY <1>1, <1>3, <2>3 DEF ServerOK
  <2>5. ASSUME NEW s \in DOMAIN sessions'
        PROVE  sessions'[s].held /\ sessions'[s].secret <= starts
    <3>1. CASE s = Len(sessions) + 1
      BY <3>1, <2>3, <2>4
    <3>2. CASE s # Len(sessions) + 1
      <4>1. s \in 1..Len(sessions)
        BY <3>2, <2>4, <1>1
      <4> QED BY <4>1, <2>4, <1>1 DEF ServerOK, SInv, SessionsAreHeld
    <3> QED BY <3>1, <3>2
  <2>6. ServerOK'
    BY <1>1, <2>4, <2>5 DEF ServerOK
  <2>7. BrowserOK'
    BY <1>1, <2>4 DEF BrowserOK, Sids, browser
  <2>8. MessagesOf(net, Len(sessions))'
    <3>1. MessagesOf(net', Len(sessions) + 1)
      BY <1>1, <1>3, AnswerOK DEF Answers
    <3> QED BY <2>4, <3>1 DEF MessagesOf
  <2>9. TypeOK'
    BY <2>6, <2>7, <2>8, TypeParts, PTL
  <2>10. (OnlyReviewersDecide /\ ActsAsShown)'
    BY <1>3 DEF SInv, OnlyReviewersDecide, ActsAsShown
  <2> QED BY <2>5, <2>9, <2>10 DEF SInv, SessionsAreHeld
<1> QED BY <1>2, <1>3, <1>1 DEF HandleLogin, NewSession, Answers, ResolveIdentity, Nobody

LEMMA DecidingKeeps ==
    ASSUME SInv, NEW m \in net, ConsoleDecide(m) \/ DashboardDecide(m), UNCHANGED <<settings, starts, expired, browser>>
    PROVE  SInv'
<1>1. UNCHANGED <<server, browser>>
  BY DEF ConsoleDecide, DashboardDecide, Decided, Refuse, server
<1>2. \E answer \in Answers : Answer(m, answer, 0)
  BY DEF ConsoleDecide, DashboardDecide, Decided, Refuse, Answers
<1>3. (OnlyReviewersDecide /\ ActsAsShown)'
  <2>1. CASE UNCHANGED decision
    BY <2>1 DEF SInv, OnlyReviewersDecide, ActsAsShown
  <2>2. CASE /\ Live(m.cookie) /\ VerifyToken(m.as, m.cookie)
             /\ decision' = <<[by |-> sessions[m.cookie].id,
                               shown |-> sessions[m.as].id,
                               held |-> sessions[m.cookie].held]>>
    <3>1. m.cookie \in DOMAIN sessions /\ m.as = m.cookie
      BY <2>2 DEF Live, VerifySession, VerifyToken
    <3> QED BY <2>2, <3>1 DEF SInv, SessionsAreHeld, OnlyReviewersDecide, ActsAsShown
  <2> QED BY <2>1, <2>2 DEF ConsoleDecide, DashboardDecide, Decided, Refuse
<1>4. 0 \in Sids
  BY DEF Sids, SInv, TypeOK
<1> QED BY <1>1, <1>2, <1>3, <1>4, AnsweringKeeps

LEMMA HandlingKeeps == ASSUME SInv, NEW m \in net, Handle(m) PROVE SInv'
<1>1. m.kind \in Kinds /\ m.cookie \in Sids /\ Len(sessions) \in Nat
  BY DEF SInv, TypeOK, Message
<1>2. CASE m.kind = "login"
  BY <1>2, LoginKeeps DEF Handle
<1>3. CASE m.kind = "decide"
  BY <1>3, DecidingKeeps DEF Handle
<1>4. CASE m.kind \in {"logout", "session", "read"}
  <2>1. UNCHANGED <<server, browser, decision>>
    BY <1>4 DEF Handle, ConsoleSession, DashboardIndex, HandleRead, Refuse, server
  <2>2. \E answer \in Answers, sid \in Sids : Answer(m, answer, sid)
    <3>1. 0 \in Sids
      BY <1>1 DEF Sids
    <3>2. CASE m.kind = "logout"
      BY <3>1, <3>2 DEF Handle, Refuse, Answers
    <3>3. CASE m.kind = "session"
      BY <1>1, <3>1, <3>3 DEF Handle, ConsoleSession, DashboardIndex, Refuse, Answers
    <3>4. CASE m.kind = "read"
      BY <3>1, <3>4 DEF Handle, HandleRead, Refuse, Answers
    <3> QED BY <1>4, <3>2, <3>3, <3>4
  <2>3. (OnlyReviewersDecide /\ ActsAsShown)'
    BY <2>1 DEF SInv, OnlyReviewersDecide, ActsAsShown
  <2> QED BY <2>1, <2>2, <2>3, AnsweringKeeps
<1> QED BY <1>1, <1>2, <1>3, <1>4 DEF Kinds

LEMMA CallKeeps ==
    ASSUME SInv, NEW key \in Keys \cup {NoKey}, NEW cookie, NEW token, CallDecision(key, cookie, token)
    PROVE  SInv'
<1> DEFINE session == IF Live(cookie) THEN cookie ELSE 0
           who == ResolveDecisionIdentity(settings, sessions, key, session, token)
<1>1. TypeOK /\ settings \in Settings /\ MessagesOf(net, Len(sessions)) /\ BrowserOK /\ ServerOK
  BY TypeParts DEF SInv, TypeOK
<1>2. UNCHANGED <<server, browser, net>>
  BY DEF CallDecision
<1>3. TypeOK'
  <2>1. ServerOK' /\ BrowserOK' /\ MessagesOf(net, Len(sessions))'
    BY <1>1, <1>2 DEF ServerOK, BrowserOK, MessagesOf, server, browser, Sids
  <2> QED BY <2>1, TypeParts, PTL
<1>4. (OnlyReviewersDecide /\ ActsAsShown)'
  <2>1. CASE key = NoKey /\ session # 0
    <3>1. Live(cookie) /\ session = cookie /\ cookie \in DOMAIN sessions
      BY <2>1 DEF Live, VerifySession
    <3>2. who = IF token = cookie THEN [class |-> "REVIEWER", id |-> sessions[cookie].id] ELSE Nobody
      BY <2>1, <3>1 DEF ResolveDecisionIdentity, VerifyToken
    <3>3. who.class = "REVIEWER"
      BY DEF CallDecision
    <3>4. token = cookie /\ who.id = sessions[cookie].id
      BY <3>2, <3>3 DEF Nobody
    <3>5. decision' = <<[by |-> who.id, shown |-> sessions[token].id, held |-> sessions[session].held]>>
      BY <2>1 DEF CallDecision
    <3> HIDE DEF who, session
    <3> QED BY <3>1, <3>4, <3>5 DEF SInv, SessionsAreHeld, OnlyReviewersDecide, ActsAsShown
  <2>2. CASE ~(key = NoKey /\ session # 0)
    <3>1. who = ResolveIdentity(settings, key)
      BY <2>2 DEF ResolveDecisionIdentity
    <3>2. who.class = "REVIEWER"
      BY DEF CallDecision
    <3>3. who.id = key /\ key \in settings.reviewer
      BY <1>1, <3>1, <3>2, ReviewerHasKey
    <3>4. decision' = <<[by |-> key, shown |-> key, held |-> TRUE]>>
      <4>1. decision' = <<[by |-> who.id, shown |-> key, held |-> who.id \in settings.reviewer]>>
        BY <2>2 DEF CallDecision
      <4> QED BY <3>3, <4>1
    <3> QED BY <3>4 DEF OnlyReviewersDecide, ActsAsShown
  <2> QED BY <2>1, <2>2
<1> QED BY <1>2, <1>3, <1>4 DEF SInv, SessionsAreHeld, server

LEMMA OperatingKeeps ==
    ASSUME SInv,
           (\E s \in DOMAIN sessions : Expire(s)) \/ \E c \in Configurations : Restart(c)
    PROVE  SInv'
<1>1. TypeOK /\ ServerOK /\ BrowserOK /\ MessagesOf(net, Len(sessions))
  BY TypeParts DEF SInv
<1>2. UNCHANGED <<sessions, browser, net, decision>>
  BY DEF Expire, Restart
<1>3. ServerOK'
  <2>1. CASE \E s \in DOMAIN sessions : Expire(s)
    BY <1>1, <2>1 DEF ServerOK, Expire
  <2>2. CASE \E c \in Configurations : Restart(c)
    <3>1. /\ settings' \in Settings /\ ValidSettings(settings') /\ starts' = starts + 1
          /\ UNCHANGED <<sessions, expired>>
      BY <2>2, SessionsAssumption DEF Restart
    <3>2. ASSUME NEW s \in DOMAIN sessions PROVE sessions[s].secret \in Nat
      <4>1. sessions[s] \in Signed
        BY <1>1 DEF ServerOK
      <4> QED BY <4>1 DEF Signed
    <3> QED BY <1>1, <3>1, <3>2 DEF ServerOK
  <2> QED BY <2>1, <2>2
<1>4. BrowserOK' /\ MessagesOf(net, Len(sessions))'
  BY <1>1, <1>2 DEF BrowserOK, MessagesOf, browser, Sids
<1>5. TypeOK'
  BY <1>3, <1>4, TypeParts, PTL
<1> QED BY <1>2, <1>5 DEF SInv, SessionsAreHeld, OnlyReviewersDecide, ActsAsShown

LEMMA NextSInv == SInv /\ [Next]_vars => SInv'
<1> SUFFICES ASSUME SInv, [Next]_vars PROVE SInv'
  OBVIOUS
<1>1. CASE \E t \in Tabs : \/ \E key \in Keys \cup {NoKey} : SignIn(t, key)
                           \/ \E kind \in {"logout", "read", "decide"} : Ask(t, kind)
                           \/ Reload(t)
  BY <1>1, AskingKeeps
<1>2. CASE \E m \in net : Handle(m)
  BY <1>2, HandlingKeeps
<1>3. CASE \E m \in net : \E outcome \in Outcomes(m) :
               \/ ReceiveOrphan(m, outcome)
               \/ ReceiveConsole(m, outcome)
               \/ ReceiveDashboard(m, outcome)
  BY <1>3, ReceivingKeeps
<1>4. CASE \/ \E key \in Keys \cup {NoKey} : CallDecision(key, 0, 0)
           \/ \E cookie, token \in DOMAIN sessions : CallDecision(NoKey, cookie, token)
  BY <1>4, CallKeeps
<1>5. CASE (\E s \in DOMAIN sessions : Expire(s)) \/ \E c \in Configurations : Restart(c)
  BY <1>5, OperatingKeeps
<1>6. CASE UNCHANGED vars
  <2>1. TypeOK /\ BrowserOK /\ MessagesOf(net, Len(sessions))
    BY TypeParts DEF SInv
  <2> QED BY <1>6, <2>1, BrowserStep DEF vars, server, BrowserOK, Sids
<1> QED BY <1>1, <1>2, <1>3, <1>4, <1>5, <1>6 DEF Next

------------------------------------------------------------------------------
(* The types of the server's, the browser's and the network's state.         *)
THEOREM TypeCorrect == Spec => []TypeOK
<1>1. SInv => TypeOK
  BY DEF SInv
<1> QED BY InitSInv, NextSInv, <1>1, PTL DEF Spec

(* No one decides without a reviewer's key, by any of the three routes        *)
(* (SEC-006), through restarts with other keys included.                     *)
THEOREM DecisionsAreReviewers == Spec => []OnlyReviewersDecide
<1>1. SInv => OnlyReviewersDecide
  BY DEF SInv
<1> QED BY InitSInv, NextSInv, <1>1, PTL DEF Spec

(* A decision is never recorded for another reviewer than the one its page    *)
(* showed (SEC-007), for any number of tabs that share the cookie.           *)
THEOREM DecisionsAreAsShown == Spec => []ActsAsShown
<1>1. SInv => ActsAsShown
  BY DEF SInv
<1> QED BY InitSInv, NextSInv, <1>1, PTL DEF Spec

------------------------------------------------------------------------------
(* What a tab lets go of.  A 401 is the answer to a cookie that is not good,  *)
(* and never becomes good again: the sessions of a process's own secret die  *)
(* with it, and those of a configured one live on.  Only an operator who      *)
(* takes a configured secret away and puts it back revives what was dead.    *)
SecretLasts == MaxStarts = 1 \/ \A c, d \in Configurations : c.secret = d.secret

AboutSession == {"session", "read", "decide"}

RefusedIsDead ==
    \A m \in net : m.kind \in AboutSession /\ m.answer = "unauthorized" => ~Live(m.cookie)

DInv ==
    /\ SInv
    /\ settings \in Configurations
    /\ MaxStarts = 1 => starts = 1
    /\ RefusedIsDead

LEMMA DeadStaysDead ==
    ASSUME TypeOK, settings'.secret = settings.secret, starts' \in {starts, starts + 1},
           expired \subseteq expired',
           UNCHANGED sessions \/ \E x : sessions' = Append(sessions, x),
           NEW c \in Sids, ~Live(c)
    PROVE  ~Live(c)'
<1>1. /\ Len(sessions) \in Nat /\ sessions \in Seq(Signed) /\ DOMAIN sessions = 1..Len(sessions)
      /\ starts \in Nat
  BY DEF TypeOK, Signed
<1>2. c \in DOMAIN sessions' => c \in DOMAIN sessions /\ sessions'[c] = sessions[c]
  BY <1>1 DEF Sids
<1>3. c \in DOMAIN sessions => sessions[c].secret \in Nat /\ sessions[c].secret <= starts
  <2>1. c \in DOMAIN sessions => sessions[c] \in Signed
    BY <1>1
  <2>2. c \in DOMAIN sessions => sessions[c].secret \in Nat
    BY <2>1 DEF Signed
  <2>3. c \in DOMAIN sessions => sessions[c].secret <= starts
    BY DEF TypeOK
  <2> QED BY <2>2, <2>3
<1>4. c \in DOMAIN sessions /\ sessions[c].secret # Secret => sessions[c].secret # Secret'
  BY <1>1, <1>3 DEF Secret
<1> QED BY <1>2, <1>4 DEF Live, VerifySession

LEMMA NextDInv == ASSUME SecretLasts PROVE DInv /\ [Next]_vars => DInv'
<1> SUFFICES ASSUME DInv, [Next]_vars PROVE DInv'
  OBVIOUS
<1>1. /\ SInv' /\ TypeOK /\ RefusedIsDead
      /\ settings \in Configurations /\ (MaxStarts = 1 => starts = 1)
  BY NextSInv DEF DInv, SInv
<1>2. \A m \in net : m \in Message /\ m.cookie \in Sids
  BY <1>1 DEF TypeOK
<1>3. ASSUME \/ UNCHANGED <<settings, starts>>
             \/ /\ settings' \in Configurations /\ settings'.secret = settings.secret
                /\ starts' = starts + 1 /\ MaxStarts # 1,
             expired \subseteq expired',
             UNCHANGED sessions \/ \E x : sessions' = Append(sessions, x),
             \A n \in net' : \/ n.kind \notin AboutSession \/ n.answer # "unauthorized"
                             \/ \E m \in net : /\ n.cookie = m.cookie
                                               /\ \/ ~Live(m.cookie)
                                                  \/ n.kind = m.kind /\ n.answer = m.answer
      PROVE  DInv'
  <2>1. ASSUME NEW n \in net', n.kind \in AboutSession, n.answer = "unauthorized" PROVE ~Live(n.cookie)'
    <3>1. PICK m \in net : n.cookie = m.cookie /\ ~Live(m.cookie)
      BY <1>1, <1>3, <2>1 DEF RefusedIsDead
    <3> QED BY <1>1, <1>2, <1>3, <3>1, DeadStaysDead
  <2> QED BY <1>1, <1>3, <2>1 DEF DInv, RefusedIsDead
<1>4. CASE \E t \in Tabs : \/ \E key \in Keys \cup {NoKey} : SignIn(t, key)
                           \/ \E kind \in {"logout", "read", "decide"} : Ask(t, kind)
                           \/ Reload(t)
  <2>1. PICK t \in Tabs, n \in Slots, kind \in Kinds, key \in Keys \cup {NoKey} :
            /\ \/ net' = net \cup {Request(n, t, kind, key)}
               \/ net' = Orphaned(t) \cup {Request(n, t, kind, key)}
            /\ UNCHANGED server
    BY <1>4 DEF SignIn, Ask, Reload, Kinds
  <2>2. Request(n, t, kind, key).answer = "none"
    BY DEF Request
  <2>3. \A x \in Orphaned(t) : \E m \in net : x.cookie = m.cookie /\ x.kind = m.kind /\ x.answer = m.answer
    <3>1. ASSUME NEW m \in net
          PROVE  LET x == [m EXCEPT !.orphan = TRUE]
                 IN  x.cookie = m.cookie /\ x.kind = m.kind /\ x.answer = m.answer
      BY <1>2 DEF Message
    <3> QED BY <3>1 DEF Orphaned
  <2>4. UNCHANGED <<settings, starts, sessions, expired>>
    BY <2>1 DEF server
  <2> QED BY <1>3, <2>1, <2>2, <2>3, <2>4
<1>5. CASE \E m \in net : Handle(m)
  <2>1. PICK m \in net : Handle(m)
    BY <1>5
  <2>2. UNCHANGED <<settings, starts, expired>> /\ m.kind \in Kinds /\ m \in Message
    BY <1>2, <2>1 DEF Handle, Message
  <2>3. \E answer \in Answers, sid \in Nat :
            /\ Answer(m, answer, sid)
            /\ UNCHANGED sessions \/ \E x : sessions' = Append(sessions, x)
            /\ m.kind \in AboutSession /\ answer = "unauthorized" => ~Live(m.cookie)
    <3>1. CASE m.kind = "login"
      <4>1. HandleLogin(m)
        BY <2>1, <3>1 DEF Handle
      <4>2. \/ \E answer \in Answers : Answer(m, answer, 0) /\ UNCHANGED sessions
            \/ /\ \E x : sessions' = Append(sessions, x)
               /\ Answer(m, "ok", Len(sessions) + 1)
        BY <4>1 DEF HandleLogin, Refuse, Answers, ResolveIdentity, Nobody
      <4>3. Len(sessions) + 1 \in Nat /\ 0 \in Nat /\ "ok" \in Answers
        BY <1>1 DEF TypeOK, Answers
      <4>4. m.kind \notin AboutSession
        BY <3>1 DEF AboutSession
      <4> QED BY <4>2, <4>3, <4>4
    <3>2. CASE m.kind = "logout"
      BY <2>1, <3>2 DEF Handle, Refuse, AboutSession, Answers
    <3>3. CASE m.kind = "session"
      <4>1. ConsoleSession(m) \/ DashboardIndex(m)
        BY <2>1, <3>3 DEF Handle
      <4>2. m.cookie \in Nat /\ 0 \in Nat /\ {"ok", "unauthorized", "refused"} \subseteq Answers
        BY <2>2 DEF Message, Answers
      <4>3. CASE Live(m.cookie)
        <5>1. Answer(m, "ok", m.cookie) /\ UNCHANGED sessions
          BY <4>1, <4>3 DEF ConsoleSession, DashboardIndex
        <5> QED BY <4>2, <5>1
      <4>4. CASE ~Live(m.cookie)
        <5>1. PICK answer \in Answers : Answer(m, answer, 0) /\ UNCHANGED sessions
          BY <4>1, <4>2, <4>4 DEF ConsoleSession, DashboardIndex, Refuse
        <5> QED BY <4>2, <4>4, <5>1
      <4> QED BY <4>3, <4>4
    <3>4. CASE m.kind = "read"
      <4>1. HandleRead(m)
        BY <2>1, <3>4 DEF Handle
      <4> QED BY <4>1 DEF HandleRead, Refuse, Answers
    <3>5. CASE m.kind = "decide"
      <4>1. ConsoleDecide(m) \/ DashboardDecide(m)
        BY <2>1, <3>5 DEF Handle
      <4> QED BY <4>1 DEF ConsoleDecide, DashboardDecide, Decided, Refuse, Answers
    <3> QED BY <2>2, <3>1, <3>2, <3>3, <3>4, <3>5 DEF Kinds
  <2>4. PICK answer \in Answers, sid \in Nat :
            /\ Answer(m, answer, sid)
            /\ UNCHANGED sessions \/ \E x : sessions' = Append(sessions, x)
            /\ m.kind \in AboutSession /\ answer = "unauthorized" => ~Live(m.cookie)
    BY <2>3
  <2> DEFINE y == [m EXCEPT !.answer = answer, !.sid = sid, !.key = NoKey]
  <2>5. y.kind = m.kind /\ y.cookie = m.cookie /\ y.answer = answer
    BY <2>2 DEF Message
  <2>6. \A n \in net' : n \in net \/ n = y
    BY <2>4 DEF Answer
  <2> HIDE DEF y
  <2> QED BY <1>3, <2>2, <2>4, <2>5, <2>6
<1>6. CASE \E m \in net : \E outcome \in Outcomes(m) :
               \/ ReceiveOrphan(m, outcome)
               \/ ReceiveConsole(m, outcome)
               \/ ReceiveDashboard(m, outcome)
  <2>1. PICK m \in net :
            /\ \/ net' = net \ {m}
               \/ net' = (net \ {m}) \cup {[m EXCEPT !.kind = "session", !.cookie = m.sid,
                                                     !.answer = "none", !.sid = 0]}
            /\ UNCHANGED server
    BY <1>6 DEF ReceiveOrphan, ReceiveConsole, ReceiveDashboard
  <2>2. [m EXCEPT !.kind = "session", !.cookie = m.sid, !.answer = "none", !.sid = 0].answer = "none"
    BY <1>2 DEF Message
  <2>3. UNCHANGED <<settings, starts, sessions, expired>>
    BY <2>1 DEF server
  <2> QED BY <1>3, <2>1, <2>2, <2>3
<1>7. CASE \/ \E key \in Keys \cup {NoKey} : CallDecision(key, 0, 0)
           \/ \E cookie, token \in DOMAIN sessions : CallDecision(NoKey, cookie, token)
  <2>1. UNCHANGED <<settings, starts, sessions, expired, net>>
    BY <1>7 DEF CallDecision, server
  <2> QED BY <1>3, <2>1
<1>8. CASE \E s \in DOMAIN sessions : Expire(s)
  <2>1. UNCHANGED <<settings, starts, sessions, net>> /\ expired \subseteq expired'
    BY <1>8 DEF Expire
  <2> QED BY <1>3, <2>1
<1>9. ASSUME NEW c \in Configurations, Restart(c) PROVE DInv'
  <2>1. MaxStarts # 1
    BY <1>1, <1>9 DEF Restart
  <2>2. settings' = c /\ starts' = starts + 1 /\ UNCHANGED <<sessions, expired, net>>
    BY <1>9 DEF Restart
  <2>3. settings'.secret = settings.secret
    BY <1>1, <2>1, <2>2 DEF SecretLasts
  <2> QED BY <1>3, <2>1, <2>2, <2>3
<1>10. CASE UNCHANGED vars
  <2>1. UNCHANGED <<settings, starts, sessions, expired, net>>
    BY <1>10 DEF vars
  <2> QED BY <1>3, <2>1
<1> QED BY <1>4, <1>5, <1>6, <1>7, <1>8, <1>9, <1>10 DEF Next

(* web/components/auth-provider.tsx:71: a console tab loses a good session     *)
(* only when it is asked to, when its probe is lost, or by an answer about   *)
(* another session; also across restarts, as long as whether a secret is      *)
(* configured does not change between them.                                 *)
THEOREM DropsHaveReasons == ASSUME SecretLasts PROVE Spec => DroppedForAReason
<1>1. Init => DInv
  BY InitSInv DEF Init, DInv, RefusedIsDead
<1>2. DInv /\ [Next]_vars =>
          [\A t \in Tabs :
              (Door[t] = "console" /\ shows[t] # 0 /\ shows'[t] # shows[t] /\ Live(shows[t]))
              => \E m \in net \ net' :
                     /\ m.tab = t
                     /\ \/ m.kind \in {"login", "logout"}
                        \/ m.kind = "session" /\ m.answer # "unauthorized"
                        \/ m.as # shows[t]
                        \/ m.cookie # shows[t]]_vars
  <2> SUFFICES ASSUME DInv, Next, NEW t \in Tabs,
                      Door[t] = "console", shows[t] # 0, shows'[t] # shows[t], Live(shows[t])
               PROVE  \E m \in net \ net' :
                          /\ m.tab = t
                          /\ \/ m.kind \in {"login", "logout"}
                             \/ m.kind = "session" /\ m.answer # "unauthorized"
                             \/ m.as # shows[t]
                             \/ m.cookie # shows[t]
    BY DEF vars
  <2>1. TypeOK /\ RefusedIsDead /\ \A m \in net : m \in Message
    BY DEF DInv, SInv, TypeOK
  <2>2. PICK m \in net : \E outcome \in Outcomes(m) : ReceiveConsole(m, outcome) /\ m.tab = t
    <3>1. shows \in [Tabs -> Sids]
      BY <2>1 DEF TypeOK
    <3>2. CASE \E u \in Tabs : \/ \E key \in Keys \cup {NoKey} : SignIn(u, key)
                               \/ \E kind \in {"logout", "read", "decide"} : Ask(u, kind)
                               \/ Reload(u)
      <4>1. PICK u \in Tabs : UNCHANGED shows \/ (Door[u] # "console" /\ shows' = [shows EXCEPT ![u] = 0])
        BY <3>2 DEF SignIn, Ask, Reload, browser
      <4> QED BY <3>1, <4>1
    <3>3. ASSUME NEW m \in net, NEW outcome \in Outcomes(m),
                 ReceiveOrphan(m, outcome) \/ ReceiveDashboard(m, outcome)
          PROVE  FALSE
      <4>1. UNCHANGED shows \/ (Door[m.tab] # "console" /\ \E s : shows' = [shows EXCEPT ![m.tab] = s])
        BY <3>3 DEF ReceiveOrphan, ReceiveDashboard
      <4> QED BY <3>1, <4>1
    <3>4. ASSUME NEW m \in net, NEW outcome \in Outcomes(m), ReceiveConsole(m, outcome), m.tab # t
          PROVE  FALSE
      <4>1. \E s : shows' = [shows EXCEPT ![m.tab] = s]
        BY <3>4 DEF ReceiveConsole
      <4> QED BY <3>1, <3>4, <4>1
    <3>5. CASE \E m \in net : Handle(m)
      BY <3>5 DEF Handle, browser
    <3>6. CASE \/ \E key \in Keys \cup {NoKey} : CallDecision(key, 0, 0)
               \/ \E cookie, token \in DOMAIN sessions : CallDecision(NoKey, cookie, token)
      BY <3>6 DEF CallDecision, browser
    <3>7. CASE (\E s \in DOMAIN sessions : Expire(s)) \/ \E c \in Configurations : Restart(c)
      BY <3>7 DEF Expire, Restart, browser
    <3> QED BY <3>2, <3>3, <3>4, <3>5, <3>6, <3>7 DEF Next
  <2>3. PICK outcome \in Outcomes(m) : ReceiveConsole(m, outcome)
    BY <2>2
  <2>4. m \in net \ net' /\ m.tab = t /\ m.kind \in Kinds
    BY <2>1, <2>2, <2>3 DEF ReceiveConsole, Message
  <2>5. ASSUME m.kind \in {"read", "decide"} PROVE m.answer = "unauthorized"
    <3>1. shows' = [shows EXCEPT ![t] = IF Unwelcome(outcome) THEN 0 ELSE @]
      BY <2>3, <2>4, <2>5 DEF ReceiveConsole
    <3>2. outcome = "unauthorized"
      BY <2>1, <3>1 DEF Unwelcome, TypeOK
    <3> QED BY <3>2 DEF Outcomes
  <2>6. m.kind \in AboutSession /\ m.answer = "unauthorized" => m.cookie # shows[t]
    BY <2>1 DEF RefusedIsDead
  <2> QED BY <2>4, <2>5, <2>6 DEF Kinds, AboutSession
<1> QED BY <1>1, <1>2, NextDInv, PTL DEF Spec, DroppedForAReason
==============================================================================
