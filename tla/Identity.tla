------------------------------ MODULE Identity ------------------------------
(***************************************************************************)
(* Who a caller is (app/auth.py), by the keys the settings hold             *)
(* (app/config.py) or by a signed session (app/session.py).  Pure: what is  *)
(* kept and where is Sessions' matter.                                      *)
(*                                                                         *)
(* A key and the key_id made of it are one value.  A session is named by a  *)
(* number, 0 for none; the number stands for the signed cookie and for the  *)
(* CSRF token, which is a function of the session and the secret.           *)
(***************************************************************************)
EXTENDS Naturals, Sequences

CONSTANTS
    Keys,           \* strings a caller may present, long enough to be configured
    NoKey,          \* no Authorization header, or an empty field
    Anonymous       \* ANONYMOUS_DEV_IDENTITY

ASSUME KeysAssumption == NoKey \notin Keys /\ Anonymous \notin Keys

Settings == [service : SUBSET Keys, reviewer : SUBSET Keys,
             production : BOOLEAN, loopback : BOOLEAN, secret : BOOLEAN]

(* _validate_cross_field, as far as keys and SESSION_SECRET go: a process    *)
(* with other settings does not start.                                      *)
ValidSettings(c) ==
    /\ c.service \cap c.reviewer = {}
    /\ c.production => c.service # {} /\ c.reviewer # {} /\ c.secret
    /\ ~c.production /\ ~c.loopback => c.service \cup c.reviewer # {}

Nobody == [class |-> "NONE", id |-> NoKey]      \* INVALID_AUTHENTICATION

(* Fault: without any keys configured everybody may do everything            *)
(* (OnlyReviewersDecide).                                                   *)
ResolveIdentityOpen(c, key) ==
    IF c.service \cup c.reviewer = {} THEN [class |-> "REVIEWER", id |-> Anonymous]
    ELSE IF key \in c.service THEN [class |-> "SERVICE", id |-> key]
    ELSE IF key \in c.reviewer THEN [class |-> "REVIEWER", id |-> key]
    ELSE Nobody

(* resolve_identity: without any keys configured everybody is the anonymous  *)
(* service, whatever key is presented.                                      *)
ResolveIdentity(c, key) ==
    IF c.service \cup c.reviewer = {} THEN [class |-> "SERVICE", id |-> Anonymous]
    ELSE IF key \in c.service THEN [class |-> "SERVICE", id |-> key]
    ELSE IF key \in c.reviewer THEN [class |-> "REVIEWER", id |-> key]
    ELSE Nobody

(* verify_session_cookie: the signature is of the secret in force, and the   *)
(* expiry is not reached.                                                   *)
VerifySession(sessions, expired, secret, cookie) ==
    /\ cookie \in DOMAIN sessions
    /\ sessions[cookie].secret = secret
    /\ cookie \notin expired

(* Fault: any session's token will do (ActsAsShown).                         *)
VerifyAnyToken(presented, session) == presented # 0

(* verify_csrf_token: the token is that of this session.                     *)
VerifyToken(presented, session) == presented = session

(* resolve_decision_identity: a presented key is all that counts; without    *)
(* one, a session and its token; without either, whoever has no key.         *)
(* Nobody with the token of another session.                                *)
ResolveDecisionIdentity(c, sessions, key, session, token) ==
    IF key # NoKey \/ session = 0 THEN ResolveIdentity(c, key)
    ELSE IF VerifyToken(token, session)
         THEN [class |-> "REVIEWER", id |-> sessions[session].id]
         ELSE Nobody
==============================================================================
