------------------------------ MODULE Sessions ------------------------------
(* Accounts and sessions: registration, login, refresh-token rotation and    *)
(* the password change that ends the other sessions (core/src/user/          *)
(* handler.rs), with the tokens of core/src/auth/jwt.rs and the bootstrap of *)
(* the embedded user.  Every SQL statement is a step: no handler opens a     *)
(* transaction.  One account stands for all: handlers touch only their own.  *)
(* A token pair is named by the request that minted it.                      *)
EXTENDS Naturals, FiniteSets

CONSTANTS
  Calls,          \* requests; each is sent at most once
  AccessTtl,      \* effective life of an access token: its TTL and the leeway
  RefreshTtl,     \* life of a refresh token
  MaxClock,       \* bound: ticks of the clock
  MaxSqlFaults    \* bound: failing statements

(* No request has the name that stands for "none".                           *)
NoCall == "none"

ASSUME SessionsAssumption ==
  /\ NoCall \notin Calls
  /\ AccessTtl \in Nat /\ RefreshTtl \in Nat /\ AccessTtl < RefreshTtl
  /\ MaxClock \in Nat /\ MaxSqlFaults \in Nat

VARIABLES
  desktop,     \* embedded mode: registration off, new secrets at every boot
  clock,
  secret,      \* the generation of the JWT secrets
  account,     \* version of the stored password hash; 0: no user row
  changedAt,   \* history: when the last password change was over
  token,       \* the token pairs and their refresh_tokens rows
  call,        \* the requests
  sqlFaults,   \* failed statements so far
  shared,      \* history: lineages of which one token was presented twice at once
  cutShort     \* history: a password change ended before its revocation

sessVars == <<desktop, clock, secret, account, changedAt, token, call, sqlFaults, shared, cutShort>>

NoToken == [root |-> NoCall, epoch |-> 0, revoked |-> TRUE, accessExp |-> 0, refreshExp |-> 0,
            secret |-> 0, straddles |-> FALSE]
NewCall == [op |-> NoCall, at |-> "new", of |-> NoCall, epoch |-> 0, straddles |-> FALSE]
AtWork(c) == call[c].at \notin {"new", "ok", "failed"}
SqlFault == sqlFaults < MaxSqlFaults /\ sqlFaults' = sqlFaults + 1
Step(c, at) == call' = [call EXCEPT ![c].at = at]
End(c, at) == call' = [call EXCEPT ![c] = [NewCall EXCEPT !.op = call[c].op, !.at = at]]
Minted(k) == token[k] # NoToken
(* verify_access_token and verify_refresh_token: signature and expiry.       *)
(* Validation::default() accepts a token for 60 s past its exp, so AccessTtl *)
(* and RefreshTtl stand for the configured life plus that leeway.            *)
AccessValid(k) == Minted(k) /\ token[k].secret = secret /\ clock <= token[k].accessExp
RefreshVerifies(k) == Minted(k) /\ token[k].secret = secret /\ clock <= token[k].refreshExp
Live(k) == RefreshVerifies(k) /\ ~token[k].revoked

(* The embedded server listens once its boot has issued the first pair.      *)
Serving == desktop => \E k \in Calls : Minted(k) /\ token[k].secret = secret

SessTypeOK ==
  /\ desktop \in BOOLEAN /\ clock \in 0..MaxClock /\ account \in Nat
  /\ token \in [Calls -> [root : Calls \cup {NoCall}, epoch : Nat, revoked : BOOLEAN, accessExp : Nat,
                          refreshExp : Nat, secret : Nat, straddles : BOOLEAN]]
  /\ \A c \in Calls : Minted(c) => Minted(token[c].root)

SessInit ==
  /\ desktop \in BOOLEAN
  /\ clock = 0 /\ secret = 0 /\ account = 0 /\ changedAt = 0
  /\ token = [c \in Calls |-> NoToken]
  /\ call = [c \in Calls |-> NewCall]
  /\ sqlFaults = 0 /\ shared = {} /\ cutShort = FALSE

-----------------------------------------------------------------------------
(* Every statement may fail; the handler returns the error and what the      *)
(* earlier statements did stays.                                             *)
StatementFails(c) ==
  /\ AtWork(c) /\ SqlFault
  /\ End(c, "failed")
  /\ cutShort' = (cutShort \/ call[c].at = "revoke_all")
  /\ UNCHANGED <<desktop, clock, secret, account, changedAt, token, shared>>

(* The INSERT INTO refresh_tokens that ends register, login, refresh and the *)
(* bootstrap: the token pair was signed just before it.                      *)
Ttl(c, normal) == IF call[c].op = "boot" THEN MaxClock + normal ELSE normal
InsertToken(c) ==
  /\ call[c].at = "insert_token"
  /\ LET parent == call[c].of
     IN token' = [token EXCEPT ![c] =
          [root |-> IF parent = NoCall THEN c ELSE token[parent].root,
           epoch |-> call[c].epoch, revoked |-> FALSE,
           accessExp |-> clock + Ttl(c, AccessTtl), refreshExp |-> clock + Ttl(c, RefreshTtl),
           secret |-> secret, straddles |-> call[c].straddles]]
  /\ End(c, "ok")
  /\ UNCHANGED <<desktop, clock, secret, account, changedAt, sqlFaults, shared, cutShort>>

(* A refused request changes nothing: the body does not validate, or the     *)
(* limiter has seen five requests of its address within the minute.  Which   *)
(* requests share an address is not modelled: the limiter may refuse any.    *)
Refused(c, op) ==
  /\ Serving /\ call[c].at = "new"
  /\ call' = [call EXCEPT ![c] = [NewCall EXCEPT !.op = op, !.at = "failed"]]
  /\ UNCHANGED <<desktop, clock, secret, account, changedAt, token, sqlFaults, shared, cutShort>>
BodyInvalid(c) == Refused(c, "register")
RateLimited(c) == Refused(c, "limited")

(* POST /api/auth/register: COUNT the email, INSERT the user (UNIQUE email). *)
RegisterCount(c) ==
  /\ Serving /\ call[c].at = "new" /\ ~desktop
  /\ call' = [call EXCEPT ![c] = [NewCall EXCEPT !.op = "register",
                                   !.at = IF account > 0 THEN "failed" ELSE "insert_user"]]
  /\ UNCHANGED <<desktop, clock, secret, account, changedAt, token, sqlFaults, shared, cutShort>>
RegisterInsertUser(c) ==
  /\ call[c].op = "register" /\ call[c].at = "insert_user"
  /\ \/ /\ account = 0 /\ account' = 1
        /\ call' = [call EXCEPT ![c].at = "insert_token", ![c].epoch = 1]
     \/ account > 0 /\ End(c, "failed") /\ UNCHANGED account
  /\ UNCHANGED <<desktop, clock, secret, changedAt, token, sqlFaults, shared, cutShort>>

(* POST /api/auth/login: read the hash, verify, issue.  The embedded user's  *)
(* password is not known to anyone until it has been changed.                *)
PasswordKnown == account > 0 /\ (desktop => account > 1)
Login(c) ==
  /\ Serving /\ call[c].at = "new" /\ PasswordKnown
  /\ call' = [call EXCEPT ![c] = [NewCall EXCEPT !.op = "login", !.at = "insert_token",
                                   !.epoch = account]]
  /\ UNCHANGED <<desktop, clock, secret, account, changedAt, token, sqlFaults, shared, cutShort>>

(* POST /api/auth/refresh: verify, read the row, revoke it, issue another.   *)
RefreshSelect(c) ==
  /\ Serving /\ call[c].at = "new"
  /\ \E k \in Calls :
       /\ Live(k)
       /\ call' = [call EXCEPT ![c] = [op |-> "refresh", at |-> "revoke_old", of |-> k,
                                        epoch |-> token[k].epoch, straddles |-> token[k].straddles]]
       /\ shared' = IF \E d \in Calls : AtWork(d) /\ call[d].of = k
                    THEN shared \cup {token[k].root} ELSE shared
  /\ UNCHANGED <<desktop, clock, secret, account, changedAt, token, sqlFaults, cutShort>>
(* Rotation; the bug would be to leave the presented token valid.            *)
RotatedNot(k) == token
Rotated(k) == [token EXCEPT ![k].revoked = TRUE]
RefreshRevoke(c) ==
  /\ call[c].op = "refresh" /\ call[c].at = "revoke_old"
  /\ token' = Rotated(call[c].of)
  /\ Step(c, "insert_token")
  /\ UNCHANGED <<desktop, clock, secret, account, changedAt, sqlFaults, shared, cutShort>>

(* PATCH /api/me with a password: replace the hash, then revoke every        *)
(* refresh token of the user.  Requests that have read the old state and     *)
(* have not stored their token yet straddle the change.                      *)
Straddling(c) ==
  [d \in Calls |-> IF d # c /\ call[d].at \in {"revoke_old", "insert_token"}
                   THEN [call[d] EXCEPT !.straddles = TRUE] ELSE call[d]]
(* The Claims extractor: the bearer of a valid access token.                 *)
Authorized == \E k \in Calls : AccessValid(k)
UpdatePassword(c) ==
  /\ Serving /\ call[c].at = "new" /\ account > 0 /\ Authorized
  /\ account' = account + 1
  /\ call' = [Straddling(c) EXCEPT ![c] = [NewCall EXCEPT !.op = "change", !.at = "revoke_all"]]
  /\ UNCHANGED <<desktop, clock, secret, changedAt, token, sqlFaults, shared, cutShort>>
(* The bug would be to revoke only the tokens of logins.                     *)
LoginsRevoked ==
  [k \in Calls |-> IF Minted(k) /\ token[k].root = k THEN [token[k] EXCEPT !.revoked = TRUE]
                   ELSE token[k]]
AllRevoked == [k \in Calls |-> IF Minted(k) THEN [token[k] EXCEPT !.revoked = TRUE] ELSE token[k]]
RevokeAll(c) ==
  /\ call[c].op = "change" /\ call[c].at = "revoke_all"
  /\ token' = AllRevoked /\ changedAt' = clock
  /\ call' = [Straddling(c) EXCEPT ![c] = [NewCall EXCEPT !.op = "change", !.at = "ok"]]
  /\ UNCHANGED <<desktop, clock, secret, account, sqlFaults, shared, cutShort>>

(* ensure_embedded_user_and_tokens, at every boot of the embedded server:    *)
(* INSERT OR IGNORE the user, read it back, issue a pair.                    *)
EmbeddedBoot(c) ==
  /\ desktop /\ call[c].at = "new"
  /\ secret' = secret + 1
  /\ call' = [[d \in Calls |-> IF AtWork(d) THEN [call[d] EXCEPT !.at = "failed"] ELSE call[d]]
                EXCEPT ![c] = [NewCall EXCEPT !.op = "boot", !.at = "insert_user"]]
  /\ cutShort' = (cutShort \/ \E d \in Calls : call[d].at = "revoke_all")
  /\ UNCHANGED <<desktop, clock, account, changedAt, token, sqlFaults, shared>>
EmbeddedUser(c) ==
  /\ call[c].op = "boot" /\ call[c].at = "insert_user"
  /\ account' = IF account = 0 THEN 1 ELSE account
  /\ call' = [call EXCEPT ![c].at = "insert_token", ![c].epoch = account']
  /\ UNCHANGED <<desktop, clock, secret, changedAt, token, sqlFaults, shared, cutShort>>

(* The server restarts with the same secrets.                                *)
SessCrash ==
  /\ ~desktop /\ \E c \in Calls : AtWork(c)
  /\ call' = [c \in Calls |-> IF AtWork(c) THEN [NewCall EXCEPT !.op = call[c].op, !.at = "failed"]
                              ELSE call[c]]
  /\ cutShort' = (cutShort \/ \E c \in Calls : call[c].at = "revoke_all")
  /\ UNCHANGED <<desktop, clock, secret, account, changedAt, token, sqlFaults, shared>>

Tick ==
  /\ clock < MaxClock /\ clock' = clock + 1
  /\ UNCHANGED <<desktop, secret, account, changedAt, token, call, sqlFaults, shared, cutShort>>

SessNext ==
  \/ \E c \in Calls :
       \/ StatementFails(c) \/ InsertToken(c) \/ RegisterCount(c) \/ RegisterInsertUser(c)
       \/ BodyInvalid(c) \/ RateLimited(c) \/ Login(c) \/ RefreshSelect(c) \/ RefreshRevoke(c) \/ UpdatePassword(c) \/ RevokeAll(c)
       \/ EmbeddedBoot(c) \/ EmbeddedUser(c)
  \/ SessCrash \/ Tick

SessSpec == SessInit /\ [][SessNext]_sessVars

-----------------------------------------------------------------------------
(* Rotation leaves one usable refresh token per login: refresh_token reads,  *)
(* revokes and inserts in three statements, so two refreshes of one token    *)
(* at once mint two, and nothing else does, whatever fails in between.       *)
OneLiveSuccessor ==
  \A r \in Calls \ shared : Cardinality({k \in Calls : Live(k) /\ token[k].root = r}) <= 1

(* "force re-login on other devices": once a password change is over, no     *)
(* refresh token of an older password works, and after AccessTtl no access   *)
(* token of one does.  Only a request that was between its read and its      *)
(* INSERT during the change, and what is refreshed from it, escapes, or a    *)
(* change that failed between its two statements.  The access token of the   *)
(* embedded boot lives as long as its process.                               *)
StaleSessionsEnd ==
  (~cutShort /\ \A c \in Calls : call[c].at # "revoke_all") =>
    \A k \in Calls :
      (Minted(k) /\ token[k].epoch < account /\ ~token[k].straddles) =>
        /\ ~Live(k)
        /\ (clock > changedAt + AccessTtl /\ call[k].op # "boot") => ~AccessValid(k)
=============================================================================
