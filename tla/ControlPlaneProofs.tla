------------------------- MODULE ControlPlaneProofs -------------------------
(* Proofs about the parts of the control plane and their composition: the    *)
(* token pairs of Sessions (SessInv, StaleInv), the members of Workspaces    *)
(* (WsInv), the license entitlement (EntInv), the connection vault           *)
(* (VaultInv), the SSH tunnels (TunnelsInv), and the server that runs them.  *)
(* Every SQL statement of a request is a step, so each invariant says what a *)
(* request that is between two of its statements may rely on.  Each is a     *)
(* conjunction of named parts, one section per part proves that every step   *)
(* keeps it, and the last section carries the results to ControlPlane.       *)
EXTENDS ControlPlane, FiniteSetTheorems, TLAPS

(* A set without two different elements has at most one.                     *)
LEMMA AtMostOne ==
  ASSUME NEW S, \A x, y \in S : x = y
  PROVE  Cardinality(S) <= 1
  <1>1. CASE S = {}
    BY <1>1, FS_EmptySet
  <1>2. ASSUME NEW x \in S PROVE Cardinality(S) <= 1
    <2>1. S = {x}
      OBVIOUS
    <2> QED  BY <2>1, FS_Singleton
  <1> QED  BY <1>1, <1>2

-----------------------------------------------------------------------------
(* Sessions: what a token pair and a request remember.                       *)
TokenType == [root : Calls \cup {NoCall}, epoch : Nat, revoked : BOOLEAN, accessExp : Nat,
              refreshExp : Nat, secret : Nat, straddles : BOOLEAN]
CallStages == {"new", "ok", "failed", "insert_user", "insert_token", "revoke_old", "revoke_all"}
CallOps == {NoCall, "register", "limited", "login", "refresh", "change", "boot"}
CallType == [op : CallOps, at : CallStages, of : Calls \cup {NoCall}, epoch : Nat,
             straddles : BOOLEAN]
SessShape ==
  /\ clock \in Nat /\ secret \in Nat /\ account \in Nat /\ changedAt \in Nat
  /\ token \in [Calls -> TokenType] /\ call \in [Calls -> CallType]
  /\ cutShort \in BOOLEAN

(* A token pair names the request that minted it, which is answered, and the *)
(* login it descends from, which has minted one too.                         *)
Family ==
  \A k \in Calls :
    /\ token[k] = NoToken \/ token[k].root \in Calls
    /\ token[k].root \in Calls => token[token[k].root].root \in Calls
    /\ token[k].root \in Calls => call[k].at = "ok"

(* A request that issues a token of a login presents none; one that rotates  *)
(* presents a token that exists.                                             *)
Issuing(c) == call[c].at \in {"revoke_old", "insert_token"}
Presented ==
  \A c \in Calls :
    /\ call[c].at = "insert_user" => call[c].of = NoCall
    /\ call[c].at = "revoke_old" => call[c].of # NoCall
    /\ Issuing(c) /\ call[c].of # NoCall => token[call[c].of].root \in Calls

(* Within one login whose tokens were presented one at a time, at most one   *)
(* rotation is under way; before it has revoked, the token presented is the  *)
(* only one in force, and before it has issued, none is.                     *)
Rotating(c, r) == Issuing(c) /\ call[c].of # NoCall /\ token[call[c].of].root = r
InForce(k, r) == token[k].root = r /\ ~token[k].revoked
OneRotation ==
  \A r \in Calls \ shared :
    /\ \A c, d \in Calls : Rotating(c, r) /\ Rotating(d, r) => c = d
    /\ \A c, k \in Calls : Rotating(c, r) /\ InForce(k, r) =>
                             call[c].at = "revoke_old" /\ k = call[c].of
    /\ \A j, k \in Calls : InForce(j, r) /\ InForce(k, r) => j = k

(* The inductive invariant behind OneLiveSuccessor.                          *)
SessInv == SessShape /\ Family /\ Presented /\ OneRotation

(* A password change is neither under way nor was one cut short.             *)
Settled == ~cutShort /\ \A c \in Calls : call[c].at # "revoke_all"
(* Nothing is issued before there is a user.                                 *)
UserFirst == account = 0 => \A c \in Calls : token[c].root = NoCall /\ ~Issuing(c)
ShortAccess ==
  \A k \in Calls : token[k].root \in Calls /\ call[k].op # "boot" => token[k].accessExp <= clock + AccessTtl
(* Of an older password: what is stored is revoked and its access ends, what *)
(* is about to be stored straddles the change.                               *)
OldTokens ==
  \A k \in Calls :
    token[k].root \in Calls /\ token[k].epoch < account /\ ~token[k].straddles =>
      /\ token[k].revoked
      /\ call[k].op # "boot" => token[k].accessExp <= changedAt + AccessTtl
OldRequests == \A c \in Calls : Issuing(c) /\ call[c].epoch < account => call[c].straddles
(* What StaleSessionsEnd needs in addition.                                  *)
StaleInv == UserFirst /\ ShortAccess /\ (Settled => OldTokens /\ OldRequests)

(* Steps that store no token and rotate none: every request goes on as it    *)
(* was, ends, or has just read the current password.                         *)
QuietCalls ==
  \A d \in Calls :
    \/ /\ call'[d].at = call[d].at /\ call'[d].of = call[d].of /\ call'[d].op = call[d].op
       /\ call'[d].epoch = call[d].epoch /\ (call[d].straddles => call'[d].straddles)
    \/ /\ call[d].at # "ok" /\ call'[d].at # "revoke_old"
       /\ call'[d].at = "insert_user" => call'[d].of = NoCall
       /\ call'[d].at = "insert_token" =>
            call'[d].of = NoCall /\ call'[d].epoch = account' /\ account' > 0

(* A step that changes no token and only ends or begins a request.           *)
LEMMA SessQuietInv ==
  ASSUME SessInv, SessShape', token' = token, shared' = shared, QuietCalls
  PROVE  SessInv'
  <1> USE SessionsAssumption DEF SessInv, SessShape, CallType, TokenType
  <1>1. Family'
    BY DEF Family, QuietCalls
  <1>2. Presented'
    BY DEF Presented, QuietCalls, Issuing
  <1>3. \A c, r \in Calls : Rotating(c, r)' =>
          Rotating(c, r) /\ call'[c].at = call[c].at /\ call'[c].of = call[c].of
    BY DEF QuietCalls, Rotating, Issuing
  <1>4. OneRotation'
    BY <1>3 DEF OneRotation, InForce
  <1> QED  BY <1>1, <1>2, <1>4

(* The same, for what is known of tokens from before a password change.      *)
LEMMA SessQuietStale ==
  ASSUME SessInv, StaleInv, SessShape', token' = token, QuietCalls,
         clock' >= clock, changedAt' = changedAt, account' >= account,
         Settled' => Settled /\ (account' = account \/ account = 0)
  PROVE  StaleInv'
  <1> USE SessionsAssumption DEF SessInv, StaleInv, SessShape, CallType, TokenType
  <1>1. UserFirst'
    BY DEF UserFirst, QuietCalls, Issuing
  <1>2. \A k \in Calls : token[k].root \in Calls => call'[k].op = call[k].op
    BY DEF Family, QuietCalls
  <1>3. ShortAccess'
    BY <1>2 DEF ShortAccess
  <1>4. ASSUME Settled' PROVE OldTokens' /\ OldRequests'
    <2>1. OldTokens'
      BY <1>2, <1>4 DEF OldTokens, UserFirst
    <2>2. OldRequests'
      BY <1>4 DEF OldRequests, UserFirst, QuietCalls, Issuing
    <2> QED  BY <2>1, <2>2
  <1> QED  BY <1>1, <1>3, <1>4

(* The request records the handlers build.                                   *)
LEMMA NewCallType ==
  ASSUME NEW op \in CallOps, NEW at \in CallStages, NEW epoch \in Nat
  PROVE  /\ [NewCall EXCEPT !.op = op, !.at = at] \in CallType
         /\ [NewCall EXCEPT !.op = op, !.at = at, !.epoch = epoch] \in CallType
         /\ NewCall \in CallType
  BY SessionsAssumption DEF NewCall, CallType, CallOps, CallStages

(* Steps of a request that store no token and rotate none.                   *)
LEMMA SessQuietStep ==
  ASSUME SessInv, NEW c \in Calls,
         \/ StatementFails(c) \/ BodyInvalid(c) \/ RateLimited(c) \/ RegisterCount(c)
         \/ RegisterInsertUser(c) \/ Login(c) \/ UpdatePassword(c) \/ EmbeddedBoot(c)
         \/ EmbeddedUser(c)
  PROVE  SessShape' /\ QuietCalls
  <1> USE SessionsAssumption
  <1>0. call \in [Calls -> CallType] /\ token \in [Calls -> TokenType]
        /\ clock \in Nat /\ secret \in Nat /\ account \in Nat /\ changedAt \in Nat /\ cutShort \in BOOLEAN
    BY DEF SessInv, SessShape
  <1>1. CASE StatementFails(c)
    <2>1. call' = [call EXCEPT ![c] = [NewCall EXCEPT !.op = call[c].op, !.at = "failed"]]
      BY <1>1 DEF StatementFails, End
    <2>2. call[c].op \in CallOps /\ "failed" \in CallStages /\ call[c].at # "ok"
      BY <1>0, <1>1 DEF StatementFails, AtWork, CallType, CallStages
    <2>3. [NewCall EXCEPT !.op = call[c].op, !.at = "failed"] \in CallType
      BY <2>2, NewCallType
    <2>4. QuietCalls
      BY <1>0, <2>1, <2>2 DEF QuietCalls, NewCall, CallType
    <2>5. SessShape'
      BY <1>0, <1>1, <2>1, <2>3 DEF SessShape, StatementFails
    <2> QED  BY <2>4, <2>5
  <1>2. CASE BodyInvalid(c) \/ RateLimited(c) \/ RegisterCount(c)
    <2>1. PICK op \in CallOps, at \in {"failed", "insert_user"} :
            call' = [call EXCEPT ![c] = [NewCall EXCEPT !.op = op, !.at = at]]
      BY <1>2 DEF BodyInvalid, RateLimited, RegisterCount, Refused, CallOps
    <2>2. at \in CallStages /\ call[c].at = "new"
      BY <1>2 DEF BodyInvalid, RateLimited, RegisterCount, Refused, CallStages
    <2>3. [NewCall EXCEPT !.op = op, !.at = at] \in CallType
      BY <2>2, NewCallType
    <2>4. QuietCalls
      BY <1>0, <2>1, <2>2 DEF QuietCalls, NewCall, CallType
    <2>5. SessShape'
      BY <1>0, <1>2, <2>1, <2>3 DEF SessShape, BodyInvalid, RateLimited, RegisterCount, Refused
    <2> QED  BY <2>4, <2>5
  <1>3. CASE RegisterInsertUser(c) /\ account = 0
    <2>0. call' = [call EXCEPT ![c].at = "insert_token", ![c].epoch = account'] /\ account' = 1
      BY <1>0, <1>3 DEF RegisterInsertUser
    <2>1. call'[c] = [[call[c] EXCEPT !.at = "insert_token"] EXCEPT !.epoch = account']
          /\ \A d \in Calls : d # c => call'[d] = call[d]
      BY <1>0, <2>0 DEF CallType
    <2>2. call[c].at = "insert_user" /\ call[c].of = NoCall /\ account' \in Nat /\ account' > 0
      BY <1>0, <1>3, <2>0 DEF RegisterInsertUser, SessInv, Presented
    <2>3. call'[c] \in CallType
      BY <1>0, <2>1, <2>2 DEF CallType, CallStages
    <2>4. QuietCalls
      <3>1. /\ call'[c].at = "insert_token" /\ call'[c].of = NoCall
            /\ call'[c].epoch = account' /\ account' > 0 /\ call[c].at # "ok"
        BY <1>0, <2>1, <2>2 DEF CallType
      <3>2. \A d \in Calls : d # c =>
              /\ call'[d].at = call[d].at /\ call'[d].of = call[d].of /\ call'[d].op = call[d].op
              /\ call'[d].epoch = call[d].epoch /\ (call[d].straddles => call'[d].straddles)
        BY <2>1
      <3> QED  BY <3>1, <3>2 DEF QuietCalls
    <2>5. SessShape'
      BY <1>0, <1>3, <2>3 DEF SessShape, RegisterInsertUser
    <2> QED  BY <2>4, <2>5
  <1>4. CASE RegisterInsertUser(c) /\ account # 0
    <2>1. call' = [call EXCEPT ![c] = [NewCall EXCEPT !.op = call[c].op, !.at = "failed"]]
          /\ account' = account
      BY <1>0, <1>4 DEF RegisterInsertUser, End
    <2>2. call[c].op \in CallOps /\ "failed" \in CallStages /\ call[c].at # "ok"
      BY <1>0, <1>4 DEF RegisterInsertUser, CallType, CallStages
    <2>3. [NewCall EXCEPT !.op = call[c].op, !.at = "failed"] \in CallType
      BY <2>2, NewCallType
    <2>4. QuietCalls
      BY <1>0, <2>1, <2>2 DEF QuietCalls, NewCall, CallType
    <2>5. SessShape'
      BY <1>0, <1>4, <2>1, <2>3 DEF SessShape, RegisterInsertUser
    <2> QED  BY <2>4, <2>5
  <1>5. CASE Login(c)
    <2>1. /\ call' = [call EXCEPT ![c] = [NewCall EXCEPT !.op = "login", !.at = "insert_token",
                                                         !.epoch = account]]
          /\ account' = account /\ account > 0 /\ call[c].at = "new"
      BY <1>5 DEF Login, PasswordKnown
    <2>2. [NewCall EXCEPT !.op = "login", !.at = "insert_token", !.epoch = account] \in CallType
      BY <1>0, NewCallType DEF CallOps, CallStages
    <2>3. QuietCalls
      BY <1>0, <2>1 DEF QuietCalls, NewCall, CallType
    <2>4. SessShape'
      BY <1>0, <1>5, <2>1, <2>2 DEF SessShape, Login
    <2> QED  BY <2>3, <2>4
  <1>6. CASE UpdatePassword(c)
    <2> DEFINE mine == [NewCall EXCEPT !.op = "change", !.at = "revoke_all"]
    <2>1. mine \in CallType /\ mine.at = "revoke_all"
      BY <1>0, NewCallType DEF CallOps, CallStages, NewCall
    <2>2. call' = [Straddling(c) EXCEPT ![c] = mine] /\ call[c].at = "new"
      BY <1>6 DEF UpdatePassword
    <2> HIDE DEF mine
    <2>3. \A d \in Calls : d # c =>
            call'[d] = call[d] \/ call'[d] = [call[d] EXCEPT !.straddles = TRUE]
      BY <1>0, <2>2 DEF Straddling
    <2>4. call' \in [Calls -> CallType]
      <3>1. \A d \in Calls : Straddling(c)[d] \in CallType
        BY <1>0 DEF Straddling, CallType
      <3>2. Straddling(c) \in [Calls -> CallType]
        BY <3>1 DEF Straddling
      <3> QED  BY <2>1, <2>2, <3>2
    <2>5. call'[c] = mine
      BY <2>2 DEF Straddling
    <2>6. QuietCalls
      <3>1. \A d \in Calls : d # c =>
              /\ call'[d].at = call[d].at /\ call'[d].of = call[d].of /\ call'[d].op = call[d].op
              /\ call'[d].epoch = call[d].epoch /\ (call[d].straddles => call'[d].straddles)
        BY <1>0, <2>3 DEF CallType
      <3> QED  BY <2>1, <2>2, <2>5, <3>1 DEF QuietCalls
    <2>7. SessShape'
      BY <1>0, <1>6, <2>4 DEF SessShape, UpdatePassword
    <2> QED  BY <2>6, <2>7
  <1>7. CASE EmbeddedBoot(c)
    <2> DEFINE mine == [NewCall EXCEPT !.op = "boot", !.at = "insert_user"]
               rest == [d \in Calls |-> IF AtWork(d) THEN [call[d] EXCEPT !.at = "failed"] ELSE call[d]]
    <2>1. mine \in CallType /\ mine.at = "insert_user" /\ mine.of = NoCall
      BY <1>0, NewCallType DEF CallOps, CallStages, NewCall
    <2>2. call' = [rest EXCEPT ![c] = mine] /\ call[c].at = "new"
      BY <1>7 DEF EmbeddedBoot
    <2> HIDE DEF mine
    <2>3. \A d \in Calls : d # c =>
            call'[d] = call[d] \/ (call[d].at # "ok" /\ call'[d] = [call[d] EXCEPT !.at = "failed"])
      BY <1>0, <2>2 DEF AtWork
    <2>4. call' \in [Calls -> CallType]
      <3>1. \A d \in Calls : rest[d] \in CallType
        BY <1>0 DEF CallType, CallStages
      <3>2. rest \in [Calls -> CallType]
        BY <3>1
      <3> QED  BY <2>1, <2>2, <3>2
    <2>5. call'[c] = mine
      BY <2>2
    <2>6. QuietCalls
      BY <1>0, <2>1, <2>2, <2>3, <2>5 DEF QuietCalls, CallType
    <2>7. SessShape'
      BY <1>0, <1>7, <2>4 DEF SessShape, EmbeddedBoot
    <2> QED  BY <2>6, <2>7
  <1>8. CASE EmbeddedUser(c)
    <2>1. call'[c] = [[call[c] EXCEPT !.at = "insert_token"] EXCEPT !.epoch = account']
          /\ \A d \in Calls : d # c => call'[d] = call[d]
      BY <1>0, <1>8 DEF EmbeddedUser, CallType
    <2>2. call[c].at = "insert_user" /\ call[c].of = NoCall /\ account' \in Nat /\ account' > 0
      BY <1>0, <1>8 DEF EmbeddedUser, SessInv, Presented
    <2>3. call'[c] \in CallType
      BY <1>0, <2>1, <2>2 DEF CallType, CallStages
    <2>4. QuietCalls
      <3>1. /\ call'[c].at = "insert_token" /\ call'[c].of = NoCall
            /\ call'[c].epoch = account' /\ account' > 0 /\ call[c].at # "ok"
        BY <1>0, <2>1, <2>2 DEF CallType
      <3>2. \A d \in Calls : d # c =>
              /\ call'[d].at = call[d].at /\ call'[d].of = call[d].of /\ call'[d].op = call[d].op
              /\ call'[d].epoch = call[d].epoch /\ (call[d].straddles => call'[d].straddles)
        BY <2>1
      <3> QED  BY <3>1, <3>2 DEF QuietCalls
    <2>5. SessShape'
      BY <1>0, <1>8, <2>2, <2>3 DEF SessShape, EmbeddedUser
    <2> QED  BY <2>4, <2>5
  <1> QED  BY <1>1, <1>2, <1>3, <1>4, <1>5, <1>6, <1>7, <1>8

(* Those steps preserve both invariants.                                     *)
LEMMA SessQuietPreserves ==
  ASSUME SessInv, StaleInv, NEW c \in Calls,
         \/ StatementFails(c) \/ BodyInvalid(c) \/ RateLimited(c) \/ RegisterCount(c)
         \/ RegisterInsertUser(c) \/ Login(c) \/ UpdatePassword(c) \/ EmbeddedBoot(c)
         \/ EmbeddedUser(c)
  PROVE  SessInv' /\ StaleInv'
  <1>1. SessShape' /\ QuietCalls
    BY SessQuietStep
  <1>2. token' = token /\ shared' = shared /\ clock' = clock /\ changedAt' = changedAt
    BY DEF StatementFails, BodyInvalid, RateLimited, Refused, RegisterCount, RegisterInsertUser,
           Login, UpdatePassword, EmbeddedBoot, EmbeddedUser
  <1>3. SessShape
    BY DEF SessInv
  <1>4. account' >= account /\ (Settled' => Settled /\ (account' = account \/ account = 0))
    <2>1. CASE StatementFails(c)
      <3>1. account' = account /\ (~cutShort' => ~cutShort /\ call[c].at # "revoke_all")
            /\ \A d \in Calls : d # c => call'[d] = call[d]
        BY <1>3, <2>1 DEF StatementFails, End, SessShape
      <3> QED  BY <1>3, <3>1 DEF Settled, SessShape
    <2>2. CASE BodyInvalid(c) \/ RateLimited(c) \/ RegisterCount(c) \/ Login(c)
      <3>1. account' = account /\ cutShort' = cutShort /\ call[c].at = "new"
            /\ \A d \in Calls : d # c => call'[d] = call[d]
        BY <1>3, <2>2 DEF BodyInvalid, RateLimited, Refused, RegisterCount, Login, SessShape
      <3> QED  BY <1>3, <3>1 DEF Settled, SessShape
    <2>3. CASE RegisterInsertUser(c) \/ EmbeddedUser(c)
      <3>1. /\ cutShort' = cutShort /\ call[c].at = "insert_user"
            /\ \A d \in Calls : d # c => call'[d] = call[d]
        BY <1>3, <2>3 DEF RegisterInsertUser, EmbeddedUser, End, SessShape
      <3>2. account' >= account /\ (account' = account \/ account = 0)
        BY <1>3, <2>3 DEF RegisterInsertUser, EmbeddedUser, SessShape
      <3> QED  BY <1>3, <3>1, <3>2 DEF Settled, SessShape
    <2>4. CASE UpdatePassword(c)
      <3>1. account' = account + 1 /\ call'[c].at = "revoke_all"
        BY <1>3, <2>4 DEF UpdatePassword, Straddling, NewCall, SessShape
      <3> QED  BY <1>3, <3>1 DEF Settled, SessShape
    <2>5. CASE EmbeddedBoot(c)
      <3>1. account' = account /\ (Settled' => Settled)
        BY <1>3, <2>5 DEF EmbeddedBoot, Settled, SessShape
      <3> QED  BY <1>3, <3>1 DEF SessShape
    <2> QED  BY <2>1, <2>2, <2>3, <2>4, <2>5
  <1>5. clock' >= clock
    BY <1>2, <1>3 DEF SessShape
  <1> QED  BY <1>1, <1>2, <1>4, <1>5, SessQuietInv, SessQuietStale

(* A restart, the clock and stuttering are quiet too.                        *)
LEMMA SessWorldPreserves ==
  ASSUME SessInv, StaleInv, SessCrash \/ Tick \/ UNCHANGED sessVars
  PROVE  SessInv' /\ StaleInv'
  <1> USE SessionsAssumption
  <1>0. SessShape
    BY DEF SessInv
  <1>1. CASE SessCrash
    <2>1. /\ token' = token /\ shared' = shared /\ account' = account /\ changedAt' = changedAt
          /\ clock' = clock /\ secret' = secret
      BY <1>1 DEF SessCrash
    <2>2. cutShort' \in BOOLEAN /\ (~cutShort' => Settled)
      BY <1>1 DEF SessCrash, Settled
    <2>3. \A d \in Calls : call'[d] = call[d] \/
            (call[d].at # "ok" /\ call'[d] = [NewCall EXCEPT !.op = call[d].op, !.at = "failed"])
      BY <1>1 DEF SessCrash, AtWork
    <2>4. \A d \in Calls : call'[d] \in CallType
      <3>1. \A d \in Calls : [NewCall EXCEPT !.op = call[d].op, !.at = "failed"] \in CallType
        <4>1. \A d \in Calls : call[d].op \in CallOps
          BY <1>0 DEF SessShape, CallType
        <4> QED  BY <4>1, NewCallType DEF CallStages
      <3> QED  BY <1>0, <2>3, <3>1 DEF SessShape
    <2>5. call' \in [Calls -> CallType]
      BY <1>1, <2>4 DEF SessCrash
    <2>6. QuietCalls
      BY <2>3 DEF QuietCalls, NewCall
    <2>7. SessShape'
      BY <1>0, <2>1, <2>2, <2>5 DEF SessShape
    <2>8. clock' >= clock /\ account' >= account /\ (Settled' => Settled)
      BY <1>0, <2>1, <2>2 DEF SessShape, Settled
    <2> QED  BY <2>1, <2>6, <2>7, <2>8, SessQuietInv, SessQuietStale
  <1>2. CASE Tick \/ UNCHANGED sessVars
    <2>1. /\ token' = token /\ shared' = shared /\ account' = account /\ changedAt' = changedAt
          /\ call' = call /\ secret' = secret /\ cutShort' = cutShort
          /\ clock' \in Nat /\ clock' >= clock
      BY <1>0, <1>2 DEF Tick, sessVars, SessShape
    <2>2. SessShape' /\ (Settled' => Settled) /\ account' >= account
      BY <1>0, <2>1 DEF SessShape, Settled
    <2>3. QuietCalls
      BY <2>1 DEF QuietCalls
    <2> QED  BY <2>1, <2>2, <2>3, SessQuietInv, SessQuietStale
  <1> QED  BY <1>1, <1>2

(* A token is stored: of a new login, or of the login of the token that was  *)
(* presented and is revoked by now.                                          *)
LEMMA InsertTokenPreserves ==
  ASSUME SessInv, StaleInv, NEW c \in Calls, InsertToken(c)
  PROVE  SessInv' /\ StaleInv'
  <1> USE SessionsAssumption
  <1> DEFINE parent == call[c].of
             root == IF parent = NoCall THEN c ELSE token[parent].root
             new == [root |-> root, epoch |-> call[c].epoch, revoked |-> FALSE,
                     accessExp |-> clock + Ttl(c, AccessTtl),
                     refreshExp |-> clock + Ttl(c, RefreshTtl),
                     secret |-> secret, straddles |-> call[c].straddles]
             done == [NewCall EXCEPT !.op = call[c].op, !.at = "ok"]
  <1>0. SessShape /\ call[c] \in CallType
    BY DEF SessInv, SessShape
  <1>1. /\ token' = [token EXCEPT ![c] = new] /\ call' = [call EXCEPT ![c] = done]
        /\ call[c].at = "insert_token"
        /\ UNCHANGED <<clock, secret, account, changedAt, shared, cutShort>>
    BY DEF InsertToken, End
  <1>2. done \in CallType /\ done.at = "ok" /\ done.op = call[c].op
    <2>1. call[c].op \in CallOps
      BY <1>0 DEF CallType
    <2>2. done \in CallType
      BY <2>1, NewCallType DEF CallStages
    <2> QED  BY <2>2 DEF NewCall
  <1>3. token[c].root \notin Calls /\ root \in Calls
    BY <1>0, <1>1 DEF SessInv, Family, Presented, Issuing, SessShape, CallType
  <1>4. /\ Ttl(c, AccessTtl) \in Nat /\ Ttl(c, RefreshTtl) \in Nat
        /\ call[c].op # "boot" => Ttl(c, AccessTtl) = AccessTtl
    BY DEF Ttl
  <1>5. /\ new \in TokenType /\ new.root = root /\ new.epoch = call[c].epoch /\ ~new.revoked
        /\ new.accessExp = clock + Ttl(c, AccessTtl)
        /\ new.straddles = call[c].straddles
    BY <1>0, <1>3, <1>4 DEF SessShape, CallType, TokenType
  <1> HIDE DEF done, new
  <1>6. /\ token'[c] = new /\ \A k \in Calls : k # c => token'[k] = token[k]
        /\ call'[c] = done /\ \A d \in Calls : d # c => call'[d] = call[d]
    BY <1>0, <1>1 DEF SessShape
  <1>7. SessShape'
    BY <1>0, <1>1, <1>2, <1>5 DEF SessShape
  <1>8. Family'
    <2>1. token'[root].root \in Calls
      <3>1. CASE root = c
        BY <1>3, <1>5, <1>6, <3>1
      <3>2. CASE root # c
        <4>1. parent \in Calls /\ token[parent].root = root
          BY <1>0, <3>2 DEF CallType
        <4>2. token[root].root \in Calls
          BY <1>3, <4>1 DEF SessInv, Family
        <4> QED  BY <1>3, <1>6, <3>2, <4>2
      <3> QED  BY <3>1, <3>2
    <2> QED  BY <1>2, <1>3, <1>5, <1>6, <2>1 DEF SessInv, Family
  <1>9. Presented'
    BY <1>0, <1>2, <1>3, <1>5, <1>6 DEF SessInv, Presented, Issuing, SessShape, CallType
  <1>10. \A d, r \in Calls : Rotating(d, r)' => d # c /\ Rotating(d, r)
    BY <1>0, <1>2, <1>3, <1>6 DEF SessInv, Presented, Rotating, Issuing, SessShape, CallType
  <1>11. \A k, r \in Calls : InForce(k, r)' => (k = c /\ r = root) \/ (k # c /\ InForce(k, r))
    BY <1>5, <1>6 DEF InForce
  <1>12. root \in shared \/ \A k \in Calls : ~InForce(k, root)
    <2>1. CASE parent = NoCall
      BY <1>3, <2>1 DEF SessInv, Family, InForce
    <2>2. CASE parent # NoCall
      BY <1>1, <1>3, <2>2 DEF SessInv, OneRotation, Rotating, Issuing
    <2> QED  BY <2>1, <2>2
  <1>13. root \in shared \/ \A d \in Calls : d # c => ~Rotating(d, root)
    <2>1. CASE parent = NoCall
      <3>1. \A d \in Calls : call[d].of \in Calls \cup {NoCall}
        BY <1>0 DEF SessShape, CallType
      <3>2. \A k \in Calls : token[k].root # c
        BY <1>3 DEF SessInv, Family
      <3> QED  BY <2>1, <3>1, <3>2 DEF Rotating
    <2>2. CASE parent # NoCall
      <3>1. Rotating(c, root)
        BY <1>1, <2>2 DEF Rotating, Issuing
      <3> HIDE DEF root
      <3> QED  BY <1>3, <3>1 DEF SessInv, OneRotation
    <2> QED  BY <2>1, <2>2
  <1>14. OneRotation'
    <2> HIDE DEF root
    <2> QED  BY <1>1, <1>6, <1>10, <1>11, <1>12, <1>13 DEF SessInv, OneRotation
  <1>15. UserFirst'
    BY <1>0, <1>1 DEF StaleInv, UserFirst, Issuing, SessShape
  <1>16. ShortAccess'
    BY <1>0, <1>1, <1>2, <1>4, <1>5, <1>6 DEF StaleInv, ShortAccess, SessShape
  <1>17. ASSUME Settled' PROVE OldTokens' /\ OldRequests'
    <2>1. Settled
      BY <1>1, <1>6, <1>17 DEF Settled
    <2>2. OldRequests'
      BY <1>1, <1>2, <1>6, <2>1 DEF StaleInv, OldRequests, Issuing
    <2>3. call[c].epoch < account => call[c].straddles
      BY <1>1, <2>1 DEF StaleInv, OldRequests, Issuing
    <2>4. OldTokens'
      BY <1>1, <1>5, <1>6, <2>1, <2>3 DEF StaleInv, OldTokens
    <2> QED  BY <2>2, <2>4
  <1> QED  BY <1>7, <1>8, <1>9, <1>14, <1>15, <1>16, <1>17 DEF SessInv, StaleInv

(* A refresh has found its token in force.                                   *)
LEMMA RefreshSelectPreserves ==
  ASSUME SessInv, StaleInv, NEW c \in Calls, RefreshSelect(c)
  PROVE  SessInv' /\ StaleInv'
  <1> USE SessionsAssumption
  <1>0. SessShape
    BY DEF SessInv
  <1>1. PICK k \in Calls :
          /\ Live(k)
          /\ call' = [call EXCEPT ![c] = [op |-> "refresh", at |-> "revoke_old", of |-> k,
                                          epoch |-> token[k].epoch, straddles |-> token[k].straddles]]
          /\ shared' = IF \E d \in Calls : AtWork(d) /\ call[d].of = k
                       THEN shared \cup {token[k].root} ELSE shared
    BY DEF RefreshSelect
  <1> DEFINE r == token[k].root
  <1>2. /\ call[c].at = "new" /\ token' = token
        /\ UNCHANGED <<clock, secret, account, changedAt, cutShort>>
    BY DEF RefreshSelect
  <1>3. r \in Calls /\ ~token[k].revoked
    BY <1>1 DEF Live, RefreshVerifies, Minted, SessInv, Family
  <1>4. /\ \A d \in Calls : d # c => call'[d] = call[d]
        /\ call'[c].op = "refresh" /\ call'[c].at = "revoke_old" /\ call'[c].of = k
        /\ call'[c].epoch = token[k].epoch /\ call'[c].straddles = token[k].straddles
    BY <1>0, <1>1 DEF SessShape
  <1>5. SessShape'
    <2>1. [op |-> "refresh", at |-> "revoke_old", of |-> k,
           epoch |-> token[k].epoch, straddles |-> token[k].straddles] \in CallType
      BY <1>0 DEF SessShape, TokenType, CallType, CallOps, CallStages
    <2> QED  BY <1>0, <1>1, <1>2, <2>1 DEF SessShape
  <1>6. Family'
    BY <1>2, <1>4 DEF SessInv, Family
  <1>7. Presented'
    BY <1>2, <1>3, <1>4 DEF SessInv, Presented, Issuing
  <1>8. \A d, s \in Calls : Rotating(d, s)' => (d = c /\ s = r) \/ (d # c /\ Rotating(d, s))
    BY <1>2, <1>4 DEF Rotating, Issuing
  <1>9. \A j, s \in Calls : InForce(j, s)' <=> InForce(j, s)
    BY <1>2 DEF InForce
  <1>10. shared \subseteq shared' /\ InForce(k, r)
    BY <1>1, <1>3 DEF InForce
  <1>11. r \in shared' \/ \A d \in Calls : ~Rotating(d, r)
    <2> SUFFICES ASSUME r \notin shared, NEW d \in Calls, Rotating(d, r)
                 PROVE  r \in shared'
      BY <1>10
    <2>1. call[d].at = "revoke_old" /\ call[d].of = k
      BY <1>3, <1>10 DEF SessInv, OneRotation
    <2> QED  BY <1>1, <2>1 DEF AtWork
  <1>12. OneRotation'
    <2>1. \A s \in Calls \ shared', d, e \in Calls : Rotating(d, s)' /\ Rotating(e, s)' => d = e
      BY <1>8, <1>10, <1>11 DEF SessInv, OneRotation
    <2>2. \A s \in Calls \ shared', j, i \in Calls : InForce(i, s)' /\ InForce(j, s)' => i = j
      BY <1>9, <1>10 DEF SessInv, OneRotation
    <2>3. \A s \in Calls \ shared', d, j \in Calls : Rotating(d, s)' /\ InForce(j, s)' =>
            call'[d].at = "revoke_old" /\ j = call'[d].of
      BY <1>4, <1>8, <1>9, <1>10, <2>2 DEF SessInv, OneRotation
    <2> HIDE DEF r
    <2> QED  BY <2>1, <2>2, <2>3 DEF OneRotation
  <1>13. UserFirst'
    BY <1>0, <1>2, <1>3 DEF StaleInv, UserFirst
  <1>14. ShortAccess'
    BY <1>2, <1>4 DEF SessInv, Family, StaleInv, ShortAccess
  <1>15. ASSUME Settled' PROVE OldTokens' /\ OldRequests'
    <2>1. Settled
      BY <1>2, <1>4, <1>15 DEF Settled
    <2>2. OldTokens'
      BY <1>2, <1>4, <2>1 DEF SessInv, Family, StaleInv, OldTokens
    <2>3. token[k].epoch < account => token[k].straddles
      BY <1>3, <2>1 DEF StaleInv, OldTokens
    <2>4. OldRequests'
      BY <1>2, <1>4, <2>1, <2>3 DEF StaleInv, OldRequests, Issuing
    <2> QED  BY <2>2, <2>4
  <1> QED  BY <1>5, <1>6, <1>7, <1>12, <1>13, <1>14, <1>15 DEF SessInv, StaleInv

(* The presented token is revoked, or all of them.                           *)
LEMMA RevocationPreserves ==
  ASSUME SessInv, StaleInv, NEW c \in Calls, RefreshRevoke(c) \/ RevokeAll(c)
  PROVE  SessInv' /\ StaleInv'
  <1> USE SessionsAssumption
  <1>0. SessShape
    BY DEF SessInv
  <1>1. /\ UNCHANGED <<clock, secret, account, cutShort, shared>>
        /\ RefreshRevoke(c) => changedAt' = changedAt
        /\ RevokeAll(c) => changedAt' = clock
    BY DEF RefreshRevoke, RevokeAll
  <1>2. /\ token' \in [Calls -> TokenType]
        /\ \A k \in Calls : token'[k] = token[k] \/ token'[k] = [token[k] EXCEPT !.revoked = TRUE]
        /\ \A k \in Calls : token[k] = NoToken => token'[k] = NoToken
    <2>1. CASE RefreshRevoke(c)
      <3>1. token' = [token EXCEPT ![call[c].of] = [token[call[c].of] EXCEPT !.revoked = TRUE]]
        BY <2>1 DEF RefreshRevoke, Rotated
      <3>2. call[c].of \in Calls /\ token[call[c].of] # NoToken
        BY <1>0, <2>1 DEF RefreshRevoke, SessInv, Presented, Issuing, SessShape, CallType, NoToken
      <3>3. [token[call[c].of] EXCEPT !.revoked = TRUE] \in TokenType
        BY <1>0, <3>2 DEF SessShape, TokenType
      <3> QED  BY <1>0, <3>1, <3>2, <3>3 DEF SessShape
    <2>2. CASE RevokeAll(c)
      <3>1. /\ token' = [k \in Calls |-> IF Minted(k) THEN [token[k] EXCEPT !.revoked = TRUE] ELSE token[k]]
        BY <2>2 DEF RevokeAll, AllRevoked
      <3>2. \A k \in Calls : [token[k] EXCEPT !.revoked = TRUE] \in TokenType
        BY <1>0 DEF SessShape, TokenType
      <3> QED  BY <1>0, <3>1, <3>2 DEF SessShape, Minted
    <2> QED  BY <2>1, <2>2
  <1>3. \A k \in Calls :
          /\ token'[k].root = token[k].root /\ token'[k].epoch = token[k].epoch
          /\ token'[k].accessExp = token[k].accessExp /\ token'[k].straddles = token[k].straddles
          /\ token[k].revoked => token'[k].revoked
    BY <1>0, <1>2 DEF SessShape, TokenType
  <1>4. RefreshRevoke(c) => token'[call[c].of].revoked
    BY <1>0 DEF RefreshRevoke, Rotated, SessInv, Presented, SessShape, CallType
  <1>5. RevokeAll(c) => \A k \in Calls : token[k].root \in Calls => token'[k].revoked
    BY <1>0 DEF RevokeAll, AllRevoked, Minted, NoToken, SessShape, TokenType
  <1>6. /\ call' \in [Calls -> CallType]
        /\ \A d \in Calls : d # c =>
             /\ call'[d].at = call[d].at /\ call'[d].of = call[d].of /\ call'[d].op = call[d].op
             /\ call'[d].epoch = call[d].epoch /\ (call[d].straddles => call'[d].straddles)
             /\ (RevokeAll(c) /\ Issuing(d)) => call'[d].straddles
        /\ call[c].at # "ok" /\ call'[c].op = call[c].op
        /\ RefreshRevoke(c) => /\ call[c].at = "revoke_old" /\ call'[c].at = "insert_token"
                               /\ call'[c].of = call[c].of /\ call'[c].epoch = call[c].epoch
                               /\ call'[c].straddles = call[c].straddles
        /\ RevokeAll(c) => call'[c].at = "ok"
    <2>1. CASE RefreshRevoke(c)
      <3>1. call' = [call EXCEPT ![c] = [call[c] EXCEPT !.at = "insert_token"]] /\ call[c].at = "revoke_old"
        BY <2>1 DEF RefreshRevoke, Step
      <3>2. [call[c] EXCEPT !.at = "insert_token"] \in CallType
        BY <1>0 DEF SessShape, CallType, CallStages
      <3>3. ~RevokeAll(c)
        BY <2>1 DEF RefreshRevoke, RevokeAll
      <3> QED  BY <1>0, <3>1, <3>2, <3>3 DEF SessShape, CallType
    <2>2. CASE RevokeAll(c)
      <3> DEFINE mine == [NewCall EXCEPT !.op = "change", !.at = "ok"]
      <3>1. mine \in CallType /\ mine.at = "ok" /\ mine.op = "change"
        BY NewCallType DEF CallOps, CallStages, NewCall
      <3>2. call' = [Straddling(c) EXCEPT ![c] = mine] /\ call[c].at = "revoke_all" /\ call[c].op = "change"
        BY <2>2 DEF RevokeAll
      <3> HIDE DEF mine
      <3>3. Straddling(c) \in [Calls -> CallType]
        <4>1. \A d \in Calls : Straddling(c)[d] \in CallType
          BY <1>0 DEF Straddling, SessShape, CallType
        <4> QED  BY <4>1 DEF Straddling
      <3>4. \A d \in Calls : d # c =>
              \/ call'[d] = call[d] /\ ~Issuing(d)
              \/ call'[d] = [call[d] EXCEPT !.straddles = TRUE]
        BY <1>0, <3>2 DEF Straddling, SessShape, Issuing
      <3>5. call'[c] = mine
        BY <3>2, <3>3
      <3>6. ~RefreshRevoke(c)
        BY <2>2 DEF RefreshRevoke, RevokeAll
      <3>7. \A d \in Calls : d # c =>
             /\ call'[d].at = call[d].at /\ call'[d].of = call[d].of /\ call'[d].op = call[d].op
             /\ call'[d].epoch = call[d].epoch /\ (call[d].straddles => call'[d].straddles)
             /\ Issuing(d) => call'[d].straddles
        BY <1>0, <3>4 DEF SessShape, CallType
      <3>8. call' \in [Calls -> CallType]
        BY <3>1, <3>2, <3>3
      <3> QED  BY <3>1, <3>2, <3>5, <3>6, <3>7, <3>8
    <2> QED  BY <2>1, <2>2
  <1>7. SessShape'
    BY <1>0, <1>1, <1>2, <1>6 DEF SessShape
  <1>8. Family'
    BY <1>2, <1>3, <1>6 DEF SessInv, Family
  <1>9. Presented'
    <2>1. \A d \in Calls : call[d].of # NoCall => call[d].of \in Calls
      BY <1>0 DEF SessShape, CallType
    <2> QED  BY <1>3, <1>6, <2>1 DEF SessInv, Presented, Issuing
  <1>10. \A d, r \in Calls : Rotating(d, r)' => Rotating(d, r) /\ call'[d].of = call[d].of
                                               /\ (d # c => call'[d].at = call[d].at)
    <2>1. \A d \in Calls : call[d].of # NoCall => call[d].of \in Calls
      BY <1>0 DEF SessShape, CallType
    <2> QED  BY <1>3, <1>6, <2>1 DEF Rotating, Issuing
  <1>11. \A k, r \in Calls : InForce(k, r)' => InForce(k, r)
    BY <1>3 DEF InForce
  <1>12. \A k, r \in Calls : InForce(k, r)' => RefreshRevoke(c) /\ k # call[c].of
    BY <1>3, <1>4, <1>5 DEF InForce
  <1>13. OneRotation'
    BY <1>1, <1>10, <1>11, <1>12 DEF SessInv, OneRotation
  <1>14. UserFirst'
    BY <1>0, <1>1, <1>3, <1>6 DEF StaleInv, UserFirst, Issuing
  <1>15. ShortAccess'
    BY <1>1, <1>3, <1>6 DEF StaleInv, ShortAccess
  <1>16. ASSUME Settled' PROVE OldTokens' /\ OldRequests'
    <2>1. CASE RefreshRevoke(c)
      <3>1. Settled
        BY <1>1, <1>6, <1>16, <2>1 DEF Settled
      <3>2. OldTokens'
        BY <1>1, <1>3, <1>6, <2>1, <3>1 DEF StaleInv, OldTokens
      <3>3. OldRequests'
        BY <1>1, <1>6, <2>1, <3>1 DEF StaleInv, OldRequests, Issuing
      <3> QED  BY <3>2, <3>3
    <2>2. CASE RevokeAll(c)
      <3>1. OldTokens'
        BY <1>0, <1>1, <1>3, <1>5, <1>6, <2>2 DEF StaleInv, ShortAccess, OldTokens
      <3>2. OldRequests'
        BY <1>6, <2>2 DEF OldRequests, Issuing
      <3> QED  BY <3>1, <3>2
    <2> QED  BY <2>1, <2>2
  <1> QED  BY <1>7, <1>8, <1>9, <1>13, <1>14, <1>15, <1>16 DEF SessInv, StaleInv

(* No token has been minted.                                                 *)
LEMMA SessInitInv == SessInit => SessInv /\ StaleInv
  <1> SUFFICES ASSUME SessInit PROVE SessInv /\ StaleInv
    OBVIOUS
  <1> USE SessionsAssumption
  <1>1. /\ NoToken \in TokenType /\ NoToken.root = NoCall
        /\ NewCall \in CallType /\ NewCall.at = "new"
    BY DEF NoToken, TokenType, NewCall, CallType, CallOps, CallStages
  <1>2. SessShape
    BY <1>1 DEF SessInit, SessShape
  <1>3. \A c \in Calls : token[c] = NoToken /\ token[c].root = NoCall /\ call[c].at = "new"
    BY <1>1 DEF SessInit
  <1>4. Family /\ Presented /\ OneRotation
    BY <1>3 DEF Family, Presented, OneRotation, Rotating, InForce, Issuing
  <1>5. StaleInv
    BY <1>3 DEF StaleInv, UserFirst, ShortAccess, OldTokens, OldRequests, Issuing
  <1> QED  BY <1>2, <1>4, <1>5 DEF SessInv

(* Every step of a request, of the clock and of a restart keeps both.        *)
LEMMA SessNextInv == SessInv /\ StaleInv /\ [SessNext]_sessVars => SessInv' /\ StaleInv'
  <1> SUFFICES ASSUME SessInv, StaleInv, [SessNext]_sessVars PROVE SessInv' /\ StaleInv'
    OBVIOUS
  <1>1. CASE SessCrash \/ Tick \/ UNCHANGED sessVars
    BY <1>1, SessWorldPreserves
  <1>2. ASSUME NEW c \in Calls,
               \/ StatementFails(c) \/ BodyInvalid(c) \/ RateLimited(c) \/ RegisterCount(c)
               \/ RegisterInsertUser(c) \/ Login(c) \/ UpdatePassword(c) \/ EmbeddedBoot(c)
               \/ EmbeddedUser(c)
        PROVE  SessInv' /\ StaleInv'
    BY <1>2, SessQuietPreserves
  <1>3. ASSUME NEW c \in Calls,
               InsertToken(c) \/ RefreshSelect(c) \/ RefreshRevoke(c) \/ RevokeAll(c)
        PROVE  SessInv' /\ StaleInv'
    BY <1>3, InsertTokenPreserves, RefreshSelectPreserves, RevocationPreserves
  <1> QED  BY <1>1, <1>2, <1>3 DEF SessNext

(* What the invariants say of the tokens that still work.                    *)
LEMMA SessInvImplies == SessInv /\ StaleInv => OneLiveSuccessor /\ StaleSessionsEnd
  <1> SUFFICES ASSUME SessInv, StaleInv PROVE OneLiveSuccessor /\ StaleSessionsEnd
    OBVIOUS
  <1>0. SessShape
    BY DEF SessInv
  <1>1. \A k \in Calls : Minted(k) => token[k].root \in Calls
    BY DEF SessInv, Family, Minted
  <1>2. OneLiveSuccessor
    <2> SUFFICES ASSUME NEW r \in Calls \ shared
                 PROVE  Cardinality({k \in Calls : Live(k) /\ token[k].root = r}) <= 1
      BY DEF OneLiveSuccessor
    <2> DEFINE S == {k \in Calls : Live(k) /\ token[k].root = r}
    <2>1. \A j, k \in S : j = k
      BY DEF SessInv, OneRotation, InForce, Live
    <2> HIDE DEF S
    <2>2. Cardinality(S) <= 1
      BY <2>1, AtMostOne
    <2> QED  BY <2>2 DEF S
  <1>3. StaleSessionsEnd
    <2> SUFFICES ASSUME Settled, NEW k \in Calls,
                        Minted(k), token[k].epoch < account, ~token[k].straddles
                 PROVE  /\ ~Live(k)
                        /\ (clock > changedAt + AccessTtl /\ call[k].op # "boot") => ~AccessValid(k)
      BY DEF StaleSessionsEnd, Settled
    <2>1. token[k].revoked /\ (call[k].op # "boot" => token[k].accessExp <= changedAt + AccessTtl)
      BY <1>1 DEF StaleInv, OldTokens
    <2>2. token[k].accessExp \in Nat
      BY <1>0 DEF SessShape, TokenType
    <2> QED  BY <1>0, <2>1, <2>2, SessionsAssumption DEF Live, AccessValid, SessShape
  <1> QED  BY <1>2, <1>3

(* refresh_token rotates in three statements without a transaction: for any  *)
(* number of requests, failures and restarts a login keeps at most one token *)
(* that works, unless one token was presented twice at once.                 *)
THEOREM OneLiveSuccessorHolds == SessSpec => []OneLiveSuccessor
  BY SessInitInv, SessNextInv, SessInvImplies, PTL DEF SessSpec

(* update_me replaces the hash and revokes in two statements: for any number *)
(* of requests, logins and changes, nothing of an older password works once  *)
(* a change is over, but for what straddled it.                              *)
THEOREM StaleSessionsEndHolds == SessSpec => []StaleSessionsEnd
  BY SessInitInv, SessNextInv, SessInvImplies, PTL DEF SessSpec

-----------------------------------------------------------------------------
(* Workspaces *)

Stages == {"new", "ok", "failed", "add_admin", "add_member", "target", "count", "delete", "drop"}
WsOps == {"none", "create", "join", "leave", "remove", "drop"}
ActType == [op : WsOps, at : Stages, by : Members \cup {NoOwner}, ws : Acts \cup {NoOwner},
            who : Members \cup {NoOwner}]

WsShape == WsTypeOK /\ act \in [Acts -> ActType]

Memberless(w) == \A u \in Members : role[w][u] = NotMember

(* Only the creation hands out the admin role, before anybody knows the code.*)
BeforeCode ==
  \A w \in Acts :
    /\ act[w].at = "new" => w \notin codeKnown
    /\ (act[w].op = "create" /\ act[w].at = "add_admin") =>
         w \notin codeKnown /\ owner[w] = act[w].by /\ act[w].by \in Members
    /\ w \notin codeKnown => Memberless(w)

(* Every request that has passed a check on a workspace names one whose code *)
(* is known, and its users.                                                  *)
Addressed ==
  \A a \in Acts :
    act[a].at \in {"add_member", "target", "count", "delete", "drop"} =>
      /\ act[a].ws \in codeKnown
      /\ act[a].by \in Members /\ act[a].who \in Members

(* The owner is the one admin of a workspace whose code is known.            *)
OwnerIsAdmin ==
  \A w \in codeKnown :
    /\ owner[w] = NoOwner => Memberless(w)
    /\ owner[w] # NoOwner => role[w][owner[w]] = "admin"
    /\ \A u \in Members : role[w][u] = "admin" => u = owner[w]

(* A pending deletion of a membership is never the admin's.                  *)
DeletesNoAdmin ==
  \A a \in Acts : act[a].at = "delete" => role[act[a].ws][act[a].who] # "admin"

(* The inductive invariant of the workspaces.                                *)
WsInv == WsShape /\ BeforeCode /\ Addressed /\ OwnerIsAdmin /\ DeletesNoAdmin

(* What Goto does to a request, field by field.                              *)
LEMMA GotoFields ==
  ASSUME act \in [Acts -> ActType], NEW a \in Acts, NEW at \in Stages, Goto(a, at)
  PROVE  /\ act' \in [Acts -> ActType]
         /\ act'[a].at = at
         /\ \A b \in Acts : b # a => act'[b] = act[b]
         /\ \A b \in Acts : /\ act'[b].op = act[b].op /\ act'[b].by = act[b].by
                            /\ act'[b].ws = act[b].ws /\ act'[b].who = act[b].who
  <1>1. act'[a] = [act[a] EXCEPT !.at = at] /\ \A b \in Acts : b # a => act'[b] = act[b]
    BY DEF Goto
  <1>2. act'[a] \in ActType
    BY <1>1 DEF ActType
  <1>3. act' \in [Acts -> ActType]
    BY <1>1, <1>2 DEF Goto
  <1> QED  BY <1>1, <1>3 DEF ActType

(* There is no workspace.                                                    *)
LEMMA WsInitInv == WsInit => WsInv
  <1> SUFFICES ASSUME WsInit PROVE WsInv
    OBVIOUS
  <1>1. NewAct \in ActType /\ NewAct.at = "new"
    BY DEF NewAct, ActType, WsOps, Stages
  <1>2. WsShape /\ \A w \in Acts : Memberless(w)
    BY <1>1 DEF WsInit, WsShape, WsTypeOK, NoMembers, NotMember, Memberless
  <1>3. \A a \in Acts : act[a].at = "new"
    BY <1>1 DEF WsInit
  <1> QED
    BY <1>2, <1>3 DEF WsInit, WsInv, BeforeCode, Addressed, OwnerIsAdmin, DeletesNoAdmin

(* There is never a second admin to count.                                   *)
LEMMA AlwaysLastAdmin ==
  ASSUME WsInv, NEW w \in codeKnown
  PROVE  LastAdmin(w)
  <1>1. \A u, v \in Admins(w) : u = v
    BY DEF WsInv, OwnerIsAdmin, Admins
  <1> QED  BY <1>1, AtMostOne DEF LastAdmin

(* Steps that move one request and leave the tables alone: what they have    *)
(* checked of the workspace holds when the request goes on.                  *)
LEMMA WsMoveStep ==
  ASSUME WsInv, NEW a \in Acts, UNCHANGED <<owner, role, codeKnown>>,
         act' \in [Acts -> ActType], \A b \in Acts : b # a => act'[b] = act[b],
         act'[a].at \in {"ok", "failed", "add_member", "target", "count", "delete", "drop"},
         act'[a].at \notin {"ok", "failed"} =>
            act'[a].ws \in codeKnown /\ act'[a].by \in Members /\ act'[a].who \in Members,
         act'[a].at = "delete" => role[act'[a].ws][act'[a].who] # "admin"
  PROVE  WsInv'
  <1> USE DEF WsInv
  <1>1. WsShape'
    BY DEF WsShape, WsTypeOK
  <1>2. BeforeCode'
    BY DEF BeforeCode, Memberless
  <1>3. Addressed'
    BY DEF Addressed
  <1>4. OwnerIsAdmin'
    BY DEF OwnerIsAdmin, Memberless
  <1>5. DeletesNoAdmin'
    BY DEF DeletesNoAdmin
  <1> QED  BY <1>1, <1>2, <1>3, <1>4, <1>5

(* The statements that only read, and the refusals.                          *)
LEMMA WsCheckStep ==
  ASSUME WsInv, NEW a \in Acts,
         \/ NoInviteCode(a) \/ JoinCheck(a) \/ LeaveRole(a) \/ RemoveRequester(a)
         \/ RemoveTarget(a) \/ CountAdmins(a) \/ DropRole(a) \/ ActFails(a)
  PROVE  WsInv'
  <1>0. /\ UNCHANGED <<owner, role, codeKnown>>
        /\ act \in [Acts -> ActType] /\ WsTypeOK
    BY DEF NoInviteCode, JoinCheck, LeaveRole, RemoveRequester, RemoveTarget, CountAdmins,
           DropRole, ActFails, WsInv, WsShape
  <1>0a. \A w \in Acts, u \in Members : role[w][u] # NotMember => w \in codeKnown
    BY DEF WsInv, BeforeCode, Memberless
  <1>1. CASE NoInviteCode(a)
    <2>1. act'[a] = [[act[a] EXCEPT !.op = "create"] EXCEPT !.at = "failed"]
      BY <1>0, <1>1 DEF NoInviteCode, ActType
    <2>2. act'[a] \in ActType /\ act'[a].at = "failed" /\ \A b \in Acts : b # a => act'[b] = act[b]
      BY <1>0, <1>1, <2>1 DEF NoInviteCode, ActType, WsOps, Stages
    <2>3. act' \in [Acts -> ActType]
      BY <1>0, <1>1, <2>2 DEF NoInviteCode
    <2> QED  BY <1>0, <2>2, <2>3, WsMoveStep
  <1>2. CASE JoinCheck(a)
    <2>1. PICK u \in Members, w \in Acts :
            w \in codeKnown /\ Begin(a, "join", "add_member", u, w, u)
      BY <1>2 DEF JoinCheck, VerifyInviteCode
    <2>2. "join" \in WsOps /\ "add_member" \in Stages
      BY DEF WsOps, Stages
    <2>3. /\ act' \in [Acts -> ActType] /\ \A b \in Acts : b # a => act'[b] = act[b]
          /\ act'[a].at = "add_member" /\ act'[a].by = u /\ act'[a].ws = w /\ act'[a].who = u
      BY <1>0, <2>1, <2>2 DEF Begin, ActType
    <2> QED  BY <1>0, <2>1, <2>2, <2>3, WsMoveStep
  <1>3. CASE LeaveRole(a)
    <2>1. PICK u \in Members, w \in Acts :
            role[w][u] # NotMember /\ Begin(a, "leave", AfterRole(u, w), u, w, u)
      BY <1>3 DEF LeaveRole
    <2>2. "leave" \in WsOps /\ AfterRole(u, w) \in Stages /\ AfterRole(u, w) \in {"count", "delete"}
          /\ (AfterRole(u, w) = "delete" => role[w][u] # "admin")
      BY DEF WsOps, Stages, AfterRole
    <2>3. /\ act' \in [Acts -> ActType] /\ \A b \in Acts : b # a => act'[b] = act[b]
          /\ act'[a].at = AfterRole(u, w) /\ act'[a].by = u /\ act'[a].ws = w /\ act'[a].who = u
      BY <1>0, <2>1, <2>2 DEF Begin, ActType
    <2> QED  BY <1>0, <1>0a, <2>1, <2>2, <2>3, WsMoveStep
  <1>4. CASE RemoveRequester(a)
    <2>1. PICK u, v \in Members, w \in Acts :
            role[w][u] = "admin" /\ Begin(a, "remove", "target", u, w, v)
      BY <1>4 DEF RemoveRequester
    <2>2. "remove" \in WsOps /\ "target" \in Stages /\ w \in codeKnown
      BY <1>0a, <2>1 DEF WsOps, Stages, NotMember
    <2>3. /\ act' \in [Acts -> ActType] /\ \A b \in Acts : b # a => act'[b] = act[b]
          /\ act'[a].at = "target" /\ act'[a].by = u /\ act'[a].ws = w /\ act'[a].who = v
      BY <1>0, <2>1, <2>2 DEF Begin, ActType
    <2> QED  BY <1>0, <2>1, <2>2, <2>3, WsMoveStep
  <1>5. CASE DropRole(a)
    <2>1. PICK u \in Members, w \in Acts :
            role[w][u] = "admin" /\ Begin(a, "drop", "drop", u, w, u)
      BY <1>5 DEF DropRole
    <2>2. "drop" \in WsOps /\ "drop" \in Stages /\ w \in codeKnown
      BY <1>0a, <2>1 DEF WsOps, Stages, NotMember
    <2>3. /\ act' \in [Acts -> ActType] /\ \A b \in Acts : b # a => act'[b] = act[b]
          /\ act'[a].at = "drop" /\ act'[a].by = u /\ act'[a].ws = w /\ act'[a].who = u
      BY <1>0, <2>1, <2>2 DEF Begin, ActType
    <2> QED  BY <1>0, <2>1, <2>2, <2>3, WsMoveStep
  <1>6. CASE RemoveTarget(a)
    <2>1. PICK at \in {"failed", "count", "delete"} :
            Goto(a, at) /\ (at = "delete" => role[act[a].ws][act[a].who] # "admin")
      BY <1>6 DEF RemoveTarget, AfterRole
    <2>2. at \in Stages
      BY DEF Stages
    <2>3. act[a].ws \in codeKnown /\ act[a].by \in Members /\ act[a].who \in Members
      BY <1>6 DEF RemoveTarget, WsInv, Addressed
    <2> QED  BY <1>0, <2>1, <2>2, <2>3, GotoFields, WsMoveStep
  <1>7. CASE CountAdmins(a) \/ ActFails(a)
    <2>1. Goto(a, "failed")
      BY <1>7, AlwaysLastAdmin DEF CountAdmins, ActFails, WsInv, Addressed
    <2>2. "failed" \in Stages
      BY DEF Stages
    <2> QED  BY <1>0, <2>1, <2>2, GotoFields, WsMoveStep
  <1> QED  BY <1>1, <1>2, <1>3, <1>4, <1>5, <1>6, <1>7

(* Steps that write to a table.                                              *)
LEMMA WsWriteStep ==
  ASSUME WsInv, NEW a \in Acts,
         \/ CreateInsert(a) \/ CreateAddAdmin(a) \/ JoinInsert(a) \/ DeleteMember(a)
         \/ DropWorkspace(a)
  PROVE  WsInv'
  <1> USE WorkspacesAssumption DEF WsInv
  <1>0. act \in [Acts -> ActType] /\ WsTypeOK /\ {"ok", "failed", "add_admin"} \subseteq Stages
        /\ "create" \in WsOps
    BY DEF WsShape, Stages, WsOps
  <1>1. CASE CreateInsert(a)
    <2>1. PICK u \in Members :
            owner' = [owner EXCEPT ![a] = u] /\ Begin(a, "create", "add_admin", u, a, u)
      BY <1>1 DEF CreateInsert
    <2>2. /\ act' \in [Acts -> ActType] /\ \A b \in Acts : b # a => act'[b] = act[b]
          /\ act'[a].op = "create" /\ act'[a].at = "add_admin" /\ act'[a].by = u
      BY <1>0, <2>1 DEF Begin, ActType
    <2>3. a \notin codeKnown /\ UNCHANGED <<role, codeKnown>>
      BY <1>1 DEF CreateInsert, BeforeCode
    <2>4. WsShape'
      BY <1>0, <2>1, <2>2, <2>3 DEF WsShape, WsTypeOK
    <2>5. BeforeCode'
      BY <1>0, <2>1, <2>2, <2>3 DEF BeforeCode, WsTypeOK, Memberless
    <2>6. Addressed' /\ DeletesNoAdmin'
      BY <2>2, <2>3 DEF Addressed, DeletesNoAdmin
    <2>7. OwnerIsAdmin'
      BY <1>0, <2>1, <2>3 DEF OwnerIsAdmin, WsTypeOK, Memberless
    <2> QED  BY <2>4, <2>5, <2>6, <2>7
  <1>2. CASE CreateAddAdmin(a)
    <2>0. Goto(a, "ok")
      BY <1>2 DEF CreateAddAdmin
    <2>1. /\ act' \in [Acts -> ActType] /\ \A b \in Acts : b # a => act'[b] = act[b]
          /\ act'[a].at = "ok"
      BY <1>0, <2>0, GotoFields
    <2> DEFINE user == act[a].by
    <2>2. /\ user \in Members /\ a \notin codeKnown /\ owner[a] = user /\ Memberless(a)
          /\ role' = [role EXCEPT ![a] = [role[a] EXCEPT ![user] = "admin"]]
          /\ codeKnown' = codeKnown \cup {a} /\ owner' = owner
      BY <1>2 DEF CreateAddAdmin, BeforeCode
    <2> HIDE DEF user
    <2>3. WsShape'
      BY <1>0, <2>1, <2>2 DEF WsShape, WsTypeOK
    <2>4. /\ \A x \in Acts : x # a => role'[x] = role[x]
          /\ role'[a][user] = "admin" /\ \A v \in Members : v # user => role'[a][v] = NotMember
      BY <1>0, <2>2 DEF WsTypeOK, Memberless
    <2>5. BeforeCode'
      BY <1>0, <2>1, <2>2, <2>4 DEF BeforeCode, Memberless, ActType
    <2>6. Addressed'
      BY <2>1, <2>2 DEF Addressed
    <2>8. DeletesNoAdmin'
      <3>1. \A b \in Acts : act[b].at = "delete" => role'[act[b].ws] = role[act[b].ws]
        BY <1>0, <2>2, <2>4 DEF Addressed, WsTypeOK
      <3> QED  BY <2>1, <3>1 DEF DeletesNoAdmin
    <2>7. OwnerIsAdmin'
      BY <1>0, <2>2, <2>4 DEF OwnerIsAdmin, Memberless, NotMember, WsTypeOK
    <2> QED  BY <2>3, <2>5, <2>6, <2>7, <2>8
  <1> DEFINE Admitted == owner[act[a].ws] # NoOwner /\ role[act[a].ws][act[a].by] = NotMember
  <1>5. CASE JoinInsert(a) /\ ~Admitted
    <2>1. Goto(a, "failed") /\ UNCHANGED <<owner, role, codeKnown>>
      BY <1>5 DEF JoinInsert
    <2>2. /\ act' \in [Acts -> ActType] /\ \A b \in Acts : b # a => act'[b] = act[b]
          /\ act'[a].at = "failed"
      BY <1>0, <2>1, GotoFields
    <2> QED  BY <2>1, <2>2, WsMoveStep
  <1>3. CASE (JoinInsert(a) /\ Admitted) \/ DeleteMember(a)
    <2> DEFINE here == act[a].ws
               user == act[a].who
    <2>1. PICK at \in {"ok", "failed"} : Goto(a, at)
      BY <1>3 DEF JoinInsert, DeleteMember
    <2>2. /\ act' \in [Acts -> ActType] /\ \A b \in Acts : b # a => act'[b] = act[b]
          /\ act'[a].at \in {"ok", "failed"}
      BY <1>0, <2>1, GotoFields
    <2>3. owner' = owner /\ codeKnown' = codeKnown /\ here \in codeKnown
      BY <1>3 DEF JoinInsert, DeleteMember, Addressed
    <2>4. PICK v \in Members, r \in {NotMember, "member"} :
            /\ role[here][v] # "admin"
            /\ owner[here] = NoOwner => r = NotMember
            /\ role' = [role EXCEPT ![here] = [role[here] EXCEPT ![v] = r]]
      <3>1. CASE DeleteMember(a)
        <4>1. /\ user \in Members /\ role[here][user] # "admin"
              /\ role' = [role EXCEPT ![here] = [role[here] EXCEPT ![user] = NotMember]]
          BY <3>1 DEF DeleteMember, Addressed, DeletesNoAdmin
        <4> HIDE DEF here, user
        <4> QED  BY <4>1
      <3>2. CASE JoinInsert(a) /\ Admitted
        <4>1. /\ act[a].by \in Members /\ owner[here] # NoOwner /\ role[here][act[a].by] = NotMember
              /\ role' = [role EXCEPT ![here] = [role[here] EXCEPT ![act[a].by] = "member"]]
          BY <3>2 DEF JoinInsert, Addressed
        <4> HIDE DEF here
        <4> QED  BY <3>2, <4>1 DEF NotMember
      <3> QED  BY <1>3, <3>1, <3>2
    <2> HIDE DEF here, user
    <2>5. /\ \A x \in Acts : x # here => role'[x] = role[x]
          /\ role'[here][v] = r /\ \A x \in Members : x # v => role'[here][x] = role[here][x]
      BY <1>0, <2>3, <2>4 DEF WsTypeOK
    <2>6. WsShape'
      BY <1>0, <2>2, <2>3, <2>4 DEF WsShape, WsTypeOK
    <2>7. BeforeCode'
      BY <1>0, <2>2, <2>3, <2>5 DEF BeforeCode, Memberless, ActType
    <2>8. Addressed'
      BY <2>2, <2>3 DEF Addressed
    <2>9. DeletesNoAdmin'
      BY <1>0, <2>2, <2>3, <2>4, <2>5 DEF DeletesNoAdmin, Addressed, NotMember, WsTypeOK, ActType
    <2>10. OwnerIsAdmin'
      BY <1>0, <2>3, <2>4, <2>5 DEF OwnerIsAdmin, Memberless, NotMember, WsTypeOK
    <2> QED  BY <2>6, <2>7, <2>8, <2>9, <2>10
  <1>4. CASE DropWorkspace(a)
    <2> DEFINE here == act[a].ws
    <2>0. Goto(a, "ok")
      BY <1>4 DEF DropWorkspace
    <2>1. /\ act' \in [Acts -> ActType] /\ \A b \in Acts : b # a => act'[b] = act[b]
          /\ act'[a].at = "ok"
      BY <1>0, <2>0, GotoFields
    <2>2. /\ owner' = [owner EXCEPT ![here] = NoOwner] /\ role' = [role EXCEPT ![here] = NoMembers]
          /\ codeKnown' = codeKnown /\ here \in codeKnown
      BY <1>4 DEF DropWorkspace, Addressed
    <2> HIDE DEF here
    <2>3. /\ \A x \in Acts : x # here => role'[x] = role[x] /\ owner'[x] = owner[x]
          /\ owner'[here] = NoOwner /\ \A user \in Members : role'[here][user] = NotMember
      BY <1>0, <2>2 DEF WsTypeOK, NoMembers
    <2>4. WsShape'
      BY <1>0, <2>1, <2>2 DEF WsShape, WsTypeOK, NoMembers
    <2>5. BeforeCode'
      BY <1>0, <2>1, <2>2, <2>3 DEF BeforeCode, Memberless, ActType
    <2>6. Addressed'
      BY <2>1, <2>2 DEF Addressed
    <2>7. DeletesNoAdmin'
      BY <1>0, <2>1, <2>2, <2>3 DEF DeletesNoAdmin, Addressed, NotMember, WsTypeOK, ActType
    <2>8. OwnerIsAdmin'
      BY <1>0, <2>2, <2>3 DEF OwnerIsAdmin, Memberless, NotMember, WsTypeOK
    <2> QED  BY <2>4, <2>5, <2>6, <2>7, <2>8
  <1> QED  BY <1>1, <1>2, <1>3, <1>4, <1>5

(* Every statement keeps the invariant.                                      *)
LEMMA WsNextInv == WsInv /\ [WsNext]_wsVars => WsInv'
  <1> SUFFICES ASSUME WsInv, [WsNext]_wsVars PROVE WsInv'
    OBVIOUS
  <1>1. CASE UNCHANGED wsVars
    <2>1. WsShape' /\ Addressed' /\ DeletesNoAdmin'
      BY <1>1 DEF wsVars, WsInv, WsShape, WsTypeOK, Addressed, DeletesNoAdmin
    <2>2. BeforeCode' /\ OwnerIsAdmin'
      BY <1>1 DEF wsVars, WsInv, WsShape, WsTypeOK, ActType, BeforeCode, OwnerIsAdmin, Memberless
    <2> QED  BY <2>1, <2>2 DEF WsInv
  <1>2. CASE WsNext
    BY <1>2, WsCheckStep, WsWriteStep DEF WsNext
  <1> QED  BY <1>1, <1>2

(* The creator is the only administrator.                                    *)
LEMMA WsInvImplies == WsInv => WorkspaceKeepsAdmin
  <1> SUFFICES ASSUME WsInv, NEW w \in Acts
               PROVE  /\ role[w] # NoMembers => Admins(w) = {owner[w]}
                      /\ owner[w] = NoOwner => role[w] = NoMembers
    BY DEF WorkspaceKeepsAdmin
  <1>1. Memberless(w) => role[w] = NoMembers
    BY DEF WsInv, WsShape, WsTypeOK, Memberless, NoMembers
  <1>2. CASE w \notin codeKnown
    BY <1>1, <1>2 DEF WsInv, BeforeCode
  <1>3. CASE w \in codeKnown /\ owner[w] = NoOwner
    BY <1>1, <1>3 DEF WsInv, OwnerIsAdmin
  <1>4. CASE w \in codeKnown /\ owner[w] # NoOwner
    <2>1. owner[w] \in Members /\ role[w][owner[w]] = "admin"
          /\ \A u \in Members : role[w][u] = "admin" => u = owner[w]
      BY <1>4 DEF WsInv, WsShape, WsTypeOK, OwnerIsAdmin
    <2> QED  BY <1>4, <2>1 DEF Admins
  <1> QED  BY <1>2, <1>3, <1>4

(* Every behaviour of the workspace requests: WorkspaceKeepsAdmin holds for  *)
(* any users, requests and number of failures.  leave_workspace and          *)
(* remove_member count the admins in a statement of their own before they    *)
(* delete; that is sound because the creation is the only place that makes   *)
(* an admin, so the count can only be one.                                   *)
THEOREM WorkspaceKeepsAdminHolds == WsSpec => []WorkspaceKeepsAdmin
  BY WsInitInv, WsNextInv, WsInvImplies, PTL DEF WsSpec


-----------------------------------------------------------------------------
(* Entitlement: the texts, files and stages a POST and the boot go through.  *)
PostStages == {"new", "forbidden", "rejected", "open", "write", "rename", "store", "ok", "failed",
               "lost"}
PostType == [at : PostStages, text : Texts \cup {NoText}, fd : Inodes \cup {NoFile}]
EntShape ==
  /\ embedded \in BOOLEAN /\ unread \in BOOLEAN /\ overlapped \in BOOLEAN
  /\ phase \in {"down", "instance", "resolve", "trial", "spawn", "up"}
  /\ file \in Inodes \cup {NoFile} /\ tmp \in Inodes \cup {NoFile}
  /\ bytes \in [Inodes -> Texts \cup {Empty, Garbled}]
  /\ post \in [Posts -> PostType]

(* POSTs run in a server that is up and not embedded, with a text that was   *)
(* accepted.                                                                 *)
PostsRun ==
  \A p \in Posts : post[p].at \in {"open", "write", "rename", "store"} =>
    phase = "up" /\ ~embedded /\ post[p].text \in Genuine \ Foreign

(* The inode that <path>.tmp names is never the license file's, nor the one  *)
(* of the installation; a POST that has opened nothing names no inode in use.*)
Inode ==
  /\ tmp # Installed /\ (tmp # NoFile => tmp # file)
  /\ \A p \in Posts : post[p].at \in {"new", "open"} => file # p /\ tmp # p

(* The progress of the one POST that is between open and store.              *)
WritesInOrder ==
  \A p \in Posts :
    /\ \A q \in Posts : p \in Writing /\ q \in Writing => p = q
    /\ post[p].at = "write" => post[p].fd = tmp /\ tmp # NoFile /\ bytes[tmp] = Empty
    /\ post[p].at = "rename" => tmp # NoFile /\ bytes[tmp] = post[p].text
    /\ post[p].at = "store" => file # NoFile /\ bytes[file] = post[p].text

(* A file that a POST put in place carries a text that was accepted.         *)
PostedTexts == file \notin {NoFile, Installed} => bytes[file] \in Genuine \ Foreign

(* What the boot resolved, or the last POST stored, is in the file.          *)
TrialPath == {Trial, Gated("TrialExpired")}
InStep ==
  /\ entitlement.kind = "licensed" => file # NoFile /\ bytes[file] = entitlement.text
  /\ entitlement \in TrialPath => file = NoFile \/ unread
BootFindsFile ==
  ~embedded =>
    /\ phase = "trial" => file = NoFile \/ unread
    /\ (phase \in {"spawn", "up"} /\ \A p \in Posts : post[p].at # "store") => InStep

(* Two POSTs that write at once share <path>.tmp and may mix their texts, so *)
(* the second half is promised as long as none did.                          *)
EntInv ==
  /\ EntShape /\ PostsRun /\ Inode
  /\ ~overlapped => WritesInOrder /\ PostedTexts /\ BootFindsFile

(* Nothing is installed but perhaps a license file, and no POST has begun.   *)
LEMMA EntInitInv == EntInit => EntInv
  <1> SUFFICES ASSUME EntInit PROVE EntInv
    OBVIOUS
  <1> USE EntitlementAssumption
  <1>1. \A p \in Posts : post[p].at = "new"
    BY DEF EntInit
  <1>2. EntShape
    <2>1. bytes \in [Inodes -> Texts \cup {Empty, Garbled}]
      BY DEF EntInit
    <2>2. post \in [Posts -> PostType]
      BY DEF EntInit, PostType, PostStages
    <2> QED  BY <2>1, <2>2 DEF EntInit, EntShape, Inodes
  <1>3. PostsRun /\ Inode /\ WritesInOrder /\ PostedTexts /\ BootFindsFile
    BY <1>1 DEF EntInit, PostsRun, Inode, WritesInOrder, Writing, PostedTexts, BootFindsFile,
                NoFile, Installed
  <1> QED  BY <1>2, <1>3 DEF EntInv

(* The boot.                                                                 *)
LEMMA EntBootPreserves ==
  ASSUME EntInv, Start \/ EnsureInstance \/ ResolveEntitlement \/ EnsureTrialStatus \/ SpawnTasks
  PROVE  EntInv'
  <1> USE EntitlementAssumption
  <1>0. EntShape
    BY DEF EntInv
  <1>1. UNCHANGED <<embedded, file, tmp, bytes, post, overlapped>>
    BY DEF Start, EnsureInstance, ResolveEntitlement, EnsureTrialStatus, SpawnTasks, diskVars
  <1>2. phase # "up" /\ \A p \in Posts : post[p].at \notin {"open", "write", "rename", "store"}
    BY DEF Start, EnsureInstance, ResolveEntitlement, EnsureTrialStatus, SpawnTasks, EntInv, PostsRun
  <1>3. EntShape'
    BY <1>0, <1>1 DEF EntShape, Start, EnsureInstance, ResolveEntitlement, EnsureTrialStatus, SpawnTasks
  <1>4. PostsRun' /\ Inode'
    BY <1>1, <1>2 DEF EntInv, PostsRun, Inode
  <1>5. ASSUME ~overlapped PROVE WritesInOrder' /\ PostedTexts'
    BY <1>1, <1>5 DEF EntInv, WritesInOrder, Writing, PostedTexts
  <1>6. ASSUME ~overlapped, ~embedded PROVE BootFindsFile'
    <2>1. CASE Start \/ EnsureInstance
      BY <1>0, <1>1, <1>6, <2>1 DEF Start, EnsureInstance, BootFindsFile, EntShape
    <2>2. CASE ResolveEntitlement
      <3>1. CASE phase' = "trial"
        BY <1>1, <2>2, <3>1 DEF ResolveEntitlement, BootFindsFile
      <3>2. CASE phase' # "trial"
        <4>1. file # NoFile /\ phase' = "spawn" /\ entitlement' = ResolveText(bytes[file])
          BY <2>2, <3>2 DEF ResolveEntitlement
        <4>2. entitlement'.kind = "licensed" => entitlement'.text = bytes[file]
          BY <4>1 DEF ResolveText, LicenseState, Licensed, Gated
        <4>3. entitlement' \notin TrialPath
          BY <4>1 DEF ResolveText, LicenseState, Licensed, Gated, TrialPath, Trial
        <4> QED  BY <1>1, <4>1, <4>2, <4>3 DEF BootFindsFile, InStep, TrialPath, Trial, Gated
      <3> QED  BY <3>1, <3>2
    <2>3. CASE EnsureTrialStatus
      <3>1. file = NoFile \/ unread
        BY <1>6, <2>3 DEF EnsureTrialStatus, EntInv, BootFindsFile
      <3>2. phase' = "spawn" /\ entitlement'.kind # "licensed" /\ unread' = unread
        BY <2>3 DEF EnsureTrialStatus, Trial, Gated
      <3> QED  BY <1>1, <3>1, <3>2 DEF BootFindsFile, InStep
    <2>4. CASE SpawnTasks
      BY <1>1, <1>6, <2>4 DEF SpawnTasks, EntInv, BootFindsFile, InStep, TrialPath, Trial, Gated
    <2> QED  BY <2>1, <2>2, <2>3, <2>4
  <1>7. embedded => BootFindsFile'
    BY <1>1 DEF BootFindsFile
  <1> QED  BY <1>0, <1>1, <1>3, <1>4, <1>5, <1>6, <1>7 DEF EntInv, EntShape

(* The calendar, the administrator and a crash.                              *)
LEMMA EntWorldPreserves ==
  ASSUME EntInv, NextDay \/ RemoveFile \/ EntCrash \/ UNCHANGED entVars
  PROVE  EntInv'
  <1> USE EntitlementAssumption
  <1>0. EntShape
    BY DEF EntInv
  <1>1. CASE NextDay \/ UNCHANGED entVars
    <2>1. UNCHANGED <<embedded, phase, file, tmp, bytes, entitlement, unread, post, overlapped>>
      BY <1>1 DEF NextDay, diskVars, entVars
    <2>2. EntShape' /\ PostsRun' /\ Inode'
      BY <2>1 DEF EntInv, EntShape, PostsRun, Inode
    <2>3. ~overlapped => WritesInOrder' /\ PostedTexts' /\ BootFindsFile'
      BY <2>1 DEF EntInv, WritesInOrder, Writing, PostedTexts, BootFindsFile, InStep, TrialPath,
                  Trial, Gated
    <2> QED  BY <2>1, <2>2, <2>3 DEF EntInv
  <1>2. CASE RemoveFile
    <2>1. /\ UNCHANGED <<embedded, phase, tmp, bytes, entitlement, unread, post, overlapped>>
          /\ file' = NoFile /\ phase = "down"
      BY <1>2 DEF RemoveFile
    <2>2. \A p \in Posts : post[p].at \notin {"open", "write", "rename", "store"}
      BY <2>1 DEF EntInv, PostsRun
    <2>3. EntShape' /\ PostsRun' /\ Inode'
      BY <1>0, <2>1, <2>2 DEF EntInv, EntShape, PostsRun, Inode
    <2>4. ~overlapped => WritesInOrder' /\ PostedTexts' /\ BootFindsFile'
      BY <2>1, <2>2 DEF EntInv, WritesInOrder, Writing, PostedTexts, BootFindsFile
    <2> QED  BY <2>1, <2>3, <2>4 DEF EntInv
  <1>3. CASE EntCrash
    <2>1. /\ UNCHANGED <<embedded, file, tmp, bytes, unread, overlapped>> /\ phase' = "down"
          /\ post' = [p \in Posts |-> IF post[p].at \in {"open", "write", "rename", "store"}
                                      THEN [post[p] EXCEPT !.at = "lost"] ELSE post[p]]
      BY <1>3 DEF EntCrash, diskVars
    <2>2. \A p \in Posts : /\ post'[p] \in PostType
                           /\ post'[p].at \notin {"open", "write", "rename", "store"}
                           /\ post'[p].at = "new" => post[p].at = "new"
      BY <1>0, <2>1 DEF EntShape, PostType, PostStages
    <2>3. EntShape'
      BY <1>0, <2>1, <2>2 DEF EntShape
    <2>4. PostsRun' /\ Inode'
      BY <2>1, <2>2 DEF EntInv, PostsRun, Inode
    <2>5. ~overlapped => WritesInOrder' /\ PostedTexts' /\ BootFindsFile'
      BY <2>1, <2>2 DEF EntInv, WritesInOrder, Writing, PostedTexts, BootFindsFile
    <2> QED  BY <2>1, <2>3, <2>4, <2>5 DEF EntInv
  <1> QED  BY <1>1, <1>2, <1>3

(* What a step does to one POST.                                             *)
LEMMA PostMoves ==
  ASSUME EntShape, NEW p \in Posts, NEW at \in PostStages, post' = [post EXCEPT ![p].at = at]
  PROVE  /\ post' \in [Posts -> PostType]
         /\ post'[p].at = at /\ post'[p].text = post[p].text /\ post'[p].fd = post[p].fd
         /\ \A q \in Posts : q # p => post'[q] = post[q]
  <1>1. post'[p] = [post[p] EXCEPT !.at = at] /\ \A q \in Posts : q # p => post'[q] = post[q]
    BY DEF EntShape
  <1>2. post'[p] \in PostType
    BY <1>1 DEF EntShape, PostType
  <1>3. post' \in [Posts -> PostType]
    BY <1>1, <1>2 DEF EntShape
  <1> QED  BY <1>1, <1>3 DEF EntShape, PostType

(* POST /api/license, step by step.                                          *)
LEMMA PostPreserves ==
  ASSUME EntInv, NEW p \in Posts,
         \/ PostResolve(p) \/ PostOpen(p) \/ PostWrite(p) \/ PostRename(p) \/ PostIoError(p)
         \/ PostStore(p)
  PROVE  EntInv'
  <1> USE EntitlementAssumption
  <1>0. EntShape
    BY DEF EntInv
  <1>1. CASE PostResolve(p)
    <2>1. PICK t \in Texts :
            post' = [post EXCEPT ![p] = [at |-> IF embedded THEN "forbidden"
                                           ELSE IF Accepted(ResolveText(t)) THEN "open" ELSE "rejected",
                                         text |-> t, fd |-> NoFile]]
      BY <1>1 DEF PostResolve
    <2>2. /\ UNCHANGED <<embedded, phase, file, tmp, bytes, entitlement, unread, overlapped>>
          /\ phase = "up" /\ post[p].at = "new"
      BY <1>1 DEF PostResolve
    <2>3. /\ post' \in [Posts -> PostType] /\ \A q \in Posts : q # p => post'[q] = post[q]
          /\ post'[p].at \in {"forbidden", "open", "rejected"} /\ post'[p].text = t
          /\ post'[p].at = "open" => ~embedded /\ Accepted(ResolveText(t))
      BY <1>0, <2>1 DEF EntShape, PostType, PostStages
    <2>4. Accepted(ResolveText(t)) => t \in Genuine \ Foreign
      BY DEF Accepted, IsGated, ResolveText, LicenseState, VerifyLicense, Gated
    <2>5. EntShape' /\ PostsRun' /\ Inode'
      BY <1>0, <2>2, <2>3, <2>4 DEF EntInv, EntShape, PostsRun, Inode
    <2>6. ~overlapped => WritesInOrder' /\ PostedTexts'
      BY <2>2, <2>3 DEF EntInv, WritesInOrder, Writing, PostedTexts
    <2>7. ~overlapped => BootFindsFile'
      BY <2>2, <2>3 DEF EntInv, BootFindsFile, InStep, TrialPath, Trial, Gated
    <2> QED  BY <2>2, <2>5, <2>6, <2>7 DEF EntInv
  <1>2. CASE PostOpen(p)
    <2> DEFINE i == IF tmp = NoFile THEN p ELSE tmp
    <2>1. /\ UNCHANGED <<embedded, phase, file, entitlement, unread>>
          /\ bytes' = [bytes EXCEPT ![i] = Empty] /\ tmp' = i
          /\ post' = [post EXCEPT ![p].at = "write", ![p].fd = i]
          /\ post[p].at = "open" /\ overlapped' = (overlapped \/ Writing # {})
      BY <1>2 DEF PostOpen
    <2>2. i \in Inodes /\ i # NoFile /\ i # Installed /\ i # file
      BY <1>0, <2>1 DEF EntShape, EntInv, Inode, Inodes
    <2>3. /\ post'[p] = [[post[p] EXCEPT !.at = "write"] EXCEPT !.fd = i]
          /\ \A q \in Posts : q # p => post'[q] = post[q]
      BY <1>0, <2>1 DEF EntShape, PostType
    <2> HIDE DEF i
    <2>4. post'[p] \in PostType /\ post'[p].at = "write" /\ post'[p].fd = i /\ post'[p].text = post[p].text
      <3>1. post[p] \in PostType /\ i \in Inodes \cup {NoFile}
        BY <1>0, <2>2 DEF EntShape
      <3> QED  BY <2>3, <3>1 DEF PostType, PostStages
    <2>5. post' \in [Posts -> PostType]
      BY <1>0, <2>1, <2>4 DEF EntShape
    <2>6. /\ bytes' \in [Inodes -> Texts \cup {Empty, Garbled}] /\ bytes'[i] = Empty
          /\ file # NoFile => bytes'[file] = bytes[file]
      BY <1>0, <2>1, <2>2 DEF EntShape
    <2>7. EntShape'
      BY <1>0, <2>1, <2>2, <2>5, <2>6 DEF EntShape
    <2>8. PostsRun'
      BY <2>1, <2>3, <2>4 DEF EntInv, PostsRun
    <2>9. Inode'
      <3>1. \A q \in Posts : q # p /\ post[q].at \in {"new", "open"} => i # q
        BY <2>1 DEF EntInv, Inode, i
      <3> QED  BY <2>1, <2>2, <2>3, <2>4, <3>1 DEF EntInv, Inode
    <2>10. ASSUME ~overlapped' PROVE WritesInOrder' /\ PostedTexts' /\ BootFindsFile'
      <3>1. Writing = {} /\ ~overlapped
        BY <2>1, <2>10
      <3>2. \A q \in Posts : q # p => post'[q].at \notin {"write", "rename", "store"}
        BY <2>3, <3>1 DEF Writing
      <3>3. WritesInOrder'
        BY <2>1, <2>2, <2>4, <2>6, <3>2 DEF WritesInOrder, Writing
      <3>4. PostedTexts'
        BY <2>1, <2>6, <3>1 DEF EntInv, PostedTexts
      <3>5. BootFindsFile'
        BY <2>1, <2>3, <2>6, <3>1 DEF EntInv, BootFindsFile, InStep, TrialPath, Trial, Gated, Writing
      <3> QED  BY <3>3, <3>4, <3>5
    <2> QED  BY <2>7, <2>8, <2>9, <2>10 DEF EntInv
  <1>3. CASE PostWrite(p)
    <2>1. PICK c \in {post[p].text, Garbled} :
            /\ bytes' = [bytes EXCEPT ![post[p].fd] = c]
            /\ bytes[post[p].fd] = Empty => c = post[p].text
      BY <1>3 DEF PostWrite
    <2>2. /\ UNCHANGED <<embedded, phase, file, tmp, entitlement, unread, overlapped>>
          /\ post' = [post EXCEPT ![p].at = "rename"] /\ post[p].at = "write"
      BY <1>3 DEF PostWrite
    <2>3. /\ post' \in [Posts -> PostType] /\ \A q \in Posts : q # p => post'[q] = post[q]
          /\ post'[p].at = "rename" /\ post'[p].text = post[p].text
      BY <1>0, <2>2, PostMoves DEF PostStages
    <2>4. post[p].text \in Texts
      BY <2>2 DEF EntInv, PostsRun
    <2>5. bytes' \in [Inodes -> Texts \cup {Empty, Garbled}]
      BY <1>0, <2>1, <2>4 DEF EntShape
    <2>6. EntShape' /\ PostsRun' /\ Inode'
      BY <1>0, <2>2, <2>3, <2>5 DEF EntInv, EntShape, PostsRun, Inode
    <2>7. ASSUME ~overlapped PROVE WritesInOrder' /\ PostedTexts' /\ BootFindsFile'
      <3>1. post[p].fd = tmp /\ tmp # NoFile /\ bytes[tmp] = Empty /\ tmp \in Inodes /\ tmp # file
        BY <1>0, <2>2, <2>7 DEF EntInv, WritesInOrder, EntShape, Inode
      <3>2. bytes'[tmp] = post[p].text /\ (file # NoFile => bytes'[file] = bytes[file])
        BY <1>0, <2>1, <3>1 DEF EntShape
      <3>3. \A q \in Posts : q # p => post'[q].at \notin {"write", "rename", "store"}
        BY <2>2, <2>3, <2>7 DEF EntInv, WritesInOrder, Writing
      <3>4. WritesInOrder'
        BY <2>2, <2>3, <3>1, <3>2, <3>3 DEF WritesInOrder, Writing
      <3>5. PostedTexts'
        BY <2>2, <2>7, <3>2 DEF EntInv, PostedTexts
      <3>6. BootFindsFile'
        BY <2>2, <2>3, <2>7, <3>2 DEF EntInv, BootFindsFile, InStep, TrialPath, Trial, Gated
      <3> QED  BY <3>4, <3>5, <3>6
    <2> QED  BY <2>2, <2>6, <2>7 DEF EntInv
  <1>4. CASE PostRename(p) /\ tmp = NoFile
    <2>1. /\ UNCHANGED <<embedded, phase, file, tmp, bytes, entitlement, unread, overlapped>>
          /\ post' = [post EXCEPT ![p].at = "failed"] /\ post[p].at = "rename"
      BY <1>4 DEF PostRename, AfterFailure
    <2>2. overlapped
      BY <1>4, <2>1 DEF EntInv, WritesInOrder
    <2>3. /\ post' \in [Posts -> PostType] /\ \A q \in Posts : q # p => post'[q] = post[q]
          /\ post'[p].at = "failed"
      BY <1>0, <2>1, PostMoves DEF PostStages
    <2>4. EntShape' /\ PostsRun' /\ Inode'
      BY <1>0, <2>1, <2>3 DEF EntInv, EntShape, PostsRun, Inode
    <2> QED  BY <2>1, <2>2, <2>4 DEF EntInv
  <1>5. CASE PostRename(p) /\ tmp # NoFile
    <2>1. /\ UNCHANGED <<embedded, phase, bytes, entitlement, unread, overlapped>>
          /\ file' = tmp /\ tmp' = NoFile
          /\ post' = [post EXCEPT ![p].at = "store"] /\ post[p].at = "rename"
      BY <1>5 DEF PostRename
    <2>2. /\ post' \in [Posts -> PostType] /\ \A q \in Posts : q # p => post'[q] = post[q]
          /\ post'[p].at = "store" /\ post'[p].text = post[p].text
      BY <1>0, <2>1, PostMoves DEF PostStages
    <2>3. EntShape' /\ PostsRun'
      BY <1>0, <2>1, <2>2 DEF EntInv, EntShape, PostsRun
    <2>4. Inode'
      BY <1>5, <2>1, <2>2 DEF EntInv, Inode, NoFile, Installed
    <2>5. ASSUME ~overlapped PROVE WritesInOrder' /\ PostedTexts' /\ BootFindsFile'
      <3>1. bytes[tmp] = post[p].text /\ post[p].text \in Genuine \ Foreign
        BY <2>1, <2>5 DEF EntInv, WritesInOrder, PostsRun
      <3>2. \A q \in Posts : q # p => post'[q].at \notin {"write", "rename", "store"}
        BY <2>1, <2>2, <2>5 DEF EntInv, WritesInOrder, Writing
      <3>3. WritesInOrder'
        BY <1>5, <2>1, <2>2, <3>1, <3>2 DEF WritesInOrder, Writing
      <3>4. PostedTexts' /\ BootFindsFile'
        BY <2>1, <2>2, <3>1 DEF EntInv, PostedTexts, BootFindsFile, PostsRun
      <3> QED  BY <3>3, <3>4
    <2> QED  BY <2>1, <2>3, <2>4, <2>5 DEF EntInv
  <1>6. CASE PostIoError(p)
    <2>1. /\ UNCHANGED <<embedded, phase, file, tmp, entitlement, unread, overlapped>>
          /\ post' = [post EXCEPT ![p].at = "failed"]
          /\ post[p].at \in {"open", "write", "rename"}
          /\ bytes' = IF post[p].at = "write" THEN [bytes EXCEPT ![post[p].fd] = Garbled] ELSE bytes
      BY <1>6 DEF PostIoError, AfterFailure
    <2>2. /\ post' \in [Posts -> PostType] /\ \A q \in Posts : q # p => post'[q] = post[q]
          /\ post'[p].at = "failed"
      BY <1>0, <2>1, PostMoves DEF PostStages
    <2>3. bytes' \in [Inodes -> Texts \cup {Empty, Garbled}]
      BY <1>0, <2>1 DEF EntShape
    <2>4. EntShape' /\ PostsRun' /\ Inode'
      BY <1>0, <2>1, <2>2, <2>3 DEF EntInv, EntShape, PostsRun, Inode
    <2>5. ASSUME ~overlapped PROVE WritesInOrder' /\ PostedTexts' /\ BootFindsFile'
      <3>1. post[p].at = "write" => post[p].fd = tmp /\ tmp # NoFile /\ tmp # file
        BY <2>5 DEF EntInv, WritesInOrder, Inode
      <3>2. file # NoFile => bytes'[file] = bytes[file]
        BY <1>0, <2>1, <3>1 DEF EntShape
      <3>3. \A q \in Posts : q # p => post'[q] = post[q] /\
              (p \in Writing => post'[q].at \notin {"write", "rename", "store"})
        BY <2>2, <2>5 DEF EntInv, WritesInOrder, Writing
      <3>4. WritesInOrder'
        <4>1. CASE post[p].at = "open"
          BY <2>1, <2>2, <2>5, <4>1 DEF EntInv, WritesInOrder, Writing
        <4>2. CASE post[p].at # "open"
          BY <2>1, <2>2, <3>3, <4>2 DEF WritesInOrder, Writing
        <4> QED  BY <4>1, <4>2
      <3>5. PostedTexts'
        BY <2>1, <2>5, <3>2 DEF EntInv, PostedTexts
      <3>6. BootFindsFile'
        BY <2>1, <2>2, <2>5, <3>2 DEF EntInv, BootFindsFile, InStep, TrialPath, Trial, Gated
      <3> QED  BY <3>4, <3>5, <3>6
    <2> QED  BY <2>1, <2>4, <2>5 DEF EntInv
  <1>7. CASE PostStore(p)
    <2>1. /\ UNCHANGED <<embedded, phase, file, tmp, bytes, unread, overlapped>>
          /\ post' = [post EXCEPT ![p].at = "ok"] /\ post[p].at = "store"
          /\ entitlement' = Licensed(post[p].text)
      BY <1>7 DEF PostStore, diskVars
    <2>2. /\ post' \in [Posts -> PostType] /\ \A q \in Posts : q # p => post'[q] = post[q]
          /\ post'[p].at = "ok"
      BY <1>0, <2>1, PostMoves DEF PostStages
    <2>3. EntShape' /\ PostsRun' /\ Inode'
      BY <1>0, <2>1, <2>2 DEF EntInv, EntShape, PostsRun, Inode
    <2>4. ASSUME ~overlapped PROVE WritesInOrder' /\ PostedTexts' /\ BootFindsFile'
      <3>1. file # NoFile /\ bytes[file] = post[p].text
        BY <2>1, <2>4 DEF EntInv, WritesInOrder
      <3>2. entitlement'.text = post[p].text /\ entitlement' \notin TrialPath
        BY <2>1 DEF Licensed, TrialPath, Trial, Gated
      <3>3. WritesInOrder' /\ PostedTexts'
        BY <2>1, <2>2, <2>4 DEF EntInv, WritesInOrder, Writing, PostedTexts
      <3>4. phase = "up"
        BY <2>1 DEF EntInv, PostsRun
      <3>5. BootFindsFile'
        BY <2>1, <3>1, <3>2, <3>4 DEF BootFindsFile, InStep, TrialPath, Trial, Gated
      <3> QED  BY <3>3, <3>5
    <2> QED  BY <2>1, <2>3, <2>4 DEF EntInv
  <1> QED  BY <1>1, <1>2, <1>3, <1>4, <1>5, <1>6, <1>7

(* Every step of the entitlement part keeps the invariant.                   *)
LEMMA EntNextInv == EntInv /\ [EntNext]_entVars => EntInv'
  <1> SUFFICES ASSUME EntInv, [EntNext]_entVars PROVE EntInv'
    OBVIOUS
  <1>1. CASE NextDay \/ RemoveFile \/ EntCrash \/ UNCHANGED entVars
    BY <1>1, EntWorldPreserves
  <1>2. CASE Start \/ EnsureInstance \/ ResolveEntitlement \/ EnsureTrialStatus \/ SpawnTasks
    BY <1>2, EntBootPreserves
  <1>3. ASSUME NEW p \in Posts,
               \/ PostResolve(p) \/ PostOpen(p) \/ PostWrite(p) \/ PostRename(p) \/ PostIoError(p)
               \/ PostStore(p)
        PROVE  EntInv'
    BY <1>3, PostPreserves
  <1> QED  BY <1>1, <1>2, <1>3 DEF EntNext

(* The property is what the invariant says between two POSTs.                *)
LEMMA EntInvImplies == EntInv => EntitlementMatchesFile
  BY DEF EntInv, PostedTexts, BootFindsFile, InStep, TrialPath, Writing, EntitlementMatchesFile

(* The entitlement of a server that is up, as the boot resolved it or POST   *)
(* /api/license stored it, is the one of the license file, through every     *)
(* crash of the write to the temporary file and its rename, for any number   *)
(* of POSTs as long as no two of them write at the same time.                *)
THEOREM EntitlementMatchesFileHolds == EntSpec => []EntitlementMatchesFile
  BY EntInitInv, EntNextInv, EntInvImplies, PTL DEF EntSpec

-----------------------------------------------------------------------------
(* Vault: the stages of a request, the rows and what a request remembers.    *)
ReqStages == {"new", "ok", "failed", "write", "delete", "reuse", "insert", "token", "insert_task"}
ReqOps == {"none", "gated", "create", "register", "subscribe", "update", "delete", "remove",
           "reveal", "task", "patch", "drop"}
RowType == [fp : Prints \cup {Null}, pw : Passwords \cup {Null}, key : Nat]
ReqType == [op : ReqOps, at : ReqStages, id : Ids \cup {Null}, fp : Prints \cup Ids \cup {Null},
            pw : Passwords \cup {Null}, seen : RowType]
VaultShape ==
  /\ local \in BOOLEAN /\ keyLost \in BOOLEAN
  /\ server \in {"down", "create_key", "write_key", "database", "migrate", "up"}
  /\ starts \in Nat /\ vaultFaults \in Nat /\ key \in Nat /\ keyFile \in Nat
  /\ row \in [Ids -> RowType] /\ written \in [Ids -> Passwords \cup {Null}]
  /\ registry \in [Ids -> SUBSET Reqs] /\ stream \subseteq Reqs /\ raced \subseteq Ids
  /\ req \in [Reqs -> ReqType]

(* Requests and subscriptions exist in a server that is up; the boot of the  *)
(* two modes has different steps.                                            *)
Running ==
  /\ \A r \in Reqs : Pending(r) \/ r \in stream => server = "up"
  /\ IF local THEN server # "migrate" ELSE server \in {"down", "migrate", "up"}

(* A row is whole, and the row a request inserts means the request is over.  *)
Rows ==
  /\ \A i \in Ids : row[i] = NoRow \/ row[i].fp \in Prints
  /\ \A r \in Reqs : row[r] # NoRow => req[r].at = "ok"

(* Requests between their check of a connection and what they do to it.  Two *)
(* of them on one connection have raced.                                     *)
Busy(r) == req[r].at \in {"write", "reuse", "delete", "token"}
BusyRequests ==
  \A r \in Reqs :
    /\ Busy(r) => req[r].id \in Ids /\ (req[r].id \in Reqs => req[req[r].id].at = "ok")
    /\ req[r].at \in {"write", "reuse", "insert"} => req[r].fp \in Prints
    /\ req[r].at \in {"reuse", "insert"} => req[r].pw \in Passwords
    /\ req[r].op = "delete" => req[r].at = "ok"
    /\ \A q \in Reqs : Busy(q) /\ Busy(r) /\ q # r /\ req[q].id = req[r].id => req[r].id \in raced
    /\ (req[r].at = "write" /\ req[r].id \notin raced /\ row[req[r].id] # NoRow) =>
         req[r].seen.pw = row[req[r].id].pw

(* A subscription can be found in the registry under its connection, and a   *)
(* removal that is under way has ended those it could know of.               *)
Subscriptions ==
  \A r \in stream :
    /\ req[r].at = "ok" /\ req[r].id \in Ids /\ r \in registry[req[r].id]
    /\ \A q \in Reqs : req[q].at = "delete" /\ req[q].id = req[r].id => req[r].id \in raced
(* A connection that ended properly has no subscriber left.                  *)
Gone(i) == row[i] = NoRow /\ i \notin raced /\ \A d \in Reqs : ~(req[d].op = "delete" /\ req[d].id = i)
SubscribedTo ==
  \A r \in Reqs : r \in stream \/ req[r].at = "token" => ~Gone(req[r].id)

(* The key of the rows: the one in the file (embedded), the environment's,   *)
(* or before the migration the legacy mark.                                  *)
FileKey ==
  /\ \A i \in Ids : row[i] # NoRow => UsableKey(keyFile) /\ row[i].key = keyFile
  /\ server \in {"database", "up"} => UsableKey(keyFile) /\ key = keyFile
  /\ server \in {"create_key", "write_key"} => ~UsableKey(keyFile) /\ UsableKey(key)
EnvKey ==
  /\ key = Env
  /\ \A i \in Ids : row[i] # NoRow => row[i].key = Env \/ (row[i].key = Plain /\ server # "up")
Keys ==
  ~keyLost =>
    /\ local => FileKey
    /\ ~local => EnvKey
    /\ \A r \in Reqs : req[r].at = "write" => req[r].seen.key = key

(* The inductive invariant of the vault.                                     *)
VaultInv ==
  /\ VaultShape /\ Running /\ Rows /\ BusyRequests /\ EditsSurvive
  /\ Subscriptions /\ SubscribedTo /\ Keys

(* What only the boot and a crash change, and the requests other than r.     *)
UpVars == <<local, server, key, keyFile, keyLost>>
OthersStay(r) == \A q \in Reqs : q # r => req'[q] = req[q]

(* Steps of one request that neither touch a row nor begin to work on one.   *)
LEMMA VaultQuiet ==
  ASSUME VaultInv, VaultShape', NEW r \in Reqs, OthersStay(r), server = "up",
         UNCHANGED <<UpVars, row, written, registry, stream, raced>>,
         req[r].at \notin {"ok", "failed"},
         req'[r].at \notin {"new", "write", "reuse", "delete", "token"},
         req'[r].op = "delete" => req'[r].at = "ok",
         req'[r].at = "insert" => req'[r].fp \in Prints /\ req'[r].pw \in Passwords
  PROVE  VaultInv'
  <1> USE VaultAssumption DEF VaultInv, OthersStay, UpVars
  <1>0. r \notin stream /\ row[r] = NoRow /\ req[r].op # "delete"
    BY DEF Subscriptions, Rows, BusyRequests
  <1>1. Running'
    BY DEF Running, Pending
  <1>2. Rows'
    BY <1>0 DEF Rows
  <1>3. BusyRequests'
    BY DEF BusyRequests, Busy
  <1>4. EditsSurvive'
    BY DEF EditsSurvive, Stored
  <1>5. Subscriptions'
    BY <1>0 DEF Subscriptions, VaultShape
  <1>6. SubscribedTo'
    BY <1>0 DEF SubscribedTo, Gone
  <1>7. Keys'
    BY DEF Keys, FileKey, EnvKey, UsableKey
  <1> QED  BY <1>1, <1>2, <1>3, <1>4, <1>5, <1>6, <1>7

(* A request has found its connection and begins to work on it.              *)
LEMMA VaultBegin ==
  ASSUME VaultInv, VaultShape', NEW r \in Reqs, OthersStay(r), server = "up", NEW id \in Ids,
         UNCHANGED <<UpVars, row, written>>, row[id] # NoRow, Overlap(r, id),
         req[r].at = "new", req'[r].id = id, req'[r].op # "delete",
         \/ /\ req'[r].at \in {"write", "reuse", "token"} /\ UNCHANGED <<registry, stream>>
         \/ /\ req'[r].at = "delete" /\ stream' = stream \ registry[id]
            /\ registry' = [registry EXCEPT ![id] = {}],
         req'[r].at = "write" => req'[r].seen = row[id],
         req'[r].at \in {"write", "reuse"} => req'[r].fp \in Prints,
         req'[r].at = "reuse" => req'[r].pw \in Passwords
  PROVE  VaultInv'
  <1> USE VaultAssumption DEF VaultInv, OthersStay, UpVars
  <1>0. r \notin stream /\ row[r] = NoRow /\ req[r].op # "delete" /\ id # r /\ ~Busy(r)
    BY DEF Subscriptions, Rows, BusyRequests, Busy
  <1>1. Running'
    BY DEF Running, Pending
  <1>2. Rows'
    BY <1>0 DEF Rows
  <1>3. raced \subseteq raced' /\ \A q \in Reqs : q # r /\ Busy(q) /\ req[q].id = id => id \in raced'
    BY DEF Overlap, Pending, Busy
  <1>4. BusyRequests'
    <2>1. id \in Reqs => req[id].at = "ok" /\ req'[id].at = "ok"
      BY <1>0 DEF Rows
    <2>2. \A q \in Reqs : req[q].at = "ok" => req'[q].at = "ok"
      BY <1>0
    <2>3. ASSUME NEW s \in Reqs
          PROVE  /\ Busy(s)' => req'[s].id \in Ids /\ (req'[s].id \in Reqs => req'[req'[s].id].at = "ok")
                 /\ req'[s].at \in {"write", "reuse", "insert"} => req'[s].fp \in Prints
                 /\ req'[s].at \in {"reuse", "insert"} => req'[s].pw \in Passwords
                 /\ req'[s].op = "delete" => req'[s].at = "ok"
      BY <1>0, <2>1, <2>2 DEF BusyRequests, Busy
    <2>4. ASSUME NEW s \in Reqs, NEW q \in Reqs, Busy(q)', Busy(s)', q # s, req'[q].id = req'[s].id
          PROVE  req'[s].id \in raced'
      BY <1>3, <2>4 DEF BusyRequests, Busy
    <2>5. ASSUME NEW s \in Reqs, req'[s].at = "write", req'[s].id \notin raced', row'[req'[s].id] # NoRow
          PROVE  req'[s].seen.pw = row'[req'[s].id].pw
      BY <1>3, <2>5 DEF BusyRequests
    <2> QED  BY <2>3, <2>4, <2>5 DEF BusyRequests
  <1>5. EditsSurvive'
    BY <1>3 DEF EditsSurvive, Stored
  <1>6. Subscriptions'
    <2> SUFFICES ASSUME NEW s \in stream'
                 PROVE  /\ req'[s].at = "ok" /\ req'[s].id \in Ids /\ s \in registry'[req'[s].id]
                        /\ \A q \in Reqs : req'[q].at = "delete" /\ req'[q].id = req'[s].id =>
                                             req'[s].id \in raced'
      BY DEF Subscriptions
    <2>1. s \in stream /\ req'[s] = req[s] /\ s \in Reqs
      BY <1>0 DEF VaultShape
    <2>2. req[s].at = "ok" /\ req[s].id \in Ids /\ s \in registry[req[s].id]
      BY <2>1 DEF Subscriptions
    <2>3. req'[r].at = "delete" => req[s].id # id
      BY <2>2
    <2>4. s \in registry'[req[s].id]
      BY <2>2, <2>3 DEF VaultShape
    <2> QED  BY <1>3, <2>1, <2>2, <2>3, <2>4 DEF Subscriptions
  <1>7. SubscribedTo'
    <2>1. \A i \in Ids : Gone(i)' => Gone(i) /\ i # id
      BY <1>0, <1>3 DEF Gone
    <2>2. \A s \in Reqs : s \in stream \/ req[s].at = "token" => req[s].id \in Ids
      BY DEF Subscriptions, BusyRequests, Busy
    <2> QED  BY <1>0, <2>1, <2>2 DEF SubscribedTo
  <1>8. Keys'
    <2>1. ~keyLost => row[id].key = key
      BY DEF Keys, FileKey, EnvKey, Running
    <2> QED  BY <2>1 DEF Keys, FileKey, EnvKey, UsableKey
  <1> QED  BY <1>1, <1>2, <1>4, <1>5, <1>6, <1>7, <1>8

(* A request stores a row and is answered: the row it worked on, or its own. *)
LEMMA VaultStore ==
  ASSUME VaultInv, VaultShape', NEW r \in Reqs, OthersStay(r), server = "up", NEW id \in Ids,
         UNCHANGED <<UpVars, registry, stream, raced>>,
         NEW new \in RowType, NEW w, row' = [row EXCEPT ![id] = new],
         written' = [written EXCEPT ![id] = w], new.fp \in Prints,
         ~keyLost => new.key = key, id \notin raced => new.pw = w,
         \/ Busy(r) /\ req[r].id = id /\ row[id] # NoRow
         \/ id = r /\ req[r].at \in {"new", "insert"},
         req'[r].at = "ok"
  PROVE  VaultInv'
  <1> USE VaultAssumption DEF VaultInv, OthersStay, UpVars
  <1>0. r \notin stream /\ row[r] = NoRow /\ req[r].op # "delete" /\ req[r].at # "ok"
    BY DEF Subscriptions, Rows, BusyRequests, Busy
  <1>1. /\ row'[id] = new /\ written'[id] = w /\ new # NoRow
        /\ \A i \in Ids : i # id => row'[i] = row[i] /\ written'[i] = written[i]
    BY DEF VaultShape, NoRow
  <1>2. Running'
    BY DEF Running, Pending
  <1>3. Rows'
    BY <1>0, <1>1 DEF Rows
  <1>4. \A q \in Reqs : q # r /\ Busy(q) /\ req[q].id = id => id \in raced
    BY <1>0 DEF BusyRequests, Busy
  <1>5. BusyRequests'
    <2>1. ASSUME NEW s \in Reqs
          PROVE  /\ Busy(s)' => req'[s].id \in Ids /\ (req'[s].id \in Reqs => req'[req'[s].id].at = "ok")
                 /\ req'[s].at \in {"write", "reuse", "insert"} => req'[s].fp \in Prints
                 /\ req'[s].at \in {"reuse", "insert"} => req'[s].pw \in Passwords
                 /\ req'[s].op = "delete" => req'[s].at = "ok"
      BY <1>0 DEF BusyRequests, Busy
    <2>2. ASSUME NEW s \in Reqs, NEW q \in Reqs, Busy(q)', Busy(s)', q # s, req'[q].id = req'[s].id
          PROVE  req'[s].id \in raced'
      BY <2>2 DEF BusyRequests, Busy
    <2>3. ASSUME NEW s \in Reqs, req'[s].at = "write", req'[s].id \notin raced', row'[req'[s].id] # NoRow
          PROVE  req'[s].seen.pw = row'[req'[s].id].pw
      BY <1>1, <1>4, <2>3 DEF BusyRequests, Busy
    <2> QED  BY <2>1, <2>2, <2>3 DEF BusyRequests
  <1>6. EditsSurvive'
    BY <1>1 DEF EditsSurvive, Stored
  <1>7. Subscriptions'
    BY <1>0 DEF Subscriptions, VaultShape
  <1>8. SubscribedTo'
    <2>1. \A i \in Ids : Gone(i)' => Gone(i)
      BY <1>0, <1>1 DEF Gone
    <2>2. \A s \in Reqs : s \in stream \/ req[s].at = "token" => req[s].id \in Ids
      BY DEF Subscriptions, BusyRequests, Busy
    <2> QED  BY <1>0, <2>1, <2>2 DEF SubscribedTo
  <1>9. Keys'
    BY <1>1 DEF Keys, FileKey, EnvKey, UsableKey, Running
  <1> QED  BY <1>2, <1>3, <1>5, <1>6, <1>7, <1>8, <1>9

(* A DELETE, which may leave the row, has been answered: of a request that   *)
(* names itself, or of a removal that has cancelled the subscriptions.       *)
LEMMA VaultErase ==
  ASSUME VaultInv, VaultShape', NEW r \in Reqs, OthersStay(r), server = "up", NEW id \in Ids,
         UNCHANGED <<UpVars, written, registry, stream>>, raced \subseteq raced',
         row' = row \/ row' = [row EXCEPT ![id] = NoRow], req'[r].at = "ok",
         \/ req[r].at = "new" /\ req'[r].op = "delete" /\ req'[r].id = id
         \/ req[r].at = "delete" /\ req[r].id = id
  PROVE  VaultInv'
  <1> USE VaultAssumption DEF VaultInv, OthersStay, UpVars
  <1>0. r \notin stream /\ row[r] = NoRow /\ req[r].op # "delete" /\ req[r].at # "ok"
    BY DEF Subscriptions, Rows, BusyRequests, Busy
  <1>1. \A i \in Ids : row'[i] = row[i] \/ (i = id /\ row'[i] = NoRow)
    BY DEF VaultShape
  <1>2. Running'
    BY DEF Running, Pending
  <1>3. Rows'
    BY <1>0, <1>1 DEF Rows, Ids
  <1>4. BusyRequests'
    <2>1. ASSUME NEW s \in Reqs
          PROVE  /\ Busy(s)' => req'[s].id \in Ids /\ (req'[s].id \in Reqs => req'[req'[s].id].at = "ok")
                 /\ req'[s].at \in {"write", "reuse", "insert"} => req'[s].fp \in Prints
                 /\ req'[s].at \in {"reuse", "insert"} => req'[s].pw \in Passwords
                 /\ req'[s].op = "delete" => req'[s].at = "ok"
      BY <1>0 DEF BusyRequests, Busy
    <2>2. ASSUME NEW s \in Reqs, NEW q \in Reqs, Busy(q)', Busy(s)', q # s, req'[q].id = req'[s].id
          PROVE  req'[s].id \in raced'
      BY <2>2 DEF BusyRequests, Busy
    <2>3. ASSUME NEW s \in Reqs, req'[s].at = "write", req'[s].id \notin raced', row'[req'[s].id] # NoRow
          PROVE  req'[s].seen.pw = row'[req'[s].id].pw
      BY <1>1, <2>3 DEF BusyRequests, Busy
    <2> QED  BY <2>1, <2>2, <2>3 DEF BusyRequests
  <1>5. EditsSurvive'
    BY <1>1 DEF EditsSurvive, Stored
  <1>6. Subscriptions'
    BY <1>0 DEF Subscriptions, VaultShape
  <1>7. SubscribedTo'
    <2>1. \A i \in Ids : Gone(i)' => Gone(i) \/ i = id
      BY <1>0, <1>1 DEF Gone
    <2>2. \A s \in Reqs : s \in stream \/ req[s].at = "token" => req[s].id \in Ids
      BY DEF Subscriptions, BusyRequests, Busy
    <2>3. \A s \in Reqs : s # r /\ (s \in stream \/ req[s].at = "token") /\ req[s].id = id => ~Gone(id)'
      <3>1. CASE req[r].at = "new"
        BY <3>1 DEF Gone
      <3>2. CASE req[r].at = "delete"
        BY <3>2 DEF Gone, Subscriptions, BusyRequests, Busy
      <3> QED  BY <3>1, <3>2
    <2> QED  BY <1>0, <2>1, <2>2, <2>3 DEF SubscribedTo
  <1>8. Keys'
    BY <1>1 DEF Keys, FileKey, EnvKey, UsableKey
  <1> QED  BY <1>2, <1>3, <1>4, <1>5, <1>6, <1>7, <1>8

(* Setting the record of one request.                                        *)
LEMMA SetReq ==
  ASSUME VaultShape, NEW r \in Reqs, NEW rec \in ReqType, req' = [req EXCEPT ![r] = rec]
  PROVE  req' \in [Reqs -> ReqType] /\ req'[r] = rec /\ OthersStay(r)
  BY DEF VaultShape, OthersStay

(* The answer to a request that was under way.                               *)
LEMMA ReplyFields ==
  ASSUME VaultShape, NEW r \in Reqs, NEW a \in {"ok", "failed"}, Reply(r, a)
  PROVE  /\ req' \in [Reqs -> ReqType] /\ OthersStay(r)
         /\ req'[r].op = req[r].op /\ req'[r].at = a /\ req'[r].id = req[r].id
  <1> DEFINE rec == [NewReq EXCEPT !.op = req[r].op, !.at = a, !.id = req[r].id]
  <1>1. req[r].op \in ReqOps /\ a \in ReqStages /\ req[r].id \in Ids \cup {Null}
    BY DEF VaultShape, ReqType, ReqStages
  <1>2. rec \in ReqType /\ rec.op = req[r].op /\ rec.at = a /\ rec.id = req[r].id
    <2>1. NoRow \in RowType
      BY DEF NoRow, RowType
    <2> QED  BY <1>1, <2>1 DEF NewReq, ReqType
  <1>3. req' = [req EXCEPT ![r] = rec]
    BY DEF Reply
  <1> HIDE DEF rec
  <1> QED  BY <1>2, <1>3, SetReq

(* Requests that are refused or answered without touching a connection.      *)
LEMMA VaultRefusals ==
  ASSUME VaultInv, NEW r \in Reqs,
         \/ GateBlocked(r) \/ CanaryRefuses(r) \/ DraftInvalid(r) \/ TargetsInvalid(r)
         \/ RevealCredential(r) \/ CreateTaskCheck(r) \/ UpdateTask(r) \/ DeleteTask(r)
  PROVE  VaultInv'
  <1>0. VaultShape
    BY DEF VaultInv
  <1>1. /\ UNCHANGED <<UpVars, starts, vaultFaults, row, written, registry, stream, raced>>
        /\ server = "up" /\ req[r].at = "new"
    BY DEF GateBlocked, CanaryRefuses, DraftInvalid, TargetsInvalid, Refuse, RevealCredential,
           CreateTaskCheck, UpdateTask, DeleteTask, bootVars, UpVars
  <1>2. PICK op \in {"gated", "create", "register", "subscribe", "reveal", "task", "patch", "drop"},
             at \in {"ok", "failed", "insert_task"}, id \in Ids \cup {Null}, fp \in Ids \cup {Null} :
          \/ req' = [req EXCEPT ![r] = [NewReq EXCEPT !.op = op, !.at = at]]
          \/ req' = [req EXCEPT ![r] = [NewReq EXCEPT !.op = op, !.at = at, !.id = id, !.fp = fp]]
    BY DEF GateBlocked, CanaryRefuses, DraftInvalid, TargetsInvalid, Refuse, RevealCredential,
           CreateTaskCheck, UpdateTask, DeleteTask
  <1>3. op \in ReqOps /\ at \in ReqStages /\ op # "delete" /\ fp \in Prints \cup Ids \cup {Null}
        /\ Null \in Passwords \cup {Null}
    BY DEF ReqOps, ReqStages
  <1>4. PICK rec \in ReqType : rec.op = op /\ rec.at = at /\ req' = [req EXCEPT ![r] = rec]
    <2> DEFINE short == [NewReq EXCEPT !.op = op, !.at = at]
               long == [NewReq EXCEPT !.op = op, !.at = at, !.id = id, !.fp = fp]
    <2>1. /\ short \in ReqType /\ short.op = op /\ short.at = at
          /\ long \in ReqType /\ long.op = op /\ long.at = at
      <3>1. NoRow \in RowType
        BY DEF NoRow, RowType
      <3> QED  BY <1>3, <3>1 DEF NewReq, ReqType
    <2>2. req' = [req EXCEPT ![r] = short] \/ req' = [req EXCEPT ![r] = long]
      BY <1>2
    <2> HIDE DEF short, long
    <2> QED  BY <2>1, <2>2
  <1>5. req' \in [Reqs -> ReqType] /\ OthersStay(r) /\ req'[r].op = op /\ req'[r].at = at
    BY <1>0, <1>4, SetReq
  <1>6. VaultShape'
    BY <1>0, <1>1, <1>5 DEF VaultShape, UpVars
  <1> QED  BY <1>1, <1>3, <1>5, <1>6, VaultQuiet

(* Requests that read a connection and go on to work on it.                  *)
LEMMA VaultReads ==
  ASSUME VaultInv, NEW r \in Reqs,
         UpdateRead(r) \/ RevokeSubscriptions(r) \/ RegisterLookup(r) \/ SubscribeOpen(r)
  PROVE  VaultInv'
  <1> USE VaultAssumption
  <1>0. VaultShape /\ NoRow \in RowType
    BY DEF VaultInv, NoRow, RowType
  <1>1. /\ UNCHANGED <<UpVars, starts, row, written>>
        /\ server = "up" /\ req[r].at = "new"
    BY DEF UpdateRead, RevokeSubscriptions, RegisterLookup, SubscribeOpen, bootVars, UpVars
  <1>2. CASE UpdateRead(r)
    <2>1. PICK id \in Ids, fp \in Prints, pw \in Passwords \cup {Null} :
            /\ row[id] # NoRow /\ Overlap(r, id)
            /\ req' = [req EXCEPT ![r] = [op |-> "update", at |-> "write", id |-> id, fp |-> fp,
                                          pw |-> pw, seen |-> row[id]]]
      BY <1>2 DEF UpdateRead, Stored
    <2> DEFINE rec == [op |-> "update", at |-> "write", id |-> id, fp |-> fp, pw |-> pw, seen |-> row[id]]
    <2>2. /\ rec \in ReqType /\ rec.op = "update" /\ rec.at = "write" /\ rec.id = id
          /\ rec.fp = fp /\ rec.seen = row[id]
      BY <1>0, <2>1 DEF VaultShape, ReqType, ReqOps, ReqStages
    <2> HIDE DEF rec
    <2>3. req' \in [Reqs -> ReqType] /\ OthersStay(r) /\ req'[r] = rec
      BY <1>0, <2>1, <2>2, SetReq DEF rec
    <2>4. UNCHANGED <<registry, stream, vaultFaults>> /\ raced' \subseteq Ids
      BY <1>0, <1>2, <2>1 DEF UpdateRead, Overlap, VaultShape
    <2>5. VaultShape'
      BY <1>0, <1>1, <2>3, <2>4 DEF VaultShape, UpVars
    <2> QED  BY <1>1, <2>1, <2>2, <2>3, <2>4, <2>5, VaultBegin
  <1>3. CASE RevokeSubscriptions(r)
    <2>1. PICK id \in Ids :
            /\ row[id] # NoRow /\ Overlap(r, id)
            /\ stream' = stream \ registry[id] /\ registry' = [registry EXCEPT ![id] = {}]
            /\ req' = [req EXCEPT ![r] = [NewReq EXCEPT !.op = "remove", !.at = "delete", !.id = id]]
      BY <1>3 DEF RevokeSubscriptions, Stored, Revoked
    <2> DEFINE rec == [NewReq EXCEPT !.op = "remove", !.at = "delete", !.id = id]
    <2>2. rec \in ReqType /\ rec.op = "remove" /\ rec.at = "delete" /\ rec.id = id
      BY <1>0 DEF NewReq, ReqType, ReqOps, ReqStages
    <2> HIDE DEF rec
    <2>3. req' \in [Reqs -> ReqType] /\ OthersStay(r) /\ req'[r] = rec
      BY <1>0, <2>1, <2>2, SetReq DEF rec
    <2>4. /\ raced' \subseteq Ids /\ vaultFaults' = vaultFaults
          /\ registry' \in [Ids -> SUBSET Reqs] /\ stream' \subseteq Reqs
      BY <1>0, <1>3, <2>1 DEF RevokeSubscriptions, Overlap, VaultShape
    <2>5. VaultShape'
      BY <1>0, <1>1, <2>3, <2>4 DEF VaultShape, UpVars
    <2> QED  BY <1>1, <2>1, <2>2, <2>3, <2>5, VaultBegin
  <1>4. CASE SubscribeOpen(r)
    <2>1. PICK id \in Ids :
            /\ row[id] # NoRow /\ Overlap(r, id)
            /\ req' = [req EXCEPT ![r] = [NewReq EXCEPT !.op = "subscribe", !.at = "token", !.id = id]]
      BY <1>4 DEF SubscribeOpen, Stored
    <2> DEFINE rec == [NewReq EXCEPT !.op = "subscribe", !.at = "token", !.id = id]
    <2>2. rec \in ReqType /\ rec.op = "subscribe" /\ rec.at = "token" /\ rec.id = id
      BY <1>0 DEF NewReq, ReqType, ReqOps, ReqStages
    <2> HIDE DEF rec
    <2>3. req' \in [Reqs -> ReqType] /\ OthersStay(r) /\ req'[r] = rec
      BY <1>0, <2>1, <2>2, SetReq DEF rec
    <2>4. UNCHANGED <<registry, stream, vaultFaults>> /\ raced' \subseteq Ids
      BY <1>0, <1>4, <2>1 DEF SubscribeOpen, Overlap, VaultShape
    <2>5. VaultShape'
      BY <1>0, <1>1, <2>3, <2>4 DEF VaultShape, UpVars
    <2> QED  BY <1>1, <2>1, <2>2, <2>3, <2>4, <2>5, VaultBegin
  <1>5. CASE RegisterLookup(r)
    <2> DEFINE Rec(at, id, fp, pw) == [NewReq EXCEPT !.op = "register", !.at = at,
                                                      !.id = id, !.fp = fp, !.pw = pw]
    <2>1. PICK fp \in Prints, pw \in Passwords :
            \/ \E i \in Ids : /\ row[i] # NoRow /\ Overlap(r, i) /\ UNCHANGED vaultFaults
                              /\ req' = [req EXCEPT ![r] = Rec("reuse", i, fp, pw)]
            \/ /\ req' = [req EXCEPT ![r] = Rec("insert", Null, fp, pw)] /\ raced' = raced
               /\ vaultFaults' \in {vaultFaults, vaultFaults + 1}
      BY <1>5 DEF RegisterLookup, Stored, Failing
    <2>2. \A i \in Ids \cup {Null} : \A at \in {"reuse", "insert"} :
            /\ Rec(at, i, fp, pw) \in ReqType /\ Rec(at, i, fp, pw).op = "register"
            /\ Rec(at, i, fp, pw).at = at /\ Rec(at, i, fp, pw).id = i
            /\ Rec(at, i, fp, pw).fp = fp /\ Rec(at, i, fp, pw).pw = pw
      BY <1>0 DEF NewReq, ReqType, ReqOps, ReqStages
    <2>3. UNCHANGED <<registry, stream>>
      BY <1>5 DEF RegisterLookup
    <2> HIDE DEF Rec
    <2>4. ASSUME NEW i \in Ids, row[i] # NoRow, Overlap(r, i), UNCHANGED vaultFaults,
                 req' = [req EXCEPT ![r] = Rec("reuse", i, fp, pw)]
          PROVE  VaultInv'
      <3>1. req' \in [Reqs -> ReqType] /\ OthersStay(r) /\ req'[r] = Rec("reuse", i, fp, pw)
        BY <1>0, <2>2, <2>4, SetReq
      <3>2. raced' \subseteq Ids
        BY <1>0, <2>4 DEF Overlap, VaultShape
      <3>3. VaultShape'
        BY <1>0, <1>1, <2>3, <2>4, <3>1, <3>2 DEF VaultShape, UpVars
      <3>4. /\ req'[r].at = "reuse" /\ req'[r].id = i /\ req'[r].op = "register"
            /\ req'[r].fp \in Prints /\ req'[r].pw \in Passwords
        BY <2>2, <3>1
      <3> QED  BY <1>1, <2>3, <2>4, <3>1, <3>3, <3>4, VaultBegin
    <2>5. ASSUME req' = [req EXCEPT ![r] = Rec("insert", Null, fp, pw)], raced' = raced,
                 vaultFaults' \in {vaultFaults, vaultFaults + 1}
          PROVE  VaultInv'
      <3>1. req' \in [Reqs -> ReqType] /\ OthersStay(r) /\ req'[r] = Rec("insert", Null, fp, pw)
        BY <1>0, <2>2, <2>5, SetReq
      <3>2. VaultShape'
        BY <1>0, <1>1, <2>3, <2>5, <3>1 DEF VaultShape, UpVars
      <3>3. /\ req'[r].at = "insert" /\ req'[r].op = "register"
            /\ req'[r].fp \in Prints /\ req'[r].pw \in Passwords
        BY <2>2, <3>1
      <3> QED  BY <1>1, <2>3, <2>5, <3>1, <3>2, <3>3, VaultQuiet
    <2> QED  BY <2>1, <2>4, <2>5
  <1> QED  BY <1>2, <1>3, <1>4, <1>5

(* Requests that store a row, or fail to.                                    *)
LEMMA VaultWrites ==
  ASSUME VaultInv, NEW r \in Reqs,
         CreateConnection(r) \/ UpdateWrite(r) \/ RegisterReuse(r) \/ RegisterInsert(r)
  PROVE  VaultInv'
  <1> USE VaultAssumption
  <1>0. VaultShape /\ NoRow \in RowType /\ r \in Ids
    BY DEF VaultInv, NoRow, RowType, Ids
  <1>1. /\ UNCHANGED <<UpVars, starts, registry, stream, raced>>
        /\ server = "up" /\ req[r].at \notin {"ok", "failed"} /\ vaultFaults' \in Nat
    <2>1. UNCHANGED <<UpVars, starts, registry, stream, raced>>
      BY DEF CreateConnection, UpdateWrite, RegisterReuse, RegisterInsert, bootVars, UpVars
    <2>2. vaultFaults' \in Nat
      BY <1>0 DEF CreateConnection, UpdateWrite, RegisterReuse, RegisterInsert, Failing, VaultShape
    <2>3. CASE CreateConnection(r)
      BY <2>1, <2>2, <2>3 DEF CreateConnection
    <2>4. CASE UpdateWrite(r) \/ RegisterReuse(r) \/ RegisterInsert(r)
      BY <2>1, <2>2, <2>4 DEF UpdateWrite, RegisterReuse, RegisterInsert, VaultInv, Running, Pending
    <2> QED  BY <2>3, <2>4
  (* The statement fails, or meets no row, and the request is over. *)
  <1>2. ASSUME UNCHANGED <<row, written>>, NEW a \in {"ok", "failed"}, Reply(r, a),
               req[r].op # "delete"
        PROVE  VaultInv'
    <2>1. req' \in [Reqs -> ReqType] /\ OthersStay(r) /\ req'[r].op = req[r].op /\ req'[r].at = a
      BY <1>0, <1>2, ReplyFields
    <2>2. VaultShape'
      BY <1>0, <1>1, <1>2, <2>1 DEF VaultShape, UpVars
    <2> QED  BY <1>1, <1>2, <2>1, <2>2, VaultQuiet
  (* A row is stored and the request is over. *)
  <1>3. ASSUME NEW id \in Ids, NEW new \in RowType, NEW w \in Passwords \cup {Null},
               row' = [row EXCEPT ![id] = new], written' = [written EXCEPT ![id] = w],
               new.fp \in Prints, ~keyLost => new.key = key, id \notin raced => new.pw = w,
               \/ Busy(r) /\ req[r].id = id /\ row[id] # NoRow
               \/ id = r /\ req[r].at \in {"new", "insert"},
               req' \in [Reqs -> ReqType], OthersStay(r), req'[r].at = "ok"
        PROVE  VaultInv'
    <2>1. row' \in [Ids -> RowType] /\ written' \in [Ids -> Passwords \cup {Null}]
      BY <1>0, <1>3 DEF VaultShape
    <2>2. VaultShape'
      BY <1>0, <1>1, <1>3, <2>1 DEF VaultShape, UpVars
    <2> QED  BY <1>1, <1>3, <2>2, VaultStore
  <1>4. CASE CreateConnection(r)
    <2>1. PICK fp \in Prints, pw \in Passwords :
            \/ /\ row' = [row EXCEPT ![r] = Row(fp, pw, key)]
               /\ written' = [written EXCEPT ![r] = pw]
               /\ req' = [req EXCEPT ![r] = [NewReq EXCEPT !.op = "create", !.at = "ok", !.id = r]]
            \/ /\ req' = [req EXCEPT ![r] = [NewReq EXCEPT !.op = "create", !.at = "failed"]]
               /\ UNCHANGED <<row, written>>
      BY <1>4 DEF CreateConnection
    <2> DEFINE good == [NewReq EXCEPT !.op = "create", !.at = "ok", !.id = r]
               bad == [NewReq EXCEPT !.op = "create", !.at = "failed"]
    <2>2. good \in ReqType /\ good.at = "ok" /\ bad \in ReqType /\ bad.at = "failed" /\ bad.op = "create"
      BY <1>0 DEF NewReq, ReqType, ReqOps, ReqStages
    <2>3. /\ Row(fp, pw, key) \in RowType /\ Row(fp, pw, key).fp = fp
          /\ Row(fp, pw, key).pw = pw /\ Row(fp, pw, key).key = key
      BY <1>0 DEF Row, RowType, VaultShape
    <2> HIDE DEF good, bad
    <2>4. CASE UNCHANGED <<row, written>> /\ req' = [req EXCEPT ![r] = bad]
      <3>1. req' \in [Reqs -> ReqType] /\ OthersStay(r) /\ req'[r] = bad
        BY <1>0, <2>2, <2>4, SetReq
      <3>2. VaultShape'
        BY <1>0, <1>1, <2>4, <3>1 DEF VaultShape, UpVars
      <3> QED  BY <1>1, <2>2, <2>4, <3>1, <3>2, VaultQuiet
    <2>5. CASE /\ row' = [row EXCEPT ![r] = Row(fp, pw, key)]
               /\ written' = [written EXCEPT ![r] = pw] /\ req' = [req EXCEPT ![r] = good]
      <3>1. req' \in [Reqs -> ReqType] /\ OthersStay(r) /\ req'[r] = good
        BY <1>0, <2>2, <2>5, SetReq
      <3>2. req[r].at = "new"
        BY <1>4 DEF CreateConnection
      <3> QED  BY <1>0, <1>3, <2>2, <2>3, <2>5, <3>1, <3>2
    <2> QED  BY <2>1, <2>4, <2>5 DEF good, bad
  <1>5. CASE UpdateWrite(r)
    <2> DEFINE id == req[r].id
               w == IF req[r].pw = Null THEN written[id] ELSE req[r].pw
    <2>1. /\ req[r].at = "write" /\ req[r].op = "update" /\ id \in Ids /\ req[r].fp \in Prints
          /\ req[r].seen \in RowType /\ req[r].pw \in Passwords \cup {Null}
      BY <1>0, <1>5 DEF UpdateWrite, VaultInv, BusyRequests, Busy, VaultShape, ReqType
    <2>2. CASE \E a \in {"ok", "failed"} : Reply(r, a) /\ UNCHANGED <<row, written>>
      BY <1>2, <2>1, <2>2
    <2>3. CASE /\ row[id] # NoRow /\ row' = [row EXCEPT ![id] = Merged(r)] /\ Reply(r, "ok")
               /\ written' = IF req[r].pw = Null THEN written ELSE [written EXCEPT ![id] = req[r].pw]
      <3>1. Merged(r) \in RowType /\ Merged(r).fp \in Prints
        <4>1. CASE req[r].pw = Null
          BY <2>1, <4>1 DEF Merged, RowType
        <4>2. CASE req[r].pw # Null
          BY <1>0, <2>1, <4>2 DEF Merged, Row, RowType, VaultShape
        <4> QED  BY <4>1, <4>2
      <3>2. ~keyLost => Merged(r).key = key
        BY <2>1 DEF Merged, Row, RowType, VaultInv, Keys
      <3>3. id \notin raced => Merged(r).pw = w
        <4>1. id \notin raced => req[r].seen.pw = row[id].pw /\ row[id].pw = written[id]
          BY <2>1, <2>3 DEF VaultInv, BusyRequests, EditsSurvive, Stored
        <4> QED  BY <2>1, <4>1 DEF Merged, Row, RowType
      <3>4. w \in Passwords \cup {Null} /\ written' = [written EXCEPT ![id] = w]
        BY <1>0, <2>1, <2>3 DEF VaultShape
      <3>5. req' \in [Reqs -> ReqType] /\ OthersStay(r) /\ req'[r].at = "ok"
        BY <1>0, <2>3, ReplyFields
      <3>6. Busy(r)
        BY <2>1 DEF Busy
      <3> HIDE DEF w
      <3> QED  BY <1>3, <2>1, <2>3, <3>1, <3>2, <3>3, <3>4, <3>5, <3>6
    <2> QED  BY <1>5, <2>2, <2>3 DEF UpdateWrite, Stored
  <1>6. CASE RegisterReuse(r)
    <2> DEFINE id == req[r].id
               new == [[row[id] EXCEPT !.pw = req[r].pw] EXCEPT !.key = key]
    <2>1. /\ req[r].at = "reuse" /\ req[r].op = "register" /\ id \in Ids /\ row[id] \in RowType
          /\ req[r].pw \in Passwords /\ req[r].fp \in Prints /\ key \in Nat
      BY <1>0, <1>6 DEF RegisterReuse, VaultInv, BusyRequests, Busy, VaultShape
    <2>2. CASE Reply(r, "ok") /\ UNCHANGED <<row, written>>
      BY <1>2, <2>1, <2>2
    <2>3. CASE req' = [req EXCEPT ![r].at = "insert"] /\ UNCHANGED <<row, written>>
      <3>1. req' = [req EXCEPT ![r] = [req[r] EXCEPT !.at = "insert"]]
        BY <2>3
      <3>2. /\ [req[r] EXCEPT !.at = "insert"] \in ReqType
            /\ [req[r] EXCEPT !.at = "insert"].at = "insert"
            /\ [req[r] EXCEPT !.at = "insert"].op = req[r].op
            /\ [req[r] EXCEPT !.at = "insert"].fp = req[r].fp
            /\ [req[r] EXCEPT !.at = "insert"].pw = req[r].pw
        BY <1>0 DEF VaultShape, ReqType, ReqStages
      <3>3. /\ req' \in [Reqs -> ReqType] /\ OthersStay(r) /\ req'[r].at = "insert"
            /\ req'[r].op = req[r].op /\ req'[r].fp = req[r].fp /\ req'[r].pw = req[r].pw
        BY <1>0, <3>1, <3>2, SetReq
      <3>4. VaultShape'
        BY <1>0, <1>1, <2>3, <3>3 DEF VaultShape, UpVars
      <3> QED  BY <1>1, <2>1, <2>3, <3>3, <3>4, VaultQuiet
    <2>4. CASE /\ row[id] # NoRow /\ row' = [row EXCEPT ![id].pw = req[r].pw, ![id].key = key]
               /\ written' = [written EXCEPT ![id] = req[r].pw] /\ Reply(r, "ok")
      <3>1. row' = [row EXCEPT ![id] = new]
        BY <1>0, <2>1, <2>4 DEF VaultShape, RowType
      <3>2. new \in RowType /\ new.fp = row[id].fp /\ new.pw = req[r].pw /\ new.key = key
        BY <2>1 DEF RowType
      <3>3. row[id].fp \in Prints
        BY <2>1, <2>4 DEF VaultInv, Rows
      <3>4. req' \in [Reqs -> ReqType] /\ OthersStay(r) /\ req'[r].at = "ok"
        BY <1>0, <2>4, ReplyFields
      <3>5. Busy(r)
        BY <2>1 DEF Busy
      <3> HIDE DEF new
      <3> QED  BY <1>3, <2>1, <2>4, <3>1, <3>2, <3>3, <3>4, <3>5
    <2> QED  BY <1>6, <2>2, <2>3, <2>4 DEF RegisterReuse, Stored
  <1>7. CASE RegisterInsert(r)
    <2> DEFINE new == Row(req[r].fp, req[r].pw, key)
    <2>1. /\ req[r].at = "insert" /\ req[r].op = "register"
          /\ req[r].pw \in Passwords /\ req[r].fp \in Prints /\ key \in Nat
      BY <1>0, <1>7 DEF RegisterInsert, VaultInv, BusyRequests, VaultShape
    <2>2. CASE Reply(r, "failed") /\ UNCHANGED <<row, written>>
      BY <1>2, <2>1, <2>2
    <2>3. CASE /\ row' = [row EXCEPT ![r] = new] /\ written' = [written EXCEPT ![r] = req[r].pw]
               /\ Reply(r, "ok")
      <3>1. new \in RowType /\ new.fp = req[r].fp /\ new.pw = req[r].pw /\ new.key = key
        BY <2>1 DEF Row, RowType
      <3>2. req' \in [Reqs -> ReqType] /\ OthersStay(r) /\ req'[r].at = "ok"
        BY <1>0, <2>3, ReplyFields
      <3> HIDE DEF new
      <3> QED  BY <1>0, <1>3, <2>1, <2>3, <3>1, <3>2
    <2> QED  BY <1>7, <2>2, <2>3 DEF RegisterInsert
  <1> QED  BY <1>4, <1>5, <1>6, <1>7

(* DELETE through either door.                                               *)
LEMMA VaultDeletes ==
  ASSUME VaultInv, NEW r \in Reqs, DeleteConnection(r) \/ RemoveConnection(r)
  PROVE  VaultInv'
  <1> USE VaultAssumption
  <1>0. VaultShape /\ NoRow \in RowType
    BY DEF VaultInv, NoRow, RowType
  <1>1. UNCHANGED <<UpVars, starts, registry, stream, written>> /\ server = "up"
    BY DEF DeleteConnection, RemoveConnection, bootVars, UpVars, VaultInv, Running, Pending
  <1>2. ASSUME NEW id \in Ids, DeleteStatement(id)
        PROVE  /\ row' = row \/ row' = [row EXCEPT ![id] = NoRow]
               /\ row' \in [Ids -> RowType] /\ vaultFaults' \in Nat
    BY <1>0, <1>2 DEF DeleteStatement, Deleted, Failing, VaultShape
  <1>3. CASE DeleteConnection(r)
    <2>1. PICK id \in Ids :
            /\ DeleteStatement(id) /\ Overlap(r, id)
            /\ req' = [req EXCEPT ![r] = [NewReq EXCEPT !.op = "delete", !.at = "ok", !.id = id]]
      BY <1>3 DEF DeleteConnection
    <2> DEFINE rec == [NewReq EXCEPT !.op = "delete", !.at = "ok", !.id = id]
    <2>2. rec \in ReqType /\ rec.op = "delete" /\ rec.at = "ok" /\ rec.id = id
      BY <1>0 DEF NewReq, ReqType, ReqOps, ReqStages
    <2> HIDE DEF rec
    <2>3. req' \in [Reqs -> ReqType] /\ OthersStay(r) /\ req'[r] = rec
      BY <1>0, <2>1, <2>2, SetReq DEF rec
    <2>4. raced \subseteq raced' /\ raced' \subseteq Ids
      BY <1>0, <2>1 DEF Overlap, VaultShape
    <2>5. VaultShape'
      BY <1>0, <1>1, <1>2, <2>1, <2>3, <2>4 DEF VaultShape, UpVars
    <2>6. req[r].at = "new"
      BY <1>3 DEF DeleteConnection
    <2> QED  BY <1>1, <1>2, <2>1, <2>2, <2>3, <2>4, <2>5, <2>6, VaultErase
  <1>4. CASE RemoveConnection(r)
    <2> DEFINE id == req[r].id
    <2>1. req[r].at = "delete" /\ DeleteStatement(id) /\ Reply(r, "ok") /\ raced' = raced
      BY <1>4 DEF RemoveConnection
    <2>2. id \in Ids
      BY <2>1 DEF VaultInv, BusyRequests, Busy
    <2>3. req' \in [Reqs -> ReqType] /\ OthersStay(r) /\ req'[r].at = "ok"
      BY <1>0, <2>1, ReplyFields
    <2>4. VaultShape'
      BY <1>0, <1>1, <1>2, <2>1, <2>2, <2>3 DEF VaultShape, UpVars
    <2> QED  BY <1>1, <1>2, <2>1, <2>2, <2>3, <2>4, VaultErase
  <1> QED  BY <1>3, <1>4

(* The INSERT of a task, and the two ends of a subscription.                 *)
LEMMA VaultEnds ==
  ASSUME VaultInv, NEW r \in Reqs, CreateTaskInsert(r) \/ SubscribeRegister(r) \/ Unsubscribe(r)
  PROVE  VaultInv'
  <1> USE VaultAssumption
  <1>0. VaultShape
    BY DEF VaultInv
  <1>1. UNCHANGED <<UpVars, starts, row, written, raced>> /\ server = "up"
    BY DEF CreateTaskInsert, SubscribeRegister, Unsubscribe, bootVars, UpVars, VaultInv, Running,
           Pending
  <1>2. CASE CreateTaskInsert(r)
    <2>1. PICK a \in {"ok", "failed"} : Reply(r, a)
      BY <1>2 DEF CreateTaskInsert
    <2>2. /\ req[r].op = "task" /\ req[r].at = "insert_task" /\ UNCHANGED <<registry, stream>>
          /\ vaultFaults' \in Nat
      BY <1>0, <1>2 DEF CreateTaskInsert, Failing, VaultShape
    <2>3. req' \in [Reqs -> ReqType] /\ OthersStay(r) /\ req'[r].op = "task" /\ req'[r].at = a
      BY <1>0, <2>1, <2>2, ReplyFields
    <2>4. VaultShape'
      BY <1>0, <1>1, <2>2, <2>3 DEF VaultShape, UpVars
    <2> QED  BY <1>1, <2>2, <2>3, <2>4, VaultQuiet
  <1>3. CASE SubscribeRegister(r)
    <2> DEFINE id == req[r].id
    <2>1. /\ req[r].at = "token" /\ req[r].op = "subscribe" /\ Reply(r, "ok")
          /\ registry' = [registry EXCEPT ![id] = @ \cup {r}] /\ stream' = stream \cup {r}
          /\ vaultFaults' = vaultFaults
      BY <1>3 DEF SubscribeRegister
    <2>2. id \in Ids /\ r \notin stream /\ row[r] = NoRow
      BY <2>1 DEF VaultInv, BusyRequests, Busy, Subscriptions, Rows
    <2>3. /\ req' \in [Reqs -> ReqType] /\ OthersStay(r) /\ req'[r].at = "ok"
          /\ req'[r].id = id /\ req'[r].op = "subscribe"
      BY <1>0, <2>1, ReplyFields
    <2>4. /\ registry' \in [Ids -> SUBSET Reqs] /\ r \in registry'[id]
          /\ \A i \in Ids : registry[i] \subseteq registry'[i]
      BY <1>0, <2>1, <2>2 DEF VaultShape
    <2>5. VaultShape'
      BY <1>0, <1>1, <2>1, <2>3, <2>4 DEF VaultShape, UpVars
    <2> HIDE DEF id
    <2>6. Running' /\ EditsSurvive'
      BY <1>0, <1>1, <2>1, <2>3 DEF VaultInv, Running, Pending, EditsSurvive, Stored, UpVars,
                                    OthersStay, VaultShape
    <2>7. Rows' /\ BusyRequests'
      BY <1>1, <2>1, <2>2, <2>3 DEF VaultInv, Rows, BusyRequests, Busy, OthersStay
    <2>8. Subscriptions'
      <3>1. \A q \in Reqs : q # r /\ req[q].at = "delete" /\ req[q].id = id => id \in raced
        BY <2>1 DEF VaultInv, BusyRequests, Busy, id
      <3>2. \A s \in stream' : s \in Reqs /\ (s # r => s \in stream)
        BY <1>0, <2>1 DEF VaultShape
      <3> QED  BY <1>1, <2>2, <2>3, <2>4, <3>1, <3>2 DEF VaultInv, Subscriptions, OthersStay
    <2>9. SubscribedTo'
      <3>1. \A i \in Ids : Gone(i)' => Gone(i)
        BY <1>1, <2>1, <2>3 DEF Gone, OthersStay, VaultInv
      <3>2. \A s \in Reqs : s \in stream \/ req[s].at = "token" => req[s].id \in Ids
        BY DEF VaultInv, Subscriptions, BusyRequests, Busy
      <3> QED  BY <2>1, <2>2, <2>3, <3>1, <3>2 DEF VaultInv, SubscribedTo, OthersStay, id
    <2>10. Keys'
      BY <1>1, <2>3 DEF VaultInv, Keys, FileKey, EnvKey, UsableKey, UpVars, OthersStay
    <2> QED  BY <2>5, <2>6, <2>7, <2>8, <2>9, <2>10 DEF VaultInv
  <1>4. CASE Unsubscribe(r)
    <2>1. stream' = stream \ {r} /\ UNCHANGED <<registry, req, vaultFaults>>
      BY <1>4 DEF Unsubscribe
    <2>2. VaultShape'
      BY <1>0, <1>1, <2>1 DEF VaultShape, UpVars
    <2>3. Running' /\ Rows' /\ EditsSurvive'
      BY <1>1, <2>1 DEF VaultInv, Running, Pending, Rows, EditsSurvive, Stored, UpVars
    <2>4. BusyRequests' /\ Subscriptions' /\ SubscribedTo'
      BY <1>1, <2>1 DEF VaultInv, BusyRequests, Busy, Subscriptions, SubscribedTo, Gone
    <2>5. Keys'
      BY <1>1, <2>1 DEF VaultInv, Keys, FileKey, EnvKey, UsableKey, UpVars
    <2> QED  BY <2>2, <2>3, <2>4, <2>5 DEF VaultInv
  <1> QED  BY <1>2, <1>3, <1>4

(* The boot: no request and no subscription is there, only rows and keys.    *)
LEMMA VaultBootPreserves ==
  ASSUME VaultInv,
         LoadKey \/ CreateKey \/ OpenDatabase \/ Migrated \/ \E i \in Ids : MigrateRow(i)
  PROVE  VaultInv'
  <1> USE VaultAssumption
  <1>0. VaultShape /\ NoRow \in RowType
    BY DEF VaultInv, NoRow, RowType
  <1>1. /\ UNCHANGED <<local, registry, stream, req, raced>> /\ server # "up"
        /\ ~keyLost' => ~keyLost
    BY <1>0 DEF LoadKey, CreateKey, OpenDatabase, Migrated, MigrateRow, rowVars, bootVars, VaultShape
  <1>2. stream = {} /\ \A r \in Reqs : req[r].at \in {"new", "ok", "failed"}
    BY <1>0, <1>1 DEF VaultInv, Running, Pending, VaultShape
  <1>3. \A i \in Ids :
          \/ row'[i] = row[i] /\ written'[i] = written[i]
          \/ row'[i] = NoRow
          \/ /\ row'[i].fp = row[i].fp /\ row'[i].pw = row[i].pw /\ row[i] # NoRow
             /\ written'[i] = written[i]
    <2>1. CASE LoadKey \/ CreateKey \/ Migrated
      BY <2>1 DEF LoadKey, CreateKey, Migrated, rowVars
    <2>2. CASE OpenDatabase
      BY <2>2 DEF OpenDatabase
    <2>3. CASE \E i \in Ids : MigrateRow(i)
      BY <1>0, <2>3 DEF MigrateRow, Legacy, Stored, VaultShape, RowType
    <2> QED  BY <2>1, <2>2, <2>3
  <1>4. row' \in [Ids -> RowType] /\ written' \in [Ids -> Passwords \cup {Null}]
    <2>1. CASE LoadKey \/ CreateKey \/ Migrated
      BY <1>0, <2>1 DEF LoadKey, CreateKey, Migrated, rowVars, VaultShape
    <2>2. CASE OpenDatabase
      BY <1>0, <2>2 DEF OpenDatabase, VaultShape
    <2>3. CASE \E i \in Ids : MigrateRow(i)
      <3>1. PICK i \in Ids : MigrateRow(i)
        BY <2>3
      <3>2. [row[i] EXCEPT !.key = key] \in RowType
        BY <1>0 DEF VaultShape, RowType
      <3>3. row' = [row EXCEPT ![i] = [row[i] EXCEPT !.key = key]] /\ written' = written
        BY <3>1 DEF MigrateRow
      <3> QED  BY <1>0, <3>2, <3>3 DEF VaultShape
    <2> QED  BY <2>1, <2>2, <2>3
  <1>5. VaultShape'
    <2>1. /\ starts' \in Nat /\ vaultFaults' \in Nat /\ key' \in Nat /\ keyFile' \in Nat
          /\ server' \in {"down", "create_key", "write_key", "database", "migrate", "up"}
      BY <1>0 DEF LoadKey, CreateKey, OpenDatabase, Migrated, MigrateRow, Failing, rowVars, bootVars,
                  VaultShape, Env, Torn
    <2>2. keyLost' \in BOOLEAN
      BY <1>0 DEF LoadKey, CreateKey, OpenDatabase, Migrated, MigrateRow, bootVars, VaultShape
    <2> QED  BY <1>0, <1>1, <1>4, <2>1, <2>2 DEF VaultShape
  <1>6. Running'
    <2>1. IF local THEN server' # "migrate" ELSE server' \in {"down", "migrate", "up"}
      BY DEF VaultInv, Running, LoadKey, CreateKey, OpenDatabase, Migrated, MigrateRow, bootVars
    <2> QED  BY <1>1, <1>2, <2>1 DEF Running, Pending
  <1>7. Rows'
    <2>1. \A i \in Ids : row'[i] = NoRow \/ row'[i].fp \in Prints
      BY <1>3 DEF VaultInv, Rows
    <2>2. \A i \in Ids : row'[i] # NoRow => row[i] # NoRow
      BY <1>3
    <2> QED  BY <1>1, <2>1, <2>2 DEF VaultInv, Rows, Ids
  <1>8. BusyRequests' /\ Subscriptions' /\ SubscribedTo'
    BY <1>1, <1>2 DEF VaultInv, BusyRequests, Busy, Subscriptions, SubscribedTo
  <1>9. EditsSurvive'
    BY <1>1, <1>3 DEF VaultInv, EditsSurvive, Stored
  <1>10. ASSUME ~keyLost', local PROVE FileKey'
    <2>0. FileKey
      BY <1>1, <1>10 DEF VaultInv, Keys
    <2>1. CASE LoadKey
      <3>1. row' = row /\ keyFile' = keyFile
        BY <2>1 DEF LoadKey, rowVars
      <3>2. \/ UsableKey(keyFile) /\ key' = keyFile /\ server' = "database"
            \/ ~UsableKey(keyFile) /\ key' = starts + 1 /\ server' = "create_key"
        BY <1>10, <2>1 DEF LoadKey
      <3>3. UsableKey(starts + 1)
        BY <1>0, <2>1 DEF LoadKey, Trouble, UsableKey, VaultShape
      <3> QED  BY <2>0, <3>1, <3>2, <3>3 DEF FileKey, UsableKey
    <2>2. CASE CreateKey
      <3>1. row' = row /\ key' = key /\ ~UsableKey(keyFile) /\ UsableKey(key)
        BY <2>0, <2>2 DEF CreateKey, rowVars, FileKey
      <3>2. \A i \in Ids : row[i] = NoRow
        BY <2>0, <3>1 DEF FileKey
      <3>3. \/ keyFile' = Torn /\ server' = "write_key"
            \/ keyFile' = key /\ server' = "database"
        BY <1>10, <2>2 DEF CreateKey
      <3>4. ~UsableKey(Torn)
        BY DEF UsableKey, Torn
      <3> QED  BY <3>1, <3>2, <3>3, <3>4 DEF FileKey, UsableKey
    <2>3. CASE OpenDatabase
      <3>1. UNCHANGED <<key, keyFile>> /\ server = "database" /\ server' = "up"
        BY <2>3 DEF OpenDatabase
      <3>2. \A i \in Ids : row'[i] # NoRow => row'[i] = row[i]
        BY <2>3 DEF OpenDatabase
      <3> QED  BY <2>0, <3>1, <3>2 DEF FileKey, UsableKey
    <2>4. CASE Migrated \/ \E i \in Ids : MigrateRow(i)
      BY <1>10, <2>4 DEF Migrated, MigrateRow, VaultInv, Running
    <2> QED  BY <2>1, <2>2, <2>3, <2>4
  <1>11. ASSUME ~keyLost', ~local PROVE EnvKey'
    <2>0. EnvKey
      BY <1>1, <1>11 DEF VaultInv, Keys
    <2>1. CASE LoadKey
      <3>1. row' = row /\ key' = Env /\ server' = "migrate"
        BY <1>11, <2>1 DEF LoadKey, rowVars
      <3> QED  BY <2>0, <3>1 DEF EnvKey, Env, Plain
    <2>2. CASE CreateKey \/ OpenDatabase
      BY <1>11, <2>2 DEF CreateKey, OpenDatabase, VaultInv, Running
    <2>3. CASE Migrated
      <3>1. \A i \in Ids : row[i] # NoRow => row[i].key # Plain
        BY <2>3 DEF Migrated, Legacy, Stored
      <3>2. row' = row /\ key' = key
        BY <2>3 DEF Migrated, rowVars
      <3> QED  BY <2>0, <3>1, <3>2 DEF EnvKey, Env
    <2>4. ASSUME NEW i \in Ids, MigrateRow(i) PROVE EnvKey'
      <3>1. row'[i].key = key /\ \A j \in Ids : j # i => row'[j] = row[j]
        BY <1>0, <2>4 DEF MigrateRow, VaultShape, RowType
      <3>2. key' = key /\ server' = server
        BY <2>4 DEF MigrateRow, bootVars
      <3> QED  BY <2>0, <3>1, <3>2 DEF EnvKey, Env, Plain
    <2> QED  BY <2>1, <2>2, <2>3, <2>4
  <1>12. Keys'
    BY <1>1, <1>2, <1>10, <1>11 DEF Keys
  <1> QED  BY <1>5, <1>6, <1>7, <1>8, <1>9, <1>12 DEF VaultInv

(* A crash ends the requests under way and the subscriptions.                *)
LEMMA VaultCrashPreserves ==
  ASSUME VaultInv, VaultCrash \/ UNCHANGED vaultVars
  PROVE  VaultInv'
  <1> USE VaultAssumption
  <1>0. VaultShape
    BY DEF VaultInv
  <1>1. CASE VaultCrash
    <2>1. /\ UNCHANGED <<local, starts, key, keyFile, row, vaultFaults, keyLost, written, raced>>
          /\ server' = "down" /\ registry' = [i \in Ids |-> {}] /\ stream' = {}
          /\ req' = [r \in Reqs |-> IF Pending(r) THEN [req[r] EXCEPT !.at = "failed"] ELSE req[r]]
      BY <1>1 DEF VaultCrash
    <2>2. \A r \in Reqs : /\ req'[r] \in ReqType /\ req'[r].at \in {"new", "ok", "failed"}
                          /\ req[r].at = "ok" => req'[r] = req[r]
                          /\ req'[r].op = req[r].op
      BY <1>0, <2>1 DEF VaultShape, ReqType, ReqStages, Pending
    <2>3. VaultShape'
      BY <1>0, <2>1, <2>2 DEF VaultShape
    <2>4. Running' /\ Rows' /\ EditsSurvive'
      BY <2>1, <2>2 DEF VaultInv, Running, Pending, Rows, EditsSurvive, Stored
    <2>5. BusyRequests'
      BY <2>2 DEF VaultInv, BusyRequests, Busy
    <2>7. Subscriptions' /\ SubscribedTo'
      BY <2>1, <2>2 DEF Subscriptions, SubscribedTo
    <2>6. Keys'
      BY <2>1, <2>2 DEF VaultInv, Keys, FileKey, EnvKey, UsableKey
    <2> QED  BY <2>3, <2>4, <2>5, <2>6, <2>7 DEF VaultInv
  <1>2. CASE UNCHANGED vaultVars
    BY <1>2 DEF vaultVars, VaultInv, VaultShape, Running, Pending, Rows, BusyRequests, Busy,
                EditsSurvive, Stored, Subscriptions, SubscribedTo, Gone, Keys, FileKey, EnvKey,
                UsableKey
  <1> QED  BY <1>1, <1>2

(* Rows of the first boot carry the legacy mark; everything else is empty.   *)
LEMMA VaultInitInv == VaultInit => VaultInv
  <1> SUFFICES ASSUME VaultInit PROVE VaultInv
    OBVIOUS
  <1> USE VaultAssumption
  <1>1. PICK fp \in Prints :
          row = [i \in Ids |-> IF i \in Conns /\ ~local
                               THEN Row(fp, CHOOSE p \in Passwords : TRUE, Plain) ELSE NoRow]
    BY DEF VaultInit
  <1> DEFINE pw == CHOOSE p \in Passwords : TRUE
             old == Row(fp, pw, Plain)
  <1>2. pw \in Passwords
    OBVIOUS
  <1> HIDE DEF pw
  <1>3. old \in RowType /\ NoRow \in RowType /\ old.fp = fp /\ old.pw = pw /\ old.key = Plain
    BY <1>2 DEF Row, RowType, Plain, NoRow
  <1>4. \A i \in Ids : IF i \in Conns /\ ~local THEN row[i] = old ELSE row[i] = NoRow
    BY <1>1 DEF pw
  <1> HIDE DEF old
  <1>5. row \in [Ids -> RowType]
    BY <1>1, <1>3, <1>4
  <1>6. /\ local \in BOOLEAN /\ server = "down" /\ starts = 0 /\ key = Env /\ keyFile = Absent
        /\ registry = [i \in Ids |-> {}] /\ stream = {} /\ req = [r \in Reqs |-> NewReq]
        /\ vaultFaults = 0 /\ keyLost = FALSE /\ raced = {}
        /\ written = [i \in Ids |-> IF row[i] = NoRow THEN Null ELSE row[i].pw]
    BY DEF VaultInit
  <1>7. NewReq \in ReqType /\ NewReq.at = "new" /\ NewReq.op = "none"
    BY <1>3 DEF NewReq, ReqType, ReqOps, ReqStages
  <1>8. written \in [Ids -> Passwords \cup {Null}]
    BY <1>5, <1>6 DEF RowType
  <1>9. VaultShape
    <2>1. key \in Nat /\ keyFile \in Nat /\ starts \in Nat /\ vaultFaults \in Nat
      BY <1>6 DEF Env, Absent
    <2>2. keyLost \in BOOLEAN /\ req \in [Reqs -> ReqType] /\ registry \in [Ids -> SUBSET Reqs]
      BY <1>6, <1>7
    <2> QED  BY <1>5, <1>6, <1>8, <2>1, <2>2 DEF VaultShape
  <1>10. Running /\ BusyRequests /\ Subscriptions /\ SubscribedTo
    BY <1>6, <1>7 DEF Running, Pending, BusyRequests, Busy, Subscriptions, SubscribedTo
  <1>11. Rows /\ EditsSurvive
    <2>1. \A r \in Reqs : row[r] = NoRow
      BY <1>4 DEF Ids
    <2> QED  BY <1>3, <1>4, <1>6, <2>1 DEF Rows, EditsSurvive, Stored
  <1>12. Keys
    <2>1. ~UsableKey(keyFile)
      BY <1>6 DEF UsableKey, Absent
    <2> QED  BY <1>3, <1>4, <1>6, <1>7, <2>1 DEF Keys, FileKey, EnvKey
  <1> QED  BY <1>9, <1>10, <1>11, <1>12 DEF VaultInv

(* Every step of the vault keeps the invariant.                              *)
LEMMA VaultNextInv == VaultInv /\ [VaultNext]_vaultVars => VaultInv'
  <1> SUFFICES ASSUME VaultInv, [VaultNext]_vaultVars PROVE VaultInv'
    OBVIOUS
  <1>1. CASE LoadKey \/ CreateKey \/ OpenDatabase \/ Migrated \/ \E i \in Ids : MigrateRow(i)
    BY <1>1, VaultBootPreserves
  <1>2. CASE VaultCrash \/ UNCHANGED vaultVars
    BY <1>2, VaultCrashPreserves
  <1>3. ASSUME NEW r \in Reqs,
               \/ GateBlocked(r) \/ CanaryRefuses(r) \/ DraftInvalid(r) \/ TargetsInvalid(r)
               \/ RevealCredential(r) \/ CreateTaskCheck(r) \/ UpdateTask(r) \/ DeleteTask(r)
        PROVE  VaultInv'
    BY <1>3, VaultRefusals
  <1>4. ASSUME NEW r \in Reqs,
               UpdateRead(r) \/ RevokeSubscriptions(r) \/ RegisterLookup(r) \/ SubscribeOpen(r)
        PROVE  VaultInv'
    BY <1>4, VaultReads
  <1>5. ASSUME NEW r \in Reqs,
               CreateConnection(r) \/ UpdateWrite(r) \/ RegisterReuse(r) \/ RegisterInsert(r)
        PROVE  VaultInv'
    BY <1>5, VaultWrites
  <1>6. ASSUME NEW r \in Reqs, DeleteConnection(r) \/ RemoveConnection(r)
        PROVE  VaultInv'
    BY <1>6, VaultDeletes
  <1>7. ASSUME NEW r \in Reqs, CreateTaskInsert(r) \/ SubscribeRegister(r) \/ Unsubscribe(r)
        PROVE  VaultInv'
    BY <1>7, VaultEnds
  <1> QED  BY <1>1, <1>2, <1>3, <1>4, <1>5, <1>6, <1>7 DEF VaultNext

(* The three promises are parts of the invariant: Keys, EditsSurvive and     *)
(* SubscribedTo.                                                             *)
LEMMA VaultInvImplies == VaultInv => CredentialsReadable /\ EditsSurvive /\ SubscriptionsEnd
  <1> SUFFICES ASSUME VaultInv PROVE CredentialsReadable /\ SubscriptionsEnd
    BY DEF VaultInv
  <1>1. CredentialsReadable
    BY DEF VaultInv, VaultShape, Keys, FileKey, EnvKey, CredentialsReadable, Stored, Decrypts
  <1>2. SubscriptionsEnd
    BY DEF VaultInv, VaultShape, Subscriptions, SubscribedTo, Gone, SubscriptionsEnd, Stored
  <1> QED  BY <1>1, <1>2

(* A server that is up decrypts every password it stores: the migration of   *)
(* legacy rows and the creation of credential.key survive a crash between    *)
(* any two of their steps, for any number of restarts.                       *)
THEOREM CredentialsReadableHolds == VaultSpec => []CredentialsReadable
  BY VaultInitInv, VaultNextInv, VaultInvImplies, PTL DEF VaultSpec

(* update_connection reads a row and writes it back whole; the password last *)
(* acknowledged is nevertheless the one stored, for any number of requests,  *)
(* unless two of them overlapped on the connection.                          *)
THEOREM EditsSurviveHolds == VaultSpec => []EditsSurvive
  BY VaultInitInv, VaultNextInv, VaultInvImplies, PTL DEF VaultSpec

(* A Redis subscription ends with its connection, except where the DELETE of *)
(* /api/connections or an overlap with the removal left it running.          *)
THEOREM SubscriptionsEndHolds == VaultSpec => []SubscriptionsEnd
  BY VaultInitInv, VaultNextInv, VaultInvImplies, PTL DEF VaultSpec

-----------------------------------------------------------------------------
(* Tunnels: the stages of a call of resolve().                               *)
ResolveType ==
  [at : {"new", "probe", "remove", "build", "insert", "ok", "failed"}, key : TunnelKeys,
   port : Resolves \cup {NoTunnel}, guard : BOOLEAN, dead : BOOLEAN]

(* A call holds a reference into the map during its probe and at no other    *)
(* time, so a call that waits for the map holds none.                        *)
GuardsProbe == \A r \in Resolves : resolve[r].guard => resolve[r].at = "probe"

TunnelsInv == TunnelsTypeOK /\ resolve \in [Resolves -> ResolveType] /\ GuardsProbe

(* No call has begun, so none holds a reference.                             *)
LEMMA TunnelsInitInv == TunnelsInit => TunnelsInv
  <1> SUFFICES ASSUME TunnelsInit PROVE TunnelsInv
    OBVIOUS
  <1>1. \A k \in TunnelKeys : Idle(k) \in ResolveType /\ Idle(k).guard = FALSE
    BY DEF Idle, ResolveType
  <1>2. \A r \in Resolves : resolve[r] \in ResolveType /\ resolve[r].guard = FALSE
    BY <1>1 DEF TunnelsInit
  <1>3. resolve \in [Resolves -> ResolveType]
    BY <1>2 DEF TunnelsInit
  <1>4. TunnelsTypeOK
    BY DEF TunnelsInit, TunnelsTypeOK
  <1> QED  BY <1>2, <1>3, <1>4 DEF TunnelsInv, GuardsProbe

(* One call moves: it keeps its key, and its reference only while it probes. *)
LEMMA ResolveMoves ==
  ASSUME TunnelsInv, NEW r \in Resolves, NEW rec \in ResolveType,
         resolve' = [resolve EXCEPT ![r] = rec],
         rec.key = resolve[r].key, rec.guard => rec.at = "probe"
  PROVE  /\ resolve' \in [Resolves -> ResolveType] /\ GuardsProbe'
         /\ \A q \in Resolves : resolve'[q].key = resolve[q].key
  <1>1. resolve'[r] = rec /\ \A q \in Resolves : q # r => resolve'[q] = resolve[q]
    BY DEF TunnelsInv
  <1>2. resolve' \in [Resolves -> ResolveType]
    BY DEF TunnelsInv
  <1> QED  BY <1>1, <1>2 DEF TunnelsInv, GuardsProbe

(* Every step of a call or of a tunnel keeps the invariant.                  *)
LEMMA TunnelsNextInv == TunnelsInv /\ [TunnelsNext]_tunnelVars => TunnelsInv'
  <1> SUFFICES ASSUME TunnelsInv, [TunnelsNext]_tunnelVars PROVE TunnelsInv'
    OBVIOUS
  <1> USE TunnelsAssumption
  <1>0. TunnelsTypeOK /\ resolve \in [Resolves -> ResolveType] /\ GuardsProbe
    BY DEF TunnelsInv
  <1>1. ASSUME NEW r \in Resolves, NEW rec \in ResolveType,
               resolve' = [resolve EXCEPT ![r] = rec],
               rec.key = resolve[r].key, rec.guard => rec.at = "probe",
               accepting' \subseteq Resolves, connected' \subseteq Resolves, refused' \subseteq Resolves,
               \/ cached' = cached
               \/ cached' = [cached EXCEPT ![resolve[r].key] = NoTunnel]
               \/ cached' = [cached EXCEPT ![resolve[r].key] = r]
        PROVE  TunnelsInv'
    <2>1. /\ resolve' \in [Resolves -> ResolveType] /\ GuardsProbe'
          /\ \A q \in Resolves : resolve'[q].key = resolve[q].key
      BY <1>1, ResolveMoves
    <2>2. resolve[r].key \in TunnelKeys
      BY <1>0 DEF ResolveType
    <2>3. /\ cached' \in [TunnelKeys -> Resolves \cup {NoTunnel}]
          /\ \A k \in TunnelKeys : cached'[k] \in {cached[k], NoTunnel} \/
                                   (cached'[k] = r /\ k = resolve[r].key)
      BY <1>0, <1>1, <2>2 DEF TunnelsTypeOK
    <2>4. TunnelsTypeOK'
      BY <1>0, <1>1, <2>1, <2>3 DEF TunnelsTypeOK
    <2> QED  BY <2>1, <2>4 DEF TunnelsInv
  <1>2. ASSUME NEW r \in Resolves,
               SecretMissing(r) \/ Get(r) \/ ProbeSucceeds(r) \/ ProbeFails(r) \/ RemoveEntry(r)
               \/ SpawnTunnel(r) \/ InsertEntry(r)
        PROVE  TunnelsInv'
    <2>0. resolve[r] \in ResolveType /\ resolve[r].key \in TunnelKeys
      BY <1>0 DEF ResolveType
    <2> DEFINE At(a) == [resolve[r] EXCEPT !.at = a]
               hit == [[At("probe") EXCEPT !.port = cached[resolve[r].key]] EXCEPT !.guard = TRUE]
               alive(d) == [[At("ok") EXCEPT !.guard = FALSE] EXCEPT !.dead = d]
               miss == [[At("remove") EXCEPT !.port = NoTunnel] EXCEPT !.guard = FALSE]
               built == [At("insert") EXCEPT !.port = r]
    <2>1. \A a \in {"failed", "ok", "remove", "build"} :
            At(a) \in ResolveType /\ At(a).key = resolve[r].key /\ At(a).guard = resolve[r].guard
            /\ At(a).at = a
      BY <2>0 DEF ResolveType
    <2>2. /\ hit \in ResolveType /\ hit.key = resolve[r].key /\ hit.at = "probe"
      <3>1. cached[resolve[r].key] \in Resolves \cup {NoTunnel}
        BY <1>0, <2>0 DEF TunnelsTypeOK
      <3> QED  BY <2>0, <3>1 DEF ResolveType
    <2>3. \A d \in BOOLEAN : alive(d) \in ResolveType /\ alive(d).key = resolve[r].key /\ ~alive(d).guard
      BY <2>0 DEF ResolveType
    <2>4. miss \in ResolveType /\ miss.key = resolve[r].key /\ ~miss.guard
      BY <2>0 DEF ResolveType
    <2>5. /\ built \in ResolveType /\ built.key = resolve[r].key /\ built.guard = resolve[r].guard
          /\ built.at = "insert"
      BY <2>0 DEF ResolveType
    <2>6. \/ \E a \in {"failed", "ok", "remove", "build"} :
               resolve' = [resolve EXCEPT ![r] = At(a)] /\ resolve[r].at # "probe"
          \/ resolve' = [resolve EXCEPT ![r] = hit]
          \/ \E d \in BOOLEAN : resolve' = [resolve EXCEPT ![r] = alive(d)]
          \/ resolve' = [resolve EXCEPT ![r] = miss]
          \/ resolve' = [resolve EXCEPT ![r] = built] /\ resolve[r].at # "probe"
      <3>1. CASE SecretMissing(r) \/ RemoveEntry(r) \/ InsertEntry(r)
        BY <3>1 DEF SecretMissing, RemoveEntry, InsertEntry
      <3>2. CASE Get(r)
        BY <1>0, <3>2 DEF Get, ResolveType
      <3>3. CASE ProbeSucceeds(r)
        <4> DEFINE d == resolve[r].port \in refused
        <4>1. resolve' = [resolve EXCEPT ![r].at = "ok", ![r].guard = FALSE, ![r].dead = d]
          BY <3>3 DEF ProbeSucceeds
        <4>2. d \in BOOLEAN
          OBVIOUS
        <4> HIDE DEF d
        <4>3. resolve' = [resolve EXCEPT ![r] = alive(d)]
          BY <1>0, <4>1 DEF ResolveType
        <4> QED  BY <4>2, <4>3
      <3>4. CASE ProbeFails(r)
        BY <1>0, <3>4 DEF ProbeFails, KeptGuard, ResolveType
      <3>5. CASE SpawnTunnel(r)
        BY <1>0, <3>5 DEF SpawnTunnel, ResolveType
      <3> QED  BY <1>2, <3>1, <3>2, <3>3, <3>4, <3>5
    <2>7. /\ accepting' \subseteq Resolves /\ connected' \subseteq Resolves /\ refused' \subseteq Resolves
          /\ \/ cached' = cached
             \/ cached' = [cached EXCEPT ![resolve[r].key] = NoTunnel]
             \/ cached' = [cached EXCEPT ![resolve[r].key] = r]
      BY <1>0, <1>2 DEF SecretMissing, Get, ProbeSucceeds, ProbeFails, RemoveEntry, SpawnTunnel,
                        InsertEntry, TunnelsTypeOK
    <2>8. resolve[r].at # "probe" => ~resolve[r].guard
      BY <1>0 DEF GuardsProbe
    <2> HIDE DEF At, hit, alive, miss, built
    <2> QED  BY <1>1, <2>1, <2>2, <2>3, <2>4, <2>5, <2>6, <2>7, <2>8
  <1>3. ASSUME NEW t \in Resolves, UseTunnel(t) \/ SessionLost(t) \/ LoopEnds(t) PROVE TunnelsInv'
    <2>1. /\ UNCHANGED <<cached, resolve>> /\ accepting' \subseteq Resolves
          /\ connected' \subseteq Resolves /\ refused' \subseteq Resolves
      BY <1>0, <1>3 DEF UseTunnel, SessionLost, LoopEnds, TunnelsTypeOK
    <2> QED  BY <1>0, <2>1 DEF TunnelsInv, TunnelsTypeOK, GuardsProbe
  <1>4. CASE UNCHANGED tunnelVars
    BY <1>4 DEF tunnelVars, TunnelsInv, TunnelsTypeOK, GuardsProbe
  <1> QED  BY <1>2, <1>3, <1>4 DEF TunnelsNext

(* The calls that wait for the map and the ones that hold a reference are    *)
(* different calls, so together they outnumber the workers.                  *)
LEMMA TunnelsInvImplies == TunnelsInv => WedgeNeedsCrowd
  <1> SUFFICES ASSUME TunnelsInv, ~FreeWorker, Guards # {}
               PROVE  Cardinality(InFlight) > Workers
    BY DEF WedgeNeedsCrowd
  <1> USE TunnelsAssumption
  <1>1. PICK r \in Resolves : resolve[r].guard
    BY DEF Guards
  <1>2. r \in InFlight /\ r \notin InWrite /\ InWrite \cup {r} \subseteq InFlight
    BY <1>1 DEF TunnelsInv, GuardsProbe, InFlight, InWrite
  <1>3. IsFiniteSet(InFlight) /\ IsFiniteSet(InWrite)
    BY FS_Subset DEF InFlight, InWrite
  <1>4. Cardinality(InWrite) \in Nat /\ Cardinality(InWrite) >= Workers
    BY <1>3, FS_CardinalityType DEF FreeWorker
  <1>5. IsFiniteSet(InWrite \cup {r}) /\ Cardinality(InWrite \cup {r}) = Cardinality(InWrite) + 1
    BY <1>2, <1>3, FS_AddElement
  <1>6. Cardinality(InWrite \cup {r}) <= Cardinality(InFlight) /\ Cardinality(InFlight) \in Nat
    BY <1>2, <1>3, FS_Subset, FS_CardinalityType
  <1> QED  BY <1>4, <1>5, <1>6

(* resolve() wedges the runtime on the tunnel map only when more calls are   *)
(* in flight than there are worker threads, for any number of either.        *)
THEOREM WedgeNeedsCrowdHolds == TunnelsSpec => []WedgeNeedsCrowd
  BY TunnelsInitInv, TunnelsNextInv, TunnelsInvImplies, PTL DEF TunnelsSpec

-----------------------------------------------------------------------------
(* The composition.                                                          *)
(* The server starts with every part in an initial state of its own.         *)
LEMMA InitOfParts == Init => EntInit /\ VaultInit /\ SessInit /\ WsInit /\ TunnelsInit
  BY DEF Init

(* A step of the server is a step of the part in focus and leaves the state  *)
(* of the others alone.                                                      *)
LEMMA StepOfParts ==
  [Next]_vars => /\ [EntNext]_entVars /\ [VaultNext]_vaultVars /\ [SessNext]_sessVars
                 /\ [WsNext]_wsVars /\ [TunnelsNext]_tunnelVars
  <1> SUFFICES ASSUME [Next]_vars
               PROVE  /\ [EntNext]_entVars /\ [VaultNext]_vaultVars /\ [SessNext]_sessVars
                      /\ [WsNext]_wsVars /\ [TunnelsNext]_tunnelVars
    OBVIOUS
  <1>1. CASE UNCHANGED vars
    BY <1>1 DEF vars
  <1>2. CASE Next
    BY <1>2 DEF Next
  <1> QED  BY <1>1, <1>2

(* A behaviour of the composed server is one of each part: by the way Next   *)
(* picks a part, and the step that carries the parts' theorems over.         *)
LEMMA ServerImplementsParts == Spec => EntSpec /\ VaultSpec /\ SessSpec /\ WsSpec /\ TunnelsSpec
  BY InitOfParts, StepOfParts, PTL DEF Spec, EntSpec, VaultSpec, SessSpec, WsSpec, TunnelsSpec

(* What the parts promise alone, the server that composes them promises:     *)
(* every invariant of the run on the whole control plane.                    *)
THEOREM ServerKeepsPromises ==
  Spec => [](/\ EntitlementMatchesFile
             /\ CredentialsReadable /\ EditsSurvive /\ SubscriptionsEnd
             /\ OneLiveSuccessor /\ StaleSessionsEnd
             /\ WorkspaceKeepsAdmin
             /\ WedgeNeedsCrowd)
  BY ServerImplementsParts, EntitlementMatchesFileHolds, CredentialsReadableHolds,
     EditsSurviveHolds, SubscriptionsEndHolds, OneLiveSuccessorHolds, StaleSessionsEndHolds,
     WorkspaceKeepsAdminHolds, WedgeNeedsCrowdHolds, PTL

=============================================================================
