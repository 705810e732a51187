----------------------------- MODULE Workspaces -----------------------------
(* Workspaces and their members (core/src/workspace/handler.rs, invite.rs):  *)
(* create, join with an invite code, leave, remove a member, delete.  Each   *)
(* handler checks roles with SELECTs of their own and writes afterwards,     *)
(* without a transaction; the keys of migration 001 are the last word.       *)
(* A workspace is named by the request that creates it, and so is its code.  *)
EXTENDS Naturals, FiniteSets

CONSTANTS
  Members,        \* users
  Acts,           \* requests; each is sent at most once
  MaxWsFaults     \* bound: failing statements

(* No user has the name that stands for "none".                              *)
NoOwner == "no_owner"

ASSUME WorkspacesAssumption == MaxWsFaults \in Nat /\ NoOwner \notin Members

VARIABLES
  owner,      \* rows of workspaces: owner_id, or NoOwner for no row
  role,       \* workspace_members: role[w][u]
  codeKnown,  \* workspaces whose invite code has been answered to someone
  act,        \* the requests
  wsFaults    \* failed statements and restarts so far

wsVars == <<owner, role, codeKnown, act, wsFaults>>

NotMember == "none"
NewAct == [op |-> "none", at |-> "new", by |-> NoOwner, ws |-> NoOwner, who |-> NoOwner]
Underway(a) == act[a].at \notin {"new", "ok", "failed"}
Admins(w) == {u \in Members : role[w][u] = "admin"}
NoMembers == [u \in Members |-> NotMember]

WsTypeOK ==
  /\ owner \in [Acts -> Members \cup {NoOwner}]
  /\ role \in [Acts -> [Members -> {NotMember, "member", "admin"}]]
  /\ codeKnown \subseteq Acts

WsInit ==
  /\ owner = [w \in Acts |-> NoOwner] /\ role = [w \in Acts |-> NoMembers]
  /\ codeKnown = {} /\ act = [a \in Acts |-> NewAct] /\ wsFaults = 0

Goto(a, at) == act' = [act EXCEPT ![a].at = at]
(* A request of u about workspace w (and user v) has passed its first check. *)
Begin(a, op, at, u, w, v) ==
  act' = [act EXCEPT ![a] = [op |-> op, at |-> at, by |-> u, ws |-> w, who |-> v]]

-----------------------------------------------------------------------------
(* POST /api/workspaces: a code that no workspace has, the row, the creator  *)
(* as admin.  The answer carries the code.                                   *)
CreateInsert(a) ==
  /\ act[a].at = "new"
  /\ \E u \in Members :
       /\ owner' = [owner EXCEPT ![a] = u]
       /\ Begin(a, "create", "add_admin", u, a, u)
  /\ UNCHANGED <<role, codeKnown, wsFaults>>
(* Ten invite codes in a row were taken: nothing has been written.           *)
NoInviteCode(a) ==
  /\ act[a].at = "new"
  /\ act' = [act EXCEPT ![a].op = "create", ![a].at = "failed"]
  /\ UNCHANGED <<owner, role, codeKnown, wsFaults>>
CreateAddAdmin(a) ==
  /\ act[a].op = "create" /\ act[a].at = "add_admin"
  /\ role' = [role EXCEPT ![a][act[a].by] = "admin"]
  /\ codeKnown' = codeKnown \cup {a}
  /\ Goto(a, "ok")
  /\ UNCHANGED <<owner, wsFaults>>

(* POST /api/workspaces/:id/join: the workspace exists, the code matches,    *)
(* the user is no member; then the INSERT, which the primary key refuses     *)
(* for a member and the foreign key for a workspace that is gone.            *)
VerifyInviteCode(w) == w \in codeKnown /\ owner[w] # NoOwner
JoinCheck(a) ==
  /\ act[a].at = "new"
  /\ \E u \in Members, w \in Acts :
       /\ VerifyInviteCode(w) /\ role[w][u] = NotMember
       /\ Begin(a, "join", "add_member", u, w, u)
  /\ UNCHANGED <<owner, role, codeKnown, wsFaults>>
JoinInsert(a) ==
  /\ act[a].op = "join" /\ act[a].at = "add_member"
  /\ LET w == act[a].ws
         u == act[a].by
     IN IF owner[w] # NoOwner /\ role[w][u] = NotMember
        THEN role' = [role EXCEPT ![w][u] = "member"] /\ Goto(a, "ok")
        ELSE UNCHANGED role /\ Goto(a, "failed")
  /\ UNCHANGED <<owner, codeKnown, wsFaults>>

(* The role is read; an admin must not be the last one, which is a second    *)
(* SELECT.  A plausible bug compares with < 1.                               *)
LastAdminMissed(w) == Cardinality(Admins(w)) < 1
LastAdmin(w) == Cardinality(Admins(w)) <= 1
AfterRole(u, w) == IF role[w][u] = "admin" THEN "count" ELSE "delete"

(* POST /api/workspaces/:id/leave.                                           *)
LeaveRole(a) ==
  /\ act[a].at = "new"
  /\ \E u \in Members, w \in Acts :
       role[w][u] # NotMember /\ Begin(a, "leave", AfterRole(u, w), u, w, u)
  /\ UNCHANGED <<owner, role, codeKnown, wsFaults>>

(* DELETE /api/workspaces/:id/members/:uid: the requester's role first.      *)
RemoveRequester(a) ==
  /\ act[a].at = "new"
  /\ \E u, v \in Members, w \in Acts :
       role[w][u] = "admin" /\ Begin(a, "remove", "target", u, w, v)
  /\ UNCHANGED <<owner, role, codeKnown, wsFaults>>
RemoveTarget(a) ==
  /\ act[a].op = "remove" /\ act[a].at = "target"
  /\ LET w == act[a].ws
         v == act[a].who
     IN Goto(a, IF role[w][v] = NotMember THEN "failed" ELSE AfterRole(v, w))
  /\ UNCHANGED <<owner, role, codeKnown, wsFaults>>

CountAdmins(a) ==
  /\ act[a].at = "count"
  /\ Goto(a, IF LastAdmin(act[a].ws) THEN "failed" ELSE "delete")
  /\ UNCHANGED <<owner, role, codeKnown, wsFaults>>
DeleteMember(a) ==
  /\ act[a].op \in {"leave", "remove"} /\ act[a].at = "delete"
  /\ role' = [role EXCEPT ![act[a].ws][act[a].who] = NotMember]
  /\ Goto(a, "ok")
  /\ UNCHANGED <<owner, codeKnown, wsFaults>>

(* DELETE /api/workspaces/:id by an admin; the members go by CASCADE.        *)
DropRole(a) ==
  /\ act[a].at = "new"
  /\ \E u \in Members, w \in Acts :
       role[w][u] = "admin" /\ Begin(a, "drop", "drop", u, w, u)
  /\ UNCHANGED <<owner, role, codeKnown, wsFaults>>
DropWorkspace(a) ==
  /\ act[a].op = "drop" /\ act[a].at = "drop"
  /\ owner' = [owner EXCEPT ![act[a].ws] = NoOwner]
  /\ role' = [role EXCEPT ![act[a].ws] = NoMembers]
  /\ Goto(a, "ok")
  /\ UNCHANGED <<codeKnown, wsFaults>>

(* A statement fails, or the server restarts: earlier statements stay.       *)
ActFails(a) ==
  /\ Underway(a) /\ wsFaults < MaxWsFaults /\ wsFaults' = wsFaults + 1
  /\ Goto(a, "failed")
  /\ UNCHANGED <<owner, role, codeKnown>>

WsNext ==
  \E a \in Acts :
    \/ CreateInsert(a) \/ NoInviteCode(a) \/ CreateAddAdmin(a) \/ JoinCheck(a) \/ JoinInsert(a) \/ LeaveRole(a)
    \/ RemoveRequester(a) \/ RemoveTarget(a) \/ CountAdmins(a) \/ DeleteMember(a)
    \/ DropRole(a) \/ DropWorkspace(a) \/ ActFails(a)

WsSpec == WsInit /\ [][WsNext]_wsVars

-----------------------------------------------------------------------------
(* A workspace with members has an admin who can still delete it, its owner, *)
(* and a membership has a workspace: whatever the order of joins, leaves,    *)
(* removals and deletions between each other's checks and writes, and        *)
(* wherever a creation breaks off.                                           *)
WorkspaceKeepsAdmin ==
  \A w \in Acts :
    /\ role[w] # NoMembers => Admins(w) = {owner[w]}
    /\ owner[w] = NoOwner => role[w] = NoMembers
=============================================================================
