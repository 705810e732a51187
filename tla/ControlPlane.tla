----------------------------- MODULE ControlPlane -----------------------------
(* The control plane of one server process: entitlement, connection vault,   *)
(* sessions, workspaces and SSH tunnels.  The parts share the process and    *)
(* the database but no state: no statement of one reads or writes what       *)
(* another one writes, and where one refuses another's requests (a gated     *)
(* entitlement those of the vault, an invalid token every one) a refused     *)
(* request is one that was never sent.  So an interleaving of two parts      *)
(* shows each of them only what it can also do alone.  A behaviour therefore *)
(* picks one part (focus) and runs it against all its own interleavings,     *)
(* faults and restarts, with the others at rest in their initial states.     *)
EXTENDS Entitlement, Vault, Sessions, Workspaces, Tunnels

CONSTANT Parts    \* the parts a behaviour may pick

ASSUME PartsAssumption ==
  Parts \subseteq {"entitlement", "vault", "sessions", "workspaces", "tunnels"}

VARIABLE focus

vars == <<focus, entVars, vaultVars, sessVars, wsVars, tunnelVars>>

(* A part that is not in focus needs only one initial state.                 *)
Rest(part, quiet) == focus = part \/ quiet

Init ==
  /\ focus \in Parts
  /\ EntInit /\ Rest("entitlement", ~embedded /\ file = NoFile)
  /\ VaultInit /\ Rest("vault", local)
  /\ SessInit /\ Rest("sessions", ~desktop)
  /\ WsInit
  /\ TunnelsInit
  /\ Rest("tunnels", \A q, r \in Resolves : resolve[q].key = resolve[r].key)

Next ==
  \/ focus = "entitlement" /\ EntNext
     /\ UNCHANGED <<focus, vaultVars, sessVars, wsVars, tunnelVars>>
  \/ focus = "vault" /\ VaultNext
     /\ UNCHANGED <<focus, entVars, sessVars, wsVars, tunnelVars>>
  \/ focus = "sessions" /\ SessNext
     /\ UNCHANGED <<focus, entVars, vaultVars, wsVars, tunnelVars>>
  \/ focus = "workspaces" /\ WsNext
     /\ UNCHANGED <<focus, entVars, vaultVars, sessVars, tunnelVars>>
  \/ focus = "tunnels" /\ TunnelsNext
     /\ UNCHANGED <<focus, entVars, vaultVars, sessVars, wsVars>>

Spec == Init /\ [][Next]_vars
=============================================================================
