------------------------------- MODULE Tunnels -------------------------------
(* SSH tunnels (automation/src/ssh.rs): resolve() serves a cached local port *)
(* after a TCP probe or builds a new tunnel; each tunnel has an accept loop  *)
(* that opens one channel of its SSH session per connection.                 *)
(* TUNNELS is a DashMap: get() holds the read lock of a shard as long as its *)
(* reference lives, here across the await of the probe, and remove() and     *)
(* insert() block the worker thread they run on until the lock is free.  All *)
(* tunnel keys are taken to fall into one shard.  A tunnel is named by the   *)
(* resolve that built it.                                                    *)
EXTENDS Naturals, FiniteSets

CONSTANTS
  Resolves,   \* calls of resolve(); each runs at most once
  TunnelKeys, \* sha256 of ssh configuration, secrets and target
  Workers,    \* worker threads of the tokio runtime
  MaxUses     \* bound: connections made through tunnels

NoTunnel == "no_tunnel"

ASSUME TunnelsAssumption ==
  /\ Workers \in Nat \ {0} /\ MaxUses \in Nat
  /\ IsFiniteSet(Resolves) /\ NoTunnel \notin Resolves

VARIABLES
  cached,     \* TUNNELS: key -> tunnel, or NoTunnel
  resolve,    \* the calls
  accepting,  \* tunnels whose accept loop runs
  connected,  \* tunnels whose SSH session is alive
  refused,    \* tunnels on which a channel could not be opened
  uses        \* connections so far

tunnelVars == <<cached, resolve, accepting, connected, refused, uses>>

Idle(k) == [at |-> "new", key |-> k, port |-> NoTunnel, guard |-> FALSE, dead |-> FALSE]

(* A call in a map write sits on its worker until the shard is free; every   *)
(* other step needs a worker to be polled.                                   *)
InWrite == {r \in Resolves : resolve[r].at \in {"remove", "insert"}}
Guards == {r \in Resolves : resolve[r].guard}
FreeWorker == Cardinality(InWrite) < Workers
InFlight == {r \in Resolves : resolve[r].at \in {"probe", "remove", "build", "insert"}}

TunnelsTypeOK ==
  /\ cached \in [TunnelKeys -> Resolves \cup {NoTunnel}]
  /\ accepting \subseteq Resolves /\ connected \subseteq Resolves /\ refused \subseteq Resolves
  /\ \A k \in TunnelKeys : cached[k] # NoTunnel => resolve[cached[k]].key = k

TunnelsInit ==
  /\ cached = [k \in TunnelKeys |-> NoTunnel]
  /\ resolve \in [Resolves -> {Idle(k) : k \in TunnelKeys}]
  /\ accepting = {} /\ connected = {} /\ refused = {} /\ uses = 0

-----------------------------------------------------------------------------
(* load_connection finds no usable SSH secret in the row.                    *)
SecretMissing(r) ==
  /\ FreeWorker /\ resolve[r].at = "new"
  /\ resolve' = [resolve EXCEPT ![r].at = "failed"]
  /\ UNCHANGED <<cached, accepting, connected, refused, uses>>

(* TUNNELS.get: a hit keeps the reference during the probe, a miss goes on   *)
(* to remove() without giving up its worker.                                 *)
Get(r) ==
  /\ FreeWorker /\ resolve[r].at = "new"
  /\ LET t == cached[resolve[r].key]
     IN resolve' = IF t = NoTunnel THEN [resolve EXCEPT ![r].at = "remove"]
                   ELSE [resolve EXCEPT ![r].at = "probe", ![r].port = t, ![r].guard = TRUE]
  /\ UNCHANGED <<cached, accepting, connected, refused, uses>>

(* The probe connects if the loop accepts, unless 500 ms pass first; the     *)
(* loop tries a channel for it like for any connection.  The reference is    *)
(* dropped before remove(); a plausible rewrite keeps it until the call      *)
(* returns.                                                                  *)
KeptGuardToEnd == TRUE
KeptGuard == FALSE
ProbeSucceeds(r) ==
  /\ FreeWorker /\ resolve[r].at = "probe" /\ resolve[r].port \in accepting
  /\ LET t == resolve[r].port
     IN /\ resolve' = [resolve EXCEPT ![r].at = "ok", ![r].guard = FALSE, ![r].dead = t \in refused]
        /\ refused' = IF t \in connected THEN refused ELSE refused \cup {t}
  /\ UNCHANGED <<cached, accepting, connected, uses>>
ProbeFails(r) ==
  /\ FreeWorker /\ resolve[r].at = "probe"
  /\ resolve' = [resolve EXCEPT ![r].at = "remove", ![r].port = NoTunnel, ![r].guard = KeptGuard]
  /\ UNCHANGED <<cached, accepting, connected, refused, uses>>

MapFree == Guards = {}
RemoveEntry(r) ==
  /\ resolve[r].at = "remove" /\ MapFree
  /\ cached' = [cached EXCEPT ![resolve[r].key] = NoTunnel]
  /\ resolve' = [resolve EXCEPT ![r].at = "build"]
  /\ UNCHANGED <<accepting, connected, refused, uses>>

(* spawn_tunnel connects, authenticates, tries a channel to the target and   *)
(* starts the accept loop, or fails.                                         *)
SpawnTunnel(r) ==
  /\ FreeWorker /\ resolve[r].at = "build"
  /\ \/ /\ accepting' = accepting \cup {r} /\ connected' = connected \cup {r}
        /\ resolve' = [resolve EXCEPT ![r].at = "insert", ![r].port = r]
     \/ resolve' = [resolve EXCEPT ![r].at = "failed"] /\ UNCHANGED <<accepting, connected>>
  /\ UNCHANGED <<cached, refused, uses>>
InsertEntry(r) ==
  /\ resolve[r].at = "insert" /\ MapFree
  /\ cached' = [cached EXCEPT ![resolve[r].key] = r]
  /\ resolve' = [resolve EXCEPT ![r].at = "ok"]
  /\ UNCHANGED <<accepting, connected, refused, uses>>

-----------------------------------------------------------------------------
(* A connection through the tunnel: the loop spawns a task that opens a      *)
(* channel; if it cannot, that socket is shut down and the loop goes on.     *)
UseTunnel(t) ==
  /\ FreeWorker /\ t \in accepting /\ uses < MaxUses
  /\ uses' = uses + 1
  /\ refused' = IF t \in connected THEN refused ELSE refused \cup {t}
  /\ UNCHANGED <<cached, resolve, accepting, connected>>
(* The SSH session is lost (three keepalives without an answer, or the peer  *)
(* closes it).                                                               *)
SessionLost(t) ==
  /\ t \in connected /\ connected' = connected \ {t}
  /\ UNCHANGED <<cached, resolve, accepting, refused, uses>>
(* accept() fails: the loop ends and disconnects the session.                *)
LoopEnds(t) ==
  /\ FreeWorker /\ t \in accepting
  /\ accepting' = accepting \ {t} /\ connected' = connected \ {t}
  /\ UNCHANGED <<cached, resolve, refused, uses>>

TunnelsNext ==
  \E r \in Resolves :
    \/ SecretMissing(r) \/ Get(r) \/ ProbeSucceeds(r) \/ ProbeFails(r) \/ RemoveEntry(r) \/ SpawnTunnel(r)
    \/ InsertEntry(r) \/ UseTunnel(r) \/ SessionLost(r) \/ LoopEnds(r)

TunnelsSpec == TunnelsInit /\ [][TunnelsNext]_tunnelVars

-----------------------------------------------------------------------------
(* All workers can end up waiting for a shard whose read lock a suspended    *)
(* probe holds, and then nothing moves again, not even the timeout of the    *)
(* probe.  It takes more calls at once than there are workers: resolve drops *)
(* its reference before it writes to the map.                                *)
WedgeNeedsCrowd ==
  (~FreeWorker /\ Guards # {}) => Cardinality(InFlight) > Workers

(* The module's own account of lazy reconnection: a lost session makes the   *)
(* opening of a channel fail, that ends the accept loop, the probe finds the *)
(* port closed and the tunnel is rebuilt.  So no call is answered with a     *)
(* tunnel on which a channel has already been refused.                       *)
DeadSessionRebuilt == \A r \in Resolves : resolve[r].at = "ok" => ~resolve[r].dead
=============================================================================
