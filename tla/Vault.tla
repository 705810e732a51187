-------------------------------- MODULE Vault --------------------------------
(* The connection vault: database_connections with their encrypted           *)
(* passwords, the scheduled_tasks that reference them, and what hangs on a   *)
(* connection in memory (Redis subscriptions of the gateway).                *)
(* Sources: automation/src/handler.rs (connections, tasks), credential.rs,   *)
(* gateway/src/handlers.rs and lib.rs (register, remove, subscribe), and the *)
(* key and database part of the boot in src/src/main.rs and core/src/db.     *)
(* Every SQL statement is a step of its own: handlers read, decide and write *)
(* without a transaction.  AES-GCM is abstracted to the identity of the key. *)
EXTENDS Naturals, FiniteSets

CONSTANTS
  Reqs,        \* requests; each is sent at most once, and its id names the row it inserts
  Conns,       \* connections stored before the first boot
  Prints,      \* fingerprints: owner, name, type, host, port, user, database, file
  Passwords,   \* plaintext secrets
  VaultTrouble \* bound: starts of the process and failing operations together

(* No value: an omitted password, no row, no target.                         *)
Null == "null"

ASSUME VaultAssumption ==
  /\ Conns \cap Reqs = {} /\ VaultTrouble \in Nat
  /\ Passwords # {} /\ Null \notin Conns \cup Reqs \cup Prints \cup Passwords

VARIABLES
  local,     \* embedded mode
  server,    \* "down", a step of the boot, or "up"
  starts,    \* starts so far; also names the keys generated
  key,       \* the credential key in memory
  keyFile,   \* credential.key: Absent, Torn (not 32 bytes), or a key
  row,       \* database_connections
  task,      \* scheduled_tasks
  held,      \* connections a ddl_approvals row references (no ON DELETE)
  registry,  \* RedisSubRegistry: connection -> tokens
  stream,    \* requests with a running subscription
  req,       \* the requests
  vaultFaults, \* failed operations so far
  keyLost,   \* history: a boot fell back to a key that is not in the file
  written,   \* history: the password last acknowledged for a row
  raced      \* history: connections on which two requests overlapped

vaultVars == <<local, server, starts, key, keyFile, row, task, held, registry, stream, req,
               vaultFaults, keyLost, written, raced>>
bootVars == <<local, server, starts, key, keyFile, keyLost>>

Ids == Conns \cup Reqs
NoRow == [fp |-> Null, pw |-> Null, key |-> 0]
NoTask == [src |-> Null, tgt |-> Null]
(* Keys: 0 is known to one process only, n was generated at start n.         *)
Env == VaultTrouble + 1
Plain == VaultTrouble + 2
Absent == VaultTrouble + 3
Torn == VaultTrouble + 4

Row(fp, pw, k) == [fp |-> fp, pw |-> pw, key |-> k]
NewReq == [op |-> "none", at |-> "new", id |-> Null, fp |-> Null, pw |-> Null, seen |-> NoRow]
Stored(id) == id \in Ids /\ row[id] # NoRow
Pending(r) == req[r].at \notin {"new", "ok", "failed"}
Trouble == starts + vaultFaults < VaultTrouble
Failing == Trouble /\ vaultFaults' = vaultFaults + 1
Reply(r, a) ==
  req' = [req EXCEPT ![r] = [NewReq EXCEPT !.op = req[r].op, !.at = a, !.id = req[r].id]]
(* A request on a connection begins while another one on it is under way.    *)
Overlap(r, id) ==
  raced' = IF \E q \in Reqs \ {r} : Pending(q) /\ req[q].id = id THEN raced \cup {id} ELSE raced

VaultTypeOK ==
  /\ row \in [Ids -> [fp : Prints, pw : Passwords, key : 0..Plain] \cup {NoRow}]
  /\ task \in [Reqs -> [src : Ids, tgt : Ids \cup {Null}] \cup {NoTask}]
  /\ registry \in [Ids -> SUBSET Reqs] /\ stream \subseteq Reqs
  /\ keyFile \in (1..VaultTrouble) \cup {Absent, Torn}

VaultInit ==
  /\ local \in BOOLEAN
  /\ server = "down" /\ starts = 0 /\ key = Env /\ keyFile = Absent
  /\ \E fp \in Prints :
       LET pw == CHOOSE p \in Passwords : TRUE
       IN row = [i \in Ids |-> IF i \in Conns /\ ~local THEN Row(fp, pw, Plain) ELSE NoRow]
  /\ task = [r \in Reqs |-> NoTask]
  /\ held \in IF local THEN {{}} ELSE {{}, Conns}
  /\ registry = [i \in Ids |-> {}] /\ stream = {}
  /\ req = [r \in Reqs |-> NewReq]
  /\ vaultFaults = 0 /\ keyLost = FALSE /\ raced = {}
  /\ written = [i \in Ids |-> IF row[i] = NoRow THEN Null ELSE row[i].pw]

-----------------------------------------------------------------------------
(* Boot: the key, the database, the migration of legacy credentials.         *)
rowVars == <<row, task, held, registry, stream, req, written, raced>>

(* Normal mode takes the key from the environment and refuses to start       *)
(* without one, unless DBMASTER_DEV allows a key that is not kept; embedded  *)
(* mode keeps it in a file.  A plausible bug makes a fresh key every time.   *)
UsableKeyNever(k) == FALSE
UsableKey(k) == k \in 1..VaultTrouble
LoadKey ==
  /\ server = "down" /\ Trouble
  /\ starts' = starts + 1
  /\ \/ /\ ~local /\ key' = Env /\ server' = "migrate" /\ UNCHANGED <<keyLost, vaultFaults>>
     \/ /\ ~local /\ key' = 0 /\ keyLost' = TRUE /\ server' = "migrate" /\ UNCHANGED vaultFaults
     \/ /\ local /\ UsableKey(keyFile)
        /\ key' = keyFile /\ server' = "database" /\ UNCHANGED <<keyLost, vaultFaults>>
     \/ /\ local /\ ~UsableKey(keyFile)
        /\ key' = starts' /\ server' = "create_key" /\ UNCHANGED <<keyLost, vaultFaults>>
     \/ /\ local /\ Failing
        /\ key' = 0 /\ keyLost' = TRUE /\ server' = "database"
  /\ UNCHANGED <<local, keyFile, rowVars>>

(* fs::write of a fresh key: truncate, then 32 bytes; or an error and a key  *)
(* that only this process knows.                                             *)
CreateKey ==
  /\ server \in {"create_key", "write_key"}
  /\ \/ /\ server = "create_key" /\ keyFile' = Torn /\ server' = "write_key"
        /\ UNCHANGED <<keyLost, vaultFaults>>
     \/ /\ server = "write_key" /\ keyFile' = key /\ server' = "database"
        /\ UNCHANGED <<keyLost, vaultFaults>>
     \/ /\ Failing /\ keyLost' = TRUE /\ server' = "database" /\ UNCHANGED keyFile
  /\ UNCHANGED <<local, starts, key, rowVars>>

(* The embedded database is rebuilt empty, once, when its migrations fail.   *)
OpenDatabase ==
  /\ server = "database" /\ server' = "up"
  /\ \/ UNCHANGED <<row, task, held, written, vaultFaults>>
     \/ /\ Failing
        /\ row' = [i \in Ids |-> NoRow] /\ task' = [r \in Reqs |-> NoTask] /\ held' = {}
        /\ written' = [i \in Ids |-> Null]
  /\ UNCHANGED <<local, starts, key, keyFile, keyLost, registry, stream, req, raced>>

(* migrate_legacy_credentials re-encrypts the rows that still carry the enc: *)
(* prefix, one UPDATE each; an error aborts the boot with the rest unchanged. *)
Legacy == {i \in Ids : Stored(i) /\ row[i].key = Plain}
MigrateRow(i) ==
  /\ server = "migrate" /\ i \in Legacy
  /\ row' = [row EXCEPT ![i] = [@ EXCEPT !.key = key]]
  /\ UNCHANGED <<task, held, registry, stream, req, vaultFaults, written, raced, bootVars>>
Migrated ==
  /\ server = "migrate" /\ Legacy = {} /\ server' = "up"
  /\ UNCHANGED <<local, starts, key, keyFile, keyLost, vaultFaults, rowVars>>

VaultCrash ==
  /\ server # "down" /\ server' = "down"
  /\ registry' = [i \in Ids |-> {}] /\ stream' = {}
  /\ req' = [r \in Reqs |-> IF Pending(r) THEN [req[r] EXCEPT !.at = "failed"] ELSE req[r]]
  /\ UNCHANGED <<local, starts, key, keyFile, row, task, held, vaultFaults, keyLost, written, raced>>

-----------------------------------------------------------------------------
(* A refused request changes nothing: a gated entitlement, a source_drift    *)
(* account that the canary finds writable, a draft that does not validate,   *)
(* no or too many subscription targets.                                      *)
Refuse(r, op) ==
  /\ server = "up" /\ req[r].at = "new"
  /\ req' = [req EXCEPT ![r] = [NewReq EXCEPT !.op = op, !.at = "failed"]]
  /\ UNCHANGED <<row, task, held, registry, stream, vaultFaults, written, raced, bootVars>>
GateBlocked(r) == ~local /\ Refuse(r, "gated")
CanaryRefuses(r) == Refuse(r, "create")
DraftInvalid(r) == Refuse(r, "register")
TargetsInvalid(r) == Refuse(r, "subscribe")

(* POST /api/connections: the canary of a source_drift connection comes      *)
(* first, then one INSERT of the encrypted row.                              *)
CreateConnection(r) ==
  /\ server = "up" /\ req[r].at = "new"
  /\ \E fp \in Prints, pw \in Passwords :
       \/ /\ row' = [row EXCEPT ![r] = Row(fp, pw, key)]
          /\ written' = [written EXCEPT ![r] = pw]
          /\ req' = [req EXCEPT ![r] = [NewReq EXCEPT !.op = "create", !.at = "ok", !.id = r]]
          /\ UNCHANGED vaultFaults
       \/ /\ Failing /\ req' = [req EXCEPT ![r] = [NewReq EXCEPT !.op = "create", !.at = "failed"]]
          /\ UNCHANGED <<row, written>>
  /\ UNCHANGED <<task, held, registry, stream, raced, bootVars>>

(* PUT /api/connections/:id reads the whole row and writes the whole row     *)
(* back; an omitted password keeps the ciphertext it has read.               *)
UpdateRead(r) ==
  /\ server = "up" /\ req[r].at = "new"
  /\ \E id \in Ids, fp \in Prints, pw \in Passwords \cup {Null} :
       /\ Stored(id)
       /\ req' = [req EXCEPT ![r] = [op |-> "update", at |-> "write", id |-> id, fp |-> fp,
                                     pw |-> pw, seen |-> row[id]]]
       /\ Overlap(r, id)
  /\ UNCHANGED <<row, task, held, registry, stream, vaultFaults, written, bootVars>>

MergedBlank(r) == [req[r].seen EXCEPT !.fp = req[r].fp, !.pw = CHOOSE p \in Passwords : p # @]
Merged(r) == IF req[r].pw = Null THEN [req[r].seen EXCEPT !.fp = req[r].fp]
             ELSE Row(req[r].fp, req[r].pw, key)

UpdateWrite(r) ==
  /\ req[r].op = "update" /\ req[r].at = "write"
  /\ LET id == req[r].id
     IN \/ /\ Stored(id)
           /\ row' = [row EXCEPT ![id] = Merged(r)]
           /\ written' = IF req[r].pw = Null THEN written ELSE [written EXCEPT ![id] = req[r].pw]
           /\ Reply(r, "ok") /\ UNCHANGED vaultFaults
        \/ /\ ~Stored(id) /\ Reply(r, "failed") /\ UNCHANGED <<row, written, vaultFaults>>
        \/ /\ Failing /\ Reply(r, "failed") /\ UNCHANGED <<row, written>>
  /\ UNCHANGED <<task, held, registry, stream, raced, bootVars>>

(* DELETE /api/connections/:id and DELETE /api/gw/connections/:id.  The      *)
(* statement's result is dropped: an error, or a row that a ddl_approvals    *)
(* row references, leaves the connection and the answer is the same.         *)
Deleted(id) ==
  /\ row' = [row EXCEPT ![id] = NoRow]
  /\ task' = [t \in Reqs |->
                IF task[t] = NoTask \/ task[t].src = id THEN NoTask
                ELSE IF task[t].tgt = id THEN [task[t] EXCEPT !.tgt = Null] ELSE task[t]]
DeleteStatement(id) ==
  /\ \/ id \notin held /\ Deleted(id) /\ UNCHANGED vaultFaults
     \/ id \in held /\ UNCHANGED <<row, task, vaultFaults>>
     \/ Failing /\ UNCHANGED <<row, task>>

DeleteConnection(r) ==
  /\ server = "up" /\ req[r].at = "new"
  /\ \E id \in Ids :
       /\ Stored(id) /\ DeleteStatement(id) /\ Overlap(r, id)
       /\ req' = [req EXCEPT ![r] = [NewReq EXCEPT !.op = "delete", !.at = "ok", !.id = id]]
  /\ UNCHANGED <<held, registry, stream, written, bootVars>>

(* The gateway cancels the connection's subscriptions before the DELETE.     *)
RevokedNone(id) == stream
Revoked(id) == stream \ registry[id]
RevokeSubscriptions(r) ==
  /\ server = "up" /\ req[r].at = "new"
  /\ \E id \in Ids :
       /\ Stored(id)
       /\ stream' = Revoked(id)
       /\ registry' = [registry EXCEPT ![id] = {}]
       /\ req' = [req EXCEPT ![r] = [NewReq EXCEPT !.op = "remove", !.at = "delete", !.id = id]]
       /\ Overlap(r, id)
  /\ UNCHANGED <<row, task, held, vaultFaults, written, bootVars>>
RemoveConnection(r) ==
  /\ req[r].op = "remove" /\ req[r].at = "delete"
  /\ DeleteStatement(req[r].id) /\ Reply(r, "ok")
  /\ UNCHANGED <<held, registry, stream, written, raced, bootVars>>

(* POST /api/gw/connections: a row with the same fingerprint is reused and   *)
(* its password refreshed, otherwise one is inserted.  A failed lookup       *)
(* counts as "none"; an UPDATE that meets no row counts as success.          *)
RegisterLookup(r) ==
  /\ server = "up" /\ req[r].at = "new"
  /\ \E fp \in Prints, pw \in Passwords :
       LET same == {i \in Ids : Stored(i) /\ row[i].fp = fp}
           to(at, id) == req' = [req EXCEPT ![r] = [NewReq EXCEPT !.op = "register", !.at = at,
                                                     !.id = id, !.fp = fp, !.pw = pw]]
       IN \/ \E i \in same : to("reuse", i) /\ Overlap(r, i) /\ UNCHANGED vaultFaults
          \/ same = {} /\ to("insert", Null) /\ UNCHANGED <<raced, vaultFaults>>
          \/ Failing /\ to("insert", Null) /\ UNCHANGED raced
  /\ UNCHANGED <<row, task, held, registry, stream, written, bootVars>>
RegisterReuse(r) ==
  /\ req[r].op = "register" /\ req[r].at = "reuse"
  /\ LET id == req[r].id
     IN \/ /\ Stored(id)
           /\ row' = [row EXCEPT ![id].pw = req[r].pw, ![id].key = key]
           /\ written' = [written EXCEPT ![id] = req[r].pw]
           /\ Reply(r, "ok") /\ UNCHANGED vaultFaults
        \/ /\ ~Stored(id) /\ Reply(r, "ok") /\ UNCHANGED <<row, written, vaultFaults>>
        \/ /\ Failing /\ req' = [req EXCEPT ![r].at = "insert"] /\ UNCHANGED <<row, written>>
  /\ UNCHANGED <<task, held, registry, stream, raced, bootVars>>
RegisterInsert(r) ==
  /\ req[r].op = "register" /\ req[r].at = "insert"
  /\ \/ /\ row' = [row EXCEPT ![r] = Row(req[r].fp, req[r].pw, key)]
        /\ written' = [written EXCEPT ![r] = req[r].pw]
        /\ Reply(r, "ok") /\ UNCHANGED vaultFaults
     \/ Failing /\ Reply(r, "failed") /\ UNCHANGED <<row, written>>
  /\ UNCHANGED <<task, held, registry, stream, raced, bootVars>>

(* GET /api/connections/:id/credential, of the embedded server only: the     *)
(* password, or DECRYPT_FAILED when it was encrypted with another key.       *)
Decrypts(id) == row[id].key = key
RevealCredential(r) ==
  /\ server = "up" /\ req[r].at = "new" /\ local
  /\ \E id \in Ids :
       /\ Stored(id)
       /\ req' = [req EXCEPT ![r] = [NewReq EXCEPT !.op = "reveal",
                                    !.at = IF Decrypts(id) THEN "ok" ELSE "failed"]]
  /\ UNCHANGED <<row, task, held, registry, stream, vaultFaults, written, raced, bootVars>>

(* GET .../redis/subscriptions: load the row and subscribe, then register    *)
(* the cancellation token, then stream until the client leaves.              *)
SubscribeOpen(r) ==
  /\ server = "up" /\ req[r].at = "new"
  /\ \E id \in Ids :
       /\ Stored(id)
       /\ req' = [req EXCEPT ![r] = [NewReq EXCEPT !.op = "subscribe", !.at = "token", !.id = id]]
       /\ Overlap(r, id)
  /\ UNCHANGED <<row, task, held, registry, stream, vaultFaults, written, bootVars>>
SubscribeRegister(r) ==
  /\ req[r].op = "subscribe" /\ req[r].at = "token"
  /\ registry' = [registry EXCEPT ![req[r].id] = @ \cup {r}]
  /\ stream' = stream \cup {r} /\ Reply(r, "ok")
  /\ UNCHANGED <<row, task, held, vaultFaults, written, raced, bootVars>>
Unsubscribe(r) ==
  /\ r \in stream /\ stream' = stream \ {r}
  /\ UNCHANGED <<row, task, held, registry, req, vaultFaults, written, raced, bootVars>>

(* POST /api/tasks checks that the connections exist, then inserts; a        *)
(* connection deleted in between makes the foreign key refuse the row.       *)
CreateTaskCheck(r) ==
  /\ server = "up" /\ req[r].at = "new"
  /\ \E s \in Ids, t \in Ids \cup {Null} :
       /\ Stored(s) /\ (t = Null \/ Stored(t))
       /\ req' = [req EXCEPT ![r] = [NewReq EXCEPT !.op = "task", !.at = "insert_task", !.id = s,
                                                    !.fp = t]]
  /\ UNCHANGED <<row, task, held, registry, stream, vaultFaults, written, raced, bootVars>>
CreateTaskInsert(r) ==
  /\ req[r].op = "task" /\ req[r].at = "insert_task"
  /\ LET s == req[r].id
         t == req[r].fp
     IN \/ /\ Stored(s) /\ (t = Null \/ Stored(t)) /\ UNCHANGED vaultFaults
           /\ task' = [task EXCEPT ![r] = [src |-> s, tgt |-> t]] /\ Reply(r, "ok")
        \/ /\ ~(Stored(s) /\ (t = Null \/ Stored(t))) /\ UNCHANGED vaultFaults
           /\ UNCHANGED task /\ Reply(r, "failed")
        \/ Failing /\ UNCHANGED task /\ Reply(r, "failed")
  /\ UNCHANGED <<row, held, registry, stream, written, raced, bootVars>>
(* PATCH /api/tasks/:id may set another target; DELETE removes the task.     *)
UpdateTask(r) ==
  /\ server = "up" /\ req[r].at = "new"
  /\ \E t \in Reqs, tgt \in Ids :
       /\ task[t] # NoTask /\ Stored(tgt)
       /\ task' = [task EXCEPT ![t].tgt = tgt]
  /\ req' = [req EXCEPT ![r] = [NewReq EXCEPT !.op = "patch", !.at = "ok"]]
  /\ UNCHANGED <<row, held, registry, stream, vaultFaults, written, raced, bootVars>>
DeleteTask(r) ==
  /\ server = "up" /\ req[r].at = "new"
  /\ \E t \in Reqs : task[t] # NoTask /\ task' = [task EXCEPT ![t] = NoTask]
  /\ req' = [req EXCEPT ![r] = [NewReq EXCEPT !.op = "drop", !.at = "ok"]]
  /\ UNCHANGED <<row, held, registry, stream, vaultFaults, written, raced, bootVars>>

VaultNext ==
  \/ LoadKey \/ CreateKey \/ OpenDatabase \/ Migrated \/ VaultCrash
  \/ \E i \in Ids : MigrateRow(i)
  \/ \E r \in Reqs :
       \/ CreateConnection(r) \/ UpdateRead(r) \/ UpdateWrite(r) \/ DeleteConnection(r)
       \/ RevokeSubscriptions(r) \/ RemoveConnection(r)
       \/ RegisterLookup(r) \/ RegisterReuse(r) \/ RegisterInsert(r)
       \/ GateBlocked(r) \/ CanaryRefuses(r) \/ DraftInvalid(r) \/ TargetsInvalid(r)
       \/ RevealCredential(r)
       \/ SubscribeOpen(r) \/ SubscribeRegister(r) \/ Unsubscribe(r)
       \/ CreateTaskCheck(r) \/ CreateTaskInsert(r) \/ UpdateTask(r) \/ DeleteTask(r)

VaultSpec == VaultInit /\ [][VaultNext]_vaultVars

-----------------------------------------------------------------------------
(* A running server can decrypt every password it stores: the migration of   *)
(* legacy rows and the first write of credential.key may be cut by a crash   *)
(* at any step without losing one.  Only a boot that could not read or write *)
(* credential.key, and says so, breaks the promise.                          *)
CredentialsReadable ==
  server = "up" /\ ~keyLost =>
    \A i \in Ids : Stored(i) => Decrypts(i)

(* The stored password is the one last acknowledged, by PUT, by registration *)
(* or at creation, unless two requests on the connection overlapped:         *)
(* update_connection writes back every column it has read.                   *)
EditsSurvive ==
  \A i \in Ids \ raced : Stored(i) => row[i].pw = written[i]

(* A subscription does not outlive its connection, unless the subscription   *)
(* was being set up while the connection was removed, or the connection was  *)
(* deleted through /api/connections, which does not know the registry, or    *)
(* with the database.                                                        *)
SubscriptionsEnd ==
  \A r \in stream :
    LET id == req[r].id
    IN \/ Stored(id) \/ id \in raced
       \/ \E d \in Reqs : req[d].op = "delete" /\ req[d].id = id
=============================================================================
