----------------------------- MODULE Entitlement -----------------------------
(* The right to run paid features: the boot sequence of the server process   *)
(* (src/src/main.rs), the resolution license file -> trial -> gated          *)
(* (license/src/entitlement.rs, trial.rs, instance.rs) and POST /api/license *)
(* (core/src/server/router.rs), which verifies a license, writes it to       *)
(* <path>.tmp, renames it over the license file and swaps the entitlement in *)
(* memory.  POSTs run concurrently and share <path>.tmp, so the file system  *)
(* is modelled down to the open file: an inode keeps its identity across the *)
(* rename and a writer that still holds it writes into the renamed file.     *)
EXTENDS Naturals, FiniteSets

CONSTANTS
  Posts,        \* POST /api/license requests; each is sent at most once
  Texts,        \* license texts that parse
  Genuine,      \* texts that carry a valid signature, version, product and type
  Foreign,      \* genuine texts issued for another install_uuid
  ExpiresAt,    \* [Texts -> Nat], the day a license lapses
  TrialDays,    \* length of the trial window
  MaxDay,       \* bound: days that pass
  MaxBoots,     \* bound: starts of the process
  MaxIoFaults   \* bound: failing file operations

(* No file, and the license file of the installation; POSTs name the others. *)
NoFile == "no_file"
Installed == "installed"

ASSUME EntitlementAssumption ==
  /\ Posts \cap {NoFile, Installed} = {}
  /\ Genuine \subseteq Texts /\ Foreign \subseteq Genuine
  /\ ExpiresAt \in [Texts -> Nat]
  /\ TrialDays \in Nat /\ MaxDay \in Nat /\ MaxBoots \in Nat /\ MaxIoFaults \in Nat

VARIABLES
  embedded,     \* started with --embedded
  day,          \* the calendar
  boots,        \* starts so far
  phase,        \* of the process: "down", a step of the boot, or "up"
  instance,     \* instance_meta has its row
  trialEnd,     \* trial_expires_at, or NoDay
  file, tmp,    \* the inodes the two paths name, or NoFile
  bytes,        \* contents of the inodes
  entitlement,  \* AppState.entitlement
  unread,       \* this boot could not read the license file
  tasks,        \* background loops the boot has spawned
  post,         \* the requests
  ioFaults,     \* failed file operations so far
  overlapped    \* history: two POSTs were between open and store together

entVars == <<embedded, day, boots, phase, instance, trialEnd, file, tmp, bytes,
             entitlement, unread, tasks, post, ioFaults, overlapped>>
diskVars == <<embedded, instance, trialEnd, file, tmp, bytes, ioFaults, overlapped>>

NoDay == MaxDay + TrialDays + 1
Empty == "empty"
Garbled == "garbled"
NoText == "none"
Inodes == Posts \cup {Installed}
PaidLoops == {"drift", "data_sync", "health_check", "reports", "collector"}

Licensed(t) == [kind |-> "licensed", text |-> t]
Trial == [kind |-> "trial", text |-> NoText]
Gated(reason) == [kind |-> "gated", text |-> reason]
IsGated(e) == e.kind = "gated"

(* A license text becomes a state: unparsable, badly signed, issued for      *)
(* another instance, lapsed, or good.                                        *)
ParseLicense(t) == t \in Texts
VerifyLicense(t) == t \in Genuine
LicenseState(t) ==
  IF t \in Foreign THEN Gated("InstanceMismatch")
  ELSE IF day > ExpiresAt[t] THEN Gated("LicenseExpired") ELSE Licensed(t)
ResolveText(t) == IF ParseLicense(t) /\ VerifyLicense(t) THEN LicenseState(t) ELSE Gated("LicenseInvalid")

(* POST goes on only with a license that would not be gated.                 *)
Accepted(e) == ~IsGated(e)

EntTypeOK ==
  /\ embedded \in BOOLEAN /\ day \in 0..MaxDay /\ boots \in 0..MaxBoots
  /\ phase \in {"down", "instance", "resolve", "trial", "spawn", "up"}
  /\ file \in Inodes \cup {NoFile} /\ tmp \in Inodes \cup {NoFile}
  /\ bytes \in [Inodes -> Texts \cup {Empty, Garbled}]
  /\ tasks \subseteq PaidLoops \cup {"cleanup"}

EntInit ==
  /\ embedded \in BOOLEAN
  /\ day = 0 /\ boots = 0 /\ phase = "down"
  /\ instance = FALSE /\ trialEnd = NoDay
  /\ tmp = NoFile
  /\ \/ file = NoFile /\ bytes = [i \in Inodes |-> Empty]
     \/ /\ file = Installed
        /\ \E t \in Texts : bytes = [i \in Inodes |-> IF i = Installed THEN t ELSE Empty]
  /\ entitlement = Gated("TrialExpired") /\ unread = FALSE /\ tasks = {}
  /\ post = [p \in Posts |-> [at |-> "new", text |-> NoText, fd |-> NoFile]]
  /\ ioFaults = 0 /\ overlapped = FALSE

Writing == {p \in Posts : post[p].at \in {"write", "rename", "store"}}

-----------------------------------------------------------------------------
(* Boot.  The embedded server spawns its tickers before it looks at the      *)
(* instance, and its license is synthetic.                                   *)
EmbeddedTasks == {"cleanup", "reports", "collector"}
EmbeddedLicense == Licensed("embedded")

Start ==
  /\ phase = "down" /\ boots < MaxBoots
  /\ boots' = boots + 1 /\ phase' = "instance"
  /\ tasks' = IF embedded THEN EmbeddedTasks ELSE {}
  /\ unread' = FALSE
  /\ UNCHANGED <<day, entitlement, post, diskVars>>

EnsureInstance ==
  /\ phase = "instance"
  /\ instance' = TRUE
  /\ phase' = IF embedded THEN "spawn" ELSE "resolve"
  /\ entitlement' = IF embedded THEN EmbeddedLicense ELSE entitlement
  /\ UNCHANGED <<embedded, day, boots, trialEnd, file, tmp, bytes, unread, tasks,
                 post, ioFaults, overlapped>>

(* read_license_file: a missing file and an unreadable one both mean "none". *)
ResolveEntitlement ==
  /\ phase = "resolve"
  /\ \/ /\ file # NoFile
        /\ entitlement' = ResolveText(bytes[file])
        /\ phase' = "spawn"
        /\ UNCHANGED <<unread, ioFaults>>
     \/ /\ file # NoFile /\ ioFaults < MaxIoFaults
        /\ ioFaults' = ioFaults + 1 /\ unread' = TRUE /\ phase' = "trial"
        /\ UNCHANGED entitlement
     \/ /\ file = NoFile
        /\ phase' = "trial"
        /\ UNCHANGED <<entitlement, unread, ioFaults>>
  /\ UNCHANGED <<embedded, day, boots, instance, trialEnd, file, tmp, bytes, tasks,
                 post, overlapped>>

(* The window is written once, and stays through licensed periods.           *)
TrialWindow == IF trialEnd = NoDay THEN day + TrialDays ELSE trialEnd

EnsureTrialStatus ==
  /\ phase = "trial"
  /\ trialEnd' = TrialWindow
  /\ entitlement' = IF day < trialEnd' THEN Trial ELSE Gated("TrialExpired")
  /\ phase' = "spawn"
  /\ UNCHANGED <<embedded, day, boots, instance, file, tmp, bytes, unread, tasks,
                 post, ioFaults, overlapped>>

(* Schedulers, weekly reports and the collector start only if the boot found *)
(* an entitlement; the embedded server runs no drift and no health_check.    *)
SpawnTasks ==
  /\ phase = "spawn"
  /\ tasks' = tasks \cup {"cleanup"} \cup
       (IF embedded THEN {"data_sync"}
        ELSE IF IsGated(entitlement) THEN {} ELSE PaidLoops)
  /\ phase' = "up"
  /\ UNCHANGED <<day, boots, entitlement, unread, post, diskVars>>

-----------------------------------------------------------------------------
(* POST /api/license.                                                        *)
PostResolve(p) ==
  /\ phase = "up" /\ post[p].at = "new"
  /\ \E t \in Texts :
       post' = [post EXCEPT ![p] = [at |-> IF embedded THEN "forbidden"
                                           ELSE IF Accepted(ResolveText(t)) THEN "open" ELSE "rejected",
                                    text |-> t, fd |-> NoFile]]
  /\ UNCHANGED <<embedded, day, boots, phase, instance, trialEnd, file, tmp, bytes,
                 entitlement, unread, tasks, ioFaults, overlapped>>

(* fs::write opens <path>.tmp with O_CREAT and O_TRUNC ...                   *)
PostOpen(p) ==
  /\ post[p].at = "open"
  /\ LET i == IF tmp = NoFile THEN p ELSE tmp
     IN /\ bytes' = [bytes EXCEPT ![i] = Empty]
        /\ tmp' = i
        /\ post' = [post EXCEPT ![p].at = "write", ![p].fd = i]
  /\ overlapped' = (overlapped \/ Writing # {})
  /\ UNCHANGED <<embedded, day, boots, phase, instance, trialEnd, file, entitlement,
                 unread, tasks, ioFaults>>

(* ... and writes at offset 0 of what it has opened: over another writer's   *)
(* text the two may mix.                                                     *)
PostWrite(p) ==
  /\ post[p].at = "write"
  /\ LET i == post[p].fd
         mixed == bytes[i] \notin {Empty, post[p].text}
     IN \E c \in {post[p].text} \cup (IF mixed THEN {Garbled} ELSE {}) :
          bytes' = [bytes EXCEPT ![i] = c]
  /\ post' = [post EXCEPT ![p].at = "rename"]
  /\ UNCHANGED <<embedded, day, boots, phase, instance, trialEnd, file, tmp, entitlement,
                 unread, tasks, ioFaults, overlapped>>

(* A failed write is answered and nothing is swapped; the bug would be to    *)
(* swap all the same.                                                        *)
AfterFailureSwap == "store"
AfterFailure == "failed"

PostRename(p) ==
  /\ post[p].at = "rename"
  /\ IF tmp = NoFile
     THEN /\ post' = [post EXCEPT ![p].at = AfterFailure] /\ UNCHANGED <<file, tmp>>
     ELSE /\ file' = tmp /\ tmp' = NoFile /\ post' = [post EXCEPT ![p].at = "store"]
  /\ UNCHANGED <<embedded, day, boots, phase, instance, trialEnd, bytes, entitlement,
                 unread, tasks, ioFaults, overlapped>>

(* Opening, writing (what is there may be cut short) or renaming fails.      *)
PostIoError(p) ==
  /\ post[p].at \in {"open", "write", "rename"} /\ ioFaults < MaxIoFaults
  /\ ioFaults' = ioFaults + 1
  /\ bytes' = IF post[p].at = "write" THEN [bytes EXCEPT ![post[p].fd] = Garbled] ELSE bytes
  /\ post' = [post EXCEPT ![p].at = AfterFailure]
  /\ UNCHANGED <<embedded, day, boots, phase, instance, trialEnd, file, tmp, entitlement,
                 unread, tasks, overlapped>>

(* What was resolved before the file was written becomes the entitlement.    *)
PostStore(p) ==
  /\ post[p].at = "store"
  /\ entitlement' = Licensed(post[p].text)
  /\ post' = [post EXCEPT ![p].at = "ok"]
  /\ UNCHANGED <<day, boots, phase, unread, tasks, diskVars>>

-----------------------------------------------------------------------------
(* The world.                                                                *)
NextDay ==
  /\ day < MaxDay /\ day' = day + 1
  /\ UNCHANGED <<boots, phase, entitlement, unread, tasks, post, diskVars>>

RemoveFile ==
  /\ phase = "down" /\ file # NoFile /\ file' = NoFile
  /\ UNCHANGED <<embedded, day, boots, phase, instance, trialEnd, tmp, bytes, entitlement,
                 unread, tasks, post, ioFaults, overlapped>>

EntCrash ==
  /\ phase # "down" /\ phase' = "down" /\ tasks' = {}
  /\ post' = [p \in Posts |-> IF post[p].at \in {"open", "write", "rename", "store"}
                              THEN [post[p] EXCEPT !.at = "lost"] ELSE post[p]]
  /\ UNCHANGED <<day, boots, entitlement, unread, diskVars>>

EntNext ==
  \/ Start \/ EnsureInstance \/ ResolveEntitlement \/ EnsureTrialStatus \/ SpawnTasks
  \/ \E p \in Posts : PostResolve(p) \/ PostOpen(p) \/ PostWrite(p) \/ PostRename(p)
                      \/ PostIoError(p) \/ PostStore(p)
  \/ NextDay \/ RemoveFile \/ EntCrash

EntSpec == EntInit /\ [][EntNext]_entVars

-----------------------------------------------------------------------------
(* The license in memory is the one a restart would find: whenever no POST   *)
(* is under way and no two POSTs have overlapped since the installation, a   *)
(* licensed normal server has exactly its license in the file, a server on   *)
(* the trial path has no file or could not read it, and what POST has left   *)
(* there is never a torn or a rejected text.  The write-then-swap order of   *)
(* post_license and the rename of write_license_file are there for this.     *)
EntitlementMatchesFile ==
  ~overlapped =>
    /\ (phase = "up" /\ ~embedded /\ Writing = {}) =>
         /\ entitlement.kind = "licensed" => file # NoFile /\ bytes[file] = entitlement.text
         /\ entitlement \in {Trial, Gated("TrialExpired")} => file = NoFile \/ unread
    /\ file \notin {NoFile, Installed} => bytes[file] \in Genuine \ Foreign
==============================================================================
