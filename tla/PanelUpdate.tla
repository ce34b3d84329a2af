---------------------------- MODULE PanelUpdate ----------------------------
(***************************************************************************)
(* The panel's self-update: the backend handlers of                        *)
(* backend/internal/update/panel.go, the throwaway Docker runner they      *)
(* launch, and the three bash scripts the runner executes (apply, roll     *)
(* back, back up).                                                         *)
(*                                                                         *)
(* A handler is a goroutine: it looks for a runner, resolves its inputs,   *)
(* creates the runner container and starts it, and any other handler, the  *)
(* runner's script, a crash of the backend or of the runner may take steps *)
(* in between.  The script works on files: the checked out tree (a version *)
(* per file, so that a half-extracted tree is a mixed one), the archives   *)
(* in data/.panel-update-backups and the status file the panel polls.      *)
(***************************************************************************)
EXTENDS Naturals, FiniteSets

CONSTANTS
  Handlers,      \* concurrent requests the backend serves
  Versions,      \* release numbers, ordered
  Files,         \* files (or groups of files) of the tree
  VersionFile,   \* the file appversion.Version is compiled from
  ReleaseFiles,  \* [Versions -> SUBSET Files]: the files each release ships
  OpsOf,         \* [Handlers -> SUBSET Ops]: bound: what each of them may ask for
  MaxManual,     \* bound: manual snapshots kept per version
  Absent,        \* the content of a file that does not exist
  Bad,           \* the content of a file whose bundle fails its checksum
  None      \* a backup name that no file carries

ASSUME VersionsAssumption == Versions \subseteq Nat \ {0}
ASSUME FilesAssumption ==
  /\ VersionFile \in Files
  /\ ReleaseFiles \in [Versions -> SUBSET Files]
  /\ \A v \in Versions : VersionFile \in ReleaseFiles[v]
ASSUME ManualAssumption == MaxManual \in Nat
ASSUME DistinctAssumption ==
  /\ Absent \notin Versions /\ Bad \notin Versions /\ Absent # Bad
  /\ None \notin [files : [Files -> Versions \cup {Absent, Bad}], whole : BOOLEAN]

VARIABLES
  tree,      \* [Files -> Content]: the checkout at repoRoot
  built,     \* [Files -> Content]: the tree the running containers were built from
  backups,   \* [Names -> archive or None]
  status,    \* panel-update.json as Status() reads it
  runner,    \* the container rustdesk-admin-panel-updater
  job,       \* the script inside that container
  req,       \* [Handlers -> the request being served]
  active,    \* PanelUpdater.active
  tree0      \* history: the tree when the current script started

vars == <<tree, built, backups, status, runner, job, req, active, tree0>>
files == <<tree, built, backups>>

Content == Versions \cup {Absent, Bad}
Tree == [Files -> Content]
Archive == [files : Tree, whole : BOOLEAN]

\* pre-vX.Y.Z.tar.gz is k = 0; pre-vX.Y.Z-manual-<ts>.tar.gz is k > 0.
Names == [v : Versions, k : 0 .. MaxManual]
AutoBackup(v) == [v |-> v, k |-> 0]

Whole(t) == [files |-> t, whole |-> TRUE]
Release(v, c) == [f \in Files |-> IF f \in ReleaseFiles[v] THEN c ELSE Absent]
InstalledFiles(a) == {f \in Files : a.files[f] # Absent}

\* appversion.Version is compiled into the backend that serves the requests.
Current == built[VersionFile]

Ops == {"apply", "rollback", "backup", "delete", "reset"}
Kinds == {"apply", "rollback", "backup"}
Phases == {"idle", "verifying", "backup", "extracting", "building", "health",
           "rollback", "ok", "rolled_back", "error"}
Idle == [phase |-> "idle", tag |-> Absent, err |-> FALSE]

ReqPcs == {"idle", "check", "resolve", "create", "start", "remove"}
Free == [pc |-> "idle", op |-> "reset", name |-> None, tag |-> Absent]
Request == [pc : ReqPcs, op : Ops, name : Names \cup {None}, tag : Versions \cup {Absent}]

\* Program counters of the scripts.  Those of StatePcs are the calls of state().
StatePcs == {"start", "backed", "open", "extracted", "built", "healthy",
             "restore", "restored", "failed", "on_err"}
JobPcs == StatePcs \cup {"tooling", "backup", "backing", "fetch", "verify", "untar",
                         "extract", "setup", "health", "fail", "untar_prev",
                         "restoring", "rebuild", "exit"}
NoJob == [kind |-> "backup", tag |-> Absent, name |-> None, pc |-> "exit",
          src |-> None, todo |-> {}, bundle |-> Absent, saved |-> FALSE, lost |-> FALSE]
Job == [kind : Kinds, tag : Versions \cup {Absent}, name : Names \cup {None}, pc : JobPcs,
        src : Archive \cup {None}, todo : SUBSET Files, bundle : Content,
        saved : BOOLEAN, lost : BOOLEAN]

Init ==
  /\ \E v \in Versions : tree = Release(v, v)
  /\ built = tree
  /\ backups = [n \in Names |-> None]
  /\ status = Idle
  /\ runner = "none"
  /\ job = NoJob
  /\ req = [h \in Handlers |-> Free]
  /\ active = FALSE
  /\ tree0 = tree

-----------------------------------------------------------------------------
(***************************************************************************)
(* The backend's handlers.                                                 *)
(***************************************************************************)

At(h, pc) == req[h].pc = pc
Goto(h, pc) == req' = [req EXCEPT ![h].pc = pc]

\* The handler returns to its caller; Apply's deferred function clears active.
Answer(h) ==
  /\ req' = [req EXCEPT ![h] = Free]
  /\ active' = IF req[h].op = "apply" THEN FALSE ELSE active

\* A request arrives and passes its validation (allowed, name syntax).  Apply
\* alone takes the in-process flag, and is refused while it is set.
Begin(h, op, name) ==
  /\ At(h, "idle") /\ op \in OpsOf[h]
  /\ op = "apply" => ~active
  /\ name = None <=> op \notin {"rollback", "delete"}
  /\ req' = [req EXCEPT ![h] = [pc |-> "check", op |-> op, name |-> name, tag |-> Absent]]
  /\ active' = (active \/ op = "apply")
  /\ UNCHANGED <<files, status, runner, job, tree0>>

RunnerExists == runner # "none"

\* runnerRunning answers "no" whenever the inspection returns an error, of
\* which "no such container" is only one: a refused or cancelled call counts
\* as no runner too.
RunnerSeen(h) ==
  /\ At(h, "check")
  /\ RunnerExists
  /\ Answer(h)
  /\ UNCHANGED <<files, status, runner, job, tree0>>

RunnerNotSeen(h) ==
  /\ At(h, "check")
  /\ Goto(h, IF req[h].op \in {"delete", "reset"} THEN "remove" ELSE "resolve")
  /\ UNCHANGED <<files, status, runner, job, active, tree0>>

\* Release lookup (apply: a tag newer than the running version), the checkout's
\* path and the runner's image; any of them may fail.
Ready(h, name, tag) ==
  req' = [req EXCEPT ![h] = [pc |-> "create", op |-> req[h].op, name |-> name, tag |-> tag]]

ResolveApply(h) ==
  \E v \in Versions : v > Current /\ Ready(h, AutoBackup(v), v)
ResolveRollback(h) ==
  Ready(h, req[h].name, req[h].name.v)
ResolveBackup(h) ==
  \E n \in Names : n.k > 0 /\ n.v = Current /\ backups[n] = None /\ Ready(h, n, Absent)

Resolve(h) ==
  /\ At(h, "resolve") /\ Current \in Versions
  /\ \/ req[h].op = "apply" /\ ResolveApply(h)
     \/ req[h].op = "rollback" /\ ResolveRollback(h)
     \/ req[h].op = "backup" /\ ResolveBackup(h)
  /\ UNCHANGED <<files, status, runner, job, active, tree0>>

\* A failed lookup, a failed or timed out Docker call, or no newer release:
\* the handler returns the error and undoes nothing.
GiveUp(h) ==
  /\ \E pc \in {"resolve", "create", "start", "remove"} : At(h, pc)
  /\ Answer(h)
  /\ UNCHANGED <<files, status, runner, job, tree0>>

JobOf(r) == [NoJob EXCEPT !.kind = r.op, !.tag = r.tag, !.name = r.name,
                          !.pc = IF r.op = "backup" THEN "backup" ELSE "start"]

\* Fault: two containers may carry the runner's name.
NameTakenFault == FALSE

\* Docker refuses a second container of the same name.
NameTaken == runner # "none"
CreateRunner(h) ==
  /\ At(h, "create")
  /\ ~NameTaken
  /\ runner' = "created"
  /\ job' = JobOf(req[h])
  /\ Goto(h, "start")
  /\ UNCHANGED <<files, status, active, tree0>>

StartRunner(h) ==
  /\ At(h, "start")
  /\ runner = "created"
  /\ runner' = "running"
  /\ tree0' = tree
  /\ Answer(h)
  /\ UNCHANGED <<files, status, job>>

\* HandleDeleteBackup's os.Remove and HandleReset's removal of status and log.
Remove(h) ==
  /\ At(h, "remove")
  /\ IF req[h].op = "delete"
     THEN backups' = [backups EXCEPT ![req[h].name] = None] /\ UNCHANGED status
     ELSE status' = Idle /\ UNCHANGED backups
  /\ Answer(h)
  /\ UNCHANGED <<tree, built, runner, job, tree0>>

\* The backend stops and comes back (a crash, or setup.sh recreating it).
BackendRestart ==
  /\ req' = [h \in Handlers |-> Free]
  /\ active' = FALSE
  /\ UNCHANGED <<files, status, runner, job, tree0>>

-----------------------------------------------------------------------------
(***************************************************************************)
(* The runner's scripts.                                                   *)
(***************************************************************************)

In(pc) == runner = "running" /\ job.pc = pc
Jump(pc) == job' = [job EXCEPT !.pc = pc]
Quiet == UNCHANGED <<runner, req, active, tree0>>

Phase ==
  CASE job.pc = "start" -> "verifying"
    [] job.pc = "backed" -> "backup"
    [] job.pc = "open" -> IF job.kind = "apply" THEN "extracting" ELSE "rollback"
    [] job.pc = "extracted" -> "building"
    [] job.pc = "built" -> "health"
    [] job.pc = "healthy" -> IF job.kind = "apply" THEN "ok" ELSE "rolled_back"
    [] job.pc = "restore" -> "rollback"
    [] job.pc = "restored" -> "rolled_back"
    [] OTHER -> "error"
After ==
  CASE job.pc = "start" -> "tooling"
    [] job.pc = "backed" -> "fetch"
    [] job.pc = "open" -> "untar"
    [] job.pc = "extracted" -> "setup"
    [] job.pc = "built" -> "health"
    [] job.pc = "restore" -> "untar_prev"
    [] OTHER -> "exit"
Failing == {"restore", "restored", "failed", "on_err"}

AtState == /\ runner = "running" /\ job.pc \in StatePcs
           /\ ~(job.pc = "start" /\ job.kind = "rollback")

\* state <phase> [<error>]: rewrite the status file, keep going.
WriteState ==
  /\ AtState
  /\ status' = [phase |-> Phase, tag |-> job.tag, err |-> job.pc \in Failing]
  /\ Jump(After)
  /\ UNCHANGED files /\ Quiet

\* state() fails (its file is opened with "w", so it may be left empty, which
\* Status() reports as idle).  A failure inside a function runs no ERR trap:
\* set -e ends the script there.
StateFails ==
  /\ AtState
  /\ status' \in {status, Idle}
  /\ job' = [job EXCEPT !.pc = "exit", !.lost = TRUE]
  /\ UNCHANGED files /\ Quiet

\* Roll back: the script looks for its archive before anything else.
FindBackup ==
  /\ In("start") /\ job.kind = "rollback"
  /\ Jump(IF backups[job.name] = None THEN "fail" ELSE "tooling")
  /\ UNCHANGED <<files, status>> /\ Quiet

\* docker compose, openssl and curl are found or installed, or fail() runs.
Tooling ==
  /\ In("tooling")
  /\ \/ Jump(IF job.kind = "apply" THEN "backup" ELSE "open")
     \/ Jump("fail")
  /\ UNCHANGED <<files, status>> /\ Quiet

\* tar czf truncates the archive it is about to write ...
OpenBackup ==
  /\ In("backup")
  /\ backups' = [backups EXCEPT ![job.name] = [files |-> [f \in Files |-> Absent], whole |-> FALSE]]
  /\ Jump("backing")
  /\ UNCHANGED <<tree, built, status>> /\ Quiet

\* ... writes the tree ...
WriteBackup ==
  /\ In("backing")
  /\ backups' = [backups EXCEPT ![job.name] = Whole(tree)]
  /\ job' = [job EXCEPT !.pc = IF job.kind = "backup" THEN "exit" ELSE "backed",
                        !.saved = TRUE]
  /\ UNCHANGED <<tree, built, status>> /\ Quiet

\* ... or dies halfway.  The manual snapshot pipes tar into tee without
\* pipefail, so its script does not notice; the apply script's trap does.
BackupFails ==
  /\ In("backing")
  /\ \E got \in SUBSET Files :
       backups' = [backups EXCEPT ![job.name] =
                     [files |-> [f \in Files |-> IF f \in got THEN tree[f] ELSE Absent],
                      whole |-> FALSE]]
  /\ Jump(IF job.kind = "backup" THEN "exit" ELSE "on_err")
  /\ UNCHANGED <<tree, built, status>> /\ Quiet

\* Bundle and checksum file are downloaded, three attempts each; what arrives
\* under the release's name may be damaged.
Fetch ==
  /\ In("fetch")
  /\ \/ \E c \in {job.tag, Bad} : job' = [job EXCEPT !.pc = "verify", !.bundle = c]
     \/ Jump("fail")
  /\ UNCHANGED <<files, status>> /\ Quiet

\* Fault: the checksum is not compared.
ChecksumOkFault == TRUE

ChecksumOk == job.bundle = job.tag
\* No entry or a mismatch runs fail(); an unreadable file runs the ERR trap.
Verify ==
  /\ In("verify")
  /\ \/ ChecksumOk /\ Jump("open")
     \/ Jump("fail")
     \/ Jump("on_err")
  /\ UNCHANGED <<files, status>> /\ Quiet

\* tar has an archive open: it extracts what the archive holds.
Unpack(pc, src) ==
  job' = [job EXCEPT !.pc = pc, !.src = src, !.todo = InstalledFiles(src)]

\* tar opens the bundle, or the chosen archive (which may be gone by now).
Untar ==
  /\ In("untar")
  /\ LET src == IF job.kind = "apply" THEN Whole(Release(job.tag, job.bundle))
                                      ELSE backups[job.name]
     IN IF src = None
        THEN Jump("on_err")
        ELSE Unpack("extract", src)
  /\ UNCHANGED <<files, status>> /\ Quiet

\* One file at a time; files the archive does not hold are left where they are.
ExtractFile ==
  /\ In("extract") \/ In("restoring")
  /\ \E f \in job.todo :
       /\ tree' = [tree EXCEPT ![f] = job.src.files[f]]
       /\ job' = [job EXCEPT !.todo = @ \ {f}]
  /\ UNCHANGED <<built, backups, status>> /\ Quiet

Extracted ==
  /\ In("extract") /\ job.todo = {} /\ job.src.whole
  /\ Jump("extracted")
  /\ UNCHANGED <<files, status>> /\ Quiet

\* Fault: the exit code of tar is lost.
ExtractFailsFault ==
  /\ In("extract")
  /\ Jump("extracted")
  /\ UNCHANGED <<files, status>> /\ Quiet

\* A full disk or a truncated archive: tar fails with part of the tree replaced.
ExtractFails ==
  /\ In("extract")
  /\ Jump("on_err")
  /\ UNCHANGED <<files, status>> /\ Quiet

\* setup.sh rebuilds the images and recreates the containers.
SetupOk ==
  /\ In("setup") \/ In("rebuild")
  /\ built' = tree
  /\ Jump(IF job.pc = "setup" THEN "built" ELSE "restored")
  /\ UNCHANGED <<tree, backups, status>> /\ Quiet

\* Fault: a failed setup.sh is taken for a good one.
SetupFailsFault ==
  /\ In("setup") \/ In("rebuild")
  /\ built' \in {built, tree}
  /\ Jump(IF job.pc = "setup" THEN "built" ELSE "restored")
  /\ UNCHANGED <<tree, backups, status>> /\ Quiet

\* It may fail before or after the containers were recreated.
SetupFails ==
  /\ In("setup") \/ In("rebuild")
  /\ built' \in {built, tree}
  /\ Jump(IF job.pc = "setup" THEN "fail" ELSE "failed")
  /\ UNCHANGED <<tree, backups, status>> /\ Quiet

\* 40 probes of /__health.
Health ==
  /\ In("health")
  /\ Jump("healthy") \/ Jump("fail")
  /\ UNCHANGED <<files, status>> /\ Quiet

\* fail(): with an archive under PREV_MARKER the previous tree is restored; the
\* roll back script has no PREV_MARKER.
Fail ==
  /\ In("fail")
  /\ Jump(IF job.kind = "apply" /\ backups[job.name] # None THEN "restore" ELSE "failed")
  /\ UNCHANGED <<files, status>> /\ Quiet

UntarPrev ==
  /\ In("untar_prev")
  /\ LET src == backups[job.name]
     IN IF src = None
        THEN Jump("exit")
        ELSE Unpack("restoring", src)
  /\ UNCHANGED <<files, status>> /\ Quiet

Restored ==
  /\ In("restoring") /\ job.todo = {} /\ job.src.whole
  /\ Jump("rebuild")
  /\ UNCHANGED <<files, status>> /\ Quiet

\* Fault: a restore that fails is rebuilt as if it were complete.
RestoreFailsFault ==
  /\ In("restoring")
  /\ Jump("rebuild")
  /\ UNCHANGED <<files, status>> /\ Quiet

\* Inside fail() the ERR trap is off and set -e still on: tar failing ends the
\* script with the status it had.
RestoreFails ==
  /\ In("restoring")
  /\ Jump("exit")
  /\ UNCHANGED <<files, status>> /\ Quiet

\* Fault: the container is created without AutoRemove.
ReapFault ==
  /\ runner = "gone"
  /\ runner' = "none"
  /\ job' = NoJob
  /\ tree0' = tree
  /\ UNCHANGED <<files, status, req, active>>

\* The script ends; Docker removes the container (AutoRemove) a moment later.
Exit ==
  /\ In("exit")
  /\ runner' = "exited"
  /\ UNCHANGED <<files, status, job, req, active, tree0>>

Reap ==
  /\ runner = "exited"
  /\ runner' = "none"
  /\ job' = NoJob
  /\ tree0' = tree
  /\ UNCHANGED <<files, status, req, active>>

\* The host reboots or the runner is killed: the script stops where it is,
\* possibly with the status file just truncated.
KillRunner ==
  /\ runner = "running"
  /\ runner' = "none"
  /\ job' = NoJob
  /\ tree0' = tree
  /\ status' \in IF AtState THEN {status, Idle} ELSE {status}
  /\ UNCHANGED <<files, req, active>>

Serve(h) ==
  \/ \E op \in Ops, name \in Names \cup {None} : Begin(h, op, name)
  \/ RunnerSeen(h) \/ RunnerNotSeen(h) \/ Resolve(h) \/ GiveUp(h)
  \/ CreateRunner(h) \/ StartRunner(h) \/ Remove(h)

Script ==
  \/ WriteState \/ StateFails \/ FindBackup \/ Tooling
  \/ OpenBackup \/ WriteBackup \/ BackupFails \/ Fetch \/ Verify
  \/ Untar \/ ExtractFile \/ Extracted \/ ExtractFails
  \/ SetupOk \/ SetupFails \/ Health
  \/ Fail \/ UntarPrev \/ Restored \/ RestoreFails \/ Exit

Next ==
  \/ \E h \in Handlers : Serve(h)
  \/ BackendRestart
  \/ Script
  \/ Reap
  \/ KillRunner

Spec == Init /\ [][Next]_vars

\* The script is a process of the host and every command in it ends (downloads,
\* probes and installs have their timeouts); the Docker daemon reaps what exits.
FairSpec == Spec /\ WF_vars(Script) /\ WF_vars(Reap)

-----------------------------------------------------------------------------
(***************************************************************************)
(* What the self-update promises.                                          *)
(***************************************************************************)

\* A request that gets as far as a runner has an archive name and a tag for it.
Named(r) ==
  /\ r.pc \in {"resolve", "create", "start"} => r.op \in Kinds
  /\ r.op \in {"rollback", "delete"} \/ r.pc \in {"create", "start"} => r.name \in Names
  /\ r.pc \in {"create", "start"} /\ r.op # "backup" => r.tag \in Versions

TypeOK ==
  /\ tree \in Tree /\ built \in Tree /\ tree0 \in Tree
  /\ backups \in [Names -> Archive \cup {None}]
  /\ status \in [phase : Phases, tag : Versions \cup {Absent}, err : BOOLEAN]
  /\ runner \in {"none", "created", "running", "exited"}
  /\ job \in Job
  /\ req \in [Handlers -> Request]
  /\ active \in BOOLEAN
  /\ \A h \in Handlers : Named(req[h])
  /\ runner \in {"created", "running"} =>
       job.name \in Names /\ (job.kind # "backup" => job.tag \in Versions)
  /\ job.todo # {} => job.src # None

\* A green or a rolled-back card is true: the containers that serve the panel
\* were built from exactly the tree that is on disk now.
StatusHonest == status.phase \in {"ok", "rolled_back"} => built = tree

\* "ok" means the release named in the status is installed, every file of it.
OkMeansInstalled ==
  status.phase = "ok" => \A f \in ReleaseFiles[status.tag] : tree[f] = status.tag

\* Nothing from a bundle that failed its checksum reaches the tree, a container
\* or an archive.
OnlyVerifiedCode ==
  /\ \A f \in Files : tree[f] # Bad /\ built[f] # Bad
  /\ \A n \in Names : backups[n] # None => \A f \in Files : backups[n].files[f] # Bad

\* Once an apply has taken its backup, and until its script ends, pre-<tag>
\* holds the complete tree the script started from, whatever the script has
\* done to the tree since: it may only be missing (a deletion that passed its
\* check before the runner appeared), never partial and never a mixed tree.
PreviousTreeKept ==
  runner = "running" /\ job.kind = "apply" /\ job.saved
    => backups[job.name] \in {None, Whole(tree0)}

\* When the restore of a failed apply has completed, every file that existed
\* before the apply is again what it was, whichever step of the apply failed.
RestoreCompletes ==
  runner = "running" /\ job.saved /\ job.pc \in {"rebuild", "restored"}
    => \A f \in InstalledFiles(Whole(tree0)) : tree[f] = tree0[f]

\* A failed apply has something whole to fall back on, and falls back on it.
FallbackHolds == PreviousTreeKept /\ RestoreCompletes

\* setup.sh never rebuilds the stack from a partly extracted archive, be it the
\* bundle, a chosen backup or the restored one.
SetupOnWholeTree ==
  runner = "running" /\ job.pc \in {"setup", "rebuild"}
    => job.src.whole /\ \A f \in InstalledFiles(job.src) : tree[f] = job.src.files[f]

\* A handler only ever starts the job it was asked for: between its create and
\* its start no other request, runner exit or crash swaps the container, and no
\* other handler is about to start one.
StartsOwnJob ==
  \A h \in Handlers :
    At(h, "start") => /\ runner = "created" /\ job = JobOf(req[h])
                      /\ \A g \in Handlers : At(g, "start") => g = h

\* Every run ends: a runner that executes its script is eventually gone, and
\* with it the lock it is on every other operation.
RunnerGoes == (runner = "running") ~> (runner = "none")

-----------------------------------------------------------------------------
(***************************************************************************)
(* Why they hold: an inductive strengthening, in parts.                    *)
(***************************************************************************)

RunsAt(pcs) == runner = "running" /\ job.pc \in pcs

\* A container that was created and not started has done nothing.
FreshRunner ==
  runner = "created" => /\ job.pc = IF job.kind = "backup" THEN "backup" ELSE "start"
                        /\ ~job.saved /\ job.src = None /\ job.todo = {}

\* A script that may have touched the tree has retracted an earlier green status
\* first; a script past a good setup.sh has not touched the tree since.
HonestInv ==
  /\ StatusHonest
  /\ RunsAt({"untar", "extract", "extracted", "setup", "built", "health", "healthy",
             "untar_prev", "restoring", "rebuild", "restored"})
       => status.phase \notin {"ok", "rolled_back"}
  /\ RunsAt({"built", "health", "healthy", "restored"}) => built = tree

\* What an extraction has put in the tree so far, and all of it at its end.
ExtractInv ==
  /\ RunsAt({"extract", "restoring"})
       => /\ job.src # None
          /\ \A f \in InstalledFiles(job.src) \ job.todo : tree[f] = job.src.files[f]
  /\ RunsAt({"extracted", "setup", "built", "health", "healthy", "rebuild", "restored"})
       => /\ job.src # None /\ job.src.whole
          /\ \A f \in InstalledFiles(job.src) : tree[f] = job.src.files[f]

\* An apply only opens the bundle it verified, and installs that.
BundleInv ==
  /\ job.kind = "apply" /\ RunsAt({"open", "untar"}) => job.bundle = job.tag
  /\ job.kind = "apply" /\ RunsAt({"extract", "extracted", "setup", "built", "health", "healthy"})
       => job.src = Whole(Release(job.tag, job.tag))
  /\ status.phase = "ok" => status.tag \in Versions
  /\ OkMeansInstalled

\* Nothing anywhere came from a bundle that was not verified.
CleanInv ==
  /\ OnlyVerifiedCode
  /\ \A f \in Files : tree0[f] # Bad /\ (job.src # None => job.src.files[f] # Bad)

\* Until its backup is taken an apply has not touched the tree, and a restore
\* after that reads that backup.
SavedInv ==
  /\ job.kind = "apply" /\ RunsAt({"start", "tooling", "backup", "backing"})
       => ~job.saved
  /\ job.kind = "apply" /\ RunsAt({"start", "tooling", "backup", "backing"}) => tree = tree0
  /\ RunsAt({"restore", "untar_prev", "restoring", "rebuild", "restored"}) => job.kind = "apply"
  /\ PreviousTreeKept
  /\ job.saved /\ RunsAt({"restoring", "rebuild", "restored"}) => job.src = Whole(tree0)

IInv == TypeOK /\ FreshRunner /\ StartsOwnJob /\ HonestInv /\ ExtractInv /\ BundleInv
        /\ CleanInv /\ SavedInv

-----------------------------------------------------------------------------
(***************************************************************************)
(* What the repository says of the self-update and the code does not do.   *)
(* FailureRestores is the property of the run panel_mixed_tree; naming one *)
(* of the others in its configuration shows TLC's counterexample to it.    *)
(***************************************************************************)

Terminal == {"ok", "rolled_back", "error"}

\* README.md: every exit path records a terminal state.  (A failure of state()
\* itself, and a reset in the middle of the run, are not held against it.)
EveryExitTerminal ==
  runner = "exited" /\ job.kind # "backup" /\ ~job.lost
    => status.phase \in Terminal \cup {"idle"}

\* panel.go on the apply script: every exit through failure first restores the
\* previous tree.
FailureRestores ==
  runner = "exited" /\ job.kind = "apply" /\ job.saved /\ status.phase = "error"
    => \A f \in InstalledFiles(Whole(tree0)) : tree[f] = tree0[f]

\* The same sentence, of a restore that completes: the previous tree is back.
RestoreExact ==
  runner = "running" /\ job.saved /\ job.pc = "restored" => tree = tree0

\* panel.go on the apply script's tooling gate: a failure there aborts before
\* any tree modification.
ToolingFailureHarmless ==
  runner = "running" /\ job.kind = "apply" /\ ~job.saved => tree = tree0

\* panel.go on HandleDeleteBackup: refused while a runner exists.
DeleteRefusedWhileRunner ==
  [][(\E n \in Names : backups[n] # None /\ backups'[n] = None) => ~RunnerExists]_vars
=============================================================================
