------------------------- MODULE PanelUpdate_proofs -------------------------
(***************************************************************************)
(* Proofs about PanelUpdate, for every set of handlers, releases, files    *)
(* and backups.                                                            *)
(***************************************************************************)
EXTENDS PanelUpdate, TLAPS

\* What the constants are, in one fact.
LEMMA Constants ==
  /\ Versions \subseteq Nat
  /\ Absent \notin Versions /\ Bad \notin Versions /\ Absent # Bad
  /\ None \notin Archive
  /\ ReleaseFiles \in [Versions -> SUBSET Files]
  /\ VersionFile \in Files
  /\ MaxManual \in Nat
  BY VersionsAssumption, FilesAssumption, ManualAssumption, DistinctAssumption
     DEF Archive, Tree, Content

\* The tree of a release is a tree.
LEMMA ReleaseType ==
  ASSUME NEW v \in Versions, NEW c \in Content
  PROVE  Release(v, c) \in Tree
  BY DEF Release, Tree, Content

\* A job is created with the fields of a job.
LEMMA JobOfType ==
  ASSUME NEW r \in Request, r.op \in Kinds
  PROVE  /\ JobOf(r) \in Job
         /\ JobOf(r).kind = r.op /\ JobOf(r).name = r.name /\ JobOf(r).tag = r.tag
         /\ JobOf(r).pc = IF r.op = "backup" THEN "backup" ELSE "start"
         /\ ~JobOf(r).saved /\ JobOf(r).src = None /\ JobOf(r).todo = {}
  BY DEF Request, JobOf, NoJob, Job, Kinds, JobPcs, StatePcs, Content

\* A job stays a job when tar opens an archive, and keeps what identifies it.
LEMMA UnpackType ==
  ASSUME job \in Job, NEW pc \in JobPcs, NEW src \in Archive, Unpack(pc, src)
  PROVE  /\ job' \in Job
         /\ job'.name = job.name /\ job'.kind = job.kind /\ job'.tag = job.tag
         /\ job'.src = src /\ job'.todo = InstalledFiles(src) /\ job'.pc = pc
         /\ job'.saved = job.saved /\ job'.bundle = job.bundle
  <1>1. InstalledFiles(src) \in SUBSET Files
    BY DEF InstalledFiles
  <1>2. QED
    BY <1>1 DEF Unpack, Job

LEMMA TypeInit == Init => TypeOK
  <1> SUFFICES ASSUME Init PROVE TypeOK OBVIOUS
  <1>1. tree \in Tree
    BY ReleaseType DEF Init, Content
  <1>2. req \in [Handlers -> Request]
    BY DEF Init, Free, Request, ReqPcs, Ops
  <1>3. job \in Job /\ job.todo = {}
    BY DEF Init, NoJob, Job, Kinds, JobPcs, Content
  <1>4. QED
    BY <1>1, <1>2, <1>3 DEF Init, TypeOK, Idle, Phases, Named, Free

\* The type invariant is kept by every action.
LEMMA TypeStep == TypeOK /\ [Next]_vars => TypeOK'
  <1> SUFFICES ASSUME TypeOK, [Next]_vars PROVE TypeOK'
    OBVIOUS
  <1> USE Constants DEF TypeOK, files, Named
  <1>f. Free \in Request /\ Named(Free)
    BY DEF Free, Request, ReqPcs, Ops
  <1>n. NoJob \in Job /\ NoJob.todo = {}
    BY DEF NoJob, Job, Kinds, JobPcs, Content
  <1>i. Idle \in [phase : Phases, tag : Versions \cup {Absent}, err : BOOLEAN]
    BY DEF Idle, Phases
  <1>1. ASSUME NEW h \in Handlers, Serve(h) PROVE TypeOK'
    <2> USE DEF At, Answer, Goto
    <2>1. req[h] \in Request /\ Named(req[h])
      OBVIOUS
    <2>2. ASSUME NEW r \in Request, Named(r), req' = [req EXCEPT ![h] = r]
          PROVE  req' \in [Handlers -> Request] /\ \A g \in Handlers : Named(req'[g])
      BY <2>2
    <2>3. ASSUME NEW op \in Ops, NEW name \in Names \cup {None}, Begin(h, op, name)
          PROVE  TypeOK'
      BY <2>3 DEF Begin, Request, ReqPcs, Ops
    <2>4. CASE RunnerSeen(h)
      BY <1>f, <2>2, <2>4 DEF RunnerSeen
    <2>5. CASE RunnerNotSeen(h)
      BY <2>1, <2>5 DEF RunnerNotSeen, Request, ReqPcs, Ops, Kinds
    <2>6. CASE Resolve(h)
      <3>1. ASSUME NEW name \in Names, NEW tag \in Versions \cup {Absent},
                   req[h].op # "backup" => tag \in Versions, Ready(h, name, tag)
            PROVE  TypeOK'
        <4> DEFINE r == [pc |-> "create", op |-> req[h].op, name |-> name, tag |-> tag]
        <4>1. r \in Request /\ Named(r)
          BY <2>1, <2>6, <3>1 DEF Resolve, Request, ReqPcs
        <4>2. req' = [req EXCEPT ![h] = r]
          BY <3>1 DEF Ready
        <4>3. QED
          BY <2>2, <2>6, <4>1, <4>2 DEF Resolve
      <3>2. CASE req[h].op = "apply" /\ ResolveApply(h)
        BY <3>1, <3>2 DEF ResolveApply, AutoBackup, Names
      <3>3. CASE req[h].op = "rollback" /\ ResolveRollback(h)
        BY <2>1, <3>1, <3>3 DEF ResolveRollback, Names
      <3>4. CASE req[h].op = "backup" /\ ResolveBackup(h)
        BY <3>1, <3>4 DEF ResolveBackup
      <3>5. QED
        BY <2>6, <3>2, <3>3, <3>4 DEF Resolve
    <2>7. CASE GiveUp(h)
      BY <1>f, <2>2, <2>7 DEF GiveUp
    <2>8. CASE CreateRunner(h)
      <3>1. JobOf(req[h]) \in Job /\ JobOf(req[h]).name = req[h].name
            /\ JobOf(req[h]).todo = {} /\ JobOf(req[h]).kind = req[h].op
            /\ JobOf(req[h]).tag = req[h].tag
        BY <2>1, <2>8, JobOfType DEF CreateRunner, JobOf, NoJob
      <3>2. req' \in [Handlers -> Request] /\ \A g \in Handlers : Named(req'[g])
        BY <2>1, <2>8 DEF CreateRunner, Request, ReqPcs
      <3>3. QED
        BY <2>1, <2>8, <3>1, <3>2 DEF CreateRunner
    <2>9. CASE StartRunner(h)
      BY <1>f, <2>2, <2>9 DEF StartRunner
    <2>10. CASE Remove(h)
      BY <1>f, <1>i, <2>2, <2>10 DEF Remove
    <2>11. QED
      BY <1>1, <2>3, <2>4, <2>5, <2>6, <2>7, <2>8, <2>9, <2>10 DEF Serve
  <1>2. CASE BackendRestart
    BY <1>f, <1>2 DEF BackendRestart
  <1>3. CASE Script
    <2> USE DEF In, Jump, Quiet
    <2>1. ASSUME NEW pc \in JobPcs, job' = [job EXCEPT !.pc = pc], runner' = runner
          PROVE  /\ job' \in Job /\ (job'.todo # {} => job'.src # None)
                 /\ runner' \in {"created", "running"} =>
                      job'.name \in Names /\ (job'.kind # "backup" => job'.tag \in Versions)
      BY <2>1 DEF Job
    <2>2. CASE WriteState
      <3>1. Phase \in Phases /\ After \in JobPcs
        BY DEF Phase, Phases, After, JobPcs, StatePcs
      <3>2. status' \in [phase : Phases, tag : Versions \cup {Absent}, err : BOOLEAN]
        BY <2>2, <3>1 DEF WriteState, Failing, Job
      <3>3. QED
        BY <2>1, <2>2, <3>1, <3>2 DEF WriteState
    <2>3. CASE StateFails
      BY <1>i, <2>3 DEF StateFails, Job, JobPcs
    <2>4. CASE FindBackup
      BY <2>1, <2>4 DEF FindBackup, JobPcs
    <2>5. CASE Tooling
      BY <2>1, <2>5 DEF Tooling, JobPcs, StatePcs
    <2>6. CASE OpenBackup
      <3>1. [files |-> [f \in Files |-> Absent], whole |-> FALSE] \in Archive
        BY DEF Archive, Tree, Content
      <3>2. QED
        BY <2>1, <2>6, <3>1 DEF OpenBackup, JobPcs
    <2>7. CASE WriteBackup
      BY <2>7 DEF WriteBackup, Whole, Archive, Job, JobPcs, StatePcs
    <2>8. CASE BackupFails
      <3>1. ASSUME NEW got \in SUBSET Files
            PROVE  [files |-> [f \in Files |-> IF f \in got THEN tree[f] ELSE Absent],
                    whole |-> FALSE] \in Archive
        BY DEF Archive, Tree, Content
      <3>2. backups' \in [Names -> Archive \cup {None}]
        <4>1. PICK got \in SUBSET Files :
                backups' = [backups EXCEPT ![job.name] =
                     [files |-> [f \in Files |-> IF f \in got THEN tree[f] ELSE Absent],
                      whole |-> FALSE]]
          BY <2>8 DEF BackupFails
        <4>2. QED
          BY <3>1, <4>1
      <3>3. (IF job.kind = "backup" THEN "exit" ELSE "on_err") \in JobPcs
        BY DEF JobPcs, StatePcs
      <3>4. QED
        BY <2>1, <2>8, <3>2, <3>3 DEF BackupFails
    <2>9. CASE Fetch
      <3>1. ASSUME NEW c \in {job.tag, Bad}, job' = [job EXCEPT !.pc = "verify", !.bundle = c]
            PROVE  TypeOK'
        BY <2>9, <3>1 DEF Fetch, Job, JobPcs, Content
      <3>2. CASE Jump("fail")
        BY <2>1, <2>9, <3>2 DEF Fetch, JobPcs
      <3>3. QED
        BY <2>9, <3>1, <3>2 DEF Fetch
    <2>10. CASE Verify
      BY <2>1, <2>10 DEF Verify, JobPcs, StatePcs
    <2>11. CASE Untar
      <3> DEFINE src == IF job.kind = "apply" THEN Whole(Release(job.tag, job.bundle))
                                               ELSE backups[job.name]
      <3>1. src \in Archive \cup {None}
        BY <2>11, ReleaseType DEF Untar, Job, Whole, Archive, Kinds
      <3>2. CASE src = None
        BY <2>1, <2>11, <3>2 DEF Untar, JobPcs, StatePcs
      <3>3. CASE src # None
        <4>1. Unpack("extract", src)
          BY <2>11, <3>3 DEF Untar
        <4>2. QED
          BY <2>11, <3>1, <3>3, <4>1, UnpackType DEF Untar, JobPcs
      <3>4. QED
        BY <3>2, <3>3
    <2>12. CASE ExtractFile
      <3>1. PICK f \in job.todo : /\ tree' = [tree EXCEPT ![f] = job.src.files[f]]
                                  /\ job' = [job EXCEPT !.todo = @ \ {f}]
        BY <2>12 DEF ExtractFile
      <3>2. job.src \in Archive /\ f \in Files
        BY <3>1 DEF Job
      <3>3. tree' \in Tree
        BY <3>1, <3>2 DEF Archive, Tree
      <3>4. job' \in Job /\ job'.src = job.src /\ job'.name = job.name
            /\ job'.kind = job.kind /\ job'.tag = job.tag
        BY <3>1 DEF Job
      <3>5. QED
        BY <2>12, <3>1, <3>2, <3>3, <3>4 DEF ExtractFile
    <2>13. CASE Extracted
      BY <2>1, <2>13 DEF Extracted, JobPcs, StatePcs
    <2>14. CASE ExtractFails
      BY <2>1, <2>14 DEF ExtractFails, JobPcs, StatePcs
    <2>15. CASE SetupOk
      BY <2>1, <2>15 DEF SetupOk, JobPcs, StatePcs
    <2>16. CASE SetupFails
      BY <2>1, <2>16 DEF SetupFails, JobPcs, StatePcs
    <2>17. CASE Health
      BY <2>1, <2>17 DEF Health, JobPcs, StatePcs
    <2>18. CASE Fail
      BY <2>1, <2>18 DEF Fail, JobPcs, StatePcs
    <2>19. CASE UntarPrev
      <3>1. CASE backups[job.name] = None
        BY <2>1, <2>19, <3>1 DEF UntarPrev, JobPcs
      <3>2. CASE backups[job.name] # None
        <4>1. Unpack("restoring", backups[job.name]) /\ backups[job.name] \in Archive
          BY <2>19, <3>2 DEF UntarPrev
        <4>2. QED
          BY <2>19, <3>2, <4>1, UnpackType DEF UntarPrev, JobPcs
      <3>3. QED
        BY <3>1, <3>2
    <2>20. CASE Restored
      BY <2>1, <2>20 DEF Restored, JobPcs
    <2>21. CASE RestoreFails
      BY <2>1, <2>21 DEF RestoreFails, JobPcs
    <2>22. CASE Exit
      BY <2>22 DEF Exit
    <2>23. QED
      BY <1>3, <2>2, <2>3, <2>4, <2>5, <2>6, <2>7, <2>8, <2>9, <2>10, <2>11, <2>12,
         <2>13, <2>14, <2>15, <2>16, <2>17, <2>18, <2>19, <2>20, <2>21, <2>22 DEF Script
  <1>4. CASE Reap
    BY <1>n, <1>4 DEF Reap
  <1>5. CASE KillRunner
    BY <1>n, <1>i, <1>5 DEF KillRunner
  <1>6. CASE UNCHANGED vars
    BY <1>6 DEF vars
  <1>7. QED
    BY <1>1, <1>2, <1>3, <1>4, <1>5, <1>6 DEF Next

\* Type correctness, with the well-formedness of requests and jobs.
THEOREM TypeCorrect == Spec => []TypeOK
  <1>1. QED
    BY TypeInit, TypeStep, PTL DEF Spec

-----------------------------------------------------------------------------
\* What a request does to the world outside the backend.
LEMMA ServeShape ==
  ASSUME TypeOK, NEW h \in Handlers, Serve(h)
  PROVE  /\ UNCHANGED <<tree, built>>
         /\ status' \in {status, Idle}
         /\ backups' = backups \/ \E n \in Names : backups' = [backups EXCEPT ![n] = None]
         /\ \/ UNCHANGED <<runner, job, tree0>>
            \/ /\ runner' = "created" /\ tree0' = tree0
               /\ job' = JobOf(req[h]) /\ req[h] \in Request /\ req[h].op \in Kinds
            \/ /\ runner = "created" /\ runner' = "running"
               /\ job' = job /\ tree0' = tree
  <1> USE DEF files
  <1>1. ASSUME NEW op \in Ops, NEW name \in Names \cup {None}, Begin(h, op, name)
        PROVE  UNCHANGED <<files, status, runner, job, tree0>>
    BY <1>1 DEF Begin
  <1>2. CASE CreateRunner(h)
    BY <1>2 DEF CreateRunner, TypeOK, Named, At
  <1>3. CASE StartRunner(h)
    BY <1>3 DEF StartRunner
  <1>4. CASE Remove(h)
    BY <1>4 DEF Remove, TypeOK, Named, At
  <1>5. QED
    BY <1>1, <1>2, <1>3, <1>4 DEF Serve, RunnerSeen, RunnerNotSeen, Resolve, GiveUp

\* The files a release installs are those it ships, in its version.
LEMMA ReleaseInstalls ==
  ASSUME NEW v \in Versions
  PROVE  /\ InstalledFiles(Whole(Release(v, v))) = ReleaseFiles[v]
         /\ \A f \in ReleaseFiles[v] : Whole(Release(v, v)).files[f] = v
  BY Constants DEF InstalledFiles, Whole, Release

\* Opening an archive either fails or leaves the job at its extraction.
LEMMA UntarShape ==
  ASSUME TypeOK, Untar
  PROVE  \/ job' = [job EXCEPT !.pc = "on_err"]
         \/ /\ job'.pc = "extract" /\ job'.kind = job.kind /\ job'.name = job.name
            /\ job'.tag = job.tag /\ job'.saved = job.saved /\ job'.bundle = job.bundle
            /\ job'.src \in Archive /\ job'.todo = InstalledFiles(job'.src)
            /\ job'.src = IF job.kind = "apply" THEN Whole(Release(job.tag, job.bundle))
                                                ELSE backups[job.name]
  <1> DEFINE src == IF job.kind = "apply" THEN Whole(Release(job.tag, job.bundle))
                                           ELSE backups[job.name]
  <1>1. CASE src = None
    BY <1>1 DEF Untar, Jump
  <1>2. CASE src # None
    <2>1. Unpack("extract", src)
      BY <1>2 DEF Untar
    <2>2. src \in Archive
      BY <1>2, ReleaseType, Constants DEF Untar, In, TypeOK, Job, Whole, Archive, Kinds
    <2>3. QED
      BY <2>1, <2>2, UnpackType DEF TypeOK, JobPcs
  <1>3. QED
    BY <1>1, <1>2

LEMMA FetchShape ==
  ASSUME TypeOK, Fetch
  PROVE  \/ job' = [job EXCEPT !.pc = "fail"]
         \/ /\ job'.pc = "verify" /\ job'.kind = job.kind /\ job'.name = job.name
            /\ job'.tag = job.tag /\ job'.saved = job.saved /\ job'.src = job.src
            /\ job'.todo = job.todo
  BY DEF TypeOK, Job, Fetch, Jump

LEMMA UntarPrevShape ==
  ASSUME TypeOK, UntarPrev
  PROVE  \/ job' = [job EXCEPT !.pc = "exit"]
         \/ /\ job'.pc = "restoring" /\ job'.kind = job.kind /\ job'.name = job.name
            /\ job'.tag = job.tag /\ job'.saved = job.saved /\ job'.bundle = job.bundle
            /\ job'.src \in Archive /\ job'.todo = InstalledFiles(job'.src)
            /\ job'.src = backups[job.name]
  <1>1. CASE backups[job.name] = None
    BY <1>1 DEF UntarPrev, Jump
  <1>2. CASE backups[job.name] # None
    <2>1. Unpack("restoring", backups[job.name]) /\ backups[job.name] \in Archive
      BY <1>2 DEF UntarPrev, In, TypeOK
    <2>2. QED
      BY <2>1, UnpackType DEF TypeOK, JobPcs
  <1>3. QED
    BY <1>1, <1>2

\* Green and rolled-back states stay true.
LEMMA HonestStep ==
  ASSUME TypeOK, FreshRunner, HonestInv, [Next]_vars
  PROVE  HonestInv'
  <1> USE Constants DEF HonestInv, RunsAt, files, StatusHonest, FreshRunner, Idle, Job
  <1>t. TypeOK'
    BY TypeStep
  <1>1. ASSUME NEW h \in Handlers, Serve(h) PROVE HonestInv'
    BY <1>1, ServeShape, JobOfType DEF TypeOK
  <1>2. CASE BackendRestart
    BY <1>2 DEF BackendRestart
  <1>3. CASE Script
    <2> USE DEF In, Jump, Quiet, files, TypeOK
    <2>1. CASE WriteState
      BY <2>1 DEF WriteState, AtState, Phase, After
    <2>2. CASE StateFails
      BY <2>2 DEF StateFails, AtState
    <2>3. CASE FindBackup
      BY <2>3 DEF FindBackup
    <2>4. CASE Tooling
      BY <2>4 DEF Tooling
    <2>5. CASE OpenBackup
      BY <2>5 DEF OpenBackup
    <2>6. CASE WriteBackup
      BY <2>6 DEF WriteBackup
    <2>7. CASE BackupFails
      BY <2>7 DEF BackupFails
    <2>8. CASE Fetch
      BY <2>8, FetchShape DEF Fetch
    <2>9. CASE Verify
      BY <2>9 DEF Verify
    <2>10. CASE Untar
      BY <2>10, UntarShape DEF Untar
    <2>11. CASE ExtractFile
      BY <2>11 DEF ExtractFile
    <2>12. CASE Extracted
      BY <2>12 DEF Extracted
    <2>13. CASE ExtractFails
      BY <2>13 DEF ExtractFails
    <2>14. CASE SetupOk
      BY <2>14 DEF SetupOk
    <2>15. CASE SetupFails
      BY <2>15 DEF SetupFails
    <2>16. CASE Health
      BY <2>16 DEF Health
    <2>17. CASE Fail
      BY <2>17 DEF Fail
    <2>18. CASE UntarPrev
      BY <2>18, UntarPrevShape DEF UntarPrev
    <2>19. CASE Restored
      BY <2>19 DEF Restored
    <2>20. CASE RestoreFails
      BY <2>20 DEF RestoreFails
    <2>21. CASE Exit
      BY <2>21 DEF Exit
    <2>22. QED
      BY <1>3, <2>1, <2>2, <2>3, <2>4, <2>5, <2>6, <2>7, <2>8, <2>9, <2>10, <2>11, <2>12, <2>13,
         <2>14, <2>15, <2>16, <2>17, <2>18, <2>19, <2>20, <2>21 DEF Script
  <1>4. CASE Reap
    BY <1>4 DEF Reap
  <1>5. CASE KillRunner
    BY <1>5 DEF KillRunner, AtState
  <1>6. CASE UNCHANGED vars
    BY <1>6 DEF vars
  <1>7. QED
    BY <1>1, <1>2, <1>3, <1>4, <1>5, <1>6 DEF Next

\* A created container stays as it was created.
LEMMA FreshStep ==
  ASSUME TypeOK, FreshRunner, [Next]_vars
  PROVE  FreshRunner'
  <1> USE Constants DEF FreshRunner, RunsAt, files, Kinds
  <1>t. TypeOK'
    BY TypeStep
  <1>1. ASSUME NEW h \in Handlers, Serve(h) PROVE FreshRunner'
    BY <1>1, ServeShape, JobOfType DEF TypeOK
  <1>2. CASE BackendRestart
    BY <1>2 DEF BackendRestart
  <1>3. CASE Script
    <2> USE DEF In, Jump, Quiet, files, TypeOK
    <2>1. CASE WriteState
      BY <2>1 DEF WriteState, AtState, Phase, After
    <2>2. CASE StateFails
      BY <2>2 DEF StateFails, AtState
    <2>3. CASE FindBackup
      BY <2>3 DEF FindBackup
    <2>4. CASE Tooling
      BY <2>4 DEF Tooling
    <2>5. CASE OpenBackup
      BY <2>5 DEF OpenBackup
    <2>6. CASE WriteBackup
      BY <2>6 DEF WriteBackup
    <2>7. CASE BackupFails
      BY <2>7 DEF BackupFails
    <2>8. CASE Fetch
      BY <2>8, FetchShape DEF Fetch
    <2>9. CASE Verify
      BY <2>9 DEF Verify
    <2>10. CASE Untar
      BY <2>10, UntarShape DEF Untar
    <2>11. CASE ExtractFile
      BY <2>11 DEF ExtractFile
    <2>12. CASE Extracted
      BY <2>12 DEF Extracted
    <2>13. CASE ExtractFails
      BY <2>13 DEF ExtractFails
    <2>14. CASE SetupOk
      BY <2>14 DEF SetupOk
    <2>15. CASE SetupFails
      BY <2>15 DEF SetupFails
    <2>16. CASE Health
      BY <2>16 DEF Health
    <2>17. CASE Fail
      BY <2>17 DEF Fail
    <2>18. CASE UntarPrev
      BY <2>18, UntarPrevShape DEF UntarPrev
    <2>19. CASE Restored
      BY <2>19 DEF Restored
    <2>20. CASE RestoreFails
      BY <2>20 DEF RestoreFails
    <2>21. CASE Exit
      BY <2>21 DEF Exit
    <2>22. QED
      BY <1>3, <2>1, <2>2, <2>3, <2>4, <2>5, <2>6, <2>7, <2>8, <2>9, <2>10, <2>11, <2>12, <2>13,
         <2>14, <2>15, <2>16, <2>17, <2>18, <2>19, <2>20, <2>21 DEF Script
  <1>4. CASE Reap
    BY <1>4 DEF Reap
  <1>5. CASE KillRunner
    BY <1>5 DEF KillRunner, AtState
  <1>6. CASE UNCHANGED vars
    BY <1>6 DEF vars
  <1>7. QED
    BY <1>1, <1>2, <1>3, <1>4, <1>5, <1>6 DEF Next

\* What an extraction has put in the tree stays there.
LEMMA ExtractStep ==
  ASSUME TypeOK, FreshRunner, ExtractInv, [Next]_vars
  PROVE  ExtractInv'
  <1> USE Constants DEF ExtractInv, RunsAt, files, FreshRunner, Job
  <1>t. TypeOK'
    BY TypeStep
  <1>1. ASSUME NEW h \in Handlers, Serve(h) PROVE ExtractInv'
    BY <1>1, ServeShape, JobOfType DEF TypeOK
  <1>2. CASE BackendRestart
    BY <1>2 DEF BackendRestart
  <1>3. CASE Script
    <2> USE DEF In, Jump, Quiet, files, TypeOK
    <2>1. CASE WriteState
      BY <2>1 DEF WriteState, AtState, Phase, After
    <2>2. CASE StateFails
      BY <2>2 DEF StateFails, AtState
    <2>3. CASE FindBackup
      BY <2>3 DEF FindBackup
    <2>4. CASE Tooling
      BY <2>4 DEF Tooling
    <2>5. CASE OpenBackup
      BY <2>5 DEF OpenBackup
    <2>6. CASE WriteBackup
      BY <2>6 DEF WriteBackup
    <2>7. CASE BackupFails
      BY <2>7 DEF BackupFails
    <2>8. CASE Fetch
      BY <2>8, FetchShape DEF Fetch
    <2>9. CASE Verify
      BY <2>9 DEF Verify
    <2>10. CASE Untar
      BY <2>10, UntarShape DEF Untar
    <2>11. CASE ExtractFile
      <3>1. PICK f \in job.todo : /\ tree' = [tree EXCEPT ![f] = job.src.files[f]]
                                  /\ job' = [job EXCEPT !.todo = @ \ {f}]
        BY <2>11 DEF ExtractFile
      <3>2. f \in Files /\ job.src \in Archive /\ tree' \in Tree
        BY <1>t, <3>1
      <3>3. /\ job'.src = job.src /\ job'.todo = job.todo \ {f} /\ job'.pc = job.pc
            /\ job'.kind = job.kind /\ job'.tag = job.tag /\ job'.saved = job.saved
            /\ job'.name = job.name /\ job'.bundle = job.bundle
        BY <3>1
      <3>4. \A g \in Files : tree'[g] = IF g = f THEN job.src.files[f] ELSE tree[g]
        BY <3>1, <3>2 DEF Tree
      <3>5. QED
        BY <2>11, <3>2, <3>3, <3>4 DEF ExtractFile, InstalledFiles
    <2>12. CASE Extracted
      BY <2>12 DEF Extracted
    <2>13. CASE ExtractFails
      BY <2>13 DEF ExtractFails
    <2>14. CASE SetupOk
      BY <2>14 DEF SetupOk
    <2>15. CASE SetupFails
      BY <2>15 DEF SetupFails
    <2>16. CASE Health
      BY <2>16 DEF Health
    <2>17. CASE Fail
      BY <2>17 DEF Fail
    <2>18. CASE UntarPrev
      BY <2>18, UntarPrevShape DEF UntarPrev
    <2>19. CASE Restored
      BY <2>19 DEF Restored
    <2>20. CASE RestoreFails
      BY <2>20 DEF RestoreFails
    <2>21. CASE Exit
      BY <2>21 DEF Exit
    <2>22. QED
      BY <1>3, <2>1, <2>2, <2>3, <2>4, <2>5, <2>6, <2>7, <2>8, <2>9, <2>10, <2>11, <2>12, <2>13,
         <2>14, <2>15, <2>16, <2>17, <2>18, <2>19, <2>20, <2>21 DEF Script
  <1>4. CASE Reap
    BY <1>4 DEF Reap
  <1>5. CASE KillRunner
    BY <1>5 DEF KillRunner, AtState
  <1>6. CASE UNCHANGED vars
    BY <1>6 DEF vars
  <1>7. QED
    BY <1>1, <1>2, <1>3, <1>4, <1>5, <1>6 DEF Next

\* The backup of the running apply stays the tree it started from.
LEMMA SavedStep ==
  ASSUME TypeOK, FreshRunner, SavedInv, [Next]_vars
  PROVE  SavedInv'
  <1> USE Constants DEF SavedInv, RunsAt, files, FreshRunner, PreviousTreeKept, Job, Whole
  <1>t. TypeOK'
    BY TypeStep
  <1>1. ASSUME NEW h \in Handlers, Serve(h) PROVE SavedInv'
    <2>1. CASE UNCHANGED <<runner, job, tree0>>
      BY <1>1, <2>1, ServeShape DEF TypeOK
    <2>2. CASE runner' = "created"
      BY <2>2
    <2>3. CASE runner = "created" /\ runner' = "running" /\ job' = job /\ tree0' = tree
      BY <1>1, <2>3, ServeShape DEF TypeOK
    <2>4. QED
      BY <1>1, <2>1, <2>2, <2>3, ServeShape
  <1>2. CASE BackendRestart
    BY <1>2 DEF BackendRestart
  <1>3. CASE Script
    <2> USE DEF In, Jump, Quiet, files, TypeOK
    <2>1. CASE WriteState
      BY <2>1 DEF WriteState, AtState, Phase, After
    <2>2. CASE StateFails
      BY <2>2 DEF StateFails, AtState
    <2>3. CASE FindBackup
      BY <2>3 DEF FindBackup
    <2>4. CASE Tooling
      BY <2>4 DEF Tooling
    <2>5. CASE OpenBackup
      BY <2>5 DEF OpenBackup
    <2>6. CASE WriteBackup
      BY <2>6 DEF WriteBackup
    <2>7. CASE BackupFails
      BY <2>7 DEF BackupFails
    <2>8. CASE Fetch
      BY <2>8, FetchShape DEF Fetch
    <2>9. CASE Verify
      BY <2>9 DEF Verify
    <2>10. CASE Untar
      BY <2>10, UntarShape DEF Untar
    <2>11. CASE ExtractFile
      BY <2>11 DEF ExtractFile
    <2>12. CASE Extracted
      BY <2>12 DEF Extracted
    <2>13. CASE ExtractFails
      BY <2>13 DEF ExtractFails
    <2>14. CASE SetupOk
      BY <2>14 DEF SetupOk
    <2>15. CASE SetupFails
      BY <2>15 DEF SetupFails
    <2>16. CASE Health
      BY <2>16 DEF Health
    <2>17. CASE Fail
      BY <2>17 DEF Fail
    <2>18. CASE UntarPrev
      BY <2>18, UntarPrevShape DEF UntarPrev
    <2>19. CASE Restored
      BY <2>19 DEF Restored
    <2>20. CASE RestoreFails
      BY <2>20 DEF RestoreFails
    <2>21. CASE Exit
      BY <2>21 DEF Exit
    <2>22. QED
      BY <1>3, <2>1, <2>2, <2>3, <2>4, <2>5, <2>6, <2>7, <2>8, <2>9, <2>10, <2>11, <2>12, <2>13,
         <2>14, <2>15, <2>16, <2>17, <2>18, <2>19, <2>20, <2>21 DEF Script
  <1>4. CASE Reap
    BY <1>4 DEF Reap
  <1>5. CASE KillRunner
    BY <1>5 DEF KillRunner, AtState
  <1>6. CASE UNCHANGED vars
    BY <1>6 DEF vars
  <1>7. QED
    BY <1>1, <1>2, <1>3, <1>4, <1>5, <1>6 DEF Next

\* Only verified releases are installed.
LEMMA BundleStep ==
  ASSUME TypeOK, FreshRunner, HonestInv, ExtractInv, BundleInv, [Next]_vars
  PROVE  BundleInv'
  <1> USE Constants DEF BundleInv, RunsAt, files, FreshRunner, HonestInv, StatusHonest, ExtractInv,
    OkMeansInstalled, Job, Whole, Idle
  <1>t. TypeOK'
    BY TypeStep
  <1>1. ASSUME NEW h \in Handlers, Serve(h) PROVE BundleInv'
    <2>1. CASE UNCHANGED <<runner, job, tree0>>
      BY <1>1, <2>1, ServeShape DEF TypeOK
    <2>2. CASE runner' = "created" /\ job'.src = None
      BY <1>1, <2>2, ServeShape DEF TypeOK
    <2>3. CASE runner = "created" /\ runner' = "running" /\ job' = job /\ tree0' = tree
      BY <1>1, <2>3, ServeShape DEF TypeOK
    <2>4. QED
      BY <1>1, <2>1, <2>2, <2>3, ServeShape, JobOfType
  <1>2. CASE BackendRestart
    BY <1>2 DEF BackendRestart
  <1>3. CASE Script
    <2> USE DEF In, Jump, Quiet, files, TypeOK
    <2>1. CASE WriteState
      <3>1. CASE status'.phase = "ok"
        <4>1. job.pc = "healthy" /\ job.kind = "apply" /\ runner = "running"
          BY <2>1, <3>1 DEF WriteState, AtState, Phase
        <4>2. /\ job.tag \in Versions /\ job.src = Whole(Release(job.tag, job.tag))
              /\ \A f \in InstalledFiles(job.src) : tree[f] = job.src.files[f]
          BY <4>1
        <4>3. \A f \in ReleaseFiles[job.tag] : tree[f] = job.tag
          BY ONLY <4>2, ReleaseInstalls
        <4>4. QED
          BY <2>1, <4>1, <4>2, <4>3 DEF WriteState, AtState, After
      <3>2. CASE status'.phase # "ok"
        BY <2>1, <3>2 DEF WriteState, AtState, After
      <3>3. QED
        BY <3>1, <3>2
    <2>2. CASE StateFails
      BY <2>2 DEF StateFails, AtState
    <2>3. CASE FindBackup
      BY <2>3 DEF FindBackup
    <2>4. CASE Tooling
      BY <2>4 DEF Tooling
    <2>5. CASE OpenBackup
      BY <2>5 DEF OpenBackup
    <2>6. CASE WriteBackup
      BY <2>6 DEF WriteBackup
    <2>7. CASE BackupFails
      BY <2>7 DEF BackupFails
    <2>8. CASE Fetch
      BY <2>8, FetchShape DEF Fetch
    <2>9. CASE Verify
      BY <2>9 DEF Verify, ChecksumOk
    <2>10. CASE Untar
      <3>1. UNCHANGED <<runner, status, tree>> /\ runner = "running" /\ job.pc = "untar"
        BY <2>10 DEF Untar
      <3>2. CASE job' = [job EXCEPT !.pc = "on_err"]
        BY <3>1, <3>2
      <3>3. CASE /\ job'.pc = "extract" /\ job'.kind = job.kind /\ job'.tag = job.tag
                 /\ job'.src = IF job.kind = "apply" THEN Whole(Release(job.tag, job.bundle))
                                                     ELSE backups[job.name]
        <4>a. job.kind = "apply" => job.bundle = job.tag
          BY <3>1
        <4>1. job'.kind = "apply" => job'.src = Whole(Release(job'.tag, job'.tag))
          BY ONLY <3>3, <4>a
        <4>2. status'.phase = status.phase /\ OkMeansInstalled'
          BY <3>1
        <4>3. QED
          BY <3>1, <3>3, <4>1, <4>2
      <3>4. QED
        BY <2>10, <3>2, <3>3, UntarShape
    <2>11. CASE ExtractFile
      BY <2>11 DEF ExtractFile
    <2>12. CASE Extracted
      BY <2>12 DEF Extracted
    <2>13. CASE ExtractFails
      BY <2>13 DEF ExtractFails
    <2>14. CASE SetupOk
      BY <2>14 DEF SetupOk
    <2>15. CASE SetupFails
      BY <2>15 DEF SetupFails
    <2>16. CASE Health
      <3>1. CASE Jump("healthy")
        BY <2>16, <3>1 DEF Health
      <3>2. CASE Jump("fail")
        BY <2>16, <3>2 DEF Health
      <3>3. QED
        BY <2>16, <3>1, <3>2 DEF Health
    <2>17. CASE Fail
      BY <2>17 DEF Fail
    <2>18. CASE UntarPrev
      BY <2>18, UntarPrevShape DEF UntarPrev
    <2>19. CASE Restored
      BY <2>19 DEF Restored
    <2>20. CASE RestoreFails
      BY <2>20 DEF RestoreFails
    <2>21. CASE Exit
      BY <2>21 DEF Exit
    <2>22. QED
      BY <1>3, <2>1, <2>2, <2>3, <2>4, <2>5, <2>6, <2>7, <2>8, <2>9, <2>10, <2>11, <2>12, <2>13,
         <2>14, <2>15, <2>16, <2>17, <2>18, <2>19, <2>20, <2>21 DEF Script
  <1>4. CASE Reap
    BY <1>4 DEF Reap
  <1>5. CASE KillRunner
    BY <1>5 DEF KillRunner, AtState
  <1>6. CASE UNCHANGED vars
    BY <1>6 DEF vars
  <1>7. QED
    BY <1>1, <1>2, <1>3, <1>4, <1>5, <1>6 DEF Next

\* Nothing from an unverified bundle spreads.
LEMMA CleanStep ==
  ASSUME TypeOK, FreshRunner, BundleInv, CleanInv, [Next]_vars
  PROVE  CleanInv'
  <1> USE Constants DEF CleanInv, RunsAt, files, FreshRunner, BundleInv, OnlyVerifiedCode, Job,
    Whole, Release, Idle
  <1>t. TypeOK'
    BY TypeStep
  <1>1. ASSUME NEW h \in Handlers, Serve(h) PROVE CleanInv'
    <2>1. CASE UNCHANGED <<runner, job, tree0>>
      BY <1>1, <2>1, ServeShape DEF TypeOK
    <2>2. CASE runner' = "created" /\ job'.src = None
      BY <1>1, <2>2, ServeShape DEF TypeOK
    <2>3. CASE runner = "created" /\ runner' = "running" /\ job' = job /\ tree0' = tree
      BY <1>1, <2>3, ServeShape DEF TypeOK
    <2>4. QED
      BY <1>1, <2>1, <2>2, <2>3, ServeShape, JobOfType
  <1>2. CASE BackendRestart
    BY <1>2 DEF BackendRestart
  <1>3. CASE Script
    <2> USE DEF In, Jump, Quiet, files, TypeOK
    <2>1. CASE WriteState
      BY <2>1 DEF WriteState, AtState, Phase, After
    <2>2. CASE StateFails
      BY <2>2 DEF StateFails, AtState
    <2>3. CASE FindBackup
      BY <2>3 DEF FindBackup
    <2>4. CASE Tooling
      BY <2>4 DEF Tooling
    <2>5. CASE OpenBackup
      BY <2>5 DEF OpenBackup
    <2>6. CASE WriteBackup
      BY <2>6 DEF WriteBackup
    <2>7. CASE BackupFails
      BY <2>7 DEF BackupFails
    <2>8. CASE Fetch
      BY <2>8, FetchShape DEF Fetch
    <2>9. CASE Verify
      BY <2>9 DEF Verify
    <2>10. CASE Untar
      BY <2>10, UntarShape DEF Untar
    <2>11. CASE ExtractFile
      BY <2>11 DEF ExtractFile
    <2>12. CASE Extracted
      BY <2>12 DEF Extracted
    <2>13. CASE ExtractFails
      BY <2>13 DEF ExtractFails
    <2>14. CASE SetupOk
      BY <2>14 DEF SetupOk
    <2>15. CASE SetupFails
      BY <2>15 DEF SetupFails
    <2>16. CASE Health
      BY <2>16 DEF Health
    <2>17. CASE Fail
      BY <2>17 DEF Fail
    <2>18. CASE UntarPrev
      BY <2>18, UntarPrevShape DEF UntarPrev
    <2>19. CASE Restored
      BY <2>19 DEF Restored
    <2>20. CASE RestoreFails
      BY <2>20 DEF RestoreFails
    <2>21. CASE Exit
      BY <2>21 DEF Exit
    <2>22. QED
      BY <1>3, <2>1, <2>2, <2>3, <2>4, <2>5, <2>6, <2>7, <2>8, <2>9, <2>10, <2>11, <2>12, <2>13,
         <2>14, <2>15, <2>16, <2>17, <2>18, <2>19, <2>20, <2>21 DEF Script
  <1>4. CASE Reap
    BY <1>4 DEF Reap, NoJob
  <1>5. CASE KillRunner
    BY <1>5 DEF KillRunner, AtState, NoJob
  <1>6. CASE UNCHANGED vars
    BY <1>6 DEF vars
  <1>7. QED
    BY <1>1, <1>2, <1>3, <1>4, <1>5, <1>6 DEF Next

\* Between its create and its start a handler keeps the runner to itself: the
\* container's name is taken, and only a start or an exit frees it.
LEMMA StartsOwnStep ==
  ASSUME TypeOK, StartsOwnJob, [Next]_vars
  PROVE  StartsOwnJob'
  <1> USE DEF StartsOwnJob, At, Goto, Answer, TypeOK
  <1>1. ASSUME NEW h \in Handlers, Serve(h) PROVE StartsOwnJob'
    <2>1. ASSUME NEW op \in Ops, NEW name \in Names \cup {None}, Begin(h, op, name)
          PROVE  StartsOwnJob'
      BY <2>1 DEF Begin
    <2>2. CASE RunnerSeen(h)
      BY <2>2 DEF RunnerSeen, Free
    <2>3. CASE RunnerNotSeen(h)
      BY <2>3 DEF RunnerNotSeen
    <2>4. CASE Resolve(h)
      <3>1. ASSUME NEW name, NEW tag, Ready(h, name, tag) PROVE StartsOwnJob'
        BY <2>4, <3>1 DEF Resolve, Ready
      <3>2. QED
        BY <2>4, <3>1 DEF Resolve, ResolveApply, ResolveRollback, ResolveBackup
    <2>5. CASE GiveUp(h)
      BY <2>5 DEF GiveUp, Free
    <2>6. CASE CreateRunner(h)
      <3>1. \A g \in Handlers : req[g].pc # "start"
        BY <2>6 DEF CreateRunner, NameTaken
      <3>2. \A g \in Handlers \ {h} : req'[g] = req[g]
        BY <2>6 DEF CreateRunner
      <3>3. JobOf(req'[h]) = JobOf(req[h])
        BY <2>6 DEF CreateRunner, Request, JobOf
      <3>4. QED
        BY <2>6, <3>1, <3>2, <3>3 DEF CreateRunner
    <2>7. CASE StartRunner(h)
      BY <2>7 DEF StartRunner, Free
    <2>8. CASE Remove(h)
      BY <2>8 DEF Remove, Free
    <2>9. QED
      BY <1>1, <2>1, <2>2, <2>3, <2>4, <2>5, <2>6, <2>7, <2>8 DEF Serve
  <1>2. CASE BackendRestart
    BY <1>2 DEF BackendRestart, Free
  <1>3. ASSUME runner \in {"running", "exited"}, req' = req PROVE StartsOwnJob'
    BY <1>3
  <1>4. CASE Script
    <2>1. runner = "running" /\ req' = req
      BY <1>4 DEF Script, WriteState, StateFails, AtState, FindBackup, Tooling, OpenBackup,
         WriteBackup, BackupFails, Fetch, Verify, Untar, ExtractFile, Extracted, ExtractFails,
         SetupOk, SetupFails, Health, Fail, UntarPrev, Restored, RestoreFails, Exit, In, Quiet
    <2>2. QED
      BY <1>3, <2>1
  <1>5. CASE Reap
    BY <1>3, <1>5 DEF Reap
  <1>6. CASE KillRunner
    BY <1>3, <1>6 DEF KillRunner
  <1>7. CASE UNCHANGED vars
    BY <1>7 DEF vars
  <1>8. QED
    BY <1>1, <1>2, <1>4, <1>5, <1>6, <1>7 DEF Next

-----------------------------------------------------------------------------
LEMMA IInvInit == Init => IInv
  <1> SUFFICES ASSUME Init PROVE IInv
    OBVIOUS
  <1>1. TypeOK
    BY TypeInit
  <1>2. FreshRunner /\ StartsOwnJob /\ HonestInv /\ ExtractInv /\ SavedInv
    BY DEF Init, FreshRunner, StartsOwnJob, At, Free, HonestInv, StatusHonest, RunsAt, Idle,
           ExtractInv, SavedInv, PreviousTreeKept
  <1>3. BundleInv
    BY DEF Init, BundleInv, RunsAt, OkMeansInstalled, Idle
  <1>4. CleanInv
    <2>1. \A v \in Versions, f \in Files : Release(v, v)[f] # Bad
      BY Constants DEF Release
    <2>2. QED
      BY <2>1 DEF Init, CleanInv, OnlyVerifiedCode, NoJob
  <1>5. QED
    BY <1>1, <1>2, <1>3, <1>4 DEF IInv

LEMMA IInvStep == IInv /\ [Next]_vars => IInv'
  BY TypeStep, FreshStep, StartsOwnStep, HonestStep, ExtractStep, BundleStep, CleanStep, SavedStep
     DEF IInv

LEMMA Inductive == Spec => []IInv
  BY IInvInit, IInvStep, PTL DEF Spec

\* A green or rolled-back status is true of the stack that serves it, whatever
\* requests, crashes and failures came before.
THEOREM HonestStatus == Spec => []StatusHonest
  <1>1. IInv => StatusHonest
    BY DEF IInv, HonestInv
  <1>2. QED
    BY <1>1, Inductive, PTL

\* A status of "ok" names the release whose every file is on disk.
THEOREM OkInstalled == Spec => []OkMeansInstalled
  <1>1. IInv => OkMeansInstalled
    BY DEF IInv, BundleInv
  <1>2. QED
    BY <1>1, Inductive, PTL

\* Nothing of a bundle that fails its checksum is ever installed, built or saved.
THEOREM VerifiedOnly == Spec => []OnlyVerifiedCode
  <1>1. IInv => OnlyVerifiedCode
    BY DEF IInv, CleanInv
  <1>2. QED
    BY <1>1, Inductive, PTL

\* The archive an apply falls back on is the complete tree it started from, as
\* long as it exists.
THEOREM PreviousTreeSafe == Spec => []PreviousTreeKept
  <1>1. IInv => PreviousTreeKept
    BY DEF IInv, SavedInv
  <1>2. QED
    BY <1>1, Inductive, PTL

\* A completed restore puts every earlier file back.
THEOREM RestoreComplete == Spec => []RestoreCompletes
  <1>1. IInv => RestoreCompletes
    <2> SUFFICES ASSUME IInv, runner = "running", job.saved, job.pc \in {"rebuild", "restored"}
                 PROVE  \A f \in InstalledFiles(Whole(tree0)) : tree[f] = tree0[f]
      BY DEF RestoreCompletes
    <2>1. job.src = Whole(tree0)
      BY DEF IInv, SavedInv, RunsAt
    <2>2. \A f \in InstalledFiles(job.src) : tree[f] = job.src.files[f]
      BY DEF IInv, ExtractInv, RunsAt
    <2>3. job.src.files = tree0 /\ InstalledFiles(job.src) = InstalledFiles(Whole(tree0))
      BY ONLY <2>1 DEF Whole, InstalledFiles
    <2>4. QED
      BY ONLY <2>2, <2>3
  <1>2. QED
    BY <1>1, Inductive, PTL

\* A failed apply has something whole to fall back on, and falls back on it.
THEOREM FallbackIsSound == Spec => []FallbackHolds
BY PreviousTreeSafe, RestoreComplete, PTL DEF FallbackHolds

\* setup.sh only runs on completely extracted archives.
THEOREM WholeTreeBuilt == Spec => []SetupOnWholeTree
  <1>1. IInv => SetupOnWholeTree
    BY DEF IInv, ExtractInv, RunsAt, SetupOnWholeTree
  <1>2. QED
    BY <1>1, Inductive, PTL

\* No interleaving of requests, exits and crashes makes a handler start a
\* container other than the one it created for its request.
THEOREM OwnJobStarted == Spec => []StartsOwnJob
  <1>1. IInv => StartsOwnJob
    BY DEF IInv
  <1>2. QED
    BY <1>1, Inductive, PTL
=============================================================================
