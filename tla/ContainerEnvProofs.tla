-------------------------- MODULE ContainerEnvProofs --------------------------
(***************************************************************************)
(* What holds of ContainerEnv for any number of processes, directories and *)
(* images.                                                                 *)
(***************************************************************************)
EXTENDS ContainerEnv, TLAPS

\* Finish, Goto and FailsOn keep the process variables in their domains.
LEMMA FinishType ==
    ASSUME TypeOK, NEW p \in Procs, NEW r \in Results, Finish(p, r)
    PROVE  pc' \in [Procs -> Labels] /\ job' \in [Procs -> Jobs]
           /\ result' \in [Procs -> Results]
<1>1. NoJob \in Jobs
  BY DEF NoJob, Jobs, Plans
<1>2. QED
  BY <1>1 DEF Finish, TypeOK, Labels

\* A command that a fault ends leaves the process variables in their domains.
LEMMA FailsOnType ==
    ASSUME TypeOK, NEW p \in Procs, NEW kind, FailsOn(kind, p)
    PROVE  pc' \in [Procs -> Labels] /\ job' \in [Procs -> Jobs]
           /\ result' \in [Procs -> Results]
<1>1. "failed" \in Results /\ Finish(p, "failed")
  BY DEF FailsOn, Results
<1>2. QED
  BY <1>1, FinishType

\* So does moving on to another call.
LEMMA GotoType ==
    ASSUME TypeOK, NEW p \in Procs, NEW l \in Labels, Goto(p, l)
    PROVE  pc' \in [Procs -> Labels] /\ result' \in [Procs -> Results]
BY DEF Goto, TypeOK

\* So does cutting the sessions short.
LEMMA CutType ==
    ASSUME NEW at \in [Procs -> Labels]
    PROVE  CutSessions(at) \in [Procs -> Labels]
BY DEF CutSessions, Labels

\* A job that changes its plan or notes an image is still a job.
LEMMA PlanType ==
    ASSUME TypeOK, NEW p \in Procs, NEW x \in Plans
    PROVE  [job EXCEPT ![p].plan = x] \in [Procs -> Jobs]
<1>1. [job[p] EXCEPT !.plan = x] \in Jobs
  BY DEF TypeOK, Jobs
<1>2. QED
  BY <1>1 DEF TypeOK

\* A process step keeps the types, as long as whoever needs a directory has one.
LEMMA StepType ==
    ASSUME TypeOK, DirKnown, NEW p \in Procs, Step(p)
    PROVE  TypeOK'
<1> USE DEF world
<1>1. CASE Begin(p)
  <2>1. PICK cmd \in Commands, dir \in Dirs \cup {NoDir}, copy \in BOOLEAN :
          job' = [job EXCEPT ![p] =
                [cmd |-> cmd, dir |-> dir, copy |-> copy, old |-> NoImage,
                 plan |-> IF cmd \in {"create", "destroy"} THEN cmd ELSE "use"]]
          /\ pc' = [pc EXCEPT ![p] = FirstLabel(cmd)]
          /\ result' = [result EXCEPT ![p] = "none"]
    BY <1>1 DEF Begin
  <2>2. [cmd |-> cmd, dir |-> dir, copy |-> copy, old |-> NoImage,
         plan |-> IF cmd \in {"create", "destroy"} THEN cmd ELSE "use"] \in Jobs
    BY DEF Jobs, Plans
  <2>3. FirstLabel(cmd) \in Labels
    BY DEF FirstLabel, Labels
  <2>4. QED
    BY <1>1, <2>1, <2>2, <2>3 DEF Begin, TypeOK, Results
<1>2. CASE GetState(p)
  BY <1>2, GotoType, PlanType DEF GetState, TypeOK, Labels, Plans
<1>3. CASE CompareDir(p)
  BY <1>3, GotoType, PlanType DEF CompareDir, TypeOK, Labels, Plans
<1>4. CASE OldImage(p)
  <2>1. container.image \in Images \cup {NoImage}
    BY DEF TypeOK, Containers
  <2>2. QED
    BY <1>4, <2>1, GotoType DEF OldImage, ImagesSeen, TypeOK, Labels, Jobs
<1>5. CASE NewImage(p)
  BY <1>5, GotoType DEF NewImage, TypeOK, Labels
<1>6. CASE Prepare(p)
  BY <1>6, GotoType, FailsOnType DEF Prepare, TypeOK, Labels
<1>7. CASE BuildImage(p)
  <2>1. CASE FailsOn("docker", p) /\ UNCHANGED tag
    BY <1>7, <2>1, FailsOnType DEF BuildImage, TypeOK
  <2>2. CASE tag' = recipe[job[p].dir]
             /\ Goto(p, IF Creating(p) THEN "start" ELSE "newImage") /\ UNCHANGED job
    BY <1>7, <2>2, GotoType DEF BuildImage, DirKnown, DirKnownBy, TypeOK, Labels
  <2>3. QED
    BY <1>7, <2>1, <2>2 DEF BuildImage
<1>8. CASE Remove(p)
  <2>1. NoContainer \in Containers
    BY DEF NoContainer, Containers
  <2>2. [pc EXCEPT ![p] = "cleanup"] \in [Procs -> Labels]
    BY DEF TypeOK, Labels
  <2>3. QED
    BY <1>8, <2>1, <2>2, CutType, FailsOnType DEF Remove, TypeOK
<1>9. CASE Cleanup(p)
  BY <1>9, FinishType, FailsOnType, GotoType
     DEF Cleanup, HalfRemoved, TypeOK, Labels, Results
<1>10. CASE StartContainer(p)
  BY <1>10, FinishType, FailsOnType, GotoType
     DEF StartContainer, TypeOK, Labels, Results, Containers, Jobs
<1>11. CASE MakeMetadataDir(p)
  BY <1>11, FailsOnType, GotoType DEF MakeMetadataDir, TypeOK, Labels
<1>12. CASE WriteMetadata(p)
  BY <1>12, FinishType, FailsOnType, GotoType
     DEF WriteMetadata, DirKnown, DirKnownBy, TypeOK, Labels, Results
<1>13. CASE PostCreationScripts(p)
  BY <1>13, FinishType, FailsOnType, GotoType
     DEF PostCreationScripts, TypeOK, Labels, Results
<1>14. CASE CopyCredentials(p)
  BY <1>14, FinishType, FailsOnType, GotoType
     DEF CopyCredentials, TypeOK, Labels, Results
<1>15. CASE BuildEnvVars(p)
  BY <1>15, FailsOnType, GotoType DEF BuildEnvVars, TypeOK, Labels
<1>16. CASE EnsureContainerRunning(p)
  BY <1>16, FinishType, GotoType
     DEF EnsureContainerRunning, TypeOK, Labels, Results
<1>17. CASE Exec(p)
  BY <1>17, FinishType, FailsOnType, GotoType DEF Exec, TypeOK, Labels, Results
<1>18. CASE LeaveSession(p)
  BY <1>18, FinishType DEF LeaveSession, TypeOK, Results
<1>19. CASE Crash(p)
  BY <1>19, FinishType DEF Crash, HalfRemoved, TypeOK, Results
<1>20. QED
  BY <1>1, <1>2, <1>3, <1>4, <1>5, <1>6, <1>7, <1>8, <1>9, <1>10, <1>11,
     <1>12, <1>13, <1>14, <1>15, <1>16, <1>17, <1>18, <1>19 DEF Step

\* So does a step of the world outside.
LEMMA WorldType ==
    ASSUME TypeOK, World
    PROVE  TypeOK'
<1>1. CASE ContainerExits
  BY <1>1, CutType DEF ContainerExits, TypeOK, Containers
<1>2. CASE ContainerRestarts
  BY <1>2 DEF ContainerRestarts, TypeOK, Containers
<1>3. CASE Prune
  BY <1>3 DEF Prune, TypeOK, Containers, NoContainer
<1>4. CASE RecipeChanges
  BY <1>4 DEF RecipeChanges, TypeOK
<1>5. QED
  BY <1>1, <1>2, <1>3, <1>4 DEF World

\* A step of one process changes no other's job, and moves another only by
\* cutting its session.
LEMMA OthersKept ==
    ASSUME TypeOK, NEW p \in Procs, Step(p), NEW q \in Procs, q # p
    PROVE  /\ job'[q] = job[q]
           /\ pc'[q] = pc[q] \/ (pc[q] = "inside" /\ pc'[q] = "cut")
<1> USE DEF TypeOK, world, Goto, Finish, FailsOn
<1>1. CASE Remove(p)
  BY <1>1 DEF Remove, CutSessions
<1>2. CASE Begin(p) \/ GetState(p) \/ CompareDir(p) \/ OldImage(p) \/ NewImage(p)
  BY <1>2 DEF Begin, GetState, CompareDir, OldImage, NewImage
<1>3. CASE Prepare(p) \/ BuildImage(p) \/ Cleanup(p) \/ StartContainer(p)
  BY <1>3 DEF Prepare, BuildImage, Cleanup, StartContainer
<1>4. CASE \/ MakeMetadataDir(p) \/ WriteMetadata(p) \/ PostCreationScripts(p)
           \/ CopyCredentials(p)
  BY <1>4 DEF MakeMetadataDir, WriteMetadata, PostCreationScripts, CopyCredentials
<1>5. CASE \/ BuildEnvVars(p) \/ EnsureContainerRunning(p) \/ Exec(p)
           \/ LeaveSession(p) \/ Crash(p)
  BY <1>5 DEF BuildEnvVars, EnsureContainerRunning, Exec, LeaveSession, Crash
<1>6. QED
  BY <1>1, <1>2, <1>3, <1>4, <1>5 DEF Step

\* The world changes no job, and moves a process only by cutting its session.
LEMMA WorldKeeps ==
    ASSUME TypeOK, World, NEW q \in Procs
    PROVE  /\ job'[q] = job[q]
           /\ pc'[q] = pc[q] \/ (pc[q] = "inside" /\ pc'[q] = "cut")
BY DEF World, ContainerExits, ContainerRestarts, Prune, RecipeChanges, CutSessions,
       TypeOK

\* What a command line decides: destroy and create have their plan from the
\* start, and only create and run --create have a directory.
LEMMA BeginSets ==
    ASSUME TypeOK, NEW p \in Procs, Begin(p)
    PROVE  /\ job'[p].cmd \in Commands
           /\ \/ /\ job'[p].cmd = "create" /\ job'[p].plan = "create"
                 /\ pc'[p] = "prepare" /\ job'[p].dir \in Dirs
              \/ /\ job'[p].cmd = "run --create" /\ job'[p].plan = "use"
                 /\ pc'[p] = "getState" /\ job'[p].dir \in Dirs
              \/ /\ job'[p].cmd = "destroy" /\ job'[p].plan = "destroy"
                 /\ pc'[p] = "remove"
              \/ /\ job'[p].cmd # "create" /\ job'[p].plan = "use"
                 /\ pc'[p] = "credentials"
<1>1. PICK cmd \in Commands, dir \in Dirs \cup {NoDir}, copy \in BOOLEAN :
        /\ (dir # NoDir) <=> (cmd \in {"create", "run --create"})
        /\ job' = [job EXCEPT ![p] =
              [cmd |-> cmd, dir |-> dir, copy |-> copy, old |-> NoImage,
               plan |-> IF cmd \in {"create", "destroy"} THEN cmd ELSE "use"]]
        /\ pc' = [pc EXCEPT ![p] = FirstLabel(cmd)]
  BY DEF Begin
<1>2. /\ job'[p].cmd = cmd /\ job'[p].dir = dir
      /\ job'[p].plan = IF cmd \in {"create", "destroy"} THEN cmd ELSE "use"
      /\ pc'[p] = FirstLabel(cmd)
  BY <1>1 DEF TypeOK
<1>3. CASE cmd \in {"create", "run --create", "destroy"}
  BY <1>1, <1>2, <1>3 DEF FirstLabel
<1>4. CASE cmd \notin {"create", "run --create", "destroy"}
  BY <1>1, <1>2, <1>4 DEF FirstLabel
<1>5. QED
  BY <1>3, <1>4

\* DirKnown is kept: the labels and plans that need a directory are reached only
\* from others that do, or from a command line that has one.
LEMMA DirKnownStep ==
    ASSUME TypeOK, DirKnown, [Next]_vars
    PROVE  DirKnown'
<1> USE DEF TypeOK, world, Goto, FailsOn, Jobs, DirKnownBy
<1>1. ASSUME NEW p \in Procs, Step(p) PROVE DirKnownBy(p)'
  <2>1. DirKnownBy(p)
    BY DEF DirKnown
  <2>2. ASSUME NEW r, Finish(p, r) PROVE DirKnownBy(p)'
    BY <2>2 DEF Finish, NoJob
  <2>3. CASE Begin(p)
    BY <2>3, BeginSets
  <2>4. CASE GetState(p) \/ CompareDir(p)
    BY <2>1, <2>4 DEF GetState, CompareDir
  <2>5. CASE OldImage(p) \/ NewImage(p)
    BY <2>1, <2>5 DEF OldImage, NewImage
  <2>6. CASE Prepare(p) \/ BuildImage(p)
    BY <2>1, <2>2, <2>6 DEF Prepare, BuildImage
  <2>7. CASE Remove(p)
    BY <2>1, <2>2, <2>7 DEF Remove, CutSessions
  <2>8. CASE Cleanup(p) \/ StartContainer(p)
    BY <2>1, <2>2, <2>8 DEF Cleanup, StartContainer
  <2>9. CASE MakeMetadataDir(p) \/ WriteMetadata(p) \/ PostCreationScripts(p)
    BY <2>1, <2>2, <2>9 DEF MakeMetadataDir, WriteMetadata, PostCreationScripts
  <2>10. CASE CopyCredentials(p) \/ BuildEnvVars(p) \/ EnsureContainerRunning(p)
    BY <2>1, <2>2, <2>10 DEF CopyCredentials, BuildEnvVars, EnsureContainerRunning
  <2>11. CASE Exec(p) \/ LeaveSession(p) \/ Crash(p)
    BY <2>1, <2>2, <2>11 DEF Exec, LeaveSession, Crash
  <2>12. QED
    BY <1>1, <2>3, <2>4, <2>5, <2>6, <2>7, <2>8, <2>9, <2>10, <2>11 DEF Step
<1>2. ASSUME NEW q \in Procs,
             job'[q] = job[q], pc'[q] = pc[q] \/ pc'[q] = "cut"
      PROVE  DirKnownBy(q)'
  BY <1>2 DEF DirKnown
<1>3. \A q \in Procs : DirKnownBy(q)'
  <2>1. CASE \E p \in Procs : Step(p)
    BY <1>1, <1>2, <2>1, OthersKept
  <2>2. CASE World
    BY <1>2, <2>2, WorldKeeps
  <2>3. CASE UNCHANGED vars
    BY <1>2, <2>3 DEF vars
  <2>4. QED
    BY <2>1, <2>2, <2>3 DEF Next
<1>4. QED
  BY <1>3 DEF DirKnown

\* TypeOK is inductive only together with DirKnown.
THEOREM TypesAndDirs == Spec => [](TypeOK /\ DirKnown)
<1>1. Init => TypeOK /\ DirKnown
  BY DEF Init, TypeOK, DirKnown, DirKnownBy, NoContainer, Containers, NoJob, Jobs,
         Plans, Labels, Results
<1>2. TypeOK /\ DirKnown /\ [Next]_vars => TypeOK' /\ DirKnown'
  <2>1. TypeOK /\ UNCHANGED vars => TypeOK'
    BY DEF vars, TypeOK
  <2>2. QED
    BY <2>1, StepType, WorldType, DirKnownStep DEF Next
<1>3. QED
  BY <1>1, <1>2, PTL DEF Spec

\* Every variable keeps to its domain for any processes, directories, images,
\* commands and faults: no step of any command leaves a record half built.
THEOREM TypeCorrect == Spec => []TypeOK
BY TypesAndDirs, PTL

-----------------------------------------------------------------------------
\* How long a command can take

\* What a command has decided goes with the call it makes next: only one that
\* compares images has found a container of its directory, and create never
\* removes anything.
PlanKnownBy(p) ==
    /\ pc[p] \in {"prepare", "build"} => job[p].plan \in {"create", "replace", "rebuild"}
    /\ pc[p] \in {"oldImage", "newImage"} => job[p].plan = "rebuild"
    /\ job[p].cmd = "create" =>
          /\ job[p].plan = "create"
          /\ pc[p] \in {"prepare", "build", "start", "mkdir", "write", "scripts"}

PlanKnown == \A p \in Procs : PlanKnownBy(p)

\* What a command's own step does to PlanKnownBy.
LEMMA PlanKnownStep ==
    ASSUME TypeOK, NEW p \in Procs, PlanKnownBy(p), Step(p)
    PROVE  PlanKnownBy(p)'
<1> USE DEF TypeOK, world, Goto, FailsOn, PlanKnownBy, Creating, Jobs
<1>1. ASSUME NEW r, Finish(p, r) PROVE PlanKnownBy(p)'
  BY <1>1 DEF Finish, NoJob
<1>2. CASE Begin(p)
  BY <1>2, BeginSets
<1>3. CASE GetState(p) \/ CompareDir(p)
  BY <1>3 DEF GetState, CompareDir
<1>4. CASE OldImage(p) \/ NewImage(p)
  BY <1>4 DEF OldImage, NewImage
<1>5. CASE Prepare(p) \/ BuildImage(p)
  BY <1>1, <1>5 DEF Prepare, BuildImage, Plans
<1>6. CASE Remove(p)
  BY <1>1, <1>6 DEF Remove, CutSessions
<1>7. CASE Cleanup(p) \/ StartContainer(p)
  BY <1>1, <1>7 DEF Cleanup, StartContainer
<1>8. CASE MakeMetadataDir(p) \/ WriteMetadata(p) \/ PostCreationScripts(p)
  BY <1>1, <1>8 DEF MakeMetadataDir, WriteMetadata, PostCreationScripts
<1>9. CASE CopyCredentials(p) \/ BuildEnvVars(p) \/ EnsureContainerRunning(p)
  BY <1>1, <1>9 DEF CopyCredentials, BuildEnvVars, EnsureContainerRunning
<1>10. CASE Exec(p) \/ LeaveSession(p) \/ Crash(p)
  BY <1>1, <1>10 DEF Exec, LeaveSession, Crash
<1>11. QED
  BY <1>2, <1>3, <1>4, <1>5, <1>6, <1>7, <1>8, <1>9, <1>10 DEF Step

\* PlanKnown holds throughout: nobody else touches a command's decisions.
THEOREM PlansKnown == Spec => []PlanKnown
<1>1. Init => PlanKnown
  BY DEF Init, PlanKnown, PlanKnownBy, NoJob
<1>2. TypeOK /\ PlanKnown /\ [Next]_vars => PlanKnown'
  <2> SUFFICES ASSUME TypeOK, PlanKnown, [Next]_vars, NEW q \in Procs
               PROVE  PlanKnownBy(q)'
    BY DEF PlanKnown
  <2>1. PlanKnownBy(q)
    BY DEF PlanKnown
  <2>2. CASE job'[q] = job[q] /\ (pc'[q] = pc[q] \/ (pc[q] = "inside" /\ pc'[q] = "cut"))
    BY <2>1, <2>2 DEF PlanKnownBy
  <2>3. CASE \E p \in Procs : Step(p)
    BY <2>1, <2>2, <2>3, PlanKnownStep, OthersKept
  <2>4. CASE World
    BY <2>2, <2>4, WorldKeeps
  <2>5. CASE UNCHANGED vars
    BY <2>2, <2>5 DEF vars
  <2>6. QED
    BY <2>3, <2>4, <2>5 DEF Next
<1>3. QED
  BY <1>1, <1>2, TypeCorrect, PTL DEF Spec

\* What CallsFrom says, label by label.
LEMMA CallsFromIs ==
    ASSUME NEW plan
    PROVE  /\ CallsFrom("idle", plan) = 0 /\ CallsFrom("cut", plan) = 1
           /\ CallsFrom("inside", plan) = 2 /\ CallsFrom("exec", plan) = 3
           /\ CallsFrom("checkRunning", plan) = 4 /\ CallsFrom("env", plan) = 5
           /\ CallsFrom("credentials", plan) = 6 /\ CallsFrom("scripts", plan) = 7
           /\ CallsFrom("write", plan) = 8 /\ CallsFrom("mkdir", plan) = 9
           /\ CallsFrom("start", plan) = 10
           /\ CallsFrom("build", plan) = IF plan = "rebuild" THEN 14 ELSE 11
           /\ CallsFrom("prepare", plan) = IF plan = "rebuild" THEN 16 ELSE 12
           /\ CallsFrom("cleanup", plan) = IF plan = "rebuild" THEN 11 ELSE 13
           /\ CallsFrom("remove", plan) = IF plan = "rebuild" THEN 12 ELSE 14
           /\ CallsFrom("newImage", plan) = 13 /\ CallsFrom("oldImage", plan) = 15
           /\ CallsFrom("compareDir", plan) = 17 /\ CallsFrom("getState", plan) = 18
BY DEF CallsFrom

\* There are at most 18 calls from any label on, and none only when all is over.
LEMMA CallsBounded ==
    ASSUME NEW label \in Labels, NEW plan
    PROVE  /\ CallsFrom(label, plan) \in 0..18
           /\ label # "idle" => CallsFrom(label, plan) > 0
BY CallsFromIs DEF Labels

\* Every step a command takes, the failing ones included, leaves it fewer calls.
LEMMA OneCallLess ==
    ASSUME TypeOK, NEW p \in Procs, PlanKnownBy(p), Step(p), pc[p] # "idle"
    PROVE  CallsLeft(p)' < CallsLeft(p)
<1> USE DEF TypeOK, world, Goto, FailsOn, CallsLeft
<1>1. ASSUME NEW r, Finish(p, r) PROVE CallsLeft(p)' < CallsLeft(p)
  <2>1. pc'[p] = "idle" /\ pc[p] \in Labels
    BY <1>1 DEF Finish
  <2>2. QED
    BY <2>1, CallsBounded, CallsFromIs
<1>2. CASE GetState(p)
  BY <1>2, CallsFromIs DEF GetState, Jobs
<1>3. CASE CompareDir(p)
  BY <1>3, CallsFromIs DEF CompareDir, Jobs
<1>4. CASE OldImage(p)
  BY <1>4, CallsFromIs DEF OldImage, Jobs, PlanKnownBy
<1>5. CASE NewImage(p)
  BY <1>5, CallsFromIs DEF NewImage, PlanKnownBy
<1>6. CASE Prepare(p)
  BY <1>1, <1>6, CallsFromIs DEF Prepare, PlanKnownBy, Creating
<1>7. CASE BuildImage(p)
  BY <1>1, <1>7, CallsFromIs DEF BuildImage, PlanKnownBy, Creating
<1>8. CASE Remove(p)
  BY <1>1, <1>8, CallsFromIs DEF Remove, CutSessions
<1>9. CASE Cleanup(p)
  BY <1>1, <1>9, CallsFromIs DEF Cleanup
<1>10. CASE StartContainer(p)
  BY <1>1, <1>10, CallsFromIs DEF StartContainer
<1>11. CASE MakeMetadataDir(p) \/ WriteMetadata(p)
  BY <1>1, <1>11, CallsFromIs DEF MakeMetadataDir, WriteMetadata
<1>12. CASE PostCreationScripts(p) \/ CopyCredentials(p)
  BY <1>1, <1>12, CallsFromIs DEF PostCreationScripts, CopyCredentials
<1>13. CASE BuildEnvVars(p) \/ EnsureContainerRunning(p) \/ Exec(p)
  BY <1>1, <1>13, CallsFromIs DEF BuildEnvVars, EnsureContainerRunning, Exec
<1>14. CASE LeaveSession(p) \/ Crash(p)
  BY <1>1, <1>14 DEF LeaveSession, Crash
<1>15. ~Begin(p)
  BY DEF Begin
<1>16. QED
  BY <1>2, <1>3, <1>4, <1>5, <1>6, <1>7, <1>8, <1>9, <1>10, <1>11, <1>12, <1>13,
     <1>14, <1>15 DEF Step

\* A process that somebody else's step moves has been cut off, and has no more to
\* do than before.
LEMMA NoCallMore ==
    ASSUME NEW q \in Procs, TypeOK, job'[q] = job[q],
           pc'[q] = pc[q] \/ (pc[q] = "inside" /\ pc'[q] = "cut")
    PROVE  CallsLeft(q)' <= CallsLeft(q)
<1>1. CASE pc'[q] = pc[q]
  <2>1. CallsLeft(q)' = CallsLeft(q)
    BY <1>1 DEF CallsLeft
  <2>2. QED
    BY <2>1, CallsBounded DEF CallsLeft, TypeOK
<1>2. CASE pc[q] = "inside" /\ pc'[q] = "cut"
  BY <1>2, CallsFromIs DEF CallsLeft
<1>3. QED
  BY <1>1, <1>2

\* Whatever the commands, faults and interleavings, no command goes back to a call
\* it has made: a recreate never leads to another, so once its calls are answered
\* a command is through after at most 18 of them.
THEOREM CallsAreFinite ==
    Spec => CallsRunOut /\ [](\A p \in Procs : CallsLeft(p) \in 0..18)
<1> DEFINE Fewer == \A p \in Procs : pc[p] # "idle" =>
              /\ CallsLeft(p)' <= CallsLeft(p)
              /\ Step(p) => CallsLeft(p)' < CallsLeft(p)
           Few == \A p \in Procs : CallsLeft(p) \in 0..18
<1>1. TypeOK /\ TypeOK' /\ PlanKnown /\ [Next]_vars => [Fewer]_vars
  <2> SUFFICES ASSUME TypeOK, TypeOK', PlanKnown, [Next]_vars,
                      NEW p \in Procs, pc[p] # "idle"
               PROVE  /\ CallsLeft(p)' <= CallsLeft(p)
                      /\ Step(p) => CallsLeft(p)' < CallsLeft(p)
    OBVIOUS
  <2>1. Step(p) => CallsLeft(p)' < CallsLeft(p)
    BY OneCallLess DEF PlanKnown
  <2>2. CallsLeft(p) \in 0..18 /\ (CallsLeft(p) \in 0..18)'
    BY CallsBounded DEF CallsLeft, TypeOK
  <2>3. CallsLeft(p)' <= CallsLeft(p)
    <3>1. CASE Step(p)
      BY <2>1, <2>2, <3>1
    <3>2. CASE \E q \in Procs : q # p /\ Step(q)
      BY <3>2, OthersKept, NoCallMore
    <3>3. CASE World
      BY <3>3, WorldKeeps, NoCallMore
    <3>4. CASE UNCHANGED vars
      BY <3>4, NoCallMore DEF vars
    <3>5. QED
      BY <3>1, <3>2, <3>3, <3>4 DEF Next
  <2>4. QED
    BY <2>1, <2>3
<1>2. TypeOK => Few
  BY CallsBounded DEF CallsLeft, TypeOK
<1>3. QED
  BY <1>1, <1>2, TypeCorrect, PlansKnown, PTL DEF Spec, CallsRunOut

-----------------------------------------------------------------------------
\* While nobody is about to remove the container and nothing prunes it, the
\* container that is there stays, with its directory and its image.
LEMMA ContainerKept ==
    ASSUME TypeOK, \A p \in Procs : pc[p] # "remove", "prune" \notin Faults,
           container.status # "none", [Next]_vars
    PROVE  /\ container'.status # "none"
           /\ container'.dir = container.dir
           /\ container'.image = container.image
<1> USE DEF TypeOK, Containers, world
<1>1. ASSUME NEW p \in Procs, Step(p) PROVE container' = container
  <2>1. CASE Begin(p) \/ GetState(p) \/ CompareDir(p) \/ OldImage(p) \/ NewImage(p)
    BY <2>1 DEF Begin, GetState, CompareDir, OldImage, NewImage
  <2>2. CASE Prepare(p) \/ BuildImage(p) \/ Remove(p) \/ Cleanup(p) \/ StartContainer(p)
    BY <2>2 DEF Prepare, BuildImage, Remove, Cleanup, StartContainer
  <2>3. CASE \/ MakeMetadataDir(p) \/ WriteMetadata(p) \/ PostCreationScripts(p)
             \/ CopyCredentials(p) \/ BuildEnvVars(p) \/ EnsureContainerRunning(p)
             \/ Exec(p) \/ LeaveSession(p) \/ Crash(p)
    BY <2>3 DEF MakeMetadataDir, WriteMetadata, PostCreationScripts,
       CopyCredentials, BuildEnvVars, EnsureContainerRunning, Exec, LeaveSession, Crash
  <2>4. QED
    BY <1>1, <2>1, <2>2, <2>3 DEF Step
<1>2. CASE World
  BY <1>2 DEF World, ContainerExits, ContainerRestarts, Prune, RecipeChanges
<1>3. CASE UNCHANGED vars
  BY <1>3 DEF vars
<1>4. QED
  BY <1>1, <1>2, <1>3 DEF Next

\* The metadata file changes only in the steps that write it or remove it.
LEMMA MetaWriters ==
    ASSUME TypeOK, [Next]_vars, meta' # meta
    PROVE  \/ meta' \in {"absent", "unreadable"}
           \/ \E p \in Procs : pc[p] = "write" /\ meta' = job[p].dir
<1> USE DEF TypeOK, world
<1>1. ASSUME NEW p \in Procs, Step(p)
      PROVE  meta' \in {"absent", "unreadable"} \/ (pc[p] = "write" /\ meta' = job[p].dir)
  <2>1. CASE Begin(p) \/ GetState(p) \/ CompareDir(p) \/ OldImage(p) \/ NewImage(p)
    BY <2>1 DEF Begin, GetState, CompareDir, OldImage, NewImage
  <2>2. CASE Prepare(p) \/ BuildImage(p) \/ Remove(p) \/ Cleanup(p) \/ StartContainer(p)
    BY <2>2 DEF Prepare, BuildImage, Remove, Cleanup, HalfRemoved, StartContainer
  <2>3. CASE \/ MakeMetadataDir(p) \/ WriteMetadata(p) \/ PostCreationScripts(p)
             \/ CopyCredentials(p) \/ BuildEnvVars(p) \/ EnsureContainerRunning(p)
             \/ Exec(p) \/ LeaveSession(p) \/ Crash(p)
    BY <2>3 DEF MakeMetadataDir, WriteMetadata, PostCreationScripts, CopyCredentials,
       BuildEnvVars, EnsureContainerRunning, Exec, LeaveSession, Crash, HalfRemoved
  <2>4. QED
    BY <1>1, <2>1, <2>2, <2>3 DEF Step
<1>2. CASE World
  BY <1>2 DEF World, ContainerExits, ContainerRestarts, Prune, RecipeChanges
<1>3. CASE UNCHANGED vars
  BY <1>3 DEF vars
<1>4. QED
  BY <1>1, <1>2, <1>3 DEF Next

-----------------------------------------------------------------------------
\* Of the processes past docker run there is at most one.  The container is the
\* one it started, and once it has written its record the record is right.
Past(p) == pc[p] \in {"mkdir", "write", "scripts"}

OwnerBy(p) ==
    /\ Past(p) => container.status # "none" /\ container.dir = job[p].dir
    /\ pc[p] = "scripts" => meta = job[p].dir

OwnerInv ==
    /\ \A p, q \in Procs : Past(p) /\ Past(q) => p = q
    /\ \A p \in Procs : OwnerBy(p)

\* No command removes the container or its metadata while another one is between
\* docker run and the end of its post-creation scripts: nothing in the code sees to
\* that, whoever starts the commands has to.
NoOverlap ==
    \A p, q \in Procs : Past(p) => pc[q] \notin {"remove", "cleanup"}

\* A process gets past docker run only where there was no container, and changes
\* the record only once it is past it, or while it destroys.
LEMMA OwnStep ==
    ASSUME TypeOK, NEW p \in Procs, Step(p)
    PROVE  /\ Past(p)' => Past(p) \/ container.status = "none"
           /\ meta' # meta => Past(p) \/ pc[p] = "cleanup"
<1> USE DEF TypeOK, Past, world, Goto, Finish, FailsOn
<1>1. CASE Begin(p)
  BY <1>1, BeginSets DEF Begin
<1>2. CASE GetState(p) \/ CompareDir(p) \/ OldImage(p) \/ NewImage(p)
  BY <1>2 DEF GetState, CompareDir, OldImage, NewImage
<1>3. CASE Prepare(p) \/ BuildImage(p) \/ Remove(p)
  BY <1>3 DEF Prepare, BuildImage, Remove, CutSessions
<1>4. CASE Cleanup(p) \/ StartContainer(p)
  BY <1>4 DEF Cleanup, StartContainer
<1>5. CASE MakeMetadataDir(p) \/ WriteMetadata(p) \/ PostCreationScripts(p)
  BY <1>5 DEF MakeMetadataDir, WriteMetadata, PostCreationScripts
<1>6. CASE CopyCredentials(p) \/ BuildEnvVars(p) \/ EnsureContainerRunning(p)
  BY <1>6 DEF CopyCredentials, BuildEnvVars, EnsureContainerRunning
<1>7. CASE Exec(p) \/ LeaveSession(p) \/ Crash(p)
  BY <1>7 DEF Exec, LeaveSession, Crash
<1>8. QED
  BY <1>1, <1>2, <1>3, <1>4, <1>5, <1>6, <1>7 DEF Step

\* What one's own step does to OwnerBy.
LEMMA OwnerStep ==
    ASSUME TypeOK, NEW p \in Procs, OwnerBy(p), Step(p)
    PROVE  OwnerBy(p)'
<1> USE DEF TypeOK, world, Goto, FailsOn, OwnerBy, Past
<1>1. ASSUME NEW r, Finish(p, r) PROVE OwnerBy(p)'
  BY <1>1 DEF Finish
<1>2. CASE Begin(p)
  BY <1>2, BeginSets
<1>3. CASE GetState(p) \/ CompareDir(p) \/ OldImage(p) \/ NewImage(p)
  BY <1>3 DEF GetState, CompareDir, OldImage, NewImage
<1>4. CASE Prepare(p) \/ BuildImage(p)
  BY <1>1, <1>4 DEF Prepare, BuildImage
<1>5. CASE Remove(p) \/ Cleanup(p)
  BY <1>1, <1>5 DEF Remove, CutSessions, Cleanup
<1>6. CASE StartContainer(p)
  <2>1. CASE Finish(p, "nameInUse") \/ Finish(p, "failed")
    BY <1>1, <2>1
  <2>2. CASE /\ container' = [status |-> "running", dir |-> job[p].dir, image |-> tag]
             /\ Goto(p, "mkdir") /\ UNCHANGED job
    BY <1>6, <2>2 DEF StartContainer
  <2>3. QED
    BY <1>6, <2>1, <2>2 DEF StartContainer
<1>7. CASE MakeMetadataDir(p) \/ WriteMetadata(p) \/ PostCreationScripts(p)
  BY <1>1, <1>7 DEF MakeMetadataDir, WriteMetadata, PostCreationScripts
<1>8. CASE CopyCredentials(p) \/ BuildEnvVars(p) \/ EnsureContainerRunning(p)
  BY <1>1, <1>8 DEF CopyCredentials, BuildEnvVars, EnsureContainerRunning
<1>9. CASE Exec(p) \/ LeaveSession(p) \/ Crash(p)
  BY <1>1, <1>9 DEF Exec, LeaveSession, Crash
<1>10. QED
  BY <1>2, <1>3, <1>4, <1>5, <1>6, <1>7, <1>8, <1>9 DEF Step

\* OwnerInv is kept: docker run lets nobody past while there is a container, and
\* the one that is past it is the only one to touch the container or the record.
LEMMA OwnerNext ==
    ASSUME "prune" \notin Faults, TypeOK, OwnerInv, NoOverlap, [Next]_vars
    PROVE  OwnerInv'
<1>1. ASSUME NEW q \in Procs, Past(q)
      PROVE  /\ container.status # "none"
             /\ container'.status # "none" /\ container'.dir = container.dir
  <2>1. container.status # "none" /\ \A p \in Procs : pc[p] # "remove"
    BY <1>1 DEF OwnerInv, OwnerBy, NoOverlap
  <2>2. QED
    BY <2>1, ContainerKept
<1>2. ASSUME NEW q \in Procs, job'[q] = job[q],
             pc'[q] = pc[q] \/ (pc[q] = "inside" /\ pc'[q] = "cut"),
             pc[q] = "scripts" => meta' = meta
      PROVE  OwnerBy(q)' /\ (Past(q)' => Past(q))
  <2>1. Past(q)' => Past(q)
    BY <1>2 DEF Past
  <2>2. QED
    BY <1>1, <1>2, <2>1 DEF OwnerInv, OwnerBy, Past
<1>3. CASE \E p \in Procs : Step(p)
  <2>1. PICK p \in Procs : Step(p)
    BY <1>3
  <2>2. OwnerBy(p)' /\ (Past(p)' => Past(p) \/ container.status = "none")
    BY <2>1, OwnStep, OwnerStep DEF OwnerInv
  <2>3. ASSUME NEW q \in Procs, q # p PROVE OwnerBy(q)' /\ (Past(q)' => Past(q))
    <3>1. pc[q] = "scripts" => meta' = meta
      BY <2>1, <2>3, OwnStep DEF OwnerInv, NoOverlap, Past
    <3>2. QED
      BY <1>2, <2>1, <2>3, <3>1, OthersKept
  <2>4. QED
    BY <1>1, <2>2, <2>3 DEF OwnerInv
<1>4. CASE World
  <2>1. meta' = meta
    BY <1>4 DEF World, ContainerExits, ContainerRestarts, Prune, RecipeChanges
  <2>2. QED
    BY <1>2, <1>4, <2>1, WorldKeeps DEF OwnerInv
<1>5. CASE UNCHANGED vars
  BY <1>2, <1>5 DEF vars, OwnerInv
<1>6. QED
  BY <1>3, <1>4, <1>5 DEF Next

\* Init and every step keep OwnerInv, as long as no removal overlaps a creation.
LEMMA OwnerHolds ==
    ASSUME "prune" \notin Faults PROVE Spec /\ []NoOverlap => []OwnerInv
<1>1. Init => OwnerInv
  BY DEF Init, OwnerInv, OwnerBy, Past
<1>2. TypeOK /\ OwnerInv /\ NoOverlap /\ [Next]_vars => OwnerInv'
  BY OwnerNext
<1>3. QED
  BY <1>1, <1>2, TypeCorrect, PTL DEF Spec

\* A create that reports success has got as far as its post-creation scripts.
LEMMA CreateEnds ==
    ASSUME TypeOK, PlanKnown, Next, NEW p \in Procs,
           job[p].cmd = "create", pc[p] # "idle",
           pc'[p] = "idle", result'[p] = "ok"
    PROVE  pc[p] = "scripts"
<1> USE DEF TypeOK, world, Goto, Finish, FailsOn
<1>1. Step(p)
  BY WorldKeeps, OthersKept DEF Next
<1>2. pc[p] \in {"prepare", "build", "start", "mkdir", "write", "scripts"}
  BY DEF PlanKnown, PlanKnownBy
<1>3. CASE Begin(p) \/ Prepare(p) \/ BuildImage(p) \/ StartContainer(p)
  BY <1>2, <1>3 DEF Begin, Prepare, BuildImage, StartContainer
<1>4. CASE MakeMetadataDir(p) \/ WriteMetadata(p) \/ PostCreationScripts(p)
  BY <1>2, <1>4 DEF MakeMetadataDir, WriteMetadata, PostCreationScripts
<1>5. CASE LeaveSession(p) \/ Crash(p)
  BY <1>2, <1>5 DEF LeaveSession, Crash
<1>6. CASE \/ GetState(p) \/ CompareDir(p) \/ OldImage(p) \/ NewImage(p)
           \/ Remove(p) \/ Cleanup(p)
  BY <1>2, <1>6 DEF GetState, CompareDir, OldImage, NewImage, Remove, Cleanup
<1>7. CASE \/ CopyCredentials(p) \/ BuildEnvVars(p) \/ EnsureContainerRunning(p)
           \/ Exec(p)
  BY <1>2, <1>7 DEF CopyCredentials, BuildEnvVars, EnsureContainerRunning, Exec
<1>8. QED
  BY <1>1, <1>3, <1>4, <1>5, <1>6, <1>7 DEF Step

\* With every command, destroy and run --create included, and any failure short of
\* a container pruned outside isolarium: a create that reports success leaves a
\* container and a record that both have the directory it was given, unless a
\* removal overlaps the creation.
THEOREM ListedUndisturbed ==
    ASSUME "prune" \notin Faults PROVE Spec /\ []NoOverlap => CreateIsListed
<1> DEFINE Lists == \A p \in Procs :
        /\ job[p].cmd = "create" /\ pc[p] # "idle"
        /\ pc'[p] = "idle" /\ result'[p] = "ok"
        => /\ container.status # "none" /\ container.dir = job[p].dir
           /\ meta = job[p].dir
<1>1. TypeOK /\ PlanKnown /\ OwnerInv /\ [Next]_vars => [Lists]_vars
  BY CreateEnds DEF OwnerInv, OwnerBy, Past
<1>2. QED
  BY <1>1, OwnerHolds, PlansKnown, TypeCorrect, PTL DEF Spec, CreateIsListed

\* So whoever runs one isolarium command at a time can rely on it, with destroy
\* among the commands and whatever fails or is killed.
THEOREM ListedAlone ==
    ASSUME \A p, q \in Procs : p = q, "prune" \notin Faults
    PROVE  Spec => CreateIsListed
<1>1. NoOverlap
  BY DEF NoOverlap, Past
<1>2. QED
  BY <1>1, ListedUndisturbed, PTL

-----------------------------------------------------------------------------
\* Several commands, and what status finds when they are over

Live == container.status \in {"running", "exited"}

\* A container that is up has its record or a writer on the way; a record is cleared
\* only when its container is gone, and the directory stays until it is written.
Watched ==
    /\ Live => meta = container.dir \/ \E p \in Procs : pc[p] \in {"mkdir", "write"}
    /\ \A p \in Procs : pc[p] = "cleanup" => ~Live
    /\ \A p \in Procs : pc[p] = "write" => meta # "absent"

\* A step that neither makes nor removes anything and does not get to a call that
\* does, nor leaves one, keeps that.
LEMMA WatchedQuiet ==
    ASSUME Watched, UNCHANGED meta, Live' => Live, container'.dir = container.dir,
           \A q \in Procs : /\ pc[q] \in {"mkdir", "write"} => pc'[q] = pc[q]
                            /\ pc'[q] \in {"cleanup", "write"} => pc'[q] = pc[q]
    PROVE  Watched'
BY DEF Watched

\* Every step of a command keeps it, if no removal overlaps a creation before or
\* after the step.
LEMMA WatchedStep ==
    ASSUME TypeOK, OwnerInv, NoOverlap, NoOverlap', Watched,
           Faults \cap {"disk", "crash", "prune"} = {}, NEW p \in Procs, Step(p)
    PROVE  Watched'
<1> USE DEF TypeOK, world, Goto, Finish, FailsOn
<1>1. \A q \in Procs : q # p =>
          /\ job'[q] = job[q]
          /\ pc'[q] = pc[q] \/ (pc[q] = "inside" /\ pc'[q] = "cut")
  BY OthersKept
<1>2. ASSUME UNCHANGED meta, Live' => Live, container'.dir = container.dir,
             pc[p] \notin {"mkdir", "write"}, pc'[p] \notin {"cleanup", "write"}
      PROVE  Watched'
  BY <1>1, <1>2, WatchedQuiet
<1>3. CASE Begin(p)
  BY <1>2, <1>3, BeginSets DEF Begin, Live
<1>4. CASE GetState(p) \/ CompareDir(p) \/ OldImage(p) \/ NewImage(p) \/ Prepare(p)
  BY <1>2, <1>4 DEF GetState, CompareDir, OldImage, NewImage, Prepare, Live
<1>5. CASE BuildImage(p) \/ PostCreationScripts(p)
  BY <1>2, <1>5 DEF BuildImage, PostCreationScripts, Live
<1>6. CASE Remove(p)
  <2>1. CASE Finish(p, "failed") /\ UNCHANGED container
    BY <1>2, <1>6, <2>1 DEF Remove, Live
  <2>2. CASE container' = NoContainer /\ pc' = CutSessions([pc EXCEPT ![p] = "cleanup"])
    <3>1. ~Live' /\ meta' = meta /\ pc'[p] = "cleanup"
      BY <1>6, <2>2 DEF Remove, NoContainer, Live, CutSessions
    <3>2. QED
      BY <1>1, <3>1 DEF Watched
  <2>3. QED
    BY <1>6, <2>1, <2>2 DEF Remove
<1>7. CASE Cleanup(p)
  <2>1. pc[p] = "cleanup" /\ container' = container /\ pc'[p] \notin {"cleanup", "write"}
    BY <1>7 DEF Cleanup
  <2>2. ~Live'
    BY <2>1 DEF Watched, Live
  <2>3. \A q \in Procs : pc[q] # "write"
    BY <2>1 DEF NoOverlap, Past
  <2>4. QED
    BY <1>1, <2>1, <2>2, <2>3 DEF Watched
<1>8. CASE StartContainer(p)
  <2>1. CASE Finish(p, "nameInUse") /\ UNCHANGED container
    BY <1>2, <1>8, <2>1 DEF StartContainer, Live
  <2>2. CASE /\ container' \in {container,
                    [status |-> "created", dir |-> job[p].dir, image |-> tag]}
             /\ container.status = "none" /\ Finish(p, "failed")
    <3>1. ~Live' /\ meta' = meta /\ pc'[p] = "idle"
      BY <1>8, <2>2 DEF StartContainer, Live
    <3>2. QED
      BY <1>1, <3>1 DEF Watched
  <2>3. CASE Goto(p, "mkdir")
    <3>1. pc'[p] = "mkdir" /\ meta' = meta
      BY <1>8, <2>3 DEF StartContainer
    <3>2. \A q \in Procs : pc'[q] # "cleanup"
      BY <3>1 DEF NoOverlap, Past
    <3>3. QED
      BY <1>1, <3>1, <3>2 DEF Watched
  <2>4. QED
    BY <1>8, <2>1, <2>2, <2>3 DEF StartContainer
<1>9. CASE MakeMetadataDir(p)
  <2>1. pc'[p] = "write" /\ meta' # "absent" /\ container' = container
    BY <1>9 DEF MakeMetadataDir
  <2>2. QED
    BY <1>1, <2>1 DEF Watched, Live
<1>10. CASE WriteMetadata(p)
  <2>1. pc[p] = "write" /\ meta # "absent"
    BY <1>10 DEF WriteMetadata, Watched
  <2>2. meta' = job[p].dir /\ container' = container
        /\ pc'[p] \in {"scripts", "credentials"}
    BY <1>10, <2>1 DEF WriteMetadata
  <2>3. meta' = container'.dir
    BY <2>1, <2>2 DEF OwnerInv, OwnerBy, Past
  <2>4. \A q \in Procs : q # p => pc[q] # "write"
    BY <2>1 DEF OwnerInv, Past
  <2>5. QED
    BY <1>1, <2>2, <2>3, <2>4 DEF Watched, Live
<1>11. CASE CopyCredentials(p) \/ BuildEnvVars(p) \/ EnsureContainerRunning(p)
  BY <1>2, <1>11 DEF CopyCredentials, BuildEnvVars, EnsureContainerRunning, Live
<1>12. CASE Exec(p) \/ LeaveSession(p)
  BY <1>2, <1>12 DEF Exec, LeaveSession, Live
<1>13. ~Crash(p)
  BY DEF Crash
<1>14. QED
  BY <1>3, <1>4, <1>5, <1>6, <1>7, <1>8, <1>9, <1>10, <1>11, <1>12, <1>13 DEF Step

\* The overlap of a removal and a creation is all that can leave a container without
\* its record: any number of commands of every kind, whatever fails but the disk,
\* leave one that is up with a record of its directory if no such overlap occurs.
THEOREM StatusUndisturbed ==
    ASSUME Faults \cap {"disk", "crash", "prune"} = {}
    PROVE  Spec /\ []NoOverlap => []LiveIsListed
<1>1. Init => Watched
  BY DEF Init, Watched, Live, NoContainer
<1>2. TypeOK /\ OwnerInv /\ NoOverlap /\ NoOverlap' /\ Watched /\ [Next]_vars => Watched'
  <2> SUFFICES ASSUME TypeOK, OwnerInv, NoOverlap, NoOverlap', Watched, [Next]_vars
               PROVE  Watched'
    OBVIOUS
  <2>1. CASE \E p \in Procs : Step(p)
    BY <2>1, WatchedStep
  <2>2. CASE World
    <3>1. UNCHANGED meta /\ (Live' => Live) /\ container'.dir = container.dir
      BY <2>2
      DEF World, ContainerExits, ContainerRestarts, Prune, RecipeChanges, Live, TypeOK,
          Containers
    <3>2. \A q \in Procs : pc'[q] = pc[q] \/ (pc[q] = "inside" /\ pc'[q] = "cut")
      BY <2>2, WorldKeeps
    <3>3. QED
      BY <3>1, <3>2, WatchedQuiet
  <2>3. CASE UNCHANGED vars
    BY <2>3, WatchedQuiet DEF vars, Live
  <2>4. QED
    BY <2>1, <2>2, <2>3 DEF Next
<1>3. Watched => LiveIsListed
  BY DEF Watched, LiveIsListed, Live
<1>4. "prune" \notin Faults
  OBVIOUS
<1>5. Spec /\ []NoOverlap => []OwnerInv
  BY <1>4, OwnerHolds, PTL
<1>6. QED
  BY <1>1, <1>2, <1>3, <1>5, TypeCorrect, PTL DEF Spec

-----------------------------------------------------------------------------
\* Where nobody removes the container

\* No command is about to remove the container or its metadata.
Undisturbed == \A p \in Procs : pc[p] \notin {"remove", "cleanup"}

\* A readable metadata file goes on describing the container there is: whoever
\* writes one is past docker run and owns the container.
LEMMA MatchesStep ==
    ASSUME "prune" \notin Faults, TypeOK, OwnerInv, MetadataMatches, Undisturbed,
           [Next]_vars
    PROVE  MetadataMatches'
<1>1. container.status # "none"
        => container'.status # "none" /\ container'.dir = container.dir
  BY ContainerKept DEF Undisturbed
<1>2. CASE meta' = meta
  BY <1>1, <1>2 DEF MetadataMatches
<1>3. CASE meta' \in {"absent", "unreadable"}
  BY <1>3, DirsAreNotMarks DEF MetadataMatches
<1>4. CASE \E p \in Procs : pc[p] = "write" /\ meta' = job[p].dir
  BY <1>1, <1>4 DEF OwnerInv, OwnerBy, Past, MetadataMatches
<1>5. QED
  BY <1>2, <1>3, <1>4, MetaWriters

\* As long as nobody is about to remove it, the container there is and the record
\* that can be read agree, and a create that reports success is listed.
THEOREM MatchesUndisturbed ==
    ASSUME "prune" \notin Faults
    PROVE  Spec /\ []Undisturbed => []MetadataMatches /\ CreateIsListed
<1>1. Init => MetadataMatches
  BY DirsAreNotMarks DEF Init, MetadataMatches
<1>2. TypeOK /\ OwnerInv /\ MetadataMatches /\ Undisturbed /\ [Next]_vars
        => MetadataMatches'
  BY MatchesStep
<1>3. Undisturbed => NoOverlap
  BY DEF Undisturbed, NoOverlap
<1>4. QED
  BY <1>1, <1>2, <1>3, OwnerHolds, ListedUndisturbed, TypeCorrect, PTL DEF Spec

-----------------------------------------------------------------------------
\* Creates and runs only

\* What one's own step does to CreateOnlyBy.
LEMMA CreateOnlyStep ==
    ASSUME TypeOK, CreateOnlyInv, NEW p \in Procs, Step(p),
           Commands \cap {"run --create", "destroy"} = {}
    PROVE  CreateOnlyBy(p)'
<1> USE DEF TypeOK, world, Goto, FailsOn, CreateOnlyBy, Creating
<1>1. CreateOnlyBy(p)
  BY DEF CreateOnlyInv
<1>2. ASSUME NEW r, Finish(p, r) PROVE CreateOnlyBy(p)'
  BY <1>2 DEF Finish
<1>3. CASE Begin(p)
  BY <1>3, BeginSets
<1>4. CASE Prepare(p) \/ BuildImage(p)
  BY <1>1, <1>2, <1>4 DEF Prepare, BuildImage
<1>5. CASE StartContainer(p)
  <2>1. CASE Finish(p, "nameInUse") \/ Finish(p, "failed")
    BY <1>2, <2>1
  <2>2. CASE /\ container' = [status |-> "running", dir |-> job[p].dir, image |-> tag]
             /\ Goto(p, "mkdir") /\ UNCHANGED job
    BY <1>1, <1>5, <2>2 DEF StartContainer
  <2>3. QED
    BY <1>5, <2>1, <2>2 DEF StartContainer
<1>6. CASE MakeMetadataDir(p) \/ WriteMetadata(p) \/ PostCreationScripts(p)
  BY <1>1, <1>2, <1>6 DEF MakeMetadataDir, WriteMetadata, PostCreationScripts
<1>7. CASE CopyCredentials(p) \/ BuildEnvVars(p) \/ EnsureContainerRunning(p)
  BY <1>1, <1>2, <1>7 DEF CopyCredentials, BuildEnvVars, EnsureContainerRunning
<1>8. CASE Exec(p) \/ LeaveSession(p) \/ Crash(p)
  BY <1>1, <1>2, <1>8 DEF Exec, LeaveSession, Crash
<1>9. CASE \/ GetState(p) \/ CompareDir(p) \/ OldImage(p) \/ NewImage(p)
           \/ Remove(p) \/ Cleanup(p)
  BY <1>1, <1>9 DEF GetState, CompareDir, OldImage, NewImage, Remove, Cleanup
<1>10. QED
  BY <1>3, <1>4, <1>5, <1>6, <1>7, <1>8, <1>9 DEF Step

\* Neither a command nor a prune removes containers.
OnlyCreates ==
    Commands \cap {"run --create", "destroy"} = {} /\ "prune" \notin Faults

\* A process between docker run and the metadata works on the container it has
\* started, and a readable metadata file describes the container there is.
THEOREM CreateOnlyHolds == ASSUME OnlyCreates PROVE Spec => []CreateOnlyInv
<1> USE DEF OnlyCreates
<1>1. Init => CreateOnlyInv
  BY DirsAreNotMarks
     DEF Init, CreateOnlyInv, MetadataMatches, CreateOnlyBy
<1>2. TypeOK /\ CreateOnlyInv /\ [Next]_vars => CreateOnlyInv'
  <2> SUFFICES ASSUME TypeOK, CreateOnlyInv, [Next]_vars PROVE CreateOnlyInv'
    OBVIOUS
  <2>1. \A p \in Procs : pc[p] # "remove"
    BY DEF CreateOnlyInv, CreateOnlyBy
  <2>2. container.status # "none"
          => container'.status # "none" /\ container'.dir = container.dir
    BY <2>1, ContainerKept
  <2>3. MetadataMatches'
    <3>1. CASE meta' = meta
      BY <2>2, <3>1 DEF CreateOnlyInv, MetadataMatches
    <3>2. CASE meta' \in {"absent", "unreadable"}
      BY <3>2, DirsAreNotMarks DEF MetadataMatches
    <3>3. CASE \E p \in Procs : pc[p] = "write" /\ meta' = job[p].dir
      BY <2>2, <3>3 DEF CreateOnlyInv, CreateOnlyBy, MetadataMatches
    <3>4. QED
      BY <3>1, <3>2, <3>3, MetaWriters
  <2>4. ASSUME NEW q \in Procs, job'[q] = job[q], pc'[q] = pc[q] \/ pc'[q] = "cut"
        PROVE  CreateOnlyBy(q)'
    BY <2>2, <2>4 DEF CreateOnlyInv, CreateOnlyBy
  <2>5. ASSUME NEW q \in Procs PROVE CreateOnlyBy(q)'
    <3>1. CASE \E p \in Procs : Step(p)
      BY <2>4, <3>1, CreateOnlyStep, OthersKept
    <3>2. CASE World
      BY <2>4, <3>2, WorldKeeps
    <3>3. CASE UNCHANGED vars
      BY <2>4, <3>3 DEF vars
    <3>4. QED
      BY <3>1, <3>2, <3>3 DEF Next
  <2>6. QED
    BY <2>3, <2>5 DEF CreateOnlyInv
<1>3. QED
  BY <1>1, <1>2, TypeCorrect, PTL DEF Spec

\* A readable metadata file always describes the container there is, however
\* many creates and runs are under way and wherever they fail or are killed,
\* as long as no command removes containers and nothing prunes them.
THEOREM MetadataCorrect == ASSUME OnlyCreates PROVE Spec => []MetadataMatches
<1>1. CreateOnlyInv => MetadataMatches
  BY DEF CreateOnlyInv
<1>2. QED
  BY <1>1, CreateOnlyHolds, PTL

\* Where nothing removes containers, nobody is about to.
LEMMA UndisturbedThen == ASSUME OnlyCreates PROVE Spec => []Undisturbed
<1>1. CreateOnlyInv => Undisturbed
  BY DEF CreateOnlyInv, CreateOnlyBy, Undisturbed
<1>2. QED
  BY <1>1, CreateOnlyHolds, PTL

\* So a create that reports success leaves a container and a record that both have
\* the directory it was given, however many creates compete, fail or are killed.
THEOREM CreateListed == ASSUME OnlyCreates PROVE Spec => CreateIsListed
<1>1. "prune" \notin Faults
  BY DEF OnlyCreates
<1>2. QED
  BY <1>1, UndisturbedThen, MatchesUndisturbed, PTL

-----------------------------------------------------------------------------
\* A build that moves the tag moves it to an image.
LEMMA TagMoves ==
    ASSUME TypeOK, DirKnown, [Next]_vars, tag' # tag
    PROVE  tag' \in Images
<1> USE DEF TypeOK, DirKnown, DirKnownBy, world
<1>1. ASSUME NEW p \in Procs, Step(p) PROVE tag' \in Images
  <2>1. CASE BuildImage(p)
    BY <2>1 DEF BuildImage
  <2>2. CASE Begin(p) \/ GetState(p) \/ CompareDir(p) \/ OldImage(p) \/ NewImage(p)
    BY <2>2 DEF Begin, GetState, CompareDir, OldImage, NewImage
  <2>3. CASE Prepare(p) \/ Remove(p) \/ Cleanup(p) \/ StartContainer(p)
    BY <2>3 DEF Prepare, Remove, Cleanup, StartContainer
  <2>4. CASE \/ MakeMetadataDir(p) \/ WriteMetadata(p) \/ PostCreationScripts(p)
             \/ CopyCredentials(p) \/ BuildEnvVars(p) \/ EnsureContainerRunning(p)
             \/ Exec(p) \/ LeaveSession(p) \/ Crash(p)
    BY <2>4 DEF MakeMetadataDir, WriteMetadata, PostCreationScripts,
       CopyCredentials, BuildEnvVars, EnsureContainerRunning, Exec, LeaveSession, Crash
  <2>5. QED
    BY <1>1, <2>1, <2>2, <2>3, <2>4 DEF Step
<1>2. ~World
  BY DEF World, ContainerExits, ContainerRestarts, Prune, RecipeChanges
<1>3. QED
  BY <1>1, <1>2 DEF Next, vars

\* A container appears only in StartContainer, with the image of the tag and the
\* directory of the command that starts it.
LEMMA ContainerAppears ==
    ASSUME TypeOK, [Next]_vars, container.status = "none", container'.status # "none"
    PROVE  /\ container'.image = tag
           /\ \E p \in Procs : pc[p] = "start" /\ container'.dir = job[p].dir
<1> USE DEF TypeOK, Containers, NoContainer, world
<1>1. ASSUME NEW p \in Procs, Step(p)
      PROVE  container'.image = tag /\ pc[p] = "start" /\ container'.dir = job[p].dir
  <2>1. CASE Begin(p) \/ GetState(p) \/ CompareDir(p) \/ OldImage(p) \/ NewImage(p)
    BY <2>1 DEF Begin, GetState, CompareDir, OldImage, NewImage
  <2>2. CASE Prepare(p) \/ BuildImage(p) \/ Remove(p) \/ Cleanup(p) \/ StartContainer(p)
    BY <2>2 DEF Prepare, BuildImage, Remove, Cleanup, StartContainer
  <2>3. CASE \/ MakeMetadataDir(p) \/ WriteMetadata(p) \/ PostCreationScripts(p)
             \/ CopyCredentials(p) \/ BuildEnvVars(p) \/ EnsureContainerRunning(p)
             \/ Exec(p) \/ LeaveSession(p) \/ Crash(p)
    BY <2>3 DEF MakeMetadataDir, WriteMetadata, PostCreationScripts,
       CopyCredentials, BuildEnvVars, EnsureContainerRunning, Exec, LeaveSession, Crash
  <2>4. QED
    BY <1>1, <2>1, <2>2, <2>3 DEF Step
<1>2. ~World
  BY DEF World, ContainerExits, ContainerRestarts, Prune, RecipeChanges
<1>3. QED
  BY <1>1, <1>2 DEF Next, vars

OneRequest ==
    /\ "destroy" \notin Commands
    /\ \A d, e \in Dirs : d = e
    /\ \A i, j \in Images : i = j
    /\ {"inspect", "prune"} \cap Faults = {}

\* What one's own step does to SameRequestBy.
LEMMA SameRequestStep ==
    ASSUME TypeOK, DirKnown, SameRequestInv, OneRequest, NEW p \in Procs, Step(p)
    PROVE  SameRequestBy(p)'
<1> USE DEF TypeOK, world, Goto, FailsOn, SameRequestBy, Creating, Jobs, Plans
<1>1. SameRequestBy(p) /\ DirKnownBy(p)
  BY DEF SameRequestInv, DirKnown
<1>2. ASSUME NEW r, Finish(p, r) PROVE SameRequestBy(p)'
  BY <1>2 DEF Finish, NoJob
<1>3. CASE Begin(p)
  BY <1>3, BeginSets DEF OneRequest
<1>4. CASE GetState(p)
  <2>1. PICK state \in StatesSeen :
          \/ /\ state = "none"
             /\ job' = [job EXCEPT ![p].plan = "create"] /\ Goto(p, "prepare")
          \/ state # "none" /\ Goto(p, "compareDir") /\ UNCHANGED job
    BY <1>4 DEF GetState
  <2>2. state # "none" => container.status # "none"
    BY DEF StatesSeen, OneRequest
  <2>3. container' = container /\ tag' = tag
    BY <1>4 DEF GetState
  <2>4. QED
    BY <1>1, <1>4, <2>1, <2>2, <2>3 DEF GetState
<1>5. CASE CompareDir(p)
  <2>1. ~WorkDirectoryChanged(p)
    BY <1>1, <1>5 DEF WorkDirectoryChanged, CompareDir, OneRequest, DirKnownBy
  <2>2. QED
    BY <1>1, <1>5, <2>1 DEF CompareDir
<1>6. CASE OldImage(p)
  <2>1. container.image \in Images
    BY <1>1, <1>6 DEF SameRequestInv, OldImage
  <2>2. job' = [job EXCEPT ![p].old = container.image]
    BY <1>6 DEF OldImage, ImagesSeen, OneRequest
  <2>3. QED
    BY <1>1, <1>6, <2>1, <2>2 DEF OldImage
<1>7. CASE NewImage(p)
  <2>1. job[p].old = tag
    BY <1>1, <1>7 DEF NewImage, OneRequest
  <2>2. pc' = [pc EXCEPT ![p] = "credentials"]
    BY <1>7, <2>1 DEF NewImage, ImagesSeen, OneRequest
  <2>3. QED
    BY <1>1, <1>7, <2>2 DEF NewImage
<1>8. CASE Prepare(p)
  BY <1>1, <1>2, <1>8 DEF Prepare
<1>9. CASE BuildImage(p)
  <2>1. job[p].dir \in Dirs /\ recipe[job[p].dir] \in Images
    BY <1>1, <1>9 DEF BuildImage, DirKnownBy
  <2>2. QED
    BY <1>1, <1>2, <1>9, <2>1 DEF BuildImage
<1>10. CASE StartContainer(p)
  <2>1. CASE Finish(p, "nameInUse") \/ Finish(p, "failed")
    BY <1>2, <2>1
  <2>2. CASE /\ container' = [status |-> "running", dir |-> job[p].dir, image |-> tag]
             /\ Goto(p, "mkdir") /\ UNCHANGED job
    BY <1>1, <1>10, <2>2 DEF StartContainer
  <2>3. QED
    BY <1>10, <2>1, <2>2 DEF StartContainer
<1>11. CASE Remove(p) \/ Cleanup(p)
  BY <1>1, <1>11 DEF Remove, Cleanup
<1>12. CASE MakeMetadataDir(p) \/ WriteMetadata(p) \/ PostCreationScripts(p)
  BY <1>1, <1>2, <1>12 DEF MakeMetadataDir, WriteMetadata, PostCreationScripts
<1>13. CASE CopyCredentials(p) \/ BuildEnvVars(p) \/ EnsureContainerRunning(p)
  BY <1>1, <1>2, <1>13 DEF CopyCredentials, BuildEnvVars, EnsureContainerRunning
<1>14. CASE Exec(p) \/ LeaveSession(p) \/ Crash(p)
  BY <1>1, <1>2, <1>14 DEF Exec, LeaveSession, Crash
<1>15. QED
  BY <1>3, <1>4, <1>5, <1>6, <1>7, <1>8, <1>9, <1>10, <1>11, <1>12, <1>13, <1>14
     DEF Step

\* As long as all commands ask for the same directory and image, no process is
\* about to remove the container or could decide to, however many there are and
\* wherever they fail or are killed.
THEOREM SameRequestHolds == ASSUME OneRequest PROVE Spec => []SameRequestInv
<1>1. Init => SameRequestInv
  BY DEF Init, SameRequestInv, SameRequestBy, NoContainer, NoJob
<1>2. SameRequestInv => \A p \in Procs : pc[p] # "remove"
  BY DEF SameRequestInv, SameRequestBy
<1>3. "prune" \notin Faults
  BY DEF OneRequest
<1>4. TypeOK /\ DirKnown /\ SameRequestInv /\ [Next]_vars => SameRequestInv'
  <2> SUFFICES ASSUME TypeOK, DirKnown, SameRequestInv, [Next]_vars
               PROVE  SameRequestInv'
    OBVIOUS
  <2>1. container.status # "none"
          => container'.status # "none" /\ container'.image = container.image
    BY <1>2, <1>3, ContainerKept
  <2>2. container'.status # "none" => container'.image \in Images
    BY <2>1, ContainerAppears DEF SameRequestInv, SameRequestBy
  <2>3. ASSUME NEW q \in Procs, job'[q] = job[q], pc'[q] = pc[q] \/ pc'[q] = "cut"
        PROVE  SameRequestBy(q)'
    BY <2>1, <2>3, TagMoves DEF SameRequestInv, SameRequestBy
  <2>4. ASSUME NEW q \in Procs PROVE SameRequestBy(q)'
    <3>1. CASE \E p \in Procs : Step(p)
      BY <2>3, <3>1, SameRequestStep, OthersKept
    <3>2. CASE World
      BY <2>3, <3>2, WorldKeeps
    <3>3. CASE UNCHANGED vars
      BY <2>3, <3>3 DEF vars
    <3>4. QED
      BY <3>1, <3>2, <3>3 DEF Next
  <2>5. QED
    BY <2>2, <2>4 DEF SameRequestInv
<1>5. QED
  BY <1>1, <1>4, TypesAndDirs, PTL DEF Spec

\* However many create, run and run --create ask for the same directory and
\* image at once, and wherever they fail or are killed, none of them takes away
\* a container that is there, so none cuts off another's session.
THEOREM SameRequestsKeepContainer == ASSUME OneRequest PROVE Spec => NeverRemoved
<1>1. TypeOK /\ SameRequestInv /\ [Next]_vars
        => [container.status # "none" => container'.status # "none"]_vars
  BY ContainerKept DEF SameRequestInv, SameRequestBy, OneRequest
<1>2. QED
  BY <1>1, SameRequestHolds, TypesAndDirs, PTL DEF Spec, NeverRemoved

-----------------------------------------------------------------------------
\* The contest of creates

\* There is a directory in the container exactly when there is a container, and
\* every create has one to ask for.
ContentKnown ==
    /\ IF container.status = "none" THEN container.dir = NoDir ELSE container.dir \in Dirs
    /\ \A p \in Procs : job[p].cmd = "create" => job[p].dir \in Dirs

\* Where there is no container after a step, it was gone before or is removed.
LEMMA ContainerAbsent ==
    ASSUME TypeOK, [Next]_vars, container'.status = "none"
    PROVE  container' = container \/ container' = NoContainer
<1> USE DEF TypeOK, Containers, world
<1>1. ASSUME NEW p \in Procs, Step(p)
      PROVE  container' = container \/ container' = NoContainer
  <2>1. CASE Remove(p) \/ StartContainer(p)
    BY <1>1, <2>1 DEF Remove, StartContainer
  <2>2. CASE ~(Remove(p) \/ StartContainer(p))
    BY <1>1, <2>2
    DEF Step, Begin, GetState, CompareDir, OldImage, NewImage, Prepare, BuildImage,
        Cleanup, MakeMetadataDir, WriteMetadata, PostCreationScripts, CopyCredentials,
        BuildEnvVars, EnsureContainerRunning, Exec, LeaveSession, Crash
  <2>3. QED
    BY <2>1, <2>2
<1>2. CASE World
  BY <1>2 DEF World, ContainerExits, ContainerRestarts, Prune, RecipeChanges
<1>3. CASE UNCHANGED vars
  BY <1>3 DEF vars
<1>4. QED
  BY <1>1, <1>2, <1>3 DEF Next

\* A step of a process that has a command under way ends the command, or keeps
\* what it was asked and its result.
LEMMA GoesOnOrEnds ==
    ASSUME TypeOK, NEW p \in Procs, Step(p), ~Begin(p)
    PROVE  \/ \E r : Finish(p, r)
           \/ /\ job'[p].cmd = job[p].cmd /\ job'[p].dir = job[p].dir
              /\ result' = result
<1> USE DEF TypeOK, Jobs, world, Goto, FailsOn
<1>1. CASE GetState(p) \/ CompareDir(p) \/ OldImage(p) \/ NewImage(p)
  BY <1>1 DEF GetState, CompareDir, OldImage, NewImage
<1>2. CASE Prepare(p) \/ BuildImage(p) \/ Remove(p) \/ Cleanup(p) \/ StartContainer(p)
  BY <1>2 DEF Prepare, BuildImage, Remove, Cleanup, StartContainer
<1>3. CASE \/ MakeMetadataDir(p) \/ WriteMetadata(p) \/ PostCreationScripts(p)
           \/ CopyCredentials(p) \/ BuildEnvVars(p) \/ EnsureContainerRunning(p)
           \/ Exec(p) \/ LeaveSession(p) \/ Crash(p)
  BY <1>3 DEF MakeMetadataDir, WriteMetadata, PostCreationScripts, CopyCredentials,
     BuildEnvVars, EnsureContainerRunning, Exec, LeaveSession, Crash
<1>4. QED
  BY <1>1, <1>2, <1>3 DEF Step

\* A step gives a result to nobody but the process that takes it.
LEMMA ResultKept ==
    ASSUME TypeOK, NEW p \in Procs, Step(p), NEW q \in Procs, q # p
    PROVE  result'[q] = result[q]
<1>1. CASE Begin(p)
  BY <1>1 DEF Begin, TypeOK
<1>2. CASE ~Begin(p)
  BY <1>2, GoesOnOrEnds DEF Finish, TypeOK
<1>3. QED
  BY <1>1, <1>2

\* ContentKnown is kept.
LEMMA ContentStep ==
    ASSUME "prune" \notin Faults, TypeOK, DirKnown, Undisturbed, ContentKnown,
           [Next]_vars
    PROVE  ContentKnown'
<1>1. IF container'.status = "none" THEN container'.dir = NoDir ELSE container'.dir \in Dirs
  <2>1. CASE container'.status = "none"
    BY <2>1, ContainerAbsent DEF ContentKnown, NoContainer
  <2>2. CASE container.status = "none" /\ container'.status # "none"
    BY <2>2, ContainerAppears DEF DirKnown, DirKnownBy
  <2>3. CASE container.status # "none" /\ container'.status # "none"
    BY <2>3, ContainerKept DEF ContentKnown, Undisturbed
  <2>4. QED
    BY <2>1, <2>2, <2>3
<1>2. ASSUME NEW q \in Procs, job'[q].cmd = "create" PROVE job'[q].dir \in Dirs
  <2>1. CASE job'[q] = job[q]
    BY <1>2, <2>1 DEF ContentKnown
  <2>2. CASE Step(q)
    <3>1. CASE Begin(q)
      BY <1>2, <3>1, BeginSets
    <3>2. CASE ~Begin(q)
      BY <1>2, <2>2, <3>2, GoesOnOrEnds DEF ContentKnown, Finish, NoJob, TypeOK
    <3>3. QED
      BY <3>1, <3>2
  <2>3. QED
    BY <2>1, <2>2, OthersKept, WorldKeeps DEF Next, vars
<1>3. QED
  BY <1>1, <1>2 DEF ContentKnown

\* What the process that takes a step does in the contest.
LEMMA ContestUser ==
    ASSUME TypeOK, DirKnown, PlanKnown, OwnerInv, ContentKnown,
           NEW p \in Procs, Step(p)
    PROVE  \/ Contest!Ask(p) \/ Contest!Succeed(p) \/ Contest!GiveUp(p) \/ Contest!Other(p)
           \/ UNCHANGED <<Wanted, [q \in Procs |-> result[q] = "ok"]>>
<1> DEFINE wanted == IF job'[p].cmd = "create" THEN job'[p].dir ELSE NoDir
           ok == result'[p] = "ok"
<1>1. /\ Wanted' = [Wanted EXCEPT ![p] = wanted]
      /\ [q \in Procs |-> result[q] = "ok"]'
            = [[q \in Procs |-> result[q] = "ok"] EXCEPT ![p] = ok]
  BY OthersKept, ResultKept DEF Wanted
<1>2. Wanted[p] = IF job[p].cmd = "create" THEN job[p].dir ELSE NoDir
  BY DEF Wanted
<1>3. CASE Begin(p)
  <2>1. Wanted[p] = NoDir
    BY <1>2, <1>3 DEF Begin, PlanKnown, PlanKnownBy
  <2>2. ok = FALSE
    BY <1>3 DEF Begin, TypeOK
  <2>3. wanted \in Dirs \/ wanted = NoDir
    BY <1>3, BeginSets
  <2> HIDE DEF wanted, ok
  <2>4. CASE wanted \in Dirs
    BY <1>1, <2>1, <2>2, <2>4 DEF Contest!Ask
  <2>5. CASE wanted = NoDir
    BY <1>1, <2>1, <2>2, <2>5 DEF Contest!Other, Wanted
  <2>6. QED
    BY <2>3, <2>4, <2>5
<1>4. ASSUME NEW r, Finish(p, r) PROVE Contest!Succeed(p) \/ Contest!GiveUp(p) \/ Contest!Other(p)
  <2>1. wanted = NoDir /\ pc'[p] = "idle" /\ ok = (r = "ok")
    BY <1>4, ConstantsAssumption DEF Finish, NoJob, TypeOK
  <2> HIDE DEF wanted, ok
  <2>2. CASE job[p].cmd # "create"
    <3>1. Wanted[p] = NoDir
      BY <1>2, <2>2
    <3>2. UNCHANGED Wanted
      BY <1>1, <2>1, <3>1 DEF Wanted
    <3>3. ok \in BOOLEAN
      BY <2>1
    <3>4. QED
      BY <1>1, <3>1, <3>2, <3>3 DEF Contest!Other
  <2>3. CASE job[p].cmd = "create" /\ r # "ok"
    <3>1. Wanted[p] \in Dirs /\ ok = FALSE
      BY <1>2, <2>1, <2>3 DEF ContentKnown
    <3>2. QED
      BY <1>1, <2>1, <3>1 DEF Contest!GiveUp
  <2>4. CASE job[p].cmd = "create" /\ r = "ok"
    <3>1. pc[p] # "idle"
      BY <2>4 DEF PlanKnown, PlanKnownBy
    <3>2. result'[p] = "ok"
      BY <1>4, <2>4 DEF Finish, TypeOK
    <3>3. pc[p] = "scripts"
      BY <2>1, <2>4, <3>1, <3>2, CreateEnds DEF Next
    <3>4. job[p].dir \in Dirs /\ container.dir = job[p].dir /\ meta = job[p].dir
      BY <2>4, <3>3 DEF OwnerInv, OwnerBy, Past, ContentKnown
    <3>5. Wanted[p] = job[p].dir /\ Readable = job[p].dir /\ ok = TRUE
      BY <1>2, <2>1, <2>4, <3>4 DEF Readable
    <3>6. QED
      BY <1>1, <2>1, <3>4, <3>5 DEF Contest!Succeed
  <2>5. QED
    BY <2>2, <2>3, <2>4
<1>5. CASE /\ job'[p].cmd = job[p].cmd /\ job'[p].dir = job[p].dir
           /\ result' = result
  <2>1. wanted = Wanted[p]
    BY <1>2, <1>5
  <2> HIDE DEF wanted
  <2>2. UNCHANGED Wanted
    BY <1>1, <2>1 DEF Wanted
  <2>3. QED
    BY <1>5, <2>2
<1>6. QED
  BY <1>3, <1>4, <1>5, GoesOnOrEnds

\* Every step is one of the contest.
LEMMA ContestStep ==
    ASSUME "prune" \notin Faults, TypeOK, DirKnown, PlanKnown, OwnerInv, Undisturbed,
           ContentKnown, [Next]_vars
    PROVE  Contest!Next
<1>1. Contest!Make \/ UNCHANGED container.dir
  <2>1. CASE container.status = "none"
    BY <2>1, ContentStep DEF ContentKnown, Contest!Make
  <2>2. CASE container.status # "none"
    BY <2>2, ContainerKept DEF Undisturbed
  <2>3. QED
    BY <2>1, <2>2
<1>2. Contest!Publish \/ Contest!Spoil \/ UNCHANGED Readable
  <2>1. CASE meta' = meta
    BY <2>1 DEF Readable
  <2>2. CASE meta' \in {"absent", "unreadable"}
    BY <2>2, DirsAreNotMarks DEF Readable, Contest!Spoil
  <2>3. ASSUME NEW p \in Procs, pc[p] = "write", meta' = job[p].dir
        PROVE  Contest!Publish
    BY <2>3 DEF OwnerInv, OwnerBy, Past, DirKnown, DirKnownBy, Readable, Contest!Publish
  <2>4. QED
    BY <2>1, <2>2, <2>3, MetaWriters
<1>3. \/ \E u \in Procs : Contest!Ask(u) \/ Contest!Succeed(u) \/ Contest!GiveUp(u)
                        \/ Contest!Other(u)
      \/ UNCHANGED <<Wanted, [q \in Procs |-> result[q] = "ok"]>>
  <2>1. CASE \E p \in Procs : Step(p)
    BY <2>1, ContestUser
  <2>2. CASE World \/ UNCHANGED vars
    BY <2>2
    DEF World, ContainerExits, ContainerRestarts, Prune, RecipeChanges, vars, Wanted
  <2>3. QED
    BY <2>1, <2>2 DEF Next
<1>4. QED
  BY <1>1, <1>2, <1>3 DEF Contest!Next

\* As long as nobody is about to remove the container, any number of commands of one
\* name, failing or killed anywhere, keep the promise of CreateContest.
THEOREM ContestUndisturbed ==
    ASSUME "prune" \notin Faults PROVE Spec /\ []Undisturbed => ContestKept
<1>1. Init => Contest!Init /\ ContentKnown
  <2> SUFFICES ASSUME Init PROVE Contest!Init /\ ContentKnown
    OBVIOUS
  <2>1. \A p \in Procs : job[p].cmd = "none" /\ ~(result[p] = "ok")
    BY DEF Init, NoJob
  <2>2. Wanted = Contest!Nothing
    BY <2>1 DEF Wanted, Contest!Nothing
  <2>3. [p \in Procs |-> result[p] = "ok"] = [u \in Procs |-> FALSE]
    BY <2>1
  <2>4. container.dir = NoDir /\ Readable = NoDir
    BY DirsAreNotMarks DEF Init, NoContainer, Readable
  <2>5. ContentKnown
    BY <2>1 DEF Init, NoContainer, ContentKnown
  <2>6. QED
    BY <2>2, <2>3, <2>4, <2>5 DEF Contest!Init
<1>2. TypeOK /\ DirKnown /\ PlanKnown /\ OwnerInv /\ Undisturbed /\ ContentKnown
        /\ [Next]_vars
      => ContentKnown' /\ [Contest!Next]_(Contest!vars)
  BY ContentStep, ContestStep
<1>3. Undisturbed => NoOverlap
  BY DEF Undisturbed, NoOverlap
<1>4. QED
  BY <1>1, <1>2, <1>3, TypesAndDirs, PlansKnown, OwnerHolds, PTL
  DEF Spec, ContestKept, Contest!Spec

\* They do where nothing removes containers.
THEOREM KeepsContest == ASSUME OnlyCreates PROVE Spec => ContestKept
<1>1. "prune" \notin Faults
  BY DEF OnlyCreates
<1>2. QED
  BY <1>1, UndisturbedThen, ContestUndisturbed, PTL

\* They do as well where create, run, run --create and shell all ask for the same
\* directory and image: then the record is true whenever it can be read, and a
\* create that reports success is listed, although run --create could remove.
THEOREM SameRequestsAgree ==
    ASSUME OneRequest
    PROVE  Spec => []MetadataMatches /\ CreateIsListed /\ ContestKept
<1>1. "prune" \notin Faults
  BY DEF OneRequest
<1>2. SameRequestInv => Undisturbed
  BY DEF SameRequestInv, SameRequestBy, Undisturbed
<1>3. QED
  BY <1>1, <1>2, SameRequestHolds, MatchesUndisturbed, ContestUndisturbed, PTL

\* What the contest promises implies that a record that can be read is true.
THEOREM RecordIsTrue == ContestKept => []Contest!RecordTrue
<1>1. Contest!Init => Contest!RecordTrue
  BY ConstantsAssumption DEF Contest!Init, Contest!RecordTrue
<1>2. Contest!RecordTrue /\ [Contest!Next]_(Contest!vars) => Contest!RecordTrue'
  BY ConstantsAssumption
  DEF Contest!RecordTrue, Contest!Next, Contest!Make, Contest!Publish, Contest!Spoil,
      Contest!vars
<1>3. QED
  BY <1>1, <1>2, PTL DEF ContestKept, Contest!Spec

-----------------------------------------------------------------------------
\* One command at a time

\* There is a single process, docker inspect and the disk do not fail, and the
\* process is not killed.  Containers exit, restart and are pruned all the same.
Serial ==
    /\ \A p, q \in Procs : p = q
    /\ Faults \cap {"inspect", "disk", "crash"} = {}

\* Where a command on its own stands: what it has found out about a container that
\* is still there is true of it, and the record is that of the container.
SerialBy(p) ==
    /\ pc[p] = "cleanup" => container.status = "none"
    /\ pc[p] = "write" => meta # "absent"
    /\ Live /\ pc[p] \notin {"mkdir", "write"} => meta = container.dir
    /\ Live /\ pc[p] \in {"mkdir", "write"} => container.dir = job[p].dir
    /\ Live /\ job[p].plan = "rebuild" => container.dir = job[p].dir
    /\ Live /\ job[p].plan = "rebuild" /\ pc[p] \in {"build", "newImage"}
          => job[p].old = container.image
    /\ pc[p] \in {"prepare", "build"} => job[p].plan \in {"create", "replace", "rebuild"}
    /\ pc[p] \in {"oldImage", "newImage"} => job[p].plan = "rebuild"
    /\ Live /\ pc[p] = "remove" /\ job[p].plan = "replace" => container.dir # job[p].dir
    /\ Live /\ pc[p] = "remove" /\ job[p].plan = "rebuild" => container.image # tag
    /\ pc[p] \in {"mkdir", "write", "scripts", "credentials", "env", "checkRunning",
                 "exec", "inside"}
       /\ job[p].cmd = "run --create" /\ Live
          => container.dir = job[p].dir /\ container.image = tag

SerialInv == \A p \in Procs : SerialBy(p)

\* What a command's own step does to SerialBy.
LEMMA SerialStep ==
    ASSUME TypeOK, DirKnown, Serial, NEW p \in Procs, SerialBy(p), Step(p)
    PROVE  SerialBy(p)'
<1> USE DEF TypeOK, world, Goto, FailsOn, SerialBy, Live, Jobs, Plans, Containers
<1>0. DirKnownBy(p) /\ Faults \cap {"inspect", "disk", "crash"} = {}
  BY DEF DirKnown, Serial
<1>1. ASSUME NEW r, Finish(p, r), UNCHANGED <<container, meta, tag>>,
             pc[p] \notin {"mkdir", "write"}
      PROVE  SerialBy(p)'
  BY <1>1 DEF Finish, NoJob
<1>2. CASE Begin(p)
  <2>1. /\ pc[p] = "idle" /\ UNCHANGED <<container, meta, tag>>
        /\ pc'[p] \in {"prepare", "getState", "remove", "credentials"}
        /\ job'[p].plan \notin {"replace", "rebuild"}
        /\ pc'[p] = "prepare" => job'[p].plan = "create"
        /\ pc'[p] = "credentials" => job'[p].cmd # "run --create"
    <3>1. PICK cmd \in Commands, dir \in Dirs \cup {NoDir}, copy \in BOOLEAN :
             /\ job' = [job EXCEPT ![p] =
                  [cmd |-> cmd, dir |-> dir, copy |-> copy, old |-> NoImage,
                   plan |-> IF cmd \in {"create", "destroy"} THEN cmd ELSE "use"]]
             /\ pc' = [pc EXCEPT ![p] = FirstLabel(cmd)]
      BY ONLY <1>2 DEF Begin, world
    <3>2. job'[p].cmd = cmd
          /\ job'[p].plan = IF cmd \in {"create", "destroy"} THEN cmd ELSE "use"
      BY <3>1
    <3>3. pc'[p] = FirstLabel(cmd) /\ cmd \in AllCommands
      BY <3>1, ConstantsAssumption
    <3>4. QED
      BY <1>2, <3>2, <3>3 DEF Begin, FirstLabel, AllCommands
  <2>2. QED
    BY ONLY <2>1, SerialBy(p) DEF SerialBy, Live
<1>3. CASE GetState(p)
  <2>1. /\ pc[p] = "getState" /\ pc'[p] \in {"prepare", "compareDir"}
        /\ UNCHANGED <<container, meta, tag>>
        /\ job'[p].dir = job[p].dir
        /\ job'[p].plan = "create" \/ job'[p].plan = job[p].plan
        /\ pc'[p] = "prepare" => job'[p].plan = "create"
    BY <1>3 DEF GetState
  <2>2. QED
    BY ONLY <2>1, SerialBy(p) DEF SerialBy, Live
<1>4. CASE CompareDir(p)
  <2>1. /\ pc[p] = "compareDir" /\ UNCHANGED <<container, meta, tag>>
        /\ job'[p].dir = job[p].dir
    BY <1>4 DEF CompareDir
  <2>2. CASE WorkDirectoryChanged(p)
    <3>1. pc'[p] = "remove" /\ job'[p].plan = "replace"
      BY <1>4, <2>2 DEF CompareDir
    <3>2. meta # job[p].dir
      BY <2>2 DEF WorkDirectoryChanged
    <3>3. QED
      BY ONLY <2>1, <3>1, <3>2, SerialBy(p) DEF SerialBy, Live
  <2>3. CASE ~WorkDirectoryChanged(p)
    <3>1. pc'[p] = "prepare" /\ job'[p].plan = "rebuild"
      BY <1>4, <2>3 DEF CompareDir
    <3>2. Live => container.dir = job[p].dir
      BY <1>4, <2>3, DirsAreNotMarks, ConstantsAssumption
      DEF CompareDir, WorkDirectoryChanged
    <3>3. QED
      BY ONLY <2>1, <3>1, <3>2, SerialBy(p) DEF SerialBy, Live
  <2>4. QED
    BY <2>2, <2>3
<1>5. CASE OldImage(p)
  <2>1. job' = [job EXCEPT ![p].old = container.image]
    BY <1>0, <1>5 DEF OldImage, ImagesSeen
  <2>2. QED
    BY <1>5, <2>1 DEF OldImage
<1>6. CASE NewImage(p)
  <2>1. Goto(p, IF job[p].old = tag THEN "credentials" ELSE "remove")
    BY <1>0, <1>6 DEF NewImage, ImagesSeen
  <2>2. QED
    BY <1>6, <2>1 DEF NewImage
<1>7. CASE Prepare(p)
  <2>1. pc[p] = "prepare" /\ UNCHANGED <<container, meta, tag>>
    BY <1>7 DEF Prepare
  <2>2. CASE \E r : Finish(p, r)
    BY <1>1, <2>1, <2>2
  <2>3. CASE pc' = [pc EXCEPT ![p] = IF Creating(p) THEN "build" ELSE "oldImage"]
             /\ job' = job
    <3>1. /\ pc'[p] \in {"build", "oldImage"}
          /\ pc'[p] = "build" => job[p].plan \in {"create", "replace"}
          /\ pc'[p] = "oldImage" => job[p].plan = "rebuild"
      BY <2>1, <2>3 DEF Creating
    <3>2. QED
      BY ONLY <2>1, <2>3, <3>1, SerialBy(p) DEF SerialBy, Live
  <2>4. QED
    BY <1>7, <2>2, <2>3 DEF Prepare
<1>8. CASE BuildImage(p)
  <2>1. pc[p] = "build" /\ UNCHANGED <<container, meta>>
    BY <1>8 DEF BuildImage
  <2>2. CASE FailsOn("docker", p) /\ UNCHANGED tag
    BY <1>1, <2>1, <2>2
  <2>3. CASE Goto(p, IF Creating(p) THEN "start" ELSE "newImage") /\ UNCHANGED job
    <3>1. /\ pc'[p] \in {"start", "newImage"} /\ job'[p] = job[p]
          /\ pc'[p] = "newImage" => job[p].plan \notin {"create", "replace"}
      BY <2>3 DEF Creating
    <3>2. QED
      BY ONLY <2>1, <3>1, SerialBy(p) DEF SerialBy, Live
  <2>4. QED
    BY <1>8, <2>2, <2>3 DEF BuildImage
<1>9. CASE Remove(p)
  <2>1. CASE FailsOn("docker", p) /\ UNCHANGED container
    BY <1>1, <1>9, <2>1 DEF Remove
  <2>2. CASE container' = NoContainer /\ pc' = CutSessions([pc EXCEPT ![p] = "cleanup"])
    BY <1>9, <2>2 DEF Remove, NoContainer, CutSessions
  <2>3. QED
    BY <1>9, <2>1, <2>2 DEF Remove
<1>10. CASE Cleanup(p)
  BY <1>0, <1>10 DEF Cleanup, Finish, NoJob
<1>11. CASE StartContainer(p)
  <2>1. CASE Finish(p, "nameInUse") /\ UNCHANGED container
    BY <1>1, <1>11, <2>1 DEF StartContainer
  <2>2. CASE /\ container' = [status |-> "running", dir |-> job[p].dir, image |-> tag]
             /\ Goto(p, "mkdir") /\ UNCHANGED job
    BY <1>11, <2>2 DEF StartContainer
  <2>3. CASE /\ container' \in {container,
                    [status |-> "created", dir |-> job[p].dir, image |-> tag]}
             /\ Finish(p, "failed")
    BY <1>11, <2>3 DEF StartContainer, Finish, NoJob
  <2>4. QED
    BY <1>11, <2>1, <2>2, <2>3 DEF StartContainer
<1>12. CASE MakeMetadataDir(p)
  BY <1>0, <1>12 DEF MakeMetadataDir
<1>13. CASE WriteMetadata(p)
  BY <1>0, <1>13 DEF WriteMetadata
<1>14. CASE PostCreationScripts(p) \/ CopyCredentials(p)
  BY <1>1, <1>14 DEF PostCreationScripts, CopyCredentials
<1>15. CASE BuildEnvVars(p) \/ EnsureContainerRunning(p) \/ Exec(p)
  BY <1>1, <1>15 DEF BuildEnvVars, EnsureContainerRunning, Exec
<1>16. CASE LeaveSession(p)
  BY <1>1, <1>16 DEF LeaveSession
<1>17. ~Crash(p)
  BY <1>0 DEF Crash
<1>18. QED
  BY <1>2, <1>3, <1>4, <1>5, <1>6, <1>7, <1>8, <1>9, <1>10, <1>11, <1>12, <1>13,
     <1>14, <1>15, <1>16, <1>17 DEF Step

\* Init and every step keep SerialInv.
LEMMA SerialHolds == ASSUME Serial PROVE Spec => []SerialInv
<1>1. Init => SerialInv
  BY DEF Init, SerialInv, SerialBy, Live, NoContainer, NoJob
<1>2. ASSUME TypeOK, DirKnown, SerialInv, [Next]_vars
      PROVE  SerialInv'
  <2> SUFFICES ASSUME NEW p \in Procs PROVE SerialBy(p)'
    BY DEF SerialInv
  <2>1. SerialBy(p) /\ \A q \in Procs : q = p
    BY <1>2 DEF SerialInv, Serial
  <2>2. CASE \E q \in Procs : Step(q)
    BY <1>2, <2>1, <2>2, SerialStep
  <2>3. CASE UNCHANGED <<meta, tag, job>> /\ (container' = NoContainer \/
             /\ container.status \in {"running", "exited"}
             /\ container' \in {[container EXCEPT !.status = s] :
                                   s \in {"running", "exited"}})
             /\ (pc' = pc \/ pc' = CutSessions(pc))
    <3>1. pc'[p] = pc[p] \/ pc'[p] = "cut"
      BY <2>3 DEF CutSessions
    <3>2. /\ Live' => Live
          /\ Live' => container'.dir = container.dir /\ container'.image = container.image
      BY <1>2, <2>3 DEF Live, NoContainer, TypeOK, Containers
    <3>3. pc[p] = "cleanup" => container'.status = "none"
      BY <2>1, <2>3 DEF SerialBy, NoContainer
    <3>4. pc'[p] = "cut" => pc[p] \in {"inside", "cut"}
      BY <1>2, <2>3 DEF CutSessions, TypeOK
    <3>5. UNCHANGED <<meta, tag, job>>
      BY <2>3
    <3>6. QED
      BY ONLY <2>1, <3>1, <3>2, <3>3, <3>4, <3>5 DEF SerialBy, Live
  <2>4. CASE UNCHANGED <<container, meta, tag, pc, job>>
    BY <2>1, <2>4 DEF SerialBy, Live
  <2>5. CASE World
    <3>1. CASE ContainerExits \/ ContainerRestarts \/ Prune
      BY <2>3, <3>1 DEF ContainerExits, ContainerRestarts, Prune
    <3>2. QED
      BY <2>4, <2>5, <3>1 DEF World, RecipeChanges
  <2>6. QED
    BY <1>2, <2>2, <2>4, <2>5 DEF Next, vars
<1>3. QED
  BY <1>1, <1>2, TypesAndDirs, PTL DEF Spec

\* One command at a time, a run --create is never let into a container that has
\* another directory mounted or runs another image than the one just tagged.
THEOREM SeesItsRequest == ASSUME Serial PROVE Spec => []RunSeesItsRequest
<1>1. SerialInv => RunSeesItsRequest
  BY DEF SerialInv, SerialBy, Live, RunSeesItsRequest
<1>2. QED
  BY <1>1, SerialHolds, PTL

\* One command at a time, the container run --create removes is outdated: its
\* directory is not the requested one or its image is not the one just built.
THEOREM OutdatedRemoved == ASSUME Serial PROVE Spec => OnlyOutdatedRemoved
<1>1. SerialInv => [\A p \in Procs :
          /\ pc[p] = "remove" /\ pc'[p] = "cleanup"
          /\ job[p].plan \in {"replace", "rebuild"}
          /\ container.status = "running"
          => container.dir # job[p].dir \/ container.image # tag]_vars
  BY DEF SerialInv, SerialBy, Live
<1>2. QED
  BY <1>1, SerialHolds, PTL DEF OnlyOutdatedRemoved

\* One command at a time, a container that is running or stopped has, between the
\* commands, a record, and that record names the directory it has mounted: what
\* status prints of it is true.
THEOREM StatusIsTrue == ASSUME Serial, Procs # {} PROVE Spec => []LiveIsListed
<1>1. SerialInv => LiveIsListed
  BY DEF SerialInv, SerialBy, Live, LiveIsListed
<1>2. QED
  BY <1>1, SerialHolds, PTL

=============================================================================
