------------------------------ MODULE VmEnvProofs ------------------------------
(***************************************************************************)
(* What holds of VmEnv for any number of processes and branches.           *)
(***************************************************************************)
EXTENDS VmEnv, TLAPS

\* There are seven stages, and the n-th is what Done gains at n.
LEMMA StageFacts ==
    /\ Len(Stages) = 7
    /\ Done(0) = {}
    /\ \A n \in 1..7 : Stages[n] \in Done(7) /\ Done(n) = Done(n - 1) \cup {Stages[n]}
<1>1. Len(Stages) = 7
  BY DEF Stages
<1>2. Done(0) = {}
  BY DEF Done
<1>3. ASSUME NEW n \in 1..7 PROVE Stages[n] \in Done(7)
  BY DEF Done
<1>4. ASSUME NEW n \in 1..7 PROVE Done(n) = Done(n - 1) \cup {Stages[n]}
  <2>1. 1..n = (1..(n - 1)) \cup {n}
    OBVIOUS
  <2>2. QED
    BY <2>1 DEF Done
<1>5. QED
  BY <1>1, <1>2, <1>3, <1>4

\* Only the first stage is the git clone, and the metadata comes after the third.
LEMMA StageNames ==
    /\ Stages[1] = "repo"
    /\ \A n \in 2..7 : Stages[n] # "repo"
<1>1. \A n \in 2..7 : n = 2 \/ n = 3 \/ n = 4 \/ n = 5 \/ n = 6 \/ n = 7
  OBVIOUS
<1>2. QED
  BY <1>1 DEF Stages

-----------------------------------------------------------------------------
\* Types

\* Why TypeOK holds: the next stage of a process goes with the call it is at, and
\* a process that is creating has read the branch before it uses it.
StageKnownBy(p) ==
    /\ pc[p] \in {"resolve", "exists", "create", "push"} => job[p].stage = 1
    /\ pc[p] = "getState" => job[p].stage = 0
    /\ pc[p] = "boot" => job[p].stage \in {0, 1}
    /\ pc[p] = "setup" => job[p].stage \in 1..Len(Stages)
    /\ pc[p] \in {"mkdir", "write"} => job[p].stage = RecordAfter + 1
    /\ pc[p] = "scripts" => job[p].stage = Len(Stages) + 1
    /\ Creating(p) /\ pc[p] # "resolve" => job[p].branch \in Branches

StageKnown == \A p \in Procs : StageKnownBy(p)

\* A command that ends leaves its process idle, without a job.
LEMMA FinishKeeps ==
    ASSUME TypeOK, StageKnown, NEW p \in Procs, NEW r \in Results, Finish(p, r)
    PROVE  /\ pc' \in [Procs -> Labels] /\ job' \in [Procs -> Jobs]
           /\ result' \in [Procs -> Results]
           /\ StageKnown'
<1>1. NoJob \in Jobs
  BY StageFacts DEF NoJob, Jobs
<1>2. pc' \in [Procs -> Labels] /\ job' \in [Procs -> Jobs] /\ result' \in [Procs -> Results]
  BY <1>1 DEF Finish, TypeOK, Labels
<1>3. ASSUME NEW q \in Procs PROVE StageKnownBy(q)'
  BY <1>3 DEF Finish, TypeOK, StageKnown, StageKnownBy, Creating, NoJob
<1>4. QED
  BY <1>2, <1>3 DEF StageKnown

\* So does a command that a fault ends.
LEMMA FailsOnKeeps ==
    ASSUME TypeOK, StageKnown, NEW p \in Procs, NEW kind, FailsOn(kind, p)
    PROVE  /\ pc' \in [Procs -> Labels] /\ job' \in [Procs -> Jobs]
           /\ result' \in [Procs -> Results]
           /\ StageKnown'
<1>1. "failed" \in Results /\ Finish(p, "failed")
  BY DEF FailsOn, Results
<1>2. QED
  BY <1>1, FinishKeeps

\* A process that goes on with a job that fits its next call keeps all in place.
LEMMA GoesOn ==
    ASSUME TypeOK, StageKnown, NEW p \in Procs, NEW l \in Labels, NEW j \in Jobs,
           Goto(p, l), job' = [job EXCEPT ![p] = j],
           l # "getState",
           l \in {"resolve", "exists", "create", "push"} => j.stage = 1,
           l = "boot" => j.stage \in {0, 1},
           l = "setup" => j.stage \in 1..Len(Stages),
           l \in {"mkdir", "write"} => j.stage = RecordAfter + 1,
           l = "scripts" => j.stage = Len(Stages) + 1,
           j.stage > 0 /\ l # "resolve" => j.branch \in Branches
    PROVE  /\ pc' \in [Procs -> Labels] /\ job' \in [Procs -> Jobs]
           /\ result' \in [Procs -> Results]
           /\ StageKnown'
<1>1. pc' \in [Procs -> Labels] /\ job' \in [Procs -> Jobs] /\ result' \in [Procs -> Results]
  BY DEF Goto, TypeOK
<1>2. ASSUME NEW q \in Procs PROVE StageKnownBy(q)'
  BY <1>2 DEF Goto, TypeOK, StageKnown, StageKnownBy, Creating
<1>3. QED
  BY <1>1, <1>2 DEF StageKnown

\* The same for a step that leaves the job as it is.
LEMMA GoesOnSame ==
    ASSUME TypeOK, StageKnown, NEW p \in Procs, NEW l \in Labels,
           Goto(p, l), UNCHANGED job,
           l # "getState",
           l \in {"resolve", "exists", "create", "push"} => job[p].stage = 1,
           l = "boot" => job[p].stage \in {0, 1},
           l = "setup" => job[p].stage \in 1..Len(Stages),
           l \in {"mkdir", "write"} => job[p].stage = RecordAfter + 1,
           l = "scripts" => job[p].stage = Len(Stages) + 1,
           pc[p] # "resolve"
    PROVE  /\ pc' \in [Procs -> Labels] /\ job' \in [Procs -> Jobs]
           /\ result' \in [Procs -> Results]
           /\ StageKnown'
<1>1. job' = [job EXCEPT ![p] = job[p]] /\ job[p] \in Jobs
  BY DEF TypeOK
<1>2. job[p].stage > 0 => job[p].branch \in Branches
  BY DEF StageKnown, StageKnownBy, Creating
<1>3. QED
  BY <1>1, <1>2, GoesOn

\* Cutting the sessions short concerns no process that is creating.
LEMMA CutKeeps ==
    ASSUME NEW at \in [Procs -> Labels]
    PROVE  /\ CutSessions(at) \in [Procs -> Labels]
           /\ \A q \in Procs : \/ CutSessions(at)[q] = at[q]
                               \/ at[q] = "inside" /\ CutSessions(at)[q] = "cut"
BY DEF CutSessions, Labels

\* A job with another stage or branch is a job.
LEMMA JobChange ==
    ASSUME NEW j \in Jobs
    PROVE  /\ \A n \in 0..(Len(Stages) + 1) :
                [j EXCEPT !.stage = n] \in Jobs /\ [j EXCEPT !.stage = n].stage = n
                /\ [j EXCEPT !.stage = n].branch = j.branch
           /\ \A b \in Branches :
                [j EXCEPT !.branch = b] \in Jobs /\ [j EXCEPT !.branch = b].stage = j.stage
                /\ [j EXCEPT !.branch = b].branch = b
BY DEF Jobs

\* A process step keeps the types and the stages.
LEMMA StepType ==
    ASSUME TypeOK, StageKnown, NEW p \in Procs, Step(p)
    PROVE  TypeOK' /\ StageKnown'
<1> USE DEF world
<1>0. job[p] \in Jobs /\ vm \in Vms /\ StageKnownBy(p) /\ Len(Stages) = 7 /\ RecordAfter = 3
  BY StageFacts DEF TypeOK, StageKnown, RecordAfter
<1>a. \A n \in 0..8 : n \in 0..(Len(Stages) + 1)
  BY <1>0
<1> DEFINE Kept == /\ pc' \in [Procs -> Labels] /\ job' \in [Procs -> Jobs]
                   /\ result' \in [Procs -> Results]
                   /\ StageKnown'
<1>1. CASE Begin(p)
  <2>1. PICK cmd \in Commands, copy \in BOOLEAN :
          /\ job' = [job EXCEPT ![p] = [cmd |-> cmd, branch |-> NoBranch, copy |-> copy,
                                      stage |-> IF cmd = "create" THEN 1 ELSE 0]]
          /\ pc' = [pc EXCEPT ![p] = FirstLabel(cmd)]
    BY <1>1 DEF Begin
  <2> DEFINE j == [cmd |-> cmd, branch |-> NoBranch, copy |-> copy,
                   stage |-> IF cmd = "create" THEN 1 ELSE 0]
  <2>2. j \in Jobs
    BY <1>0 DEF Jobs
  <2>3. FirstLabel(cmd) \in Labels
    BY DEF FirstLabel, Labels
  <2>4. TypeOK'
    BY <1>1, <2>1, <2>2, <2>3 DEF Begin, TypeOK, Results
  <2>5. ASSUME NEW q \in Procs PROVE StageKnownBy(q)'
    BY <2>1, <2>5 DEF TypeOK, StageKnown, StageKnownBy, Creating, FirstLabel
  <2>6. QED
    BY <2>4, <2>5 DEF StageKnown
<1>2. CASE GetVMState(p)
  <2>1. CASE Goto(p, "credentials") /\ UNCHANGED job
    BY <1>2, <2>1, GoesOnSame DEF GetVMState, TypeOK, Labels
  <2>2. CASE Goto(p, "boot") /\ UNCHANGED job
    BY <1>0, <1>2, <2>2, GoesOnSame DEF GetVMState, TypeOK, Labels, StageKnownBy
  <2>3. CASE Goto(p, "resolve") /\ job' = [job EXCEPT ![p].stage = 1]
    <3>1. [job[p] EXCEPT !.stage = 1] \in Jobs /\ [job[p] EXCEPT !.stage = 1].stage = 1
      BY <1>0 DEF Jobs
    <3>2. Kept
      BY <2>3, <3>1, GoesOn DEF Labels
    <3>3. QED
      BY <1>2, <3>2 DEF GetVMState, TypeOK, StageKnown, StageKnownBy, Creating
  <2>4. QED
    BY <1>2, <2>1, <2>2, <2>3 DEF GetVMState
<1>3. CASE ResolveRepoInfo(p)
  <2>1. CASE FailsOn("host", p)
    BY <1>3, <2>1, FailsOnKeeps DEF ResolveRepoInfo, TypeOK
  <2>2. ASSUME NEW b \in Branches, job' = [job EXCEPT ![p].branch = b], Goto(p, "exists")
        PROVE  Kept
    <3>1. /\ [job[p] EXCEPT !.branch = b] \in Jobs
          /\ [job[p] EXCEPT !.branch = b].branch = b
          /\ [job[p] EXCEPT !.branch = b].stage = 1
      BY <1>0, <1>3, JobChange DEF StageKnownBy, ResolveRepoInfo
    <3>2. QED
      BY <2>2, <3>1, GoesOn DEF Labels
  <2>3. QED
    BY <1>3, <2>1, <2>2 DEF ResolveRepoInfo, TypeOK
<1>4. CASE CheckAbsent(p)
  BY <1>0, <1>4, GoesOnSame, FailsOnKeeps, FinishKeeps
  DEF CheckAbsent, TypeOK, Labels, Results, StageKnownBy
<1>5. CASE CreateInstance(p)
  <2>1. Kept
    BY <1>0, <1>5, GoesOnSame, FailsOnKeeps, FinishKeeps
    DEF CreateInstance, TypeOK, Labels, Results, StageKnownBy
  <2>2. vm' \in Vms
    BY <1>0, <1>5 DEF CreateInstance, Vms, NoVm
  <2>3. QED
    BY <1>5, <2>1, <2>2 DEF CreateInstance, TypeOK
<1>6. CASE StartVM(p)
  <2>1. Kept
    BY <1>0, <1>6, GoesOnSame, FailsOnKeeps, FinishKeeps
    DEF StartVM, TypeOK, Labels, Results, StageKnownBy, Creating, Jobs
  <2>2. vm' \in Vms
    BY <1>0, <1>6 DEF StartVM, Vms
  <2>3. QED
    BY <1>6, <2>1, <2>2 DEF StartVM, TypeOK
<1>7. CASE PushBranch(p)
  BY <1>0, <1>7, GoesOnSame, FailsOnKeeps DEF PushBranch, TypeOK, Labels, StageKnownBy
<1>8. CASE SetUp(p)
  <2> DEFINE n == job[p].stage
  <2>1. n \in 1..7 /\ n + 1 \in 0..8 /\ job[p].branch \in Branches
    BY <1>0, <1>8 DEF SetUp, StageKnownBy, Creating
  <2>2. CASE FailsOn("lima", p) /\ UNCHANGED vm
    BY <1>8, <2>2, FailsOnKeeps DEF SetUp, TypeOK
  <2>3. CASE FailsOn("host", p) /\ UNCHANGED vm
    BY <1>8, <2>3, FailsOnKeeps DEF SetUp, TypeOK
  <2>4. CASE Finish(p, "failed") /\ UNCHANGED vm
    BY <1>8, <2>4, FinishKeeps DEF SetUp, TypeOK, Results
  <2>5. CASE /\ vm' = [vm EXCEPT !.done = @ \cup {Stages[n]},
                                 !.branch = IF Stages[n] = "repo" THEN job[p].branch ELSE @]
             /\ job' = [job EXCEPT ![p].stage = n + 1]
             /\ Goto(p, AfterStage(n))
    <3>1. vm' \in Vms
      BY <1>0, <2>1, <2>5, StageFacts DEF Vms
    <3> DEFINE j == [job[p] EXCEPT !.stage = n + 1]
    <3>2. /\ j \in Jobs /\ j.stage = n + 1 /\ j.branch \in Branches
          /\ job' = [job EXCEPT ![p] = j]
      BY <1>0, <2>1, <2>5 DEF Jobs
    <3>3. /\ AfterStage(n) \in {"mkdir", "scripts", "setup"}
          /\ AfterStage(n) = "mkdir" => n = 3
          /\ AfterStage(n) = "scripts" => n = 7
          /\ AfterStage(n) = "setup" => n # 7
      BY <1>0, <2>1 DEF AfterStage
    <3>4. AfterStage(n) \in Labels
      BY <3>3 DEF Labels
    <3>5. Kept
      <4>1. Goto(p, AfterStage(n))
        BY <2>5
      <4> HIDE DEF j
      <4>2. AfterStage(n) = "setup" => j.stage \in 1..Len(Stages)
        BY <1>0, <2>1, <3>2, <3>3
      <4>3. AfterStage(n) = "mkdir" => j.stage = RecordAfter + 1
        BY <1>0, <2>1, <3>2, <3>3
      <4>4. AfterStage(n) = "scripts" => j.stage = Len(Stages) + 1
        BY <1>0, <2>1, <3>2, <3>3
      <4>5. AfterStage(n) \notin {"getState", "resolve", "exists", "create", "push",
                                 "boot", "write"}
        BY <3>3
      <4> HIDE DEF n
      <4>6. QED
        BY <3>2, <3>4, <4>1, <4>2, <4>3, <4>4, <4>5, GoesOn
    <3>6. QED
      BY <1>8, <3>1, <3>5 DEF SetUp, TypeOK
  <2>6. QED
    BY <1>8, <2>2, <2>3, <2>4, <2>5 DEF SetUp
<1>9. CASE MakeMetadataDir(p)
  BY <1>0, <1>9, GoesOnSame, FailsOnKeeps DEF MakeMetadataDir, TypeOK, Labels, StageKnownBy
<1>10. CASE WriteRepoMetadata(p)
  <2>1. job[p].branch \in Branches /\ job[p].stage = 4
    BY <1>0, <1>10 DEF WriteRepoMetadata, StageKnownBy, Creating
  <2>2. Kept
    BY <1>0, <1>10, <2>1, GoesOnSame, FailsOnKeeps, FinishKeeps
    DEF WriteRepoMetadata, Labels, Results
  <2>3. meta' \in {"absent", "unreadable"} \cup Branches
    BY <1>10, <2>1 DEF WriteRepoMetadata, TypeOK
  <2>4. QED
    BY <1>10, <2>2, <2>3 DEF WriteRepoMetadata, TypeOK
<1>11. CASE RunIsolationScripts(p)
  BY <1>11, GoesOnSame, FailsOnKeeps, FinishKeeps
  DEF RunIsolationScripts, TypeOK, Labels, Results
<1>12. CASE CopyClaudeCredentials(p)
  BY <1>12, GoesOnSame, FailsOnKeeps, FinishKeeps
  DEF CopyClaudeCredentials, TypeOK, Labels, Results
<1>13. CASE BuildVMEnvVars(p)
  BY <1>13, GoesOnSame, FailsOnKeeps DEF BuildVMEnvVars, TypeOK, Labels
<1>14. CASE ExecInVM(p)
  BY <1>14, GoesOnSame, FailsOnKeeps, FinishKeeps DEF ExecInVM, TypeOK, Labels, Results
<1>15. CASE LeaveSession(p)
  BY <1>15, FinishKeeps DEF LeaveSession, TypeOK, Results
<1>16. CASE CheckExists(p)
  BY <1>16, GoesOnSame, FailsOnKeeps, FinishKeeps DEF CheckExists, TypeOK, Labels, Results
<1>17. CASE StopVM(p)
  <2>1. vm' \in Vms
    BY <1>0, <1>17 DEF StopVM, Stopped, Vms
  <2>2. pc' \in [Procs -> Labels] /\ pc[p] = "stop" /\ pc'[p] = "delete"
        /\ \A q \in Procs : q # p =>
              pc'[q] = pc[q] \/ (pc[q] = "inside" /\ pc'[q] = "cut")
    BY <1>17 DEF StopVM, CutSessions, TypeOK, Labels
  <2>3. ASSUME NEW q \in Procs PROVE StageKnownBy(q)'
    BY <1>17, <2>2, <2>3 DEF StopVM, StageKnown, StageKnownBy, Creating
  <2>4. QED
    BY <1>17, <2>1, <2>2, <2>3 DEF StopVM, TypeOK, StageKnown
<1>18. CASE DeleteVM(p)
  <2>1. Kept
    BY <1>18, GoesOnSame, FailsOnKeeps, FinishKeeps DEF DeleteVM, Labels, Results
  <2>2. vm' \in Vms
    BY <1>0, <1>18 DEF DeleteVM, Vms, NoVm
  <2>3. QED
    BY <1>18, <2>1, <2>2 DEF DeleteVM, TypeOK
<1>19. CASE CleanupHostMetadata(p)
  BY <1>19, FailsOnKeeps, FinishKeeps DEF CleanupHostMetadata, HalfRemoved, TypeOK, Results
<1>20. CASE RetryCommand(p)
  BY <1>20, FinishKeeps DEF RetryCommand, TypeOK, Results
<1>21. CASE Crash(p)
  BY <1>21, FinishKeeps DEF Crash, HalfRemoved, TypeOK, Results
<1>22. QED
  BY <1>1, <1>2, <1>3, <1>4, <1>5, <1>6, <1>7, <1>8, <1>9, <1>10, <1>11, <1>12,
     <1>13, <1>14, <1>15, <1>16, <1>17, <1>18, <1>19, <1>20, <1>21
  DEF Step

\* So does what happens outside.
LEMMA WorldType ==
    ASSUME TypeOK, StageKnown, World
    PROVE  TypeOK' /\ StageKnown'
<1>1. vm \in Vms
  BY DEF TypeOK
<1>2. vm' \in Vms
  BY <1>1 DEF World, VmStops, VmStarts, VmLost, Stopped, Vms, NoVm
<1>3. pc' \in [Procs -> Labels]
      /\ \A q \in Procs : pc'[q] = pc[q] \/ (pc[q] = "inside" /\ pc'[q] = "cut")
  BY CutKeeps DEF World, VmStops, VmStarts, VmLost, TypeOK
<1>4. job' = job /\ result' = result /\ meta' = meta
  BY DEF World, VmStops, VmStarts, VmLost
<1>5. ASSUME NEW q \in Procs PROVE StageKnownBy(q)'
  BY <1>3, <1>4, <1>5 DEF StageKnown, StageKnownBy, Creating
<1>6. QED
  BY <1>2, <1>3, <1>4, <1>5 DEF TypeOK, StageKnown

\* Every variable keeps to its domain, and each process is at a call that goes
\* with the stage of the set-up it has reached.
THEOREM TypesAndStages == Spec => [](TypeOK /\ StageKnown)
<1>1. Init => TypeOK /\ StageKnown
  <2>1. NoJob \in Jobs /\ NoVm \in Vms
    BY StageFacts DEF NoJob, Jobs, NoVm, Vms
  <2>2. QED
    BY <2>1 DEF Init, TypeOK, Labels, Results, StageKnown, StageKnownBy, Creating, NoJob
<1>2. TypeOK /\ StageKnown /\ [Next]_vars => TypeOK' /\ StageKnown'
  <2> SUFFICES ASSUME TypeOK, StageKnown, [Next]_vars PROVE TypeOK' /\ StageKnown'
    OBVIOUS
  <2>1. CASE UNCHANGED vars
    BY <2>1 DEF vars, TypeOK, StageKnown, StageKnownBy, Creating
  <2>2. QED
    BY <2>1, StepType, WorldType DEF Next
<1>3. QED
  BY <1>1, <1>2, PTL DEF Spec

\* Every variable keeps to its domain, for any number of processes and branches.
THEOREM VmTypeCorrect == Spec => []TypeOK
BY TypesAndStages, PTL

-----------------------------------------------------------------------------
\* How long a command can take

\* A process step leaves the job and the result of every other process alone, and
\* moves another process only by cutting its session.
LEMMA OthersKept ==
    ASSUME TypeOK, NEW p \in Procs, Step(p), NEW q \in Procs, q # p
    PROVE  /\ job'[q] = job[q] /\ result'[q] = result[q]
           /\ pc'[q] = pc[q] \/ (pc[q] = "inside" /\ pc'[q] = "cut")
<1> USE DEF TypeOK, Goto, Finish, FailsOn
<1>1. CASE StopVM(p)
  BY <1>1 DEF StopVM, CutSessions
<1>2. CASE Begin(p) \/ GetVMState(p) \/ ResolveRepoInfo(p) \/ CheckAbsent(p)
  BY <1>2 DEF Begin, GetVMState, ResolveRepoInfo, CheckAbsent
<1>3. CASE CreateInstance(p) \/ StartVM(p) \/ PushBranch(p) \/ SetUp(p)
  BY <1>3 DEF CreateInstance, StartVM, PushBranch, SetUp
<1>4. CASE MakeMetadataDir(p) \/ WriteRepoMetadata(p) \/ RunIsolationScripts(p)
  BY <1>4 DEF MakeMetadataDir, WriteRepoMetadata, RunIsolationScripts
<1>5. CASE \/ CopyClaudeCredentials(p) \/ BuildVMEnvVars(p) \/ ExecInVM(p)
           \/ LeaveSession(p) \/ RetryCommand(p) \/ Crash(p)
  BY <1>5 DEF CopyClaudeCredentials, BuildVMEnvVars, ExecInVM, LeaveSession,
              RetryCommand, Crash
<1>6. CASE CheckExists(p) \/ DeleteVM(p) \/ CleanupHostMetadata(p)
  BY <1>6 DEF CheckExists, DeleteVM, CleanupHostMetadata
<1>7. QED
  BY <1>1, <1>2, <1>3, <1>4, <1>5, <1>6 DEF Step

\* The world changes no job and no result, and moves a process only by cutting its
\* session.
LEMMA WorldKeeps ==
    ASSUME TypeOK, World, NEW q \in Procs
    PROVE  /\ job'[q] = job[q] /\ result'[q] = result[q]
           /\ pc'[q] = pc[q] \/ (pc[q] = "inside" /\ pc'[q] = "cut")
BY CutKeeps DEF World, VmStops, VmStarts, VmLost, TypeOK

\* What CallsFrom says, label by label.
LEMMA CallsFromIs ==
    ASSUME NEW stage
    PROVE  /\ CallsFrom("idle", stage) = 0
           /\ CallsFrom("cut", stage) = 1 /\ CallsFrom("cleanup", stage) = 1
           /\ CallsFrom("retry", stage) = 1
           /\ CallsFrom("inside", stage) = 2 /\ CallsFrom("delete", stage) = 2
           /\ CallsFrom("exec", stage) = 3 /\ CallsFrom("stop", stage) = 3
           /\ CallsFrom("env", stage) = 4 /\ CallsFrom("recheck", stage) = 4
           /\ CallsFrom("credentials", stage) = 5 /\ CallsFrom("check", stage) = 5
           /\ CallsFrom("scripts", stage) = 6
           /\ CallsFrom("setup", stage) = (IF stage > RecordAfter THEN 14 ELSE 16) - stage
           /\ CallsFrom("write", stage) = 11 /\ CallsFrom("mkdir", stage) = 12
           /\ CallsFrom("push", stage) = 16 /\ CallsFrom("boot", stage) = 17
           /\ CallsFrom("create", stage) = 18 /\ CallsFrom("exists", stage) = 19
           /\ CallsFrom("resolve", stage) = 20 /\ CallsFrom("getState", stage) = 21
BY DEF CallsFrom

\* A command that is under way has at most 21 calls before it and at least one.
LEMMA CallsBounded ==
    ASSUME TypeOK, StageKnown, NEW p \in Procs
    PROVE  /\ CallsLeft(p) \in 0..21
           /\ pc[p] # "idle" => CallsLeft(p) > 0
<1>1. pc[p] \in Labels /\ (pc[p] = "setup" => job[p].stage \in 1..7)
  BY StageFacts DEF TypeOK, StageKnown, StageKnownBy
<1>2. CASE pc[p] = "setup"
  BY <1>1, <1>2, CallsFromIs DEF CallsLeft, RecordAfter
<1>3. CASE pc[p] # "setup"
  BY <1>1, <1>3, CallsFromIs DEF CallsLeft, Labels
<1>4. QED
  BY <1>2, <1>3

\* Every step a command takes, the failing ones included, leaves it fewer calls.
LEMMA OneCallLess ==
    ASSUME TypeOK, StageKnown, NEW p \in Procs, Step(p), pc[p] # "idle"
    PROVE  CallsLeft(p)' < CallsLeft(p)
<1> USE DEF TypeOK, Goto, FailsOn
<1>0. StageKnownBy(p) /\ Len(Stages) = 7 /\ RecordAfter = 3
  BY StageFacts DEF StageKnown, RecordAfter
<1>1. ASSUME NEW r, Finish(p, r) PROVE CallsLeft(p)' < CallsLeft(p)
  <2>1. CallsLeft(p)' = 0
    BY <1>1, CallsFromIs DEF Finish, CallsLeft
  <2>2. QED
    BY <2>1, CallsBounded
<1> USE DEF CallsLeft
<1>2. CASE GetVMState(p)
  BY <1>2, CallsFromIs DEF GetVMState
<1>3. CASE ResolveRepoInfo(p)
  BY <1>1, <1>3, CallsFromIs DEF ResolveRepoInfo
<1>4. CASE CheckAbsent(p) \/ CreateInstance(p)
  BY <1>1, <1>4, CallsFromIs DEF CheckAbsent, CreateInstance
<1>5. CASE StartVM(p)
  BY <1>1, <1>5, CallsFromIs DEF StartVM
<1>6. CASE PushBranch(p)
  BY <1>0, <1>1, <1>6, CallsFromIs DEF PushBranch, StageKnownBy
<1>7. CASE SetUp(p)
  <2> DEFINE n == job[p].stage
  <2>1. n \in 1..7 /\ CallsFrom(pc[p], n) = (IF n > 3 THEN 14 ELSE 16) - n
    BY <1>0, <1>7, CallsFromIs DEF SetUp, StageKnownBy
  <2>2. CASE \E r : Finish(p, r)
    BY <1>1, <2>2
  <2>3. CASE job' = [job EXCEPT ![p].stage = n + 1] /\ Goto(p, AfterStage(n))
    <3>1. job'[p].stage = n + 1 /\ pc'[p] = AfterStage(n)
      BY <2>3 DEF Jobs
    <3>2. AfterStage(n) = IF n = 3 THEN "mkdir" ELSE IF n = 7 THEN "scripts" ELSE "setup"
      BY <1>0 DEF AfterStage
    <3> HIDE DEF n
    <3>3. CallsFrom(pc'[p], n + 1) < CallsFrom(pc[p], n)
      <4>1. CASE n = 3
        BY <2>1, <3>1, <3>2, <4>1, CallsFromIs
      <4>2. CASE n = 7
        BY <2>1, <3>1, <3>2, <4>2, CallsFromIs
      <4>3. CASE n \notin {3, 7}
        <5>1. CallsFrom("setup", n + 1) = (IF n + 1 > 3 THEN 14 ELSE 16) - (n + 1)
          BY <1>0, CallsFromIs
        <5>2. QED
          BY <2>1, <3>1, <3>2, <4>3, <5>1
      <4>4. QED
        BY <4>1, <4>2, <4>3
    <3>4. QED
      BY <3>1, <3>3 DEF n
  <2>4. QED
    BY <1>7, <2>2, <2>3 DEF SetUp
<1>8. CASE MakeMetadataDir(p)
  BY <1>1, <1>8, CallsFromIs DEF MakeMetadataDir
<1>9. CASE WriteRepoMetadata(p)
  <2>1. job[p].stage = 4 /\ CallsFrom("setup", 4) = 10
    BY <1>0, <1>9, CallsFromIs DEF WriteRepoMetadata, StageKnownBy
  <2>2. QED
    BY <1>1, <1>9, <2>1, CallsFromIs DEF WriteRepoMetadata
<1>10. CASE RunIsolationScripts(p)
  BY <1>1, <1>10, CallsFromIs DEF RunIsolationScripts
<1>11. CASE CopyClaudeCredentials(p) \/ BuildVMEnvVars(p) \/ ExecInVM(p)
  BY <1>1, <1>11, CallsFromIs DEF CopyClaudeCredentials, BuildVMEnvVars, ExecInVM
<1>12. CASE CheckExists(p)
  BY <1>1, <1>12, CallsFromIs DEF CheckExists
<1>13. CASE StopVM(p)
  BY <1>13, CallsFromIs DEF StopVM, CutSessions
<1>14. CASE DeleteVM(p) \/ CleanupHostMetadata(p)
  BY <1>1, <1>14, CallsFromIs DEF DeleteVM, CleanupHostMetadata
<1>15. CASE LeaveSession(p) \/ RetryCommand(p) \/ Crash(p)
  BY <1>1, <1>15 DEF LeaveSession, RetryCommand, Crash
<1>16. ~Begin(p)
  BY DEF Begin
<1>17. QED
  BY <1>2, <1>3, <1>4, <1>5, <1>6, <1>7, <1>8, <1>9, <1>10, <1>11, <1>12, <1>13,
     <1>14, <1>15, <1>16 DEF Step

\* A process that somebody else's step moves has been cut off, and has no more to
\* do than before.
LEMMA NoCallMore ==
    ASSUME TypeOK, StageKnown, NEW q \in Procs, job'[q] = job[q],
           pc'[q] = pc[q] \/ (pc[q] = "inside" /\ pc'[q] = "cut")
    PROVE  CallsLeft(q)' <= CallsLeft(q)
<1>1. CASE pc'[q] = pc[q]
  <2>1. CallsLeft(q)' = CallsLeft(q)
    BY <1>1 DEF CallsLeft
  <2>2. QED
    BY <2>1, CallsBounded
<1>2. CASE pc[q] = "inside" /\ pc'[q] = "cut"
  BY <1>2, CallsFromIs DEF CallsLeft
<1>3. QED
  BY <1>1, <1>2

\* Whatever the commands, faults and interleavings, no command goes back to a call
\* or a stage it has been through: once its calls are answered a command is through
\* after at most 21 of them, whatever becomes of the VM.
THEOREM CallsAreFinite ==
    Spec => CallsRunOut /\ [](\A p \in Procs : CallsLeft(p) \in 0..21)
<1> DEFINE Fewer == \A p \in Procs : pc[p] # "idle" =>
              /\ CallsLeft(p)' <= CallsLeft(p)
              /\ Step(p) => CallsLeft(p)' < CallsLeft(p)
           Few == \A p \in Procs : CallsLeft(p) \in 0..21
<1>1. TypeOK /\ StageKnown /\ Few /\ Few' /\ [Next]_vars => [Fewer]_vars
  <2> SUFFICES ASSUME TypeOK, StageKnown, Few, Few', [Next]_vars,
                      NEW p \in Procs, pc[p] # "idle"
               PROVE  /\ CallsLeft(p)' <= CallsLeft(p)
                      /\ Step(p) => CallsLeft(p)' < CallsLeft(p)
    OBVIOUS
  <2>1. Step(p) => CallsLeft(p)' < CallsLeft(p)
    BY OneCallLess
  <2>2. CallsLeft(p) \in 0..21 /\ CallsLeft(p)' \in 0..21
    OBVIOUS
  <2>3. CallsLeft(p)' <= CallsLeft(p)
    <3>1. CASE Step(p)
      BY <2>1, <2>2, <3>1
    <3>2. CASE \E q \in Procs : q # p /\ Step(q)
      BY <3>2, OthersKept, NoCallMore
    <3>3. CASE World
      BY <3>3, WorldKeeps, NoCallMore
    <3>4. CASE UNCHANGED vars
      BY <3>4, NoCallMore DEF vars
    <3>5. QED
      BY <3>1, <3>2, <3>3, <3>4 DEF Next
  <2>4. QED
    BY <2>1, <2>3
<1>2. TypeOK /\ StageKnown => Few
  BY CallsBounded
<1>3. QED
  BY <1>1, <1>2, TypesAndStages, PTL DEF Spec, CallsRunOut

-----------------------------------------------------------------------------

\* No command removes a VM, and none is lost outside isolarium.
NoRemovers == "destroy" \notin Commands /\ Faults \cap {"broken", "deleted"} = {}

Destroying(p) == pc[p] \in {"check", "recheck", "stop", "delete", "cleanup"}

NobodyDestroys == \A p \in Procs : ~Destroying(p)

\* Without a destroy command no process gets to the calls of destroy.
LEMMA DestroyStep ==
    ASSUME NoRemovers, TypeOK, NobodyDestroys, [Next]_vars
    PROVE  NobodyDestroys'
<1> USE DEF NobodyDestroys, Destroying
<1>1. ASSUME NEW q \in Procs, NEW l, pc' = [pc EXCEPT ![q] = l],
             l \notin {"check", "recheck", "stop", "delete", "cleanup"}
      PROVE  NobodyDestroys'
  BY <1>1 DEF TypeOK
<1>2. ASSUME NEW p \in Procs, Step(p) PROVE NobodyDestroys'
  <2>1. CASE Begin(p)
    <3>1. PICK cmd \in Commands : pc' = [pc EXCEPT ![p] = FirstLabel(cmd)]
      BY <2>1 DEF Begin
    <3>2. FirstLabel(cmd) \notin {"check", "recheck", "stop", "delete", "cleanup"}
      BY DEF FirstLabel, NoRemovers
    <3>3. QED
      BY <3>1, <3>2, <1>1
  <2>2. CASE ~Begin(p)
    <3>1. \E l : pc' = [pc EXCEPT ![p] = l]
                 /\ l \notin {"check", "recheck", "stop", "delete", "cleanup"}
      <4>1. AfterStage(job[p].stage) \in {"mkdir", "scripts", "setup"}
        BY DEF AfterStage
      <4>2. ~(CheckExists(p) \/ StopVM(p) \/ DeleteVM(p) \/ CleanupHostMetadata(p))
        BY <1>2 DEF CheckExists, StopVM, DeleteVM, CleanupHostMetadata
      <4>3. QED
        BY <1>2, <2>2, <4>1, <4>2
        DEF Step, Goto, Finish, FailsOn, GetVMState, ResolveRepoInfo, CheckAbsent,
            CreateInstance, StartVM, PushBranch, SetUp, MakeMetadataDir,
            WriteRepoMetadata, RunIsolationScripts, CopyClaudeCredentials,
            BuildVMEnvVars, ExecInVM, LeaveSession, RetryCommand, Crash
    <3>2. QED
      BY <3>1, <1>1
  <2>3. QED
    BY <2>1, <2>2
<1>3. ASSUME World PROVE NobodyDestroys'
  BY <1>3 DEF World, VmStops, VmStarts, VmLost, CutSessions, TypeOK
<1>4. ASSUME UNCHANGED vars PROVE NobodyDestroys'
  BY <1>4 DEF vars
<1>5. QED
  BY <1>2, <1>3, <1>4 DEF Next

-----------------------------------------------------------------------------
\* One at work on the VM

\* What a process that is setting up a VM may count on, whether or not there are
\* commands that destroy: the VM is as far as the process has come itself, and the
\* metadata is once the process has written it.
AtWork(p) ==
    /\ vm.status # "none"
    /\ vm.done = Done(job[p].stage - 1)
    /\ job[p].stage > 1 => vm.branch = job[p].branch
    /\ Recorded(p) => meta = job[p].branch

OneAtWork ==
    /\ \A p, q \in Procs : Making(p) /\ Making(q) => p = q
    /\ \A p \in Procs : Making(p) => AtWork(p)

\* No destroy deletes the VM or its metadata while another command sets a VM up:
\* nothing in the code sees to that, whoever starts the commands has to.
NoOverlap ==
    \A p, q \in Procs : Making(p) => pc[q] \notin {"delete", "cleanup"}

\* A process that is neither making a VM nor deleting one changes nothing in the VM
\* there is and nothing in the metadata; where there is none, it may create one, in
\* which nothing is done yet.
LEMMA Bystander ==
    ASSUME TypeOK, StageKnown, NEW p \in Procs, Step(p), ~Making(p),
           pc[p] \notin {"delete", "cleanup"}
    PROVE  /\ meta' = meta
           /\ vm.status # "none" =>
                 /\ vm'.status # "none" /\ vm'.done = vm.done /\ vm'.branch = vm.branch
                 /\ ~Making(p)'
           /\ Making(p)' => AtWork(p)' /\ ~Recorded(p)'
<1> USE DEF world, Making, Creating
<1>0. vm \in Vms /\ job[p] \in Jobs /\ StageKnownBy(p)
      /\ job[p].stage \in Nat /\ Len(Stages) = 7 /\ RecordAfter = 3
  BY StageFacts DEF TypeOK, StageKnown, Jobs, RecordAfter
<1>1. pc[p] \notin {"push", "setup", "mkdir", "write", "scripts"}
  BY <1>0 DEF StageKnownBy
<1> DEFINE Watches == /\ meta' = meta /\ ~Making(p)'
                      /\ vm.status # "none" =>
                            /\ vm'.status # "none" /\ vm'.done = vm.done
                            /\ vm'.branch = vm.branch
<1>2. CASE Begin(p)
  BY <1>2 DEF Begin, TypeOK, FirstLabel
<1>3. CASE GetVMState(p)
  BY <1>0, <1>3 DEF GetVMState, Goto, TypeOK, StageKnownBy
<1>4. CASE ResolveRepoInfo(p) \/ CheckAbsent(p)
  BY <1>4 DEF ResolveRepoInfo, CheckAbsent, FailsOn, Finish, Goto, TypeOK
<1>5. CASE CreateInstance(p)
  <2>1. pc[p] = "create" /\ job[p].stage = 1 /\ meta' = meta
    BY <1>0, <1>5 DEF CreateInstance, StageKnownBy
  <2>2. CASE \E r : Finish(p, r)
    <3>1. pc'[p] = "idle"
      BY <2>2 DEF Finish, TypeOK
    <3>2. vm.status # "none" => vm' = vm
      BY <1>5 DEF CreateInstance
    <3>3. QED
      BY <2>1, <3>1, <3>2
  <2>3. CASE /\ vm.status = "none" /\ vm' = [NoVm EXCEPT !.status = "stopped"]
             /\ Goto(p, "boot") /\ UNCHANGED job
    BY <1>0, <2>1, <2>3, StageFacts DEF Goto, TypeOK, AtWork, Recorded, NoVm
  <2>4. QED
    BY <1>5, <2>2, <2>3 DEF CreateInstance, FailsOn
<1>6. CASE StartVM(p)
  BY <1>0, <1>6 DEF StartVM, FailsOn, Finish, Goto, TypeOK, Vms
<1>7. CASE CopyClaudeCredentials(p) \/ BuildVMEnvVars(p) \/ ExecInVM(p) \/ CheckExists(p)
  BY <1>7 DEF CopyClaudeCredentials, BuildVMEnvVars, ExecInVM, CheckExists, FailsOn,
              Finish, Goto, TypeOK
<1>8. CASE LeaveSession(p) \/ RetryCommand(p)
  BY <1>8 DEF LeaveSession, RetryCommand, Finish, TypeOK
<1>9. CASE StopVM(p)
  BY <1>0, <1>9 DEF StopVM, Stopped, CutSessions, TypeOK, Vms
<1>10. CASE Crash(p)
  BY <1>1, <1>10 DEF Crash, Finish, TypeOK
<1>11. QED
  BY <1>1, <1>2, <1>3, <1>4, <1>5, <1>6, <1>7, <1>8, <1>9, <1>10
  DEF Step, PushBranch, SetUp, MakeMetadataDir, WriteRepoMetadata, RunIsolationScripts,
      DeleteVM, CleanupHostMetadata

\* The process that is making the VM leaves it where its own next call expects it.
\* It clones first and writes the record later, and then leaves both alone.
LEMMA Maker ==
    ASSUME TypeOK, StageKnown, NEW p \in Procs, Step(p), Making(p), AtWork(p)
    PROVE  /\ vm'.status # "none"
           /\ vm'.branch = vm.branch \/ ~Recorded(p)
           /\ \/ meta' \in {meta, "unreadable"}
              \/ meta' = job[p].branch /\ vm'.branch = job[p].branch
           /\ Making(p)' =>
                 /\ AtWork(p)'
                 /\ ~Recorded(p)' => ~Recorded(p) /\ meta' \in {meta, "unreadable"}
<1> USE DEF world, Making, Creating
<1>0. /\ vm \in Vms /\ job[p] \in Jobs /\ StageKnownBy(p)
      /\ job[p].stage \in Nat /\ Len(Stages) = 7 /\ RecordAfter = 3
      /\ job[p].branch \in Branches
  BY StageFacts DEF TypeOK, StageKnown, StageKnownBy, Jobs, RecordAfter
<1>1. ASSUME NEW r, Finish(p, r)
      PROVE  ~Making(p)'
  BY <1>1 DEF Finish, TypeOK
<1>2. CASE StartVM(p)
  <2>1. pc[p] = "boot" /\ job[p].stage = 1 /\ meta' = meta /\ ~Recorded(p)
    BY <1>0, <1>2 DEF StartVM, StageKnownBy, Recorded
  <2>2. vm'.status # "none" /\ vm'.done = vm.done /\ vm'.branch = vm.branch
    BY <1>0, <1>2 DEF StartVM, AtWork, Vms
  <2>3. Making(p)' => pc'[p] = "push" /\ job' = job
    BY <1>2 DEF StartVM, Finish, FailsOn, Goto, TypeOK
  <2>4. QED
    BY <2>1, <2>2, <2>3 DEF AtWork, Recorded
<1>3. CASE PushBranch(p)
  <2>1. CASE FailsOn("host", p)
    BY <1>1, <1>3, <2>1 DEF PushBranch, FailsOn, AtWork
  <2>2. CASE Goto(p, "setup") /\ UNCHANGED job
    BY <1>0, <1>3, <2>2 DEF PushBranch, Goto, TypeOK, AtWork, Recorded, StageKnownBy
  <2>3. QED
    BY <1>3, <2>1, <2>2 DEF PushBranch
<1>4. CASE SetUp(p)
  <2> DEFINE n == job[p].stage
  <2>1. n \in 1..7 /\ pc[p] = "setup" /\ meta' = meta
    BY <1>0, <1>4 DEF SetUp, StageKnownBy
  <2>2. CASE vm' = vm /\ \E r : Finish(p, r)
    BY <1>1, <2>1, <2>2 DEF AtWork
  <2>3. CASE /\ vm' = [vm EXCEPT !.done = @ \cup {Stages[n]},
                                 !.branch = IF Stages[n] = "repo" THEN job[p].branch ELSE @]
             /\ job' = [job EXCEPT ![p].stage = n + 1]
             /\ Goto(p, AfterStage(n))
    <3>1. vm'.status # "none" /\ vm'.done = Done(n)
          /\ vm'.branch = (IF n = 1 THEN job[p].branch ELSE vm.branch)
      <4>1. Stages[n] = "repo" <=> n = 1
        BY <2>1, StageNames
      <4>2. QED
        BY <1>0, <2>1, <2>3, <4>1, StageFacts DEF AtWork, Vms
    <3>2. job'[p].stage = n + 1 /\ job'[p].branch = job[p].branch
      BY <1>0, <2>3 DEF TypeOK, Jobs
    <3>3. pc'[p] = AfterStage(n)
      BY <2>3 DEF Goto, TypeOK
    <3>4. vm'.branch = job'[p].branch
      BY <2>1, <3>1, <3>2 DEF AtWork
    <3>5. Recorded(p)' <=> n > 3
      BY <1>0, <2>1, <3>2, <3>3 DEF Recorded, AfterStage
    <3>6. Recorded(p) <=> n > 3
      BY <1>0, <2>1 DEF Recorded
    <3>7. Recorded(p)' => meta' = job'[p].branch
      BY <2>1, <3>2, <3>5, <3>6 DEF AtWork
    <3>8. job'[p].stage - 1 = n
      BY <2>1, <3>2
    <3>9. AtWork(p)'
      BY <3>1, <3>4, <3>7, <3>8 DEF AtWork
    <3>10. QED
      BY <2>1, <3>1, <3>5, <3>6, <3>9
  <2>4. QED
    BY <1>4, <2>2, <2>3 DEF SetUp, FailsOn
<1>5. CASE MakeMetadataDir(p)
  <2>1. pc[p] = "mkdir" /\ vm' = vm /\ job[p].stage = 4 /\ meta' \in {meta, "unreadable"}
    BY <1>0, <1>5 DEF MakeMetadataDir, StageKnownBy
  <2>2. CASE FailsOn("disk", p)
    BY <1>1, <2>1, <2>2 DEF FailsOn, AtWork
  <2>3. CASE Goto(p, "write") /\ UNCHANGED job
    BY <1>0, <2>1, <2>3 DEF Goto, TypeOK, AtWork, Recorded
  <2>4. QED
    BY <1>5, <2>2, <2>3 DEF MakeMetadataDir
<1>6. CASE WriteRepoMetadata(p)
  <2>1. pc[p] = "write" /\ vm' = vm /\ job[p].stage = 4 /\ vm.branch = job[p].branch
    BY <1>0, <1>6 DEF WriteRepoMetadata, StageKnownBy, AtWork
  <2>2. CASE meta' \in {meta, "unreadable"} /\ \E r : Finish(p, r)
    BY <1>1, <2>1, <2>2 DEF AtWork
  <2>3. CASE meta' = job[p].branch /\ Goto(p, "setup") /\ UNCHANGED job
    BY <1>0, <2>1, <2>3 DEF Goto, TypeOK, AtWork, Recorded
  <2>4. QED
    BY <1>6, <2>2, <2>3 DEF WriteRepoMetadata, FailsOn
<1>7. CASE RunIsolationScripts(p)
  <2>1. vm' = vm /\ meta' = meta
    BY <1>7 DEF RunIsolationScripts
  <2>2. ~Making(p)'
    BY <1>1, <1>7 DEF RunIsolationScripts, FailsOn, Goto, TypeOK
  <2>3. QED
    BY <2>1, <2>2 DEF AtWork
<1>8. CASE Crash(p)
  BY <1>1, <1>8 DEF Crash, AtWork
<1>9. QED
  BY <1>2, <1>3, <1>4, <1>5, <1>6, <1>7, <1>8
  DEF Step, Begin, GetVMState, ResolveRepoInfo, CheckAbsent, CreateInstance,
      CopyClaudeCredentials, BuildVMEnvVars, ExecInVM, LeaveSession, CheckExists,
      StopVM, DeleteVM, CleanupHostMetadata, RetryCommand

\* A process that only watches another's step is no nearer to a VM or a record.
LEMMA OthersWatch ==
    ASSUME TypeOK, NEW q \in Procs, job'[q] = job[q],
           pc'[q] = pc[q] \/ (pc[q] = "inside" /\ pc'[q] = "cut")
    PROVE  (Making(q)' <=> Making(q)) /\ (Recorded(q)' <=> Recorded(q))
BY DEF Making, Creating, Recorded

\* OneAtWork is kept: limactl create lets nobody through while there is a VM, and
\* the one that has made it is left to its work.
LEMMA WorkStep ==
    ASSUME "deleted" \notin Faults, TypeOK, StageKnown, OneAtWork, NoOverlap, [Next]_vars
    PROVE  OneAtWork'
<1>1. ASSUME NEW p \in Procs, Step(p) PROVE OneAtWork'
  <2>1. ASSUME NEW q \in Procs, q # p
        PROVE  job'[q] = job[q] /\ (Making(q)' <=> Making(q)) /\ (Recorded(q)' <=> Recorded(q))
    BY <1>1, <2>1, OthersKept, OthersWatch
  <2>2. CASE Making(p)
    <3>1. Making(p)' => AtWork(p)'
      BY <1>1, <2>2, Maker DEF OneAtWork
    <3>2. \A q \in Procs : q # p => ~Making(q)'
      BY <2>1, <2>2 DEF OneAtWork
    <3>3. QED
      BY <3>1, <3>2 DEF OneAtWork
  <2>3. CASE ~Making(p) /\ pc[p] \in {"delete", "cleanup"}
    <3>1. ~Making(p)'
      BY <1>1, <2>3
      DEF Making, TypeOK, Step, Begin, Goto, Finish, FailsOn, GetVMState,
          ResolveRepoInfo, CheckAbsent, CreateInstance, StartVM, PushBranch, SetUp,
          MakeMetadataDir, WriteRepoMetadata, RunIsolationScripts,
          CopyClaudeCredentials, BuildVMEnvVars, ExecInVM, LeaveSession, CheckExists,
          StopVM, DeleteVM, CleanupHostMetadata, RetryCommand, Crash
    <3>2. QED
      BY <2>1, <2>3, <3>1 DEF OneAtWork, NoOverlap
  <2>4. CASE ~Making(p) /\ pc[p] \notin {"delete", "cleanup"}
    <3>1. /\ meta' = meta
          /\ vm.status # "none" =>
                /\ vm'.status # "none" /\ vm'.done = vm.done /\ vm'.branch = vm.branch
                /\ ~Making(p)'
          /\ Making(p)' => AtWork(p)'
      BY <1>1, <2>4, Bystander
    <3>2. ASSUME NEW q \in Procs, q # p, Making(q)'
          PROVE  AtWork(q)' /\ vm.status # "none"
      <4>1. Making(q) /\ AtWork(q)
        BY <2>1, <3>2 DEF OneAtWork
      <4>2. QED
        BY <2>1, <3>1, <3>2, <4>1 DEF AtWork
    <3>3. QED
      BY <2>1, <3>1, <3>2 DEF OneAtWork
  <2>5. QED
    BY <2>2, <2>3, <2>4
<1>2. ASSUME World PROVE OneAtWork'
  <2>1. vm'.status # "none" /\ vm'.done = vm.done /\ vm'.branch = vm.branch /\ meta' = meta
    BY <1>2 DEF World, VmStops, VmStarts, VmLost, Stopped, TypeOK, Vms
  <2>2. \A q \in Procs : job'[q] = job[q] /\ (Making(q)' <=> Making(q))
                         /\ (Recorded(q)' <=> Recorded(q))
    BY <1>2, WorldKeeps, OthersWatch
  <2>3. QED
    BY <2>1, <2>2 DEF OneAtWork, AtWork
<1>3. ASSUME UNCHANGED vars PROVE OneAtWork'
  BY <1>3 DEF vars, OneAtWork, Making, Creating, AtWork, Recorded
<1>4. QED
  BY <1>1, <1>2, <1>3 DEF Next

\* A command has no result before it ends, and a create makes the calls of
\* createAndSetupVM only.
CreatePathBy(p) ==
    pc[p] # "idle" =>
        /\ result[p] = "none"
        /\ job[p].cmd = "create" =>
              /\ Creating(p)
              /\ pc[p] \in {"resolve", "exists", "create", "boot", "push", "setup",
                           "mkdir", "write", "scripts"}

CreatePath == \A p \in Procs : CreatePathBy(p)

\* What a command's own step does to CreatePathBy.
LEMMA CreatePathStep ==
    ASSUME TypeOK, StageKnown, NEW p \in Procs, CreatePathBy(p), Step(p)
    PROVE  CreatePathBy(p)'
<1>0. /\ job[p] \in Jobs /\ StageKnownBy(p)
      /\ job[p].stage \in Nat /\ Len(Stages) = 7 /\ RecordAfter = 3
  BY StageFacts DEF TypeOK, StageKnown, Jobs, RecordAfter
<1>1. CASE \E r : Finish(p, r)
  BY <1>1 DEF Finish, TypeOK, CreatePathBy
<1>2. CASE Begin(p)
  BY <1>2 DEF Begin, TypeOK, FirstLabel, CreatePathBy, Creating
<1>3. ASSUME NEW l, pc'[p] = l, result' = result, job' = job, pc[p] # "idle",
             job[p].cmd = "create" =>
                 l \in {"exists", "create", "boot", "push", "setup", "mkdir", "write",
                       "scripts"}
      PROVE  CreatePathBy(p)'
  BY <1>0, <1>3 DEF CreatePathBy, Creating
<1>4. CASE GetVMState(p) \/ ResolveRepoInfo(p)
  BY <1>0, <1>4
  DEF GetVMState, ResolveRepoInfo, FailsOn, Finish, Goto, TypeOK, CreatePathBy,
      Creating, Jobs
<1>5. CASE SetUp(p)
  <2>1. AfterStage(job[p].stage) \in {"mkdir", "scripts", "setup"}
    BY DEF AfterStage
  <2>2. QED
    BY <1>0, <1>1, <1>5, <2>1
    DEF SetUp, FailsOn, Goto, TypeOK, CreatePathBy, Creating, Jobs
<1>6. CASE CheckAbsent(p) \/ CreateInstance(p) \/ StartVM(p) \/ PushBranch(p)
  BY <1>1, <1>3, <1>6
  DEF CheckAbsent, CreateInstance, StartVM, PushBranch, FailsOn, Goto, TypeOK,
      CreatePathBy
<1>7. CASE MakeMetadataDir(p) \/ WriteRepoMetadata(p) \/ RunIsolationScripts(p)
  BY <1>1, <1>3, <1>7
  DEF MakeMetadataDir, WriteRepoMetadata, RunIsolationScripts, FailsOn, Goto, TypeOK
<1>8. CASE \/ CopyClaudeCredentials(p) \/ BuildVMEnvVars(p) \/ ExecInVM(p)
           \/ LeaveSession(p) \/ RetryCommand(p) \/ Crash(p)
  BY <1>1, <1>3, <1>8
  DEF CopyClaudeCredentials, BuildVMEnvVars, ExecInVM, LeaveSession, RetryCommand,
      Crash, FailsOn, Goto, TypeOK, CreatePathBy
<1>9. CASE CheckExists(p) \/ DeleteVM(p) \/ CleanupHostMetadata(p)
  BY <1>1, <1>3, <1>9
  DEF CheckExists, DeleteVM, CleanupHostMetadata, FailsOn, Goto, TypeOK, CreatePathBy
<1>10. CASE StopVM(p)
  BY <1>3, <1>10 DEF StopVM, CutSessions, TypeOK, CreatePathBy
<1>11. QED
  BY <1>1, <1>2, <1>4, <1>5, <1>6, <1>7, <1>8, <1>9, <1>10 DEF Step

\* CreatePath holds throughout, whatever the commands.
THEOREM CreatePathHolds == Spec => []CreatePath
<1>1. Init => CreatePath
  BY DEF Init, CreatePath, CreatePathBy
<1>2. TypeOK /\ StageKnown /\ CreatePath /\ [Next]_vars => CreatePath'
  <2> SUFFICES ASSUME TypeOK, StageKnown, CreatePath, [Next]_vars, NEW q \in Procs
               PROVE  CreatePathBy(q)'
    BY DEF CreatePath
  <2>1. CreatePathBy(q)
    BY DEF CreatePath
  <2>2. CASE /\ job'[q] = job[q] /\ result'[q] = result[q]
             /\ pc'[q] = pc[q] \/ (pc[q] = "inside" /\ pc'[q] = "cut")
    BY <2>1, <2>2 DEF CreatePathBy, Creating
  <2>3. CASE \E p \in Procs : Step(p)
    BY <2>1, <2>2, <2>3, CreatePathStep, OthersKept
  <2>4. CASE World
    BY <2>2, <2>4, WorldKeeps
  <2>5. CASE UNCHANGED vars
    BY <2>2, <2>5 DEF vars
  <2>6. QED
    BY <2>3, <2>4, <2>5 DEF Next
<1>3. QED
  BY <1>1, <1>2, TypesAndStages, PTL DEF Spec

\* A create that reports success leaves the VM set up and recorded as it asked.
LEMMA Delivery ==
    ASSUME TypeOK, StageKnown, OneAtWork, CreatePath, Next, NEW p \in Procs,
           job[p].cmd = "create", result'[p] = "ok", pc[p] # "idle"
    PROVE  vm.done = Done(Len(Stages)) /\ vm.branch = job[p].branch /\ meta = vm.branch
<1>1. result[p] = "none" /\ Creating(p)
      /\ pc[p] \in {"resolve", "exists", "create", "boot", "push", "setup", "mkdir",
                   "write", "scripts"}
  BY DEF CreatePath, CreatePathBy
<1>2. Step(p)
  BY <1>1, OthersKept, WorldKeeps DEF Next
<1>3. pc[p] = "scripts"
  BY <1>1, <1>2
  DEF TypeOK, Step, Begin, Goto, Finish, FailsOn, GetVMState, ResolveRepoInfo,
      CheckAbsent, CreateInstance, StartVM, PushBranch, SetUp, MakeMetadataDir,
      WriteRepoMetadata, RunIsolationScripts, CopyClaudeCredentials, BuildVMEnvVars,
      ExecInVM, LeaveSession, CheckExists, StopVM, DeleteVM, CleanupHostMetadata,
      RetryCommand, Crash
<1>4. AtWork(p) /\ job[p].stage = Len(Stages) + 1
  BY <1>1, <1>3 DEF OneAtWork, Making, StageKnown, StageKnownBy
<1>5. QED
  BY <1>3, <1>4, StageFacts DEF AtWork, Recorded

\* Init and every step keep OneAtWork, as long as no destroy overlaps a set-up.
LEMMA WorkHolds ==
    ASSUME "deleted" \notin Faults PROVE Spec /\ []NoOverlap => []OneAtWork
<1>1. Init => OneAtWork
  BY DEF Init, OneAtWork, Making
<1>2. TypeOK /\ StageKnown /\ OneAtWork /\ NoOverlap /\ [Next]_vars => OneAtWork'
  BY WorkStep
<1>3. QED
  BY <1>1, <1>2, TypesAndStages, PTL DEF Spec

\* With every command, destroy included, and any failure short of a VM deleted
\* outside isolarium: a create that reports success has set the VM up in full, from
\* the branch it read, and has recorded that branch, unless a destroy deletes the VM
\* or the metadata while somebody is setting a VM up.
THEOREM DeliversUndisturbed ==
    ASSUME "deleted" \notin Faults PROVE Spec /\ []NoOverlap => CreateDelivers
<1> DEFINE Delivers == \A p \in Procs :
          /\ job[p].cmd = "create" /\ result'[p] = "ok"
          /\ pc[p] # "idle"
          => vm.done = Done(Len(Stages)) /\ vm.branch = job[p].branch /\ meta = vm.branch
<1>1. TypeOK /\ StageKnown /\ OneAtWork /\ CreatePath /\ [Next]_vars => [Delivers]_vars
  BY Delivery
<1>2. QED
  BY <1>1, WorkHolds, CreatePathHolds, TypesAndStages, PTL DEF Spec, CreateDelivers

\* Under the same condition a process finds in the VM exactly what it has done itself.
THEOREM SetsUpUndisturbed ==
    ASSUME "deleted" \notin Faults PROVE Spec /\ []NoOverlap => []SetsUpAlone
<1>1. StageKnown /\ OneAtWork => SetsUpAlone
  BY StageFacts
  DEF OneAtWork, Making, Creating, AtWork, SetsUpAlone, StageKnown, StageKnownBy,
      RecordAfter
<1>2. QED
  BY <1>1, WorkHolds, TypesAndStages, PTL

\* So whoever runs one isolarium command at a time can rely on both, with destroy
\* among the commands and whatever fails or is killed.
THEOREM DeliversAlone ==
    ASSUME \A p, q \in Procs : p = q, "deleted" \notin Faults
    PROVE  Spec => CreateDelivers /\ []SetsUpAlone
<1>1. NoOverlap
  BY DEF NoOverlap, Making
<1>2. QED
  BY <1>1, DeliversUndisturbed, SetsUpUndisturbed, PTL

-----------------------------------------------------------------------------
\* One maker, where nothing removes VMs

MakerInv == RecordMatchesClone /\ OneMaker /\ NobodyDestroys

\* A maker that finds all in its place is at work, on a VM without a record.
LEMMA AtPlace ==
    ASSUME NEW p
    PROVE  AtItsPlace(p) <=> AtWork(p) /\ (~Recorded(p) => meta \notin Branches)
BY DEF AtItsPlace, AtWork

\* So the one maker is the one at work, and no destroy is under way.
LEMMA MakerAtWork == ASSUME MakerInv PROVE OneAtWork /\ NoOverlap
BY AtPlace
DEF MakerInv, OneMaker, OneAtWork, NoOverlap, NobodyDestroys, Destroying

\* Every step keeps all of it: the one maker, if there is one, goes on, and the
\* others can only watch.
LEMMA MakerStep ==
    ASSUME NoRemovers, TypeOK, StageKnown, MakerInv, [Next]_vars
    PROVE  MakerInv'
<1>1. NobodyDestroys'
  BY DestroyStep DEF MakerInv
<1>2. OneAtWork /\ NoOverlap /\ "deleted" \notin Faults
  BY MakerAtWork DEF NoRemovers
<1>3. OneAtWork'
  BY <1>2, WorkStep
<1> DEFINE Fresh(q) == Making(q) /\ ~Recorded(q) => meta \notin Branches
<1>4. RecordMatchesClone /\ \A q \in Procs : Fresh(q)
  BY AtPlace DEF MakerInv, OneMaker
<1>5. "unreadable" \notin Branches
  BY ConstantsAssumption
<1>6. RecordMatchesClone' /\ \A q \in Procs : Fresh(q)'
  <2>1. ASSUME NEW p \in Procs, Step(p) PROVE RecordMatchesClone' /\ \A q \in Procs : Fresh(q)'
    <3>1. ASSUME NEW q \in Procs, q # p
          PROVE  (Making(q)' <=> Making(q)) /\ (Recorded(q)' <=> Recorded(q))
      BY <2>1, <3>1, OthersKept, OthersWatch
    <3>2. CASE Making(p)
      <4>1. AtWork(p) /\ Fresh(p)
        BY <1>2, <1>4, <3>2 DEF OneAtWork
      <4>2. /\ vm'.status # "none"
            /\ vm'.branch = vm.branch \/ ~Recorded(p)
            /\ \/ meta' \in {meta, "unreadable"}
               \/ meta' = job[p].branch /\ vm'.branch = job[p].branch
            /\ Making(p)' /\ ~Recorded(p)' => ~Recorded(p) /\ meta' \in {meta, "unreadable"}
        BY <2>1, <3>2, <4>1, Maker
      <4>3. RecordMatchesClone'
        BY <1>4, <1>5, <3>2, <4>1, <4>2 DEF RecordMatchesClone
      <4>4. \A q \in Procs : q # p => ~Making(q)'
        BY <1>2, <3>1, <3>2 DEF OneAtWork
      <4>5. Fresh(p)'
        BY <1>5, <3>2, <4>1, <4>2
      <4>6. QED
        BY <4>3, <4>4, <4>5
    <3>3. CASE ~Making(p)
      <4>1. /\ meta' = meta
            /\ vm.status # "none" =>
                  /\ vm'.status # "none" /\ vm'.branch = vm.branch
                  /\ ~Making(p)'
        BY <2>1, <3>3, Bystander DEF MakerInv, NobodyDestroys, Destroying
      <4>2. vm.status = "none" => meta \notin Branches
        BY <1>4 DEF RecordMatchesClone
      <4>3. QED
        BY <1>4, <3>1, <4>1, <4>2 DEF RecordMatchesClone
    <3>4. QED
      BY <3>2, <3>3
  <2>2. CASE World
    <3>1. vm'.status # "none" /\ vm'.branch = vm.branch /\ meta' = meta
      BY <2>2 DEF World, VmStops, VmStarts, VmLost, Stopped, NoRemovers, TypeOK, Vms
    <3>2. \A q \in Procs : (Making(q)' <=> Making(q)) /\ (Recorded(q)' <=> Recorded(q))
      BY <2>2, WorldKeeps, OthersWatch
    <3>3. QED
      BY <1>4, <3>1, <3>2 DEF RecordMatchesClone
  <2>3. CASE UNCHANGED vars
    BY <1>4, <2>3 DEF vars, RecordMatchesClone, Making, Creating, Recorded
  <2>4. QED
    BY <2>1, <2>2, <2>3 DEF Next
<1>7. \A q \in Procs : AtItsPlace(q)' <=> AtWork(q)' /\ (~Recorded(q)' => meta' \notin Branches)
  BY DEF AtItsPlace, AtWork
<1>8. QED
  BY <1>1, <1>3, <1>6, <1>7 DEF MakerInv, OneMaker, OneAtWork

\* All of it holds at the start.
LEMMA MakerInit == Init => MakerInv
BY ConstantsAssumption
DEF Init, MakerInv, RecordMatchesClone, OneMaker, Making, NobodyDestroys, Destroying

\* Where nothing removes VMs, no destroy overlaps a set-up.
LEMMA NoOverlapThen == ASSUME NoRemovers PROVE Spec => []NoOverlap
<1>1. TypeOK /\ StageKnown /\ MakerInv /\ [Next]_vars => MakerInv'
  BY MakerStep
<1>2. MakerInv => NoOverlap
  BY MakerAtWork
<1>3. QED
  BY <1>1, <1>2, MakerInit, TypesAndStages, PTL DEF Spec

\* As long as nothing removes VMs, any number of creates and runs, failing or
\* killed anywhere, leave metadata that names the branch cloned in the VM.
THEOREM RecordIsOfClone == ASSUME NoRemovers PROVE Spec => []RecordMatchesClone
<1>1. TypeOK /\ StageKnown /\ MakerInv /\ [Next]_vars => MakerInv'
  BY MakerStep
<1>2. QED
  BY <1>1, MakerInit, TypesAndStages, PTL DEF Spec, MakerInv

\* As long as nothing removes VMs, whoever sets a VM up does so alone and in order,
\* however many creates and runs there are and wherever they fail or are killed.
THEOREM SetUpCorrect == ASSUME NoRemovers PROVE Spec => []SetsUpAlone
<1>1. "deleted" \notin Faults
  BY DEF NoRemovers
<1>2. QED
  BY <1>1, NoOverlapThen, SetsUpUndisturbed, PTL

\* Of the processes at work on a VM they have created there is at most one, and it
\* finds the VM and the metadata as far as it has come itself.
THEOREM OneMakerHolds == ASSUME NoRemovers PROVE Spec => []OneMaker
<1>1. TypeOK /\ StageKnown /\ MakerInv /\ [Next]_vars => MakerInv'
  BY MakerStep
<1>2. QED
  BY <1>1, MakerInit, TypesAndStages, PTL DEF Spec, MakerInv

\* Under the same condition a create that reports success has set the VM up in
\* full, from the branch it read, and has recorded that branch.
THEOREM CreateDoesItAll == ASSUME NoRemovers PROVE Spec => CreateDelivers
<1>1. "deleted" \notin Faults
  BY DEF NoRemovers
<1>2. QED
  BY <1>1, NoOverlapThen, DeliversUndisturbed, PTL

-----------------------------------------------------------------------------
\* The contest of creates

\* Nothing is cloned in a VM in which nothing is done, nothing is done where there
\* is no VM, and a create has read no branch until it goes past the first call.
ContentKnown ==
    /\ vm.status = "none" \/ vm.done = {} => vm.branch = NoBranch
    /\ vm.status = "none" => vm.done = {}
    /\ \A p \in Procs :
          /\ pc[p] = "idle" => job[p].cmd = "none"
          /\ pc[p] = "resolve" /\ job[p].cmd = "create" => job[p].branch = NoBranch

\* A step of a process that has a command under way ends the command, or reads the
\* branch, or keeps the command, the branch and the results.
LEMMA GoesOnOrEnds ==
    ASSUME TypeOK, StageKnown, NobodyDestroys, NEW p \in Procs, Step(p), ~Begin(p)
    PROVE  \/ \E r : Finish(p, r)
           \/ /\ job'[p].cmd = job[p].cmd /\ pc'[p] # "idle" /\ result' = result
              /\ \/ pc[p] = "resolve" /\ pc'[p] = "exists" /\ job'[p].branch \in Branches
                 \/ job'[p].branch = job[p].branch /\ pc[p] # "resolve"
              /\ pc'[p] = "resolve" => pc[p] = "getState"
<1> USE DEF TypeOK, Jobs, world, Goto, FailsOn
<1>0. AfterStage(job[p].stage) \in {"mkdir", "scripts", "setup"}
  BY DEF AfterStage
<1>1. CASE GetVMState(p) \/ ResolveRepoInfo(p)
  BY <1>1 DEF GetVMState, ResolveRepoInfo
<1>2. CASE CheckAbsent(p) \/ CreateInstance(p) \/ StartVM(p) \/ PushBranch(p)
  BY <1>2 DEF CheckAbsent, CreateInstance, StartVM, PushBranch
<1>3. CASE SetUp(p)
  BY <1>0, <1>3 DEF SetUp
<1>4. CASE MakeMetadataDir(p) \/ WriteRepoMetadata(p) \/ RunIsolationScripts(p)
  BY <1>4 DEF MakeMetadataDir, WriteRepoMetadata, RunIsolationScripts
<1>5. CASE \/ CopyClaudeCredentials(p) \/ BuildVMEnvVars(p) \/ ExecInVM(p)
           \/ LeaveSession(p) \/ RetryCommand(p) \/ Crash(p)
  BY <1>5 DEF CopyClaudeCredentials, BuildVMEnvVars, ExecInVM, LeaveSession,
              RetryCommand, Crash
<1>6. ~(CheckExists(p) \/ StopVM(p) \/ DeleteVM(p) \/ CleanupHostMetadata(p))
  BY DEF NobodyDestroys, Destroying, CheckExists, StopVM, DeleteVM, CleanupHostMetadata
<1>7. QED
  BY <1>1, <1>2, <1>3, <1>4, <1>5, <1>6 DEF Step

\* What a command is when it begins.
LEMMA BeginSets ==
    ASSUME TypeOK, NEW p \in Procs, Begin(p)
    PROVE  /\ pc[p] = "idle" /\ job'[p].branch = NoBranch /\ pc'[p] # "idle"
           /\ result' = [result EXCEPT ![p] = "none"]
<1>1. PICK cmd \in Commands, copy \in BOOLEAN :
          /\ job' = [job EXCEPT ![p] = [cmd |-> cmd, branch |-> NoBranch, copy |-> copy,
                                      stage |-> IF cmd = "create" THEN 1 ELSE 0]]
          /\ pc' = [pc EXCEPT ![p] = FirstLabel(cmd)]
  BY DEF Begin
<1>2. FirstLabel(cmd) # "idle"
  BY DEF FirstLabel
<1>3. QED
  BY <1>1, <1>2 DEF Begin, TypeOK

\* The clone is made when there is none, and only then does the branch change.
LEMMA ContentMade ==
    ASSUME NoRemovers, TypeOK, StageKnown, MakerInv, ContentKnown, [Next]_vars
    PROVE  /\ vm'.branch = vm.branch \/ (vm.branch = NoBranch /\ vm'.branch \in Branches)
           /\ vm'.status = "none" \/ vm'.done = {} => vm'.branch = NoBranch
           /\ vm'.status = "none" => vm'.done = {}
<1> USE DEF TypeOK, Vms, NoVm, world
<1>1. ASSUME NEW p \in Procs, SetUp(p)
      PROVE  /\ vm'.branch = vm.branch \/ (vm.branch = NoBranch /\ vm'.branch \in Branches)
             /\ vm' = vm \/ (vm'.status # "none" /\ vm'.done # {})
  <2>1. /\ job[p].stage \in 1..7 /\ job[p].branch \in Branches /\ AtItsPlace(p)
    BY <1>1, StageFacts
    DEF SetUp, StageKnown, StageKnownBy, Creating, MakerInv, OneMaker, Making, Jobs
  <2>2. CASE UNCHANGED vm
    BY <2>2
  <2>3. CASE /\ vm.status = "running"
             /\ vm' = [vm EXCEPT !.done = @ \cup {Stages[job[p].stage]},
                    !.branch = IF Stages[job[p].stage] = "repo" THEN job[p].branch ELSE @]
    <3>1. /\ vm'.done = vm.done \cup {Stages[job[p].stage]} /\ vm'.status = "running"
          /\ vm'.branch = IF Stages[job[p].stage] = "repo" THEN job[p].branch
                          ELSE vm.branch
      BY <2>3
    <3>2. Stages[job[p].stage] = "repo" => vm.done = {}
      BY <2>1, StageNames, StageFacts DEF AtItsPlace
    <3>3. QED
      BY <2>1, <3>1, <3>2 DEF ContentKnown
  <2>4. QED
    BY <1>1, <2>2, <2>3 DEF SetUp
<1>2. ASSUME NEW p \in Procs, Step(p), ~SetUp(p)
      PROVE  \/ vm' = vm \/ (vm.status = "none" /\ vm' = [NoVm EXCEPT !.status = "stopped"])
             \/ /\ vm.status # "none"
                /\ vm'.status # "none" /\ vm'.done = vm.done /\ vm'.branch = vm.branch
  <2>1. CASE CreateInstance(p) \/ StartVM(p)
    BY <2>1 DEF CreateInstance, StartVM, FailsOn
  <2>2. CASE ~(CreateInstance(p) \/ StartVM(p))
    BY <1>2, <2>2
    DEF MakerInv, NobodyDestroys, Destroying, Step, Begin, GetVMState, ResolveRepoInfo,
        CheckAbsent, PushBranch, MakeMetadataDir, WriteRepoMetadata,
        RunIsolationScripts, CopyClaudeCredentials, BuildVMEnvVars, ExecInVM,
        LeaveSession, CheckExists, StopVM, DeleteVM, CleanupHostMetadata,
        RetryCommand, Crash
  <2>3. QED
    BY <2>1, <2>2
<1>3. CASE World
  BY <1>3 DEF World, VmStops, VmStarts, VmLost, Stopped, NoRemovers, ContentKnown
<1>4. CASE UNCHANGED vars
  BY <1>4 DEF vars, ContentKnown
<1>5. QED
  BY <1>1, <1>2, <1>3, <1>4 DEF Next, ContentKnown

\* ContentKnown is kept.
LEMMA ContentStep ==
    ASSUME NoRemovers, TypeOK, StageKnown, MakerInv, CreatePath, ContentKnown,
           [Next]_vars
    PROVE  ContentKnown'
<1>1. ASSUME NEW q \in Procs
      PROVE  /\ pc'[q] = "idle" => job'[q].cmd = "none"
             /\ pc'[q] = "resolve" /\ job'[q].cmd = "create" => job'[q].branch = NoBranch
  <2>1. CASE job'[q] = job[q] /\ pc'[q] \in {pc[q], "cut"}
    BY <2>1 DEF ContentKnown
  <2>2. CASE Step(q)
    <3>1. CASE Begin(q)
      BY <3>1, BeginSets
    <3>2. CASE ~Begin(q)
      <4>1. pc[q] = "getState" => job[q].cmd # "create"
        BY DEF CreatePath, CreatePathBy
      <4>2. QED
        BY <2>2, <3>2, <4>1, GoesOnOrEnds DEF ContentKnown, Finish, NoJob, TypeOK, MakerInv
    <3>3. QED
      BY <3>1, <3>2
  <2>3. CASE World
    BY <2>1, <2>3, CutKeeps DEF World, VmStops, VmStarts, VmLost, TypeOK
  <2>4. QED
    BY <2>1, <2>2, <2>3, OthersKept DEF Next, vars, MakerInv
<1>2. QED
  BY <1>1, ContentMade DEF ContentKnown

\* What the process that takes a step does in the contest.
LEMMA ContestUser ==
    ASSUME NoRemovers, TypeOK, StageKnown, MakerInv, CreatePath, ContentKnown,
           NEW p \in Procs, Step(p)
    PROVE  \/ Contest!Ask(p) \/ Contest!Succeed(p) \/ Contest!GiveUp(p) \/ Contest!Other(p)
           \/ UNCHANGED <<Wanted, [q \in Procs |-> result[q] = "ok"]>>
<1> DEFINE wanted == IF job'[p].cmd = "create" THEN job'[p].branch ELSE NoBranch
           ok == result'[p] = "ok"
<1>0. NobodyDestroys
  BY DEF MakerInv
<1>1. /\ Wanted' = [Wanted EXCEPT ![p] = wanted]
      /\ [q \in Procs |-> result[q] = "ok"]'
            = [[q \in Procs |-> result[q] = "ok"] EXCEPT ![p] = ok]
  BY OthersKept DEF Wanted
<1>2. Wanted[p] = IF job[p].cmd = "create" THEN job[p].branch ELSE NoBranch
  BY DEF Wanted
<1>3. wanted = Wanted[p] => UNCHANGED Wanted
  <2> HIDE DEF wanted
  <2>1. QED
    BY <1>1 DEF Wanted
<1>4. CASE Begin(p)
  <2>1. Wanted[p] = NoBranch /\ wanted = NoBranch
    BY <1>2, <1>4, BeginSets DEF ContentKnown
  <2>2. ok \in BOOLEAN
    OBVIOUS
  <2> HIDE DEF wanted, ok
  <2>3. QED
    BY <1>1, <1>3, <2>1, <2>2 DEF Contest!Other
<1>5. ASSUME NEW r, Finish(p, r)
      PROVE  Contest!Succeed(p) \/ Contest!GiveUp(p) \/ Contest!Other(p)
  <2>1. wanted = NoBranch /\ pc'[p] = "idle" /\ ok = (r = "ok") /\ ok \in BOOLEAN
    BY <1>5 DEF Finish, NoJob, TypeOK
  <2>2. result'[p] = r
    BY <1>5 DEF Finish, TypeOK
  <2> HIDE DEF wanted, ok
  <2>3. CASE Wanted[p] = NoBranch /\ ~(job[p].cmd = "create" /\ r = "ok")
    BY <1>1, <1>3, <2>1, <2>3 DEF Contest!Other
  <2>4. CASE Wanted[p] # NoBranch /\ r # "ok"
    <3>1. Wanted[p] \in Branches /\ ok = FALSE
      BY <1>2, <2>1, <2>4 DEF TypeOK, Jobs
    <3>2. QED
      BY <1>1, <2>1, <3>1 DEF Contest!GiveUp
  <2>5. CASE job[p].cmd = "create" /\ r = "ok"
    <3>1. pc[p] # "idle"
      BY <2>5 DEF ContentKnown
    <3>2. vm.branch = job[p].branch /\ meta = vm.branch /\ vm.done = Done(Len(Stages))
      BY <2>2, <2>5, <3>1, MakerAtWork, Delivery DEF Next
    <3>3. job[p].branch \in Branches
      <4>1. Creating(p) /\ result[p] = "none"
        BY <2>5, <3>1 DEF CreatePath, CreatePathBy
      <4>2. pc[p] # "resolve"
        BY <1>0, <1>5, <2>2, <2>5, <3>1
        DEF Step, Begin, GetVMState, ResolveRepoInfo, FailsOn, Goto, Finish, TypeOK,
            CheckAbsent, CreateInstance, StartVM, PushBranch, SetUp, MakeMetadataDir,
            WriteRepoMetadata, RunIsolationScripts, CopyClaudeCredentials,
            BuildVMEnvVars, ExecInVM, LeaveSession, CheckExists, StopVM, DeleteVM,
            CleanupHostMetadata, RetryCommand, Crash
      <4>3. QED
        BY <4>1, <4>2 DEF StageKnown, StageKnownBy
    <3>4. Wanted[p] = job[p].branch /\ Readable = job[p].branch /\ ok = TRUE
      BY <1>2, <2>1, <2>5, <3>2, <3>3 DEF Readable
    <3>5. QED
      BY <1>1, <2>1, <3>2, <3>3, <3>4 DEF Contest!Succeed
  <2>6. QED
    BY <1>2, <2>3, <2>4, <2>5
<1>6. CASE /\ job'[p].cmd = job[p].cmd /\ result' = result
           /\ pc[p] = "resolve" /\ pc'[p] = "exists" /\ job'[p].branch \in Branches
  <2>1. CASE job[p].cmd = "create"
    <3>1. Wanted[p] = NoBranch /\ wanted \in Branches /\ ok = FALSE
      BY <1>2, <1>6, <2>1 DEF ContentKnown, CreatePath, CreatePathBy
    <3> HIDE DEF wanted, ok
    <3>2. QED
      BY <1>1, <3>1 DEF Contest!Ask
  <2>2. CASE job[p].cmd # "create"
    BY <1>2, <1>3, <1>6, <2>2
  <2>3. QED
    BY <2>1, <2>2
<1>7. CASE job'[p].cmd = job[p].cmd /\ job'[p].branch = job[p].branch /\ result' = result
  BY <1>2, <1>3, <1>7
<1>8. QED
  BY <1>0, <1>4, <1>5, <1>6, <1>7, GoesOnOrEnds

\* Whoever writes the record names the clone it has made.
LEMMA RecordStep ==
    ASSUME NoRemovers, TypeOK, StageKnown, MakerInv, [Next]_vars
    PROVE  Contest!Publish \/ Contest!Spoil \/ UNCHANGED Readable
<1>1. CASE meta' \in {meta, "absent", "unreadable"}
  BY <1>1, ConstantsAssumption DEF Readable, Contest!Spoil
<1>2. ASSUME NEW p \in Procs, WriteRepoMetadata(p), meta' = job[p].branch
      PROVE  Contest!Publish
  <2>1. AtItsPlace(p) /\ job[p].branch \in Branches /\ job[p].stage > 1
    BY <1>2 DEF WriteRepoMetadata, MakerInv, OneMaker, Making, Creating, StageKnown,
                StageKnownBy, RecordAfter
  <2>2. QED
    BY <1>2, <2>1 DEF AtItsPlace, Readable, Contest!Publish
<1>3. meta' \in {meta, "absent", "unreadable"}
      \/ \E p \in Procs : WriteRepoMetadata(p) /\ meta' = job[p].branch
  BY DEF Next, vars, world, Step, Begin, GetVMState, ResolveRepoInfo, CheckAbsent,
         CreateInstance, StartVM, PushBranch, SetUp, MakeMetadataDir, WriteRepoMetadata,
         RunIsolationScripts, CopyClaudeCredentials, BuildVMEnvVars, ExecInVM,
         LeaveSession, CheckExists, StopVM, DeleteVM, CleanupHostMetadata, HalfRemoved,
         RetryCommand, Crash, World, VmStops, VmStarts, VmLost
<1>4. QED
  BY <1>1, <1>2, <1>3

\* Every step is one of the contest.
LEMMA ContestStep ==
    ASSUME NoRemovers, TypeOK, StageKnown, MakerInv, CreatePath, ContentKnown,
           [Next]_vars
    PROVE  Contest!Next
<1>1. Contest!Make \/ UNCHANGED vm.branch
  BY ContentMade DEF Contest!Make
<1>2. \/ \E u \in Procs : Contest!Ask(u) \/ Contest!Succeed(u) \/ Contest!GiveUp(u)
                        \/ Contest!Other(u)
      \/ UNCHANGED <<Wanted, [q \in Procs |-> result[q] = "ok"]>>
  <2>1. CASE \E p \in Procs : Step(p)
    BY <2>1, ContestUser
  <2>2. CASE World \/ UNCHANGED vars
    BY <2>2 DEF World, VmStops, VmStarts, VmLost, vars, Wanted
  <2>3. QED
    BY <2>1, <2>2 DEF Next
<1>3. QED
  BY <1>1, <1>2, RecordStep DEF Contest!Next

\* As long as nothing removes VMs, any number of creates and runs of one name,
\* failing or killed anywhere, keep the promise of CreateContest.
THEOREM KeepsContest == ASSUME NoRemovers PROVE Spec => ContestKept
<1>1. Init => Contest!Init /\ ContentKnown
  <2> SUFFICES ASSUME Init PROVE Contest!Init /\ ContentKnown
    OBVIOUS
  <2>1. \A p \in Procs : job[p].cmd = "none" /\ ~(result[p] = "ok") /\ pc[p] = "idle"
    BY DEF Init, NoJob
  <2>2. Wanted = Contest!Nothing
    BY <2>1 DEF Wanted, Contest!Nothing
  <2>3. [p \in Procs |-> result[p] = "ok"] = [u \in Procs |-> FALSE]
    BY <2>1
  <2>4. vm.branch = NoBranch /\ Readable = NoBranch
    BY ConstantsAssumption DEF Init, NoVm, Readable
  <2>5. ContentKnown
    BY <2>1 DEF Init, NoVm, ContentKnown
  <2>6. QED
    BY <2>2, <2>3, <2>4, <2>5 DEF Contest!Init
<1>2. TypeOK /\ StageKnown /\ MakerInv /\ [Next]_vars => MakerInv'
  BY MakerStep
<1>3. TypeOK /\ StageKnown /\ MakerInv /\ CreatePath /\ ContentKnown /\ [Next]_vars
        => ContentKnown' /\ [Contest!Next]_(Contest!vars)
  BY ContentStep, ContestStep
<1>4. QED
  BY <1>1, <1>2, <1>3, MakerInit, TypesAndStages, CreatePathHolds, PTL
  DEF Spec, ContestKept, Contest!Spec

-----------------------------------------------------------------------------
\* The metadata and the VM it is of

\* Destroy has deleted a VM and is about to clear its metadata.
Clearing == \E q \in Procs : pc[q] = "cleanup"

\* There is a VM for the metadata and what it names is cloned there, or the metadata
\* is about to be cleared; what is cloned is known to be, so no set-up clones again.
Listed ==
    /\ meta # "absent" => vm.status # "none" \/ Clearing
    /\ meta \in Branches => vm.branch = meta \/ Clearing
    /\ vm.branch \in Branches => "repo" \in vm.done

\* A step that leaves the metadata alone, and of the VM changes the status only,
\* keeps that.
LEMMA ListedQuiet ==
    ASSUME Listed, meta' = meta, vm'.branch = vm.branch, vm'.done = vm.done,
           vm.status # "none" => vm'.status # "none",
           \A q \in Procs : pc[q] = "cleanup" => pc'[q] = pc[q]
    PROVE  Listed'
BY DEF Listed, Clearing

\* A stage of the set-up keeps it: the one that clones finds nothing cloned, so
\* nothing recorded either.
LEMMA ListedSetUp ==
    ASSUME TypeOK, StageKnown, OneAtWork, NoOverlap, Listed, NEW p \in Procs, SetUp(p)
    PROVE  Listed'
<1>1. /\ job[p].stage \in 1..7 /\ pc[p] = "setup" /\ Making(p) /\ meta' = meta
      /\ vm \in Vms /\ ~Clearing
  BY StageFacts
  DEF SetUp, StageKnown, StageKnownBy, Making, Creating, TypeOK, NoOverlap, Clearing
<1>2. CASE UNCHANGED vm
  BY <1>1, <1>2 DEF Listed
<1>3. CASE /\ vm.status = "running" /\ Needs(Stages[job[p].stage])
           /\ vm' = [vm EXCEPT
                 !.done = @ \cup {Stages[job[p].stage]},
                 !.branch = IF Stages[job[p].stage] = "repo" THEN job[p].branch ELSE @]
  <2>1. /\ vm'.status = "running"
        /\ vm'.done = vm.done \cup {Stages[job[p].stage]}
        /\ vm'.branch = IF Stages[job[p].stage] = "repo" THEN job[p].branch ELSE vm.branch
    BY <1>1, <1>3 DEF Vms
  <2>2. Stages[job[p].stage] = "repo" => "repo" \notin vm.done
    BY <1>3 DEF Needs
  <2>3. QED
    BY <1>1, <2>1, <2>2 DEF Listed
<1>4. QED
  BY <1>2, <1>3 DEF SetUp

\* Every step of a command keeps it.
LEMMA ListedStep ==
    ASSUME TypeOK, StageKnown, OneAtWork, NoOverlap, Listed,
           Faults \cap {"disk", "crash", "deleted"} = {}, NEW p \in Procs, Step(p)
    PROVE  Listed'
<1> USE DEF world, Goto, FailsOn, Finish
<1>0. vm \in Vms /\ pc \in [Procs -> Labels] /\ NoBranch \notin Branches
      /\ "absent" \notin Branches /\ "unreadable" \notin Branches
  BY ConstantsAssumption DEF TypeOK
<1>1. pc[p] # "cleanup" => \A q \in Procs : pc[q] = "cleanup" => pc'[q] = pc[q]
  BY OthersKept
<1>2. CASE pc[p] # "cleanup" /\ UNCHANGED <<vm, meta>>
  BY <1>1, <1>2, ListedQuiet
<1>3. CASE Begin(p) \/ GetVMState(p) \/ ResolveRepoInfo(p) \/ CheckAbsent(p)
  BY <1>2, <1>3 DEF Begin, GetVMState, ResolveRepoInfo, CheckAbsent
<1>4. CASE PushBranch(p) \/ RunIsolationScripts(p) \/ CopyClaudeCredentials(p)
  BY <1>2, <1>4 DEF PushBranch, RunIsolationScripts, CopyClaudeCredentials
<1>5. CASE \/ BuildVMEnvVars(p) \/ ExecInVM(p) \/ LeaveSession(p) \/ CheckExists(p)
           \/ RetryCommand(p)
  BY <1>2, <1>5 DEF BuildVMEnvVars, ExecInVM, LeaveSession, CheckExists, RetryCommand
<1>6. CASE CreateInstance(p)
  <2>1. pc[p] = "create" /\ meta' = meta
    BY <1>6 DEF CreateInstance
  <2>2. CASE UNCHANGED vm
    BY <1>2, <2>1, <2>2
  <2>3. CASE vm.status = "none" /\ vm' = [NoVm EXCEPT !.status = "stopped"]
    <3>1. vm'.branch = NoBranch /\ vm'.status = "stopped"
      BY <2>3 DEF NoVm
    <3>2. meta # "absent" => Clearing /\ Clearing'
      BY <1>1, <2>1, <2>3 DEF Listed, Clearing
    <3>3. QED
      BY <1>0, <2>1, <3>1, <3>2 DEF Listed
  <2>4. QED
    BY <1>6, <2>2, <2>3 DEF CreateInstance
<1>7. CASE StartVM(p)
  <2>1. /\ pc[p] = "boot" /\ meta' = meta
        /\ vm'.branch = vm.branch /\ vm'.done = vm.done
        /\ vm.status # "none" => vm'.status # "none"
    BY <1>0, <1>7 DEF StartVM, Vms
  <2>2. QED
    BY <1>1, <2>1, ListedQuiet
<1>8. CASE SetUp(p)
  BY <1>8, ListedSetUp
<1>9. CASE MakeMetadataDir(p) \/ WriteRepoMetadata(p)
  <2>1. Making(p) /\ job[p].stage > 1 /\ pc[p] # "cleanup"
    BY <1>9, StageFacts
    DEF MakeMetadataDir, WriteRepoMetadata, StageKnown, StageKnownBy, Making, Creating,
        RecordAfter
  <2>2. vm.status # "none" /\ vm.branch = job[p].branch
    BY <2>1 DEF OneAtWork, AtWork
  <2>3. vm' = vm /\ meta' \in {meta, "unreadable", job[p].branch}
    BY <1>9 DEF MakeMetadataDir, WriteRepoMetadata
  <2>4. Clearing => Clearing'
    BY <1>1, <2>1 DEF Clearing
  <2>5. QED
    BY <1>0, <2>2, <2>3, <2>4 DEF Listed
<1>10. CASE StopVM(p)
  <2>1. /\ pc[p] = "stop" /\ meta' = meta
        /\ vm'.branch = vm.branch /\ vm'.done = vm.done
        /\ vm.status # "none" => vm'.status # "none"
    BY <1>0, <1>10 DEF StopVM, Stopped, Vms
  <2>2. QED
    BY <1>1, <2>1, ListedQuiet
<1>11. CASE DeleteVM(p)
  <2>1. CASE UNCHANGED vm
    BY <1>2, <1>11, <2>1 DEF DeleteVM
  <2>2. CASE vm' = NoVm /\ pc' = [pc EXCEPT ![p] = "cleanup"]
    BY <1>0, <2>2 DEF NoVm, Listed, Clearing
  <2>3. QED
    BY <1>11, <2>1, <2>2 DEF DeleteVM
<1>12. CASE CleanupHostMetadata(p)
  BY <1>0, <1>12 DEF CleanupHostMetadata, Listed
<1>13. ~Crash(p)
  BY DEF Crash
<1>14. QED
  BY <1>3, <1>4, <1>5, <1>6, <1>7, <1>8, <1>9, <1>10, <1>11, <1>12, <1>13 DEF Step

\* Any number of commands of every kind, whatever fails but the disk: the metadata
\* that is left when none is under way is that of the VM there is, and if it can be
\* read it names the branch cloned there, provided that no destroy deletes a VM or
\* clears the metadata while somebody sets a VM up.
THEOREM ListedUndisturbed ==
    ASSUME Faults \cap {"disk", "crash", "deleted"} = {}
    PROVE  Spec /\ []NoOverlap => []NothingListedInVain
<1>1. Init => Listed
  <2>1. "absent" \notin Branches /\ NoBranch \notin Branches
    BY ConstantsAssumption
  <2>2. QED
    BY <2>1 DEF Init, Listed, NoVm
<1>2. TypeOK /\ StageKnown /\ OneAtWork /\ NoOverlap /\ Listed /\ [Next]_vars => Listed'
  <2> SUFFICES ASSUME TypeOK, StageKnown, OneAtWork, NoOverlap, Listed, [Next]_vars
               PROVE  Listed'
    OBVIOUS
  <2>1. CASE \E p \in Procs : Step(p)
    BY <2>1, ListedStep
  <2>2. CASE World
    <3>1. /\ meta' = meta /\ vm'.branch = vm.branch /\ vm'.done = vm.done
          /\ vm.status # "none" => vm'.status # "none"
      BY <2>2 DEF World, VmStops, VmStarts, VmLost, Stopped, TypeOK, Vms
    <3>2. \A q \in Procs : pc[q] = "cleanup" => pc'[q] = pc[q]
      BY <2>2, WorldKeeps
    <3>3. QED
      BY <3>1, <3>2, ListedQuiet
  <2>3. CASE UNCHANGED vars
    BY <2>3, ListedQuiet DEF vars
  <2>4. QED
    BY <2>1, <2>2, <2>3 DEF Next
<1>3. Listed => NothingListedInVain
  BY DEF Listed, Clearing, NothingListedInVain
<1>4. "deleted" \notin Faults
  OBVIOUS
<1>5. Spec /\ []NoOverlap => []OneAtWork
  BY <1>4, WorkHolds, PTL
<1>6. QED
  BY <1>1, <1>2, <1>3, <1>5, TypesAndStages, PTL DEF Spec

\* There is a single process, the disk does not fail, the process is not killed,
\* and nobody deletes the VM outside isolarium.
Serial ==
    /\ \A p, q \in Procs : p = q
    /\ Faults \cap {"disk", "crash", "deleted"} = {}

\* So one command at a time, whatever fails in Lima or on the host, the metadata that
\* is left when no command is under way is that of the VM there is.
THEOREM ListsNothingInVain == ASSUME Serial PROVE Spec => []NothingListedInVain
<1>1. NoOverlap /\ Faults \cap {"disk", "crash", "deleted"} = {}
  BY DEF Serial, NoOverlap, Making
<1>2. QED
  BY <1>1, ListedUndisturbed, PTL
=============================================================================
