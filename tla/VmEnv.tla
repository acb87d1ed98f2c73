--------------------------------- MODULE VmEnv ---------------------------------
(***************************************************************************)
(* One VM environment and the isolarium commands that act on it: processes *)
(* that share the Lima instance of that name and the metadata file         *)
(* ~/.isolarium/<name>/vm/metadata.json, and take no lock.  A step is one  *)
(* limactl call, one file system call or one host interaction; the label a *)
(* process is at is the call it makes next.                                *)
(*                                                                         *)
(* Setting a VM up takes many limactl shell calls after the instance is    *)
(* there, each of which may fail and end the command; nothing is undone.   *)
(***************************************************************************)
EXTENDS Naturals, Sequences

CONSTANTS
    Procs,      \* the isolarium processes
    Branches,   \* the branches the host repository may be on
    NoBranch,   \* nothing cloned, or the branch not read yet
    Commands,   \* the commands the processes may be started with
    Faults      \* what may go wrong, a subset of FaultKinds

\* clone-repo, install-tools and install-workflow-tools-from-source
Retries == {"clone-repo", "install-tools", "install-from-source"}

AllCommands == {"create", "run", "shell", "destroy"} \cup Retries

\* host: git, GitHub, keychain, pid.yaml; lima: a limactl call fails; list:
\* limactl list fails; disk: metadata I/O fails; crash: a process is killed
\* between two steps; broken, deleted: the VM is, outside isolarium.
FaultKinds == {"host", "lima", "list", "disk", "crash", "broken", "deleted"}

ASSUME ConstantsAssumption ==
    /\ Commands \subseteq AllCommands
    /\ Faults \subseteq FaultKinds
    /\ NoBranch \notin Branches
    /\ {"absent", "unreadable"} \cap (Branches \cup {NoBranch}) = {}

\* What is done inside the VM, in the order of createAndSetupVM: git clone, copy
\* of CLAUDE.md and settings, git author; SDKMAN, workflow tools, plugins, i2code.
Stages == <<"repo", "config", "author", "sdkman", "tools", "plugins", "i2code">>

\* The metadata file is written after the git author has been configured.
RecordAfter == 3

Done(n) == {Stages[i] : i \in 1..n}

VARIABLES
    vm,      \* the Lima instance of this name, what is cloned and done in it
    meta,    \* metadata.json: "absent", "unreadable" or the branch in it
    pc,      \* per process, the call it makes next
    job,     \* per process: command, branch read, next stage (0: not creating)
    result   \* per process, how its last command ended, "none" while one runs

world == <<vm, meta>>
vars == <<vm, meta, pc, job, result>>

NoVm == [status |-> "none", branch |-> NoBranch, done |-> {}]

Vms == [status : {"none", "running", "stopped", "broken"},
        branch : Branches \cup {NoBranch}, done : SUBSET Done(Len(Stages))]

NoJob == [cmd |-> "none", branch |-> NoBranch, copy |-> FALSE, stage |-> 0]

Jobs == [cmd : Commands \cup {"none"}, branch : Branches \cup {NoBranch},
         copy : BOOLEAN, stage : 0..Len(Stages) + 1]

Labels == {"idle", "getState", "resolve", "exists", "create", "boot", "push",
           "setup", "mkdir", "write", "scripts", "credentials", "env", "exec",
           "inside", "cut", "check", "recheck", "stop", "delete", "cleanup",
           "retry"}

Results == {"none", "ok", "failed", "exists", "noVm", "killed", "crashed"}

(***************************************************************************)
(* Every variable keeps to its domain, whatever the commands and faults.   *)
(***************************************************************************)
TypeOK ==
    /\ vm \in Vms
    /\ meta \in {"absent", "unreadable"} \cup Branches
    /\ pc \in [Procs -> Labels]
    /\ job \in [Procs -> Jobs]
    /\ result \in [Procs -> Results]

Init ==
    /\ vm = NoVm
    /\ meta = "absent"
    /\ pc = [p \in Procs |-> "idle"]
    /\ job = [p \in Procs |-> NoJob]
    /\ result = [p \in Procs |-> "none"]

-----------------------------------------------------------------------------

Goto(p, label) ==
    /\ pc' = [pc EXCEPT ![p] = label]
    /\ UNCHANGED result

Finish(p, r) ==
    /\ pc' = [pc EXCEPT ![p] = "idle"]
    /\ job' = [job EXCEPT ![p] = NoJob]
    /\ result' = [result EXCEPT ![p] = r]

FailsOn(kind, p) == kind \in Faults /\ Finish(p, "failed")

Creating(p) == job[p].stage > 0

\* A limactl shell session dies with the VM it runs in.
CutSessions(at) == [q \in Procs |-> IF at[q] = "inside" THEN "cut" ELSE at[q]]

\* GetVMState: a failed limactl list, or any other status, reads as none.
StatesSeen ==
    {IF vm.status \in {"running", "stopped"} THEN vm.status ELSE "none"}
    \cup (IF "list" \in Faults THEN {"none"} ELSE {})

FirstLabel(cmd) ==
    CASE cmd = "create" -> "resolve"
      [] cmd = "run" -> "getState"
      [] cmd = "shell" -> "exec"
      [] cmd = "destroy" -> "check"
      [] OTHER -> "retry"

Begin(p) ==
    /\ pc[p] = "idle"
    /\ \E cmd \in Commands, copy \in BOOLEAN :
        /\ copy => cmd = "run"
        /\ job' = [job EXCEPT ![p] = [cmd |-> cmd, branch |-> NoBranch, copy |-> copy,
                                      stage |-> IF cmd = "create" THEN 1 ELSE 0]]
        /\ pc' = [pc EXCEPT ![p] = FirstLabel(cmd)]
    /\ result' = [result EXCEPT ![p] = "none"]
    /\ UNCHANGED world

-----------------------------------------------------------------------------
\* create, and run where it finds no VM: createAndSetupVM

\* Mutant: a stopped VM is started and set up again.
GetVMStateResumes(p) ==
    /\ pc[p] = "getState"
    /\ \E state \in StatesSeen :
        \/ state = "running" /\ Goto(p, "credentials") /\ UNCHANGED job
        \/ /\ state = "stopped"
           /\ \E branch \in Branches :
                 job' = [job EXCEPT ![p].stage = 1, ![p].branch = branch]
           /\ Goto(p, "boot")
        \/ /\ state = "none"
           /\ job' = [job EXCEPT ![p].stage = 1]
           /\ Goto(p, "resolve")
    /\ UNCHANGED world

\* run: ensureVMRunning
GetVMState(p) ==
    /\ pc[p] = "getState"
    /\ \E state \in StatesSeen :
        \/ state = "running" /\ Goto(p, "credentials") /\ UNCHANGED job
        \/ state = "stopped" /\ Goto(p, "boot") /\ UNCHANGED job
        \/ /\ state = "none"
           /\ job' = [job EXCEPT ![p].stage = 1]
           /\ Goto(p, "resolve")
    /\ UNCHANGED world

\* Remote, branch and owner of the host repository
ResolveRepoInfo(p) ==
    /\ pc[p] = "resolve"
    /\ \/ FailsOn("host", p)
       \/ /\ \E branch \in Branches : job' = [job EXCEPT ![p].branch = branch]
          /\ Goto(p, "exists")
    /\ UNCHANGED world

\* CreateVM: VMExists
CheckAbsent(p) ==
    /\ pc[p] = "exists"
    /\ \/ FailsOn("list", p)
       \/ vm.status # "none" /\ Finish(p, "exists")
       \/ vm.status = "none" /\ Goto(p, "create") /\ UNCHANGED job
    /\ UNCHANGED world

\* Mutant: an instance that has the name already is taken for the new one.
CreateInstanceOrReuse(p) ==
    /\ pc[p] = "create"
    /\ vm' = IF vm.status = "none" THEN [NoVm EXCEPT !.status = "stopped"] ELSE vm
    /\ Goto(p, "boot")
    /\ UNCHANGED <<meta, job>>

\* limactl create, which refuses a name in use and may fail half way
CreateInstance(p) ==
    /\ pc[p] = "create"
    /\ \/ vm.status # "none" /\ Finish(p, "failed") /\ UNCHANGED vm
       \/ /\ vm.status = "none"
          /\ vm' \in {vm, [NoVm EXCEPT !.status = "stopped"]}
          /\ FailsOn("lima", p)
       \/ /\ vm.status = "none"
          /\ vm' = [NoVm EXCEPT !.status = "stopped"]
          /\ Goto(p, "boot")
          /\ UNCHANGED job
    /\ UNCHANGED meta

\* Mutant: a VM that cannot be started is tried again.
StartVMRetries(p) ==
    /\ pc[p] = "boot"
    /\ \/ vm.status \in {"none", "broken"} /\ UNCHANGED <<vm, pc, job, result>>
       \/ /\ vm.status = "stopped"
          /\ \E status \in {"stopped", "running", "broken"} :
                vm' = [vm EXCEPT !.status = status]
          /\ FailsOn("lima", p)
       \/ /\ vm.status \in {"stopped", "running"}
          /\ vm' = [vm EXCEPT !.status = "running"]
          /\ Goto(p, IF Creating(p) THEN "push" ELSE "credentials")
          /\ UNCHANGED job
    /\ UNCHANGED meta

\* Mutant: once the VM is started, its state is asked for again.
StartVMThenLook(p) ==
    /\ pc[p] = "boot"
    /\ \/ vm.status \in {"none", "broken"} /\ Finish(p, "failed") /\ UNCHANGED vm
       \/ /\ vm.status \in {"stopped", "running"}
          /\ vm' = [vm EXCEPT !.status = "running"]
          /\ Goto(p, IF Creating(p) THEN "push" ELSE "getState")
          /\ UNCHANGED job
    /\ UNCHANGED meta

\* limactl start
StartVM(p) ==
    /\ pc[p] = "boot"
    /\ \/ vm.status \in {"none", "broken"} /\ Finish(p, "failed") /\ UNCHANGED vm
       \/ /\ vm.status = "stopped"
          /\ \E status \in {"stopped", "running", "broken"} :
                vm' = [vm EXCEPT !.status = status]
          /\ FailsOn("lima", p)
       \/ /\ vm.status \in {"stopped", "running"}
          /\ vm' = [vm EXCEPT !.status = "running"]
          /\ Goto(p, IF Creating(p) THEN "push" ELSE "credentials")
          /\ UNCHANGED job
    /\ UNCHANGED meta

\* Mutant: the metadata is written before the clone.
PushBranchThenRecord(p) ==
    /\ pc[p] = "push"
    /\ \/ FailsOn("host", p)
       \/ Goto(p, "mkdir") /\ UNCHANGED job
    /\ UNCHANGED world

\* git push and the minting of a token
PushBranch(p) ==
    /\ pc[p] = "push"
    /\ \/ FailsOn("host", p)
       \/ Goto(p, "setup") /\ UNCHANGED job
    /\ UNCHANGED world

\* What a stage needs to find in the VM: git clone refuses a directory that is
\* there, and the later ones change into the directory of an earlier one.
Needs(stage) ==
    CASE stage = "repo" -> "repo" \notin vm.done
      [] stage = "tools" -> "tools" \notin vm.done
      [] stage = "author" -> "repo" \in vm.done
      [] stage \in {"plugins", "i2code"} -> "tools" \in vm.done
      [] OTHER -> TRUE

\* Mutant: the last stage is left out.
AfterStageStopsShort(n) ==
    IF n = RecordAfter THEN "mkdir" ELSE IF n = Len(Stages) - 1 THEN "scripts" ELSE "setup"

AfterStage(n) ==
    IF n = RecordAfter THEN "mkdir" ELSE IF n = Len(Stages) THEN "scripts" ELSE "setup"

\* One limactl shell of CloneRepo, configureVMGitAuthor, InstallUsingSDKMAN or
\* installWorkflowTools.  Copying the files may create ~/repo.
SetUp(p) ==
    /\ pc[p] = "setup"
    /\ LET n == job[p].stage
           stage == Stages[n]
       IN \/ FailsOn("lima", p) /\ UNCHANGED vm
          \/ stage \in {"config", "author"} /\ FailsOn("host", p) /\ UNCHANGED vm
          \/ /\ \/ vm.status # "running"
                \/ ~Needs(stage)
                \/ stage = "repo" /\ "config" \in vm.done
             /\ Finish(p, "failed")
             /\ UNCHANGED vm
          \/ /\ vm.status = "running" /\ Needs(stage)
             /\ vm' = [vm EXCEPT !.done = @ \cup {stage},
                                 !.branch = IF stage = "repo" THEN job[p].branch ELSE @]
             /\ job' = [job EXCEPT ![p].stage = n + 1]
             /\ Goto(p, AfterStage(n))
    /\ UNCHANGED meta

\* WriteRepoMetadata: os.MkdirAll, then os.WriteFile
MakeMetadataDir(p) ==
    /\ pc[p] = "mkdir"
    /\ \/ FailsOn("disk", p) /\ UNCHANGED meta
       \/ /\ meta' = IF meta = "absent" THEN "unreadable" ELSE meta
          /\ Goto(p, "write")
          /\ UNCHANGED job
    /\ UNCHANGED vm

\* Mutant: the branch is left out of the record.
WriteMetadataOfNoBranch(p) ==
    /\ pc[p] = "write"
    /\ meta # "absent"
    /\ meta' = NoBranch
    /\ Goto(p, "setup")
    /\ UNCHANGED <<vm, job>>

WriteRepoMetadata(p) ==
    /\ pc[p] = "write"
    /\ \/ meta = "absent" /\ Finish(p, "failed") /\ UNCHANGED meta
       \/ /\ meta # "absent"
          /\ meta' \in {meta, "unreadable"}
          /\ FailsOn("disk", p)
       \/ /\ meta # "absent"
          /\ meta' = job[p].branch
          /\ Goto(p, "setup")
          /\ UNCHANGED job
    /\ UNCHANGED vm

\* pid.yaml and its scripts, if any; their exit codes do not matter.
RunIsolationScripts(p) ==
    /\ pc[p] = "scripts"
    /\ \/ FailsOn("host", p) \/ FailsOn("lima", p)
       \/ vm.status # "running" /\ Finish(p, "failed")
       \/ job[p].cmd = "create" /\ Finish(p, "ok")
       \/ job[p].cmd # "create" /\ Goto(p, "credentials") /\ UNCHANGED job
    /\ UNCHANGED world

-----------------------------------------------------------------------------
\* run and shell: the session

CopyClaudeCredentials(p) ==
    /\ pc[p] = "credentials"
    /\ \/ /\ job[p].copy
          /\ \/ FailsOn("host", p) \/ FailsOn("lima", p)
             \/ vm.status # "running" /\ Finish(p, "failed")
       \/ /\ job[p].copy => vm.status = "running"
          /\ Goto(p, "env")
          /\ UNCHANGED job
    /\ UNCHANGED world

\* buildVMEnvVars: pid.yaml and a fresh token
BuildVMEnvVars(p) ==
    /\ pc[p] = "env"
    /\ FailsOn("host", p) \/ (Goto(p, "exec") /\ UNCHANGED job)
    /\ UNCHANGED world

\* GetVMHomeDir and limactl shell --workdir ~/repo, both of execInVM and OpenShell
ExecInVM(p) ==
    /\ pc[p] = "exec"
    /\ \/ FailsOn("lima", p)
       \/ (vm.status # "running" \/ "repo" \notin vm.done) /\ Finish(p, "failed")
       \/ /\ vm.status = "running" /\ "repo" \in vm.done
          /\ Goto(p, "inside")
          /\ UNCHANGED job
    /\ UNCHANGED world

\* The command inside ends, by itself or because its VM went away.
LeaveSession(p) ==
    /\ \/ pc[p] = "inside" /\ Finish(p, "ok")
       \/ pc[p] = "cut" /\ Finish(p, "killed")
    /\ UNCHANGED world

-----------------------------------------------------------------------------
\* destroy

\* VMExists is asked twice, by destroyVM and by DestroyVM; without a VM destroy
\* is done, and the metadata stays.
CheckExists(p) ==
    /\ pc[p] \in {"check", "recheck"}
    /\ \/ FailsOn("list", p)
       \/ vm.status = "none" /\ Finish(p, "ok")
       \/ /\ vm.status # "none"
          /\ Goto(p, IF pc[p] = "check" THEN "recheck" ELSE "stop")
          /\ UNCHANGED job
    /\ UNCHANGED world

Stopped(v) == [v EXCEPT !.status = IF v.status = "running" THEN "stopped" ELSE @]

\* limactl stop, whose failure is ignored
StopVM(p) ==
    /\ pc[p] = "stop"
    /\ \/ /\ vm' = Stopped(vm)
          /\ pc' = CutSessions([pc EXCEPT ![p] = "delete"])
       \/ /\ "lima" \in Faults
          /\ pc' = [pc EXCEPT ![p] = "delete"]
          /\ UNCHANGED vm
    /\ UNCHANGED <<meta, job, result>>

\* Mutant: the metadata is left behind.
DeleteVMOnly(p) ==
    /\ pc[p] = "delete"
    /\ \/ FailsOn("lima", p) /\ UNCHANGED vm
       \/ vm.status \in {"running", "broken"} /\ Finish(p, "failed") /\ UNCHANGED vm
       \/ vm.status # "running" /\ vm' = NoVm /\ Finish(p, "ok")
    /\ UNCHANGED meta

\* limactl delete without --force: not while the VM runs, perhaps not a broken
\* one, and nothing to do for one that is gone
DeleteVM(p) ==
    /\ pc[p] = "delete"
    /\ \/ FailsOn("lima", p) /\ UNCHANGED vm
       \/ vm.status \in {"running", "broken"} /\ Finish(p, "failed") /\ UNCHANGED vm
       \/ /\ vm.status # "running"
          /\ vm' = NoVm
          /\ Goto(p, "cleanup")
          /\ UNCHANGED job
    /\ UNCHANGED meta

\* A removal that fails or is killed half way may have got at the file already and
\* leave the empty directory.
HalfRemoved == {meta, IF meta = "absent" THEN "absent" ELSE "unreadable"}

\* os.RemoveAll of the metadata directory
CleanupHostMetadata(p) ==
    /\ pc[p] = "cleanup"
    /\ \/ FailsOn("disk", p) /\ meta' \in HalfRemoved
       \/ meta' = "absent" /\ Finish(p, "ok")
    /\ UNCHANGED vm

\* clone-repo and the install commands ask for the state of the VM named "": no
\* flag sets vmNameFlag, so limactl lists no such VM and they go no further.
RetryCommand(p) ==
    /\ pc[p] = "retry"
    /\ Finish(p, "noVm")
    /\ UNCHANGED world

\* The process is killed: in the middle of a write the file is left truncated, in
\* the middle of a removal the directory may be left without it.
Crash(p) ==
    /\ "crash" \in Faults
    /\ pc[p] # "idle"
    /\ \/ UNCHANGED meta
       \/ pc[p] = "write" /\ meta \in Branches /\ meta' = "unreadable"
       \/ pc[p] = "cleanup" /\ meta' \in HalfRemoved
    /\ Finish(p, "crashed")
    /\ UNCHANGED vm

Step(p) ==
    \/ Begin(p) \/ GetVMState(p)
    \/ ResolveRepoInfo(p) \/ CheckAbsent(p) \/ CreateInstance(p) \/ StartVM(p)
    \/ PushBranch(p) \/ SetUp(p) \/ MakeMetadataDir(p) \/ WriteRepoMetadata(p)
    \/ RunIsolationScripts(p)
    \/ CopyClaudeCredentials(p) \/ BuildVMEnvVars(p) \/ ExecInVM(p) \/ LeaveSession(p)
    \/ CheckExists(p) \/ StopVM(p) \/ DeleteVM(p) \/ CleanupHostMetadata(p)
    \/ RetryCommand(p)
    \/ Crash(p)

-----------------------------------------------------------------------------
\* The world outside isolarium

\* The host reboots, the VM shuts down, or limactl stop
VmStops ==
    /\ vm.status = "running"
    /\ vm' = Stopped(vm)
    /\ pc' = CutSessions(pc)
    /\ UNCHANGED <<meta, job, result>>

\* limactl start by the user
VmStarts ==
    /\ vm.status = "stopped"
    /\ vm' = [vm EXCEPT !.status = "running"]
    /\ UNCHANGED <<meta, pc, job, result>>

\* limactl delete by the user, or an instance Lima can no longer use
VmLost ==
    /\ vm.status = "stopped"
    /\ \E loss \in Faults \cap {"broken", "deleted"} :
          vm' = IF loss = "deleted" THEN NoVm ELSE [vm EXCEPT !.status = "broken"]
    /\ UNCHANGED <<meta, pc, job, result>>

World == VmStops \/ VmStarts \/ VmLost

Next == (\E p \in Procs : Step(p)) \/ World

Spec == Init /\ [][Next]_vars

\* Lima, git and the file system answer every call, so a command that is not in
\* its session keeps going; it may start, be killed or end its session any time.
Progress(p) == pc[p] \notin {"idle", "inside"} /\ Step(p) /\ ~Crash(p)

FairSpec == Spec /\ \A p \in Procs : WF_vars(Progress(p))

-----------------------------------------------------------------------------
\* Properties

\* A readable metadata file names the branch that is cloned in the VM there is.
RecordMatchesClone ==
    meta \in Branches => vm.status # "none" /\ vm.branch = meta

\* A process that is setting a VM up finds in it what it has done itself and
\* nothing else: limactl create lets one creator through, and whoever comes
\* later, a run included, fails or takes the VM as it is.
SetsUpAlone ==
    \A p \in Procs :
        pc[p] \in {"setup", "mkdir", "write"} =>
            vm.status # "none" /\ vm.done = Done(job[p].stage - 1)

\* Why both hold when nothing deletes VMs: of the processes at work on a VM they
\* have created there is at most one, and the VM and the metadata are as far as
\* that process has come.
Making(p) ==
    /\ Creating(p)
    /\ pc[p] \in {"boot", "push", "setup", "mkdir", "write", "scripts"}

Recorded(p) == pc[p] = "scripts" \/ (pc[p] = "setup" /\ job[p].stage > RecordAfter)

AtItsPlace(p) ==
    /\ vm.status # "none"
    /\ vm.done = Done(job[p].stage - 1)
    /\ job[p].stage > 1 => vm.branch = job[p].branch
    /\ IF Recorded(p) THEN meta = job[p].branch ELSE meta \notin Branches

OneMaker ==
    /\ \A p, q \in Procs : Making(p) /\ Making(q) => p = q
    /\ \A p \in Procs : Making(p) => AtItsPlace(p)

\* When create reports success the VM has been set up in full from the branch
\* create read on the host, and the metadata says so.
CreateDelivers ==
    [][\A p \in Procs :
          /\ job[p].cmd = "create" /\ result'[p] = "ok"
          /\ pc[p] # "idle"
          => vm.done = Done(Len(Stages)) /\ vm.branch = job[p].branch /\ meta = vm.branch]_vars

\* The contest between creates of this name, as its users see it.
Readable == IF meta \in Branches THEN meta ELSE NoBranch

Wanted == [p \in Procs |-> IF job[p].cmd = "create" THEN job[p].branch ELSE NoBranch]

Contest == INSTANCE CreateContest WITH
    Users <- Procs, Values <- Branches, NoValue <- NoBranch,
    content <- vm.branch, record <- Readable, want <- Wanted,
    pleased <- [p \in Procs |-> result[p] = "ok"]

\* As long as nothing deletes VMs, the commands keep the promise of CreateContest:
\* a VM gets its clone once, the record names that branch or cannot be read, and a
\* create that is told of success has the branch it read on the host.
ContestKept == Contest!Spec

\* Once no command is under way, there is metadata only if there is a VM, and it
\* can be read only if it names the branch cloned in that VM: status lists nothing
\* that is gone, and no VM under the branch of an earlier one.
NothingListedInVain ==
    (\A p \in Procs : pc[p] = "idle") /\ meta # "absent" =>
        vm.status # "none" /\ (meta \in Branches => vm.branch = meta)

\* A command that has started ends or reaches its session, whatever becomes of the
\* VM meanwhile; none waits for a VM that is stopped, broken or gone.
CommandsReturn ==
    \A p \in Procs : pc[p] # "idle" ~> pc[p] \in {"idle", "inside"}

\* The calls a command has before it at most, from the call it makes next on; how
\* many are left of the set-up depends on the stage that is next.
CallsFrom(label, stage) ==
    CASE label = "idle" -> 0
      [] label \in {"cut", "cleanup", "retry"} -> 1
      [] label \in {"inside", "delete"} -> 2
      [] label \in {"exec", "stop"} -> 3
      [] label \in {"env", "recheck"} -> 4
      [] label \in {"credentials", "check"} -> 5
      [] label = "scripts" -> 6
      [] label = "setup" -> (IF stage > RecordAfter THEN 14 ELSE 16) - stage
      [] label = "write" -> 11
      [] label = "mkdir" -> 12
      [] label = "push" -> 16
      [] label = "boot" -> 17
      [] label = "create" -> 18
      [] label = "exists" -> 19
      [] label = "resolve" -> 20
      [] label = "getState" -> 21

CallsLeft(p) == CallsFrom(pc[p], job[p].stage)

\* No command repeats or goes back to a call or a stage of the set-up: every step of
\* a command that is under way leaves fewer calls, and no step of another process
\* or of the world leaves more.
CallsRunOut ==
    [][\A p \in Procs : pc[p] # "idle" =>
          /\ CallsLeft(p)' <= CallsLeft(p)
          /\ Step(p) => CallsLeft(p)' < CallsLeft(p)]_vars

\* The retry commands find the VM a failed create has left behind.
RetryFindsVm ==
    [][\A p \in Procs :
          pc[p] = "retry" /\ vm.status # "none" => result'[p] # "noVm"]_vars
=============================================================================
