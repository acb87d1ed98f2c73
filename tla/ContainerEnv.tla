----------------------------- MODULE ContainerEnv -----------------------------
(***************************************************************************)
(* One container environment and the isolarium commands that act on it.    *)
(*                                                                         *)
(* The commands are separate processes of the same binary: they share the  *)
(* Docker container of that name, the image tag derived from the name and  *)
(* the metadata file ~/.isolarium/<name>/container/metadata.json, and they *)
(* take no lock.  A step of a process is one docker command, one file      *)
(* system call or one host interaction; everything between two such calls  *)
(* is local.  The label a process is at is the call it makes next.         *)
(***************************************************************************)
EXTENDS Naturals, FiniteSets

CONSTANTS
    Procs,      \* the isolarium processes
    Dirs,       \* host work directories (--work-directory)
    Images,     \* image IDs docker build can produce
    NoDir, NoImage, \* no directory, no image (the code's "")
    Commands,   \* the commands the processes may be started with
    Faults      \* what may go wrong, a subset of FaultKinds

AllCommands == {"create", "run", "run --create", "shell", "destroy"}

\* host: pid.yaml, git, keychain, host script; docker: a docker command fails;
\* inspect: docker inspect fails; disk: metadata I/O fails; crash: a process is
\* killed between two steps; prune: stopped containers are removed outside.
FaultKinds == {"host", "docker", "inspect", "disk", "crash", "prune"}

ASSUME ConstantsAssumption ==
    /\ Commands \subseteq AllCommands
    /\ Faults \subseteq FaultKinds
    /\ NoDir \notin Dirs
    /\ NoImage \notin Images

ASSUME DirsAreNotMarks ==
    {"absent", "unreadable"} \cap (Dirs \cup {NoDir}) = {}

VARIABLES
    container,  \* the Docker container of this name
    tag,        \* the image isolarium-<name>:latest points at
    recipe,     \* per directory, the image a build there yields now
    meta,       \* metadata.json: "absent", "unreadable" or the directory in it
    pc,         \* per process, the call it makes next
    job,        \* per process, its command line and what it has decided
    result      \* per process, how its last command ended, "none" while one runs

world == <<container, tag, recipe, meta>>
vars == <<container, tag, recipe, meta, pc, job, result>>

NoContainer == [status |-> "none", dir |-> NoDir, image |-> NoImage]

Containers == [status : {"none", "created", "running", "exited"},
               dir : Dirs \cup {NoDir}, image : Images \cup {NoImage}]

NoJob == [cmd |-> "none", dir |-> NoDir, copy |-> FALSE, plan |-> "use",
          old |-> NoImage]

Plans == {"use", "create", "replace", "rebuild", "destroy"}

Jobs == [cmd : Commands \cup {"none"}, dir : Dirs \cup {NoDir},
         copy : BOOLEAN, plan : Plans, old : Images \cup {NoImage}]

Labels == {"idle", "getState", "compareDir", "prepare", "oldImage", "build",
           "newImage", "remove", "cleanup", "start", "mkdir", "write",
           "scripts", "credentials", "env", "checkRunning", "exec", "inside",
           "cut"}

Results == {"none", "ok", "failed", "nameInUse", "stopped", "killed", "crashed"}

(***************************************************************************)
(* Every variable keeps to its domain, whatever the commands and faults.   *)
(***************************************************************************)
TypeOK ==
    /\ container \in Containers
    /\ tag \in Images \cup {NoImage}
    /\ recipe \in [Dirs -> Images]
    /\ meta \in {"absent", "unreadable"} \cup Dirs
    /\ pc \in [Procs -> Labels]
    /\ job \in [Procs -> Jobs]
    /\ result \in [Procs -> Results]

Init ==
    /\ container = NoContainer
    /\ tag = NoImage
    /\ recipe \in [Dirs -> Images]
    /\ meta = "absent"
    /\ pc = [p \in Procs |-> "idle"]
    /\ job = [p \in Procs |-> NoJob]
    /\ result = [p \in Procs |-> "none"]

-----------------------------------------------------------------------------

Goto(p, label) ==
    /\ pc' = [pc EXCEPT ![p] = label]
    /\ UNCHANGED result

Finish(p, r) ==
    /\ pc' = [pc EXCEPT ![p] = "idle"]
    /\ job' = [job EXCEPT ![p] = NoJob]
    /\ result' = [result EXCEPT ![p] = r]

FailsOn(kind, p) == kind \in Faults /\ Finish(p, "failed")

Creating(p) == job[p].plan \in {"create", "replace"}

\* A docker exec session dies with the container it runs in.
CutSessions(at) == [q \in Procs |-> IF at[q] = "inside" THEN "cut" ELSE at[q]]

\* GetState: every status but running and exited reads as none, and so does a
\* failed docker inspect.
StatesSeen ==
    (CASE container.status = "running" -> {"running"}
       [] container.status = "exited" -> {"stopped"}
       [] OTHER -> {"none"})
    \cup (IF "inspect" \in Faults THEN {"none"} ELSE {})

\* containerImageID and imageIDForTag: a failed docker inspect reads as "".
ImagesSeen(image) ==
    {image} \cup (IF "inspect" \in Faults THEN {NoImage} ELSE {})

FirstLabel(cmd) ==
    CASE cmd = "create" -> "prepare"
      [] cmd = "run --create" -> "getState"
      [] cmd = "destroy" -> "remove"
      [] OTHER -> "credentials"

Begin(p) ==
    /\ pc[p] = "idle"
    /\ \E cmd \in Commands, dir \in Dirs \cup {NoDir}, copy \in BOOLEAN :
        /\ (dir # NoDir) <=> (cmd \in {"create", "run --create"})
        /\ copy => cmd \in {"run", "run --create", "shell"}
        /\ job' = [job EXCEPT ![p] =
                [cmd |-> cmd, dir |-> dir, copy |-> copy, old |-> NoImage,
                 plan |-> IF cmd \in {"create", "destroy"} THEN cmd ELSE "use"]]
        /\ pc' = [pc EXCEPT ![p] = FirstLabel(cmd)]
    /\ result' = [result EXCEPT ![p] = "none"]
    /\ UNCHANGED world

-----------------------------------------------------------------------------
\* run --create: createIfNeeded

GetState(p) ==
    /\ pc[p] = "getState"
    /\ \E state \in StatesSeen :
        \/ /\ state = "none"
           /\ job' = [job EXCEPT ![p].plan = "create"]
           /\ Goto(p, "prepare")
        \/ /\ state # "none"
           /\ Goto(p, "compareDir")
           /\ UNCHANGED job
    /\ UNCHANGED world

\* Mutant: metadata that cannot be read counts as changed.
WorkDirectoryChangedIfUnreadable(p) == meta # job[p].dir

\* An unreadable metadata file counts as "not changed".
WorkDirectoryChanged(p) == meta \in Dirs /\ meta # job[p].dir

CompareDir(p) ==
    /\ pc[p] = "compareDir"
    /\ \/ /\ WorkDirectoryChanged(p)
          /\ job' = [job EXCEPT ![p].plan = "replace"]
          /\ Goto(p, "remove")
       \/ /\ ~WorkDirectoryChanged(p)
          /\ job' = [job EXCEPT ![p].plan = "rebuild"]
          /\ Goto(p, "prepare")
    /\ UNCHANGED world

\* containerImageID, before the build of RebuildIfChanged
OldImage(p) ==
    /\ pc[p] = "oldImage"
    /\ \E image \in ImagesSeen(container.image) :
          job' = [job EXCEPT ![p].old = image]
    /\ Goto(p, "build")
    /\ UNCHANGED world

\* Mutant: the comparison of the image IDs is inverted.
NewImageInverted(p) ==
    /\ pc[p] = "newImage"
    /\ \E image \in ImagesSeen(tag) :
          Goto(p, IF job[p].old # image THEN "credentials" ELSE "remove")
    /\ UNCHANGED <<world, job>>

\* Mutant: the rebuilt image is not compared at all.
NewImageIgnored(p) ==
    /\ pc[p] = "newImage"
    /\ Goto(p, "credentials")
    /\ UNCHANGED <<world, job>>

\* imageIDForTag, after it: same image, nothing to do; otherwise recreate
NewImage(p) ==
    /\ pc[p] = "newImage"
    /\ \E image \in ImagesSeen(tag) :
          Goto(p, IF job[p].old = image THEN "credentials" ELSE "remove")
    /\ UNCHANGED <<world, job>>

-----------------------------------------------------------------------------
\* The steps create, run --create and destroy share

\* Temporary context, worktree detection, pid.yaml, build arguments, I2CODE
\* version and (for Create) docker info: they fail or they do not.
Prepare(p) ==
    /\ pc[p] = "prepare"
    /\ \/ FailsOn("host", p)
       \/ Creating(p) /\ FailsOn("docker", p)
       \/ /\ Goto(p, IF Creating(p) THEN "build" ELSE "oldImage")
          /\ UNCHANGED job
    /\ UNCHANGED world

\* Mutant: create records its metadata before it starts the container.
BuildImageThenRecord(p) ==
    /\ pc[p] = "build"
    /\ \/ FailsOn("docker", p) /\ UNCHANGED tag
       \/ /\ tag' = recipe[job[p].dir]
          /\ Goto(p, IF Creating(p) THEN "mkdir" ELSE "newImage")
          /\ UNCHANGED job
    /\ UNCHANGED <<container, recipe, meta>>

\* docker build -t tag moves the tag, whoever else uses it.
BuildImage(p) ==
    /\ pc[p] = "build"
    /\ \/ FailsOn("docker", p) /\ UNCHANGED tag
       \/ /\ tag' = recipe[job[p].dir]
          /\ Goto(p, IF Creating(p) THEN "start" ELSE "newImage")
          /\ UNCHANGED job
    /\ UNCHANGED <<container, recipe, meta>>

\* docker rm -f; it succeeds when there is nothing to remove.
Remove(p) ==
    /\ pc[p] = "remove"
    /\ \/ FailsOn("docker", p) /\ UNCHANGED container
       \/ /\ container' = NoContainer
          /\ pc' = CutSessions([pc EXCEPT ![p] = "cleanup"])
          /\ UNCHANGED <<job, result>>
    /\ UNCHANGED <<tag, recipe, meta>>

\* A removal that fails or is killed half way may have got at the file already and
\* leave the empty directory.
HalfRemoved == {meta, IF meta = "absent" THEN "absent" ELSE "unreadable"}

\* Mutant: a recreated container is compared with its image again.
CleanupThenCompare(p) ==
    /\ pc[p] = "cleanup"
    /\ \/ FailsOn("disk", p) /\ meta' \in HalfRemoved
       \/ /\ meta' = "absent"
          /\ \/ job[p].plan = "destroy" /\ Finish(p, "ok")
             \/ job[p].plan = "replace" /\ Goto(p, "prepare") /\ UNCHANGED job
             \/ job[p].plan = "rebuild" /\ Goto(p, "oldImage") /\ UNCHANGED job
    /\ UNCHANGED <<container, tag, recipe>>

\* os.RemoveAll of the metadata directory, then whatever Destroy was part of
Cleanup(p) ==
    /\ pc[p] = "cleanup"
    /\ \/ FailsOn("disk", p) /\ meta' \in HalfRemoved
       \/ /\ meta' = "absent"
          /\ \/ job[p].plan = "destroy" /\ Finish(p, "ok")
             \/ job[p].plan = "replace" /\ Goto(p, "prepare") /\ UNCHANGED job
             \/ job[p].plan = "rebuild" /\ Goto(p, "start") /\ UNCHANGED job
    /\ UNCHANGED <<container, tag, recipe>>

\* Mutant: a container that has the name already is taken for the new one.
StartContainerOrReuse(p) ==
    /\ pc[p] = "start"
    /\ container' = IF container.status = "none"
                    THEN [status |-> "running", dir |-> job[p].dir, image |-> tag]
                    ELSE container
    /\ Goto(p, "mkdir")
    /\ UNCHANGED <<tag, recipe, meta, job>>

\* docker run -d --name: refused while any container has the name.  A run that
\* fails may leave the container created but not started.
StartContainer(p) ==
    /\ pc[p] = "start"
    /\ \/ /\ container.status # "none"
          /\ Finish(p, "nameInUse")
          /\ UNCHANGED container
       \/ /\ container.status = "none"
          /\ container' = [status |-> "running", dir |-> job[p].dir, image |-> tag]
          /\ Goto(p, "mkdir")
          /\ UNCHANGED job
       \/ /\ container.status = "none"
          /\ container' \in {container,
                [status |-> "created", dir |-> job[p].dir, image |-> tag]}
          /\ FailsOn("docker", p)
    /\ UNCHANGED <<tag, recipe, meta>>

\* os.MkdirAll of the metadata directory
MakeMetadataDir(p) ==
    /\ pc[p] = "mkdir"
    /\ \/ FailsOn("disk", p) /\ UNCHANGED meta
       \/ /\ meta' = IF meta = "absent" THEN "unreadable" ELSE meta
          /\ Goto(p, "write")
          /\ UNCHANGED job
    /\ UNCHANGED <<container, tag, recipe>>

\* Mutant: the directory recorded is read back from the container.
WriteMetadataOfContainer(p) ==
    /\ pc[p] = "write"
    /\ meta # "absent"
    /\ meta' = container.dir
    /\ Goto(p, IF Creating(p) THEN "scripts" ELSE "credentials")
    /\ UNCHANGED <<container, tag, recipe, job>>

\* os.WriteFile of metadata.json: it fails when another process has removed
\* the directory, and a failed write may have truncated the file.
WriteMetadata(p) ==
    /\ pc[p] = "write"
    /\ \/ /\ meta = "absent"
          /\ Finish(p, "failed")
          /\ UNCHANGED meta
       \/ /\ meta # "absent"
          /\ meta' \in {meta, "unreadable"}
          /\ FailsOn("disk", p)
       \/ /\ meta # "absent"
          /\ meta' = job[p].dir
          /\ Goto(p, IF Creating(p) THEN "scripts" ELSE "credentials")
          /\ UNCHANGED job
    /\ UNCHANGED <<container, tag, recipe>>

\* Host scripts fail the command; the exit code of an env script does not.
PostCreationScripts(p) ==
    /\ pc[p] = "scripts"
    /\ \/ FailsOn("host", p)
       \/ /\ job[p].cmd = "create"
          /\ Finish(p, "ok")
       \/ /\ job[p].cmd # "create"
          /\ Goto(p, "credentials")
          /\ UNCHANGED job
    /\ UNCHANGED world

-----------------------------------------------------------------------------
\* run and shell: the session

\* Keychain read, then three docker exec into the container
CopyCredentials(p) ==
    /\ pc[p] = "credentials"
    /\ \/ /\ job[p].copy
          /\ \/ FailsOn("host", p)
             \/ FailsOn("docker", p)
             \/ container.status # "running" /\ Finish(p, "failed")
       \/ /\ job[p].copy => container.status = "running"
          /\ Goto(p, "env")
          /\ UNCHANGED job
    /\ UNCHANGED world

\* buildContainerEnvVars or buildShellEnvVars; shell skips the state check.
BuildEnvVars(p) ==
    /\ pc[p] = "env"
    /\ \/ job[p].cmd # "shell" /\ FailsOn("host", p)
       \/ /\ Goto(p, IF job[p].cmd = "shell" THEN "exec" ELSE "checkRunning")
          /\ UNCHANGED job
    /\ UNCHANGED world

EnsureContainerRunning(p) ==
    /\ pc[p] = "checkRunning"
    /\ \E state \in StatesSeen :
        \/ state = "stopped" /\ Finish(p, "stopped")
        \/ state # "stopped" /\ Goto(p, "exec") /\ UNCHANGED job
    /\ UNCHANGED world

\* docker exec: without a running container it exits non-zero at once.
Exec(p) ==
    /\ pc[p] = "exec"
    /\ \/ FailsOn("docker", p)
       \/ container.status # "running" /\ Finish(p, "failed")
       \/ container.status = "running" /\ Goto(p, "inside") /\ UNCHANGED job
    /\ UNCHANGED world

\* The command inside ends, by itself or because its container went away.
LeaveSession(p) ==
    /\ \/ pc[p] = "inside" /\ Finish(p, "ok")
       \/ pc[p] = "cut" /\ Finish(p, "killed")
    /\ UNCHANGED world

\* The process is killed: in the middle of a write the file is left truncated, in
\* the middle of a removal the directory may be left without it.
Crash(p) ==
    /\ "crash" \in Faults
    /\ pc[p] # "idle"
    /\ \/ UNCHANGED meta
       \/ pc[p] = "write" /\ meta \in Dirs /\ meta' = "unreadable"
       \/ pc[p] = "cleanup" /\ meta' \in HalfRemoved
    /\ Finish(p, "crashed")
    /\ UNCHANGED <<container, tag, recipe>>

Step(p) ==
    \/ Begin(p)
    \/ GetState(p) \/ CompareDir(p) \/ OldImage(p) \/ NewImage(p)
    \/ Prepare(p) \/ BuildImage(p) \/ Remove(p) \/ Cleanup(p)
    \/ StartContainer(p) \/ MakeMetadataDir(p) \/ WriteMetadata(p)
    \/ PostCreationScripts(p)
    \/ CopyCredentials(p) \/ BuildEnvVars(p) \/ EnsureContainerRunning(p)
    \/ Exec(p) \/ LeaveSession(p)
    \/ Crash(p)

-----------------------------------------------------------------------------
\* The world outside isolarium

\* The container's main process ends, the host reboots, or docker stop.
ContainerExits ==
    /\ container.status = "running"
    /\ container' = [container EXCEPT !.status = "exited"]
    /\ pc' = CutSessions(pc)
    /\ UNCHANGED <<tag, recipe, meta, job, result>>

\* docker start, which no isolarium command runs
ContainerRestarts ==
    /\ container.status = "exited"
    /\ container' = [container EXCEPT !.status = "running"]
    /\ UNCHANGED <<tag, recipe, meta, pc, job, result>>

\* docker container prune
Prune ==
    /\ "prune" \in Faults
    /\ container.status = "exited"
    /\ container' = NoContainer
    /\ UNCHANGED <<tag, recipe, meta, pc, job, result>>

\* pid.yaml, a script, the Dockerfile, a base image or the i2code head changes.
RecipeChanges ==
    /\ \E dir \in Dirs, image \in Images : recipe' = [recipe EXCEPT ![dir] = image]
    /\ UNCHANGED <<container, tag, meta, pc, job, result>>

World == ContainerExits \/ ContainerRestarts \/ Prune \/ RecipeChanges

Next == (\E p \in Procs : Step(p)) \/ World

Spec == Init /\ [][Next]_vars

\* Docker and the file system answer every call, so a command that is not in
\* its session keeps going; it may start, be killed or end its session any time.
Progress(p) == pc[p] \notin {"idle", "inside"} /\ Step(p) /\ ~Crash(p)

FairSpec == Spec /\ \A p \in Procs : WF_vars(Progress(p))

-----------------------------------------------------------------------------
\* Properties

\* Why TypeOK holds: whoever builds an image, starts a container or writes a
\* record was given a directory on its command line.
DirKnownBy(p) ==
    \/ pc[p] \in {"getState", "compareDir", "prepare", "oldImage", "build",
                 "newImage", "start", "mkdir", "write"}
    \/ job[p].plan \in {"create", "replace", "rebuild"}
    => job[p].dir \in Dirs

DirKnown == \A p \in Procs : DirKnownBy(p)

\* A readable metadata file describes the container there is: it exists and has
\* the recorded directory mounted.  Docker's refusal of a second container of
\* the same name is all that keeps concurrent creates apart.
MetadataMatches ==
    meta \in Dirs => container.status # "none" /\ container.dir = meta

\* Why MetadataMatches holds when nothing removes containers: only a creating
\* command gets past docker run, and until it has written its record the
\* container is the one it started.
CreateOnlyBy(p) ==
    /\ pc[p] \notin {"getState", "compareDir", "oldImage", "newImage",
                    "remove", "cleanup"}
    /\ pc[p] \in {"prepare", "build", "start", "mkdir", "write", "scripts"}
          => job[p].plan = "create"
    /\ pc[p] \in {"mkdir", "write"}
          => container.status # "none" /\ container.dir = job[p].dir

CreateOnlyInv == MetadataMatches /\ \A p \in Procs : CreateOnlyBy(p)

\* When create reports success, the container is there and recorded, both with
\* the directory create was given, whatever other creates were up to meanwhile.
CreateIsListed ==
    [][\A p \in Procs :
          /\ job[p].cmd = "create" /\ pc[p] # "idle"
          /\ pc'[p] = "idle" /\ result'[p] = "ok"
          => /\ container.status # "none" /\ container.dir = job[p].dir
             /\ meta = job[p].dir]_vars

\* The contest between creates of this name, as its users see it.
Readable == IF meta \in Dirs THEN meta ELSE NoDir

Wanted == [p \in Procs |-> IF job[p].cmd = "create" THEN job[p].dir ELSE NoDir]

Contest == INSTANCE CreateContest WITH
    Users <- Procs, Values <- Dirs, NoValue <- NoDir,
    content <- container.dir, record <- Readable, want <- Wanted,
    pleased <- [p \in Procs |-> result[p] = "ok"]

\* As long as nothing removes containers, the commands keep the promise of
\* CreateContest: the container gets its directory once, the record names that
\* directory or cannot be read, and a create that is told of success got its own.
ContestKept == Contest!Spec

\* run --create executes its command in a container that has the requested
\* directory mounted and runs the image its own build has just tagged.
RunSeesItsRequest ==
    \A p \in Procs :
        /\ job[p].cmd = "run --create"
        /\ pc[p] \in {"exec", "inside"}
        /\ container.status = "running"
        => container.dir = job[p].dir /\ container.image = tag

\* run --create removes a running container only if its directory is not the
\* requested one or its image is not the one just built.
OnlyOutdatedRemoved ==
    [][\A p \in Procs :
          /\ pc[p] = "remove" /\ pc'[p] = "cleanup"
          /\ job[p].plan \in {"replace", "rebuild"}
          /\ container.status = "running"
          => container.dir # job[p].dir \/ container.image # tag]_vars

\* Once there is a container, no command takes it away.  It holds as long as
\* every command asks for the same directory and every build yields the same
\* image, and nobody runs destroy.
NeverRemoved ==
    [][container.status # "none" => container'.status # "none"]_vars

\* Why NeverRemoved holds then: every image in use is the one there is, so no
\* command that found a container finds it outdated.
SameRequestBy(p) ==
    /\ pc[p] \notin {"remove", "cleanup"}
    /\ pc[p] \in {"prepare", "oldImage", "build", "newImage"}
          => job[p].plan \in {"create", "rebuild"}
    /\ pc[p] \in {"compareDir", "oldImage", "newImage"} \/ job[p].plan = "rebuild"
          => container.status # "none"
    /\ pc[p] = "newImage" \/ (pc[p] = "build" /\ job[p].plan = "rebuild")
          => job[p].old \in Images
    /\ pc[p] \in {"newImage", "start"} => tag \in Images

SameRequestInv ==
    /\ container.status # "none" => container.image \in Images
    /\ \A p \in Procs : SameRequestBy(p)

\* A command that has started ends or reaches its session; no sequence of
\* recreate decisions keeps it busy for ever.
CommandsReturn ==
    \A p \in Procs : pc[p] # "idle" ~> pc[p] \in {"idle", "inside"}

\* The calls a command has before it at most, from the call it makes next on: the
\* order in which the recreating calls come depends on what has been decided.
CallsFrom(label, plan) ==
    CASE label = "idle" -> 0
      [] label = "cut" -> 1
      [] label = "inside" -> 2
      [] label = "exec" -> 3
      [] label = "checkRunning" -> 4
      [] label = "env" -> 5
      [] label = "credentials" -> 6
      [] label = "scripts" -> 7
      [] label = "write" -> 8
      [] label = "mkdir" -> 9
      [] label = "start" -> 10
      [] label = "build" -> IF plan = "rebuild" THEN 14 ELSE 11
      [] label = "prepare" -> IF plan = "rebuild" THEN 16 ELSE 12
      [] label = "cleanup" -> IF plan = "rebuild" THEN 11 ELSE 13
      [] label = "remove" -> IF plan = "rebuild" THEN 12 ELSE 14
      [] label = "newImage" -> 13
      [] label = "oldImage" -> 15
      [] label = "compareDir" -> 17
      [] label = "getState" -> 18

CallsLeft(p) == CallsFrom(pc[p], job[p].plan)

\* No command repeats or goes back to a call: every step of a command that is
\* under way leaves fewer calls, and no step of another process or of the world
\* leaves more.  So no recreate decision leads to another one.
CallsRunOut ==
    [][\A p \in Procs : pc[p] # "idle" =>
          /\ CallsLeft(p)' <= CallsLeft(p)
          /\ Step(p) => CallsLeft(p)' < CallsLeft(p)]_vars

\* What status reports of a container that can be used is true: whenever no
\* command is under way, a running or stopped container has a record, and the
\* record names the directory it has mounted.
LiveIsListed ==
    /\ container.status \in {"running", "exited"}
    /\ \A p \in Procs : pc[p] = "idle"
    => meta = container.dir

\* The advice of the stopped-container error, "run 'isolarium create --type
\* container' to recreate it", works: a stopped container is no reason for
\* create to be refused.
StoppedAdviceWorks ==
    [][\A p \in Procs :
          job[p].cmd = "create" /\ container.status = "exited"
              => result'[p] # "nameInUse"]_vars
=============================================================================
