# Isolarium in TLA+

Isolarium is a Go command line tool that runs coding agents in an isolated
environment: a Lima VM, a Docker container, or a nono sandbox on the host. Every
command is a process of its own. It drives `docker`, `limactl`, `nono`, `git` and
the keychain, and leaves what it knows in files under `~/.isolarium`. Commands
take no locks, and undo nothing when one of their steps fails. This directory
models that program, checks the models with TLC and proves the main results with
TLAPS.

## 1. Inventory

### Components, their state and their operations

| Component (under `src/internal`) | State | Operations | Module |
|---|---|---|---|
| `docker`, `backend/docker_backend.go`, container side of `cli` | the container of a name; the tag `isolarium-<name>:latest`; `<name>/container/metadata.json` | create, run, run --create (compare directory, build, compare image, recreate), shell, destroy | `ContainerEnv` |
| `lima`, `cli/vm_setup.go`, VM side of `cli` | the Lima instance of a name and what is installed in it; `<name>/vm/metadata.json` | create, run (which starts or sets up a VM), shell, destroy, the retry commands | `VmEnv` |
| `nono/exec.go` | a child process and its group, a signal channel of capacity one, a waiting goroutine, a timer | start, wait, forward a signal, escalate to SIGKILL | `SandboxExec`, `SupervisedCommand` |
| `.env.local`, `--env` and tokens in `cli/root.go`, the variables of `run` and `shell`, `config`'s run section, `github/token.go` | isolarium's own environment, `parsedEnvVars`, the map given to the backend | load, parse, resolve, merge, fetch or mint a token, deliver | `SessionEnv` |
| `backend/resolve_env.go`, flags and defaults in `cli/root.go`, `status` | the directories `~/.isolarium/<name>/<type>` | detect the type, apply flags, variables and defaults, list | `EnvResolution` |
| `config`, `hostscript`, `envscript`, `lima/vm_isolation_scripts.go`, `docker/build_context.go`, `docker/dockerfile_gen.go` | `pid.yaml`, the build context, which scripts have run | validate, collect variables, copy, generate the Dockerfile, run creation, host and environment scripts | `CreateScripts` |
| `nono` create, destroy, state, permissions, profile | `<name>/nono/metadata.json` | make and remove the directory; argument lists | in `EnvResolution` as a directory |
| `git` | the host repository | branch, remote, push, worktree detection | in `VmEnv` as the branch and the push |
| `claude` | none | read credentials | as a step that may fail |
| `command`, `project`, `main`, the Lima template, scripts | none | run a command; data | not modelled |

### How they interact

* The commands of one name share the container or VM, the tag and the metadata
  file. They communicate through nothing else: what one reads (state, directory,
  image identifier, existence) may be out of date when it acts on it several
  calls later.
* `EnvResolution` decides which container, VM or nono environment a command line
  means, from directories that the metadata writers of the other parts make.
* `SessionEnv` runs inside a `run` or a `shell`, between the resolution of the
  environment and the call of the backend, and reads which type was resolved.
* `CreateScripts` runs between the build, the start and the end of a create.
  `ContainerEnv` and `VmEnv` contain that step as one that may fail.
* In `SandboxExec` the main goroutine, the waiting goroutine, the runtime's signal
  delivery, the timer and the processes of the sandbox run concurrently.

### What is hard about them

* Interleavings: concurrent creates; a destroy during a create; several `run
  --create`; two commands that both find no VM.
* Stale reads: state, directory and image are compared on either side of a build;
  a query that fails reads as "none" or as "unchanged".
* Crashes and partial failures: between `docker run` and the metadata; in the
  middle of the metadata write; in any of the seven stages of a VM's set-up;
  between `limactl delete` and the removal of the metadata; in a list of scripts.
* Signals: the end of the command, a first and a second signal and the grace
  period all race, and signals are dropped when the channel is full.
* Precedence: five sources of a variable, merged in one order by `run` and another
  by `shell`, over a process environment that the first of them has changed.
* Exit codes that are not errors: `docker exec` and `limactl shell` answer the
  code of a script without an error.

### What makes each component correct

* Container: a readable record describes the container there is; a create that
  reports success is the one whose container it is; `run --create` executes in
  what it asked for and takes away only what is outdated; commands come to an end.
* VM: whoever sets up a VM does so alone and in order; success means a complete
  set-up from the branch that was read; no record outlives its VM.
* Sandbox: started at most once, waited for, exit code of the first signal, force
  only after the grace period or a second signal, no process of the group left.
* Resolution: what create made is what the other commands act on; creating or
  destroying something else never redirects a command.
* Session: every variable has the value of the source that ranks highest.
* Scripts: in order, completely, only with what they declare, before success.

## 2. The modules

A step in `ContainerEnv` and `VmEnv` is one `docker` or `limactl` command, one file
system call or one host interaction; `pc[p]` is the call process `p` makes next.
What the code does between two such calls is local to the process and belongs to
the step before. `job[p]` is the command line with the decisions already made and
the values already read; those values are deliberately not refreshed. A failed call
ends the command with a result, as the returned error does.

### ContainerEnv

* `container`: status, mounted directory, image. `docker run` refuses a name in use;
  a failed start leaves a container in status `created`.
* `tag` and `recipe`: the image the tag points at, and for each directory the image
  a build there yields at the moment. `RecipeChanges` stands for edits of scripts,
  `pid.yaml`, the i2code head and base images, so consecutive builds may differ.
* `meta`: absent, unreadable, or the directory in it. A crash during the write
  leaves it unreadable, and so may a removal that fails or is killed half way: the
  file is gone then and its directory is not.
* `job[p].plan` tells the four ways through the code apart: `create`, `replace`
  (directory changed: destroy, then a full create), `rebuild` (build, compare the
  image of the container with that of the tag, recreate) and `destroy`. The labels
  go through `GetState`, `CompareDir`, `Prepare`, `OldImage`, `BuildImage`,
  `NewImage`, `Remove`, `Cleanup`, `StartContainer`, `MakeMetadataDir`,
  `WriteMetadata`, `PostCreationScripts`, and for the session `CopyCredentials`,
  `BuildEnvVars`, `EnsureContainerRunning`, `Exec`, `LeaveSession`.
* `Faults` selects what may go wrong; `World` has the container exiting, being
  started by the user, being pruned, and the recipe changing.

`MCContainerEnv` adds symmetry sets.

### CreateContest

What several users may rely on who create an environment of one name at a time,
with nothing said of docker, Lima or files: the environment gets its content once,
the record names that content or nothing, and a create is told of success only if
content and record are what it asked for. Containers and VMs are made by different
code and both implement it. In `ContainerEnv` the content is the mounted directory
and a create wants the directory it was given; in `VmEnv` it is the branch cloned,
and a create wants the branch it has read. `ContestKept == Contest!Spec` is the
refinement in each, checked and proved under the conditions of the run.

### VmEnv

* `vm`: status, branch cloned, and the set of stages done in it; `broken` is any
  status `parseVMState` does not know. `meta`: as above, with the branch; here too a
  removal may get no further than the file.
* `job[p].stage` is the next of the seven stages of `createAndSetupVM` (clone,
  configuration, git author, SDKMAN, workflow tools, plugins, i2code). The
  metadata is written after the third. A stage may fail, and some fail because
  what they need is not in the VM; nothing is undone.
* `run` starts a stopped VM, and sets one up when it sees none, which a failed
  `limactl list` also reads as. `destroy` asks twice for the VM, stops it and
  ignores a failure of that, deletes it and then removes the record.
* The three retry commands end at once: they ask for a VM whose name no flag sets.
  What they would do after the state check is not reachable and not modelled.
* `FairSpec` has every command go on that is not in its session; see Fairness.

`MCVmEnv` adds symmetry sets.

### SandboxExec and SupervisedCommand

`SupervisedCommand` is what a caller may rely on: launched at most once, answered
only when the command is over, the code decided for good by the first signal, and
an end once a signal is taken. `SandboxExec` is `runWithSignals`: both selects, the
one-place channel that drops what finds it full, the waiting goroutine, the timer,
process groups and delivery. `Phase`, `Child` and `Code` are the refinement mapping,
and `KeepsPromise == Promise!FairSpec` is checked as a property. `Code` is what
`runWithSignals` returned as soon as it has returned, and only before that the code
of the signal taken, so the promise is about the answer the caller gets. A signal to what
has been reaped reaches nobody in the model: `Targets` only holds what is alive.

### EnvResolution

`Targets` and `CreateTargets` translate `applyEnvVarDefaults`, `resolveDefaultName`,
`resolveEnvType` and `ResolveEnvironmentType`; `Listed` translates the filters of
`ListAllEnvironments`. The commands are reduced to what they do to the directories.
A create that fails before its directory is made, and a destroy that keeps it, are
included. A run sets up a VM it does not find, and `run --create` makes any of the
types and may first remove an outdated container. A failed `limactl` call is not
distinguished from other failures here.

### SessionEnv

`SessionEnv` extends `EnvResolution` with the environment variables of one call of
`run` or `shell`. One variable is followed through the call, named by the role its key
plays: one a token sets, one of nono's cache directories, `CLAUDECODE`, or any other.
Its value is the name of the source it comes from, so where a value comes from can be
read off it. `process` is isolarium's environment, which `LoadEnvFile` adds to;
`parsed` is `parsedEnvVars`; `env` the map the backend is given; `seen` what the
session has. The steps are `LoadEnvFile`, `ParseEnvFlags`, `ResolveTarget`,
`BuildRunEnvVars` or `BuildShellEnvVars`, then for a container `ExtractGitHubToken`,
whose failure counts as no token, and otherwise `MintGitHubToken`,
`GetInstallationID` and `CreateAccessToken`, each of which may fail the call, and
`Deliver`. Other commands make and remove environments between calls. One call runs
at a time, as the variables are isolarium's own; `UV_CACHE_DIR` stands for
`UV_TOOL_DIR` too and `GIT_CONFIG` for its three variables.

### CreateScripts

One create, of a container or of a VM, with every `pid.yaml` of up to `MaxScripts`
entries. Base names are a function of the path chosen in `Init`, so two paths may
share one and overwrite each other in the build context. `ran` records the section,
the content that was actually run and the exit code. Creation scripts of a
container run in `docker build`, host scripts as processes, environment scripts by
`docker exec`; in a VM only creation scripts run. The text of the Dockerfile, and
`LimaBackend.Create` with its post-creation scripts, which no command calls, are
left out. Unreadable or unparsable files, and errors in the sections of the other
type, are the failure disjunct of `LoadPidConfig`. Its check of the paths is of their
spelling, as in the code: a path in `Outside` is one spelt to lead out of the
project, and a path that leads out through a symbolic link passes. A creation script
whose base name is `Dockerfile` is not modelled; in the build context it would be
taken for the base Dockerfile and overwritten by the generated one.

## 3. The runs

| Run | Bounds | What it shows |
|---|---|---|
| `ContainerEnv_returns` | 2 processes, 1 directory, 2 images; run --create and destroy; all faults but host and prune | the state is well formed; every command ends or reaches its session (liveness), and no step leads back to a call already made |
| `ContainerEnv_same` | 3 processes, 1 directory, 1 image; all but destroy; no failing inspect | equal requests never take the container away, not even with crashes and unreadable records |
| `ContainerEnv_crashes` | 3 processes, 2 directories, 1 image; create and run; all faults but prune | a readable record is right; a create that reports success owns the container and its record; refinement of `CreateContest` |
| `ContainerEnv_serial` | 1 process, 2 directories, 2 images, every command; host and docker faults, prune | run --create delivers what it asked for and removes only what is outdated; between commands a container that is up has a true record |
| `ContainerEnv_advice` | 1 process, no faults | violated: the advised `create` is refused |
| `SandboxExec_promise` | 2 descendants, 3 signals, both modes, nono and a descendant that may ignore signals | refinement of `SupervisedCommand` with liveness, no hasty kill, the code of the signal, nothing left |
| `VmEnv_setup` | 3 processes, 2 branches; create and run; faults but broken and deleted VMs | one process sets up a VM, in order; success is complete; refinement of `CreateContest` |
| `VmEnv_forget` | 1 process, 2 branches, every command with one retry command; host, lima and list faults, broken VMs | no metadata of a VM that is gone or of another branch; every command ends or reaches its session (liveness), and repeats no call or stage |
| `VmEnv_retry` | 1 process, lima faults | violated: the documented retry finds no VM |
| `SessionEnv_values` | the three default names, every combination of both flags and both variables; calls start with at most one environment; one variable of eight kinds, every source | create and the other commands agree, status agrees, no redirection; every variable of a session has its highest source |
| `CreateScripts_order` | 3 entries, 3 paths of which one is spelt to lead out of the project, 2 base names, 1 variable | order, completeness and declared variables before success |
| `CreateScripts_failed` | 1 entry | violated: a failing script inside does not fail create |

**Why the bounds are enough.** Three processes give a winner, a loser and a
latecomer for the two resources there are, the name and the record; every further
process is in the position of one of these, and the theorems of section 5 cover any
number. Two directories (branches, images) are enough to tell "mine" from "another".
Every decision reads at most two of them. Two descendants allow one that ignores
signals and one that does not; three signals are one taken, one that escalates and
one that is dropped. Three script entries allow two with one base name plus one in
another section, or one in each section. A session's variables depend on the type
resolved and not on how many environments there are, so `MaxDirs`, the number of
environments up to which calls start, may be 1: with one, every type is resolved and
by every route but the error for several, which ends the call in any case. All sets
of environments are reached between calls. A variable's value depends on no other
variable, so following one is enough. `MaxSignals`, `MaxScripts` and `MaxDirs` are
the only bounds.

**Why some runs leave commands or faults out.** The properties are promises that
hold under conditions, and the runs state the conditions. `ContainerEnv_same` leaves
out `destroy` and failing inspects, because a failed inspect reads as "image
changed". `ContainerEnv_crashes` and `VmEnv_setup` leave out what removes containers
and VMs: a removal between another process's steps does separate a record from its
container (see section 4). `ContainerEnv_serial` and `VmEnv_forget` are about one
process after another. A crash between delete and cleanup would leave a record behind, so `VmEnv_forget`
has none. `CHECK_DEADLOCK FALSE` stands where the modelled command ends for good:
one sandboxed command, one create.

**Fairness.** `FairSpec` of `ContainerEnv` has weak fairness on the next step of each
process that is neither idle nor in its session: docker and the file system answer,
possibly with an error, and the operating system schedules the process. A command
need not be started, a session need not end, a crash need not happen, and recipes
need not change or stop changing. `FairSpec` of `VmEnv` is the same for `limactl`,
`git` and the file system; VMs may stop, start and break between any two steps.
`SandboxExec` has weak fairness on the main
goroutine, on the waiting goroutine, on the timer and on the kernel acting upon a
signal that was delivered and is not ignored: the Go scheduler runs every runnable
goroutine, `time.After` fires, and SIGKILL is never ignored. No process has to end
by itself and nobody has to send a signal.

## 4. Where the code and its documents disagree

Three of these are violation runs:

* `ContainerEnv_advice`: for a stopped container `run` advises `isolarium create
  --type container`; create goes to `docker run --name`, which refuses the name.
* `VmEnv_retry`: `clone-repo` and the install commands, documented for a retry after
  a failed create, ask for the VM with the empty name and find none.
* `CreateScripts_failed`: a script that exits with another code than 0 in a VM, or as an
  environment script in a container, does not fail create.

Others were met while modelling and are described here without a run:

* A `destroy` that has removed a container and not yet its record deletes the record
  of a container that a create has started meanwhile; status then misses it.
* `WorkDirectoryChanged` reads an unreadable or missing record as "not changed", so
  after a create killed before its record `run --create` keeps another directory.
* With `--interactive` nono shares isolarium's process group: SIGTERM is forwarded to
  nono alone, and Ctrl-C may end nono before the signal is taken, so the code need
  not be 130. `NothingLeft` and `CodeTellsSignal` are therefore about the other mode.
* `killPid` may be used after the waiting goroutine has reaped the process.
* A host script is given `ISOLARIUM_NAME` and `ISOLARIUM_TYPE` so that a command it
  calls reaches its own container (container-configuration-spec.md:305), but
  `resolveDefaultName` answers the name of the default container or nono environment
  whenever `--name` is absent, so this works for the default names only.
* `pid.yaml` may name no script outside the project, but its paths are compared as
  they are spelt (pidconfig.go:94-97): one that leads out through a link is run.
* `run` lets `--env` override nono's cache directories, `shell` lets the directories
  override `--env`.
* A name in `run.env` or `--env` that is not set gives the session an empty variable,
  while the same in a script's `env` fails the create.
* A failing `gh auth token` leaves a container without a token and says nothing; a
  token that cannot be minted fails the run of a VM or a nono environment.
* `run` reads `pid.yaml` from the current directory, create from `--work-directory`.
* `--env` is a comma-separated flag: a value with a comma is split at it.
* Every `*_PATH` of `.env.local` must exist, also one that the environment overrides;
  if one does not, every command fails, status and destroy included.
* With `--name` and no such environment, commands go on with the default type.
* `destroy` of a VM fails when `limactl list` does.
* A container recreated because its image changed runs no post-creation scripts, and
  creating a VM never runs the `post_creation_scripts` of its section.
* Creation scripts of one base name overwrite each other in the build context.

## 5. What is proved

All proofs are in `ContainerEnvProofs`, `VmEnvProofs`, `SandboxExecProofs`,
`EnvResolutionProofs`, `SessionEnvProofs` and `CreateScriptsProofs`. Every invariant
and action property of the passing runs has a theorem. They use the named
assumptions on the constants: commands and faults are among those defined, "no
directory", "no image", "no branch", "absent" and "unreadable" differ from real
values, and the bounds are numbers. There is no assumption that sets are finite, so
the number of processes, names or paths is arbitrary.

* **ContainerEnv: commands come to an end.** `CallsLeft` is a ranking: the calls a
  command has before it at most, from the call it makes next and its plan. It has to
  depend on the plan, as `rebuild` removes after its build and `replace` before it.
  `CallsAreFinite` shows that it is at most 18, that every step of the command lowers
  it and that no step of another process or of the world raises it, whatever fails;
  the lemma is `PlanKnown`, that what a command has decided goes with its next call.
* **ContainerEnv: what holds while nothing is removed under a create.** `TypeCorrect`
  needs `DirKnown`: whoever builds, starts or records has a directory. `OwnerInv` is
  the core: at most one process is past `docker run`, the container is its own, and so
  is the record once written. It is inductive under a condition on the behaviour and
  not on the commands, `NoOverlap`: nobody is about to remove the container or its
  record while another is between `docker run` and the end of its post-creation
  scripts. The code does not see to that; whoever starts the commands has to.
  - `ListedUndisturbed`: under `NoOverlap`, for every command and every fault but
    `prune`, a create that reports success is the one in the container and the record.
    `ListedAlone`: with one process `NoOverlap` holds by itself.
  - `StatusUndisturbed`: under `NoOverlap`, with no disk failure, crash or prune, a
    container that is up when the commands are over has a true record. So the overlap
    of section 4 is all that can leave one without. The invariant is `Watched`: a
    record is cleared only when its container is gone, and someone is on the way to
    write the missing one.
  - `MatchesUndisturbed` and `ContestUndisturbed`: while nobody is about to remove
    anything (`Undisturbed`), a readable record is right and the commands implement
    `CreateContest`. `MetadataCorrect`, `CreateListed` and `KeepsContest` are the case
    of commands that remove nothing (`OnlyCreates`), with `CreateOnlyInv` as the
    inductive invariant; `RecordIsTrue` derives from the abstract specification alone
    that records are true.
  - `SameRequestsKeepContainer` assumes `OneRequest` (one directory, one image, no
    destroy, no prune, no failing inspect) and uses `SameRequestInv`: every image in
    use is the one there is, so nobody who found a container finds it outdated. It
    follows that nobody is about to remove anything, so `SameRequestsAgree` gets all
    the above for `run --create` as well.
* **ContainerEnv: one command at a time.** `SeesItsRequest`, `OutdatedRemoved` and
  `StatusIsTrue` assume `Serial` (one process, which is not killed, and inspects and a
  disk that work; containers exit, restart and are pruned all the same) and use
  `SerialInv`: what the command has found out about a container that is still there
  is true of it.
* **VmEnv.** `TypesAndStages`: type correctness together with `StageKnown`, since the
  next stage indexes `Stages`; that is a lemma of the proofs and no property of a run. `CallsAreFinite` is the ranking again, of at most 21
  calls, in which the stage counts.
  - `OneAtWork` says that at most one process is at work on a VM it has created, and
    that VM and record are as far as it has come. It needs that no destroy deletes a
    VM or clears its metadata while another process sets it up (`NoOverlap`) and that
    nobody deletes VMs outside isolarium. From it follow `DeliversUndisturbed`,
    `SetsUpUndisturbed` and, for one process, `DeliversAlone`, with every command.
    `SetsUpAlone` alone is not inductive, as it does not say that a second process
    cannot come to be at the same stage.
  - `ListedUndisturbed` adds `Listed`: metadata has its VM with the branch it names, or
    a destroy is about to clear it. `ListsNothingInVain` is the case of one process
    (`Serial`).
  - `SetUpCorrect`, `RecordIsOfClone`, `OneMakerHolds`, `CreateDoesItAll` and
    `KeepsContest`, the refinement of `CreateContest`, assume `NoRemovers` and use
    `MakerInv`, which adds that there is no readable record before the maker's own.
* **SandboxExec.** `Agreement` proves the type invariant and `GoroutinesAgree`.
  `ImplementsPromise` shows that every step maps to a step of `SupervisedCommand` or
  to a stutter, where the code answered is the one returned; it needs that the leader is dead once the waiter has reported.
  `KillsInTime` rests on `SignalsCounted`, that a signal in the channel and a signal
  taken are two signals; `SignalIsTold` on `OnlyTheTaken`, that a group of its own
  sees no other polite signal than the one taken. `NobodyEscapes` is the safety core of
  `NothingLeft`: forwarding and SIGKILL reach all of a group in one step
  (`GroupReached`), so from then on everybody alive is about to be ended and nobody
  can start a process that is not.
* **EnvResolution.** `CreatedFound`, `NeverRedirected` and `StatusIsRight`,
  for any set of names, by cases on how the type was found
  (`OneFound`, `TypesMeant`).
* **SessionEnv.** `CallsKeepDirs` shows that calls are stutters of `EnvResolution`, so
  its theorems hold here. `SessionValueHolds` rests on `FromSources`: at each step,
  what the maps hold is what the sources read so far give in the order of merging.
  The property is stated the other way round, as a ranking of the sources, and
  `HighestOfFive` is the lemma that connects the two.
* **CreateScripts.** `Shape` has the content of the build context and the place in the
  list, `Checked` that nothing runs before the variables are checked (from which
  `MissingVarsHolds`), `Counted` how many scripts
  have run at each step, `Ordered` which ones, `Stopped` that the one that failed is
  the last, and `Done` what has been supplied. That the copy of a script is its own
  when base names differ needs the last entry of a base name; that there is one is
  `GreatestIndex`, from the well-foundedness of strict inclusion of finite sets.

**Only model-checked.** Liveness is outside the prover's reach: both
`CommandsReturn`, `NothingLeft` and the fair part of `KeepsPromise`. The safety core of
the first three is proved: `CallsAreFinite` bounds the steps of a command, so that all
that is left to fairness is that a step is taken, and `NobodyEscapes` leaves to it that
the kernel acts on what it has delivered. That a command which is not in its session
can always take a step is a matter of ENABLED, and only checked.

## 6. What is not modelled

* The signing of the token request, URL parsing and the keychain: no state; their
  failure is a failure of the step that needs them.
* Worktree detection and the mounts it leads to, and the other arguments of `docker run`.
* The state and details columns of `status`, which display what the other parts
  answer, and `GetStatus`, which no command calls.
* nono's permissions and profile, which are argument lists.
* `LimaBackend.Create` with its post-creation scripts, `CopyDirToVM`,
  `UninstallI2Code` and other helpers that no command reaches with a VM.
* Matching of names in the output of `limactl list`: taken to find exactly the VM named.
* The text of the Dockerfile, the template of the VM and the scripts that run in it.
* The length of lines in `.env.local`, and quoting in it.

## 7. Plan

Done: `ContainerEnv`, `SandboxExec` with `SupervisedCommand`, `VmEnv`, `EnvResolution`,
`CreateScripts`, `SessionEnv`, `CreateContest` with both implementations, a theorem for
every safety property of the runs, the safety core of the liveness of the commands and
of `NothingLeft`, and the theorems that replace "nothing removes" by "no removal
overlaps a creation".

To prove next:

1. The serial results of `ContainerEnv` (`RunSeesItsRequest`, `OnlyOutdatedRemoved`)
   under a condition on the behaviour instead of a single process: what a command has
   found out stays true if no other one builds, starts or removes meanwhile.
2. `ContainerEnv` and `VmEnv` as implementations of what `EnvResolution` takes a
   command to do to a directory.
3. For `SandboxExec`, a ranking of the main goroutine, as for the commands.

What could be added to the models:

1. A composition of `CreateScripts` with the recreation of containers, should the
   scripts ever be run again for a recreated container.
2. A lock or a second check in `destroy`, should the code get one: `NoOverlap` would
   then be an invariant and not a condition.
3. The retry commands in full, once they name their VM.
