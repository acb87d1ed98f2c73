---------------------------- MODULE CreateScripts ----------------------------
(***************************************************************************)
(* The scripts of pid.yaml in one create, of a container or of a VM: when  *)
(* each is run, with which variables, and what becomes of its exit code.   *)
(*                                                                         *)
(* A container's creation scripts are copied into the build context under  *)
(* their base names and run by docker build; its host and environment      *)
(* scripts run once it is up.  A VM's creation scripts run inside the VM   *)
(* once it is set up; create runs no others there.                         *)
(***************************************************************************)
EXTENDS Naturals, Sequences, SequencesExt

CONSTANTS
    Paths,       \* what a path entry of pid.yaml may be
    Outside,     \* the paths that are spelt so as to lead out of the project
    NoPath,      \* the content of a file that is not in the build context
    Files,       \* the base names of paths
    Vars,        \* the environment variables entries may declare
    MaxScripts   \* how many entries there are in all three sections

ASSUME ScriptsAssumption ==
    /\ Outside \subseteq Paths
    /\ NoPath \notin Paths
    /\ MaxScripts \in Nat

Sections == {"creation", "host", "env"}

Entries == [path : Paths, env : SUBSET Vars]

VARIABLES
    type,      \* "container" or "vm"
    pidYaml,   \* per section of this type, the entries listed
    fileName,  \* the base name of each path
    set,       \* the variables set in isolarium's environment
    pc,        \* the call create makes next
    at,        \* the entry of its section that is next
    context,   \* per file of the build context, the path whose content it has
    up,        \* the container or VM is running
    ran,       \* the scripts that were run: section, content, exit code
    result     \* "none" while create runs, then "ok" or "failed"

inputs == <<type, pidYaml, fileName, set>>
vars == <<type, pidYaml, fileName, set, pc, at, context, up, ran, result>>

Length(y) == Len(y["creation"]) + Len(y["host"]) + Len(y["env"])

\* The sections of a pid.yaml, no more than MaxScripts entries together
PidConfigs ==
    {y \in [Sections -> SeqOf(Entries, MaxScripts)] : Length(y) <= MaxScripts}

Labels == {"setUp", "load", "buildArgs", "context", "build", "start", "host",
           "env", "creation", "done"}

(***************************************************************************)
(* Every variable keeps to its domain; what runs is a script, never an     *)
(* empty file.                                                             *)
(***************************************************************************)
TypeOK ==
    /\ type \in {"container", "vm"}
    /\ \A s \in Sections : \A i \in DOMAIN pidYaml[s] : pidYaml[s][i] \in Entries
    /\ fileName \in [Paths -> Files]
    /\ set \in SUBSET Vars
    /\ pc \in Labels
    /\ at \in 1..MaxScripts + 1
    /\ context \in [Files -> Paths \cup {NoPath}]
    /\ up \in BOOLEAN
    /\ \A i \in DOMAIN ran :
          ran[i] \in [section : Sections, path : Paths, exit : {"ok", "failed"}]
    /\ result \in {"none", "ok", "failed"}

Init ==
    /\ type \in {"container", "vm"}
    /\ pidYaml \in PidConfigs
    /\ fileName \in [Paths -> Files]
    /\ set \in SUBSET Vars
    /\ pc = IF type = "vm" THEN "setUp" ELSE "load"
    /\ at = 1
    /\ context = [f \in Files |-> NoPath]
    /\ up = FALSE
    /\ ran = <<>>
    /\ result = "none"

-----------------------------------------------------------------------------

\* Mutant: the next section starts where the last one ended.
GotoKeepingPlace(label) == pc' = label /\ UNCHANGED <<at, result>>

Goto(label) == pc' = label /\ at' = 1 /\ UNCHANGED result

Finish(r) == pc' = "done" /\ result' = r /\ UNCHANGED at

More(section) == at <= Len(pidYaml[section])

Entry(section) == pidYaml[section][at]

\* The script is run and ends with this exit code.
Runs(section, path, exit) ==
    ran' = Append(ran, [section |-> section, path |-> path, exit |-> exit])

NextEntry == at' = at + 1 /\ UNCHANGED <<pc, result>>

\* The variables the entries of a section declare
Declared(section) ==
    UNION {pidYaml[section][i].env : i \in DOMAIN pidYaml[section]}

-----------------------------------------------------------------------------
\* LoadPidConfig: an unreadable file, a section of the other type in error, or a
\* path of any section that is spelt to lead out of the project fails create.  The
\* spelling is all that is looked at: a link inside the project is followed later,
\* wherever it leads.
LoadPidConfig ==
    /\ pc = "load"
    /\ \/ Finish("failed")
       \/ /\ \A s \in Sections : \A i \in DOMAIN pidYaml[s] : pidYaml[s][i].path \notin Outside
          /\ Goto(IF type = "vm" THEN "creation" ELSE "buildArgs")
    /\ UNCHANGED <<inputs, context, up, ran>>

-----------------------------------------------------------------------------
\* Container

\* Mutant: a variable that is not set is passed as an empty one.
CollectBuildArgsOfSet ==
    /\ pc = "buildArgs"
    /\ Goto("context")
    /\ UNCHANGED <<inputs, context, up, ran>>

\* ValidateAndCollectBuildArgs looks at all creation scripts before the first.
CollectBuildArgs ==
    /\ pc = "buildArgs"
    /\ IF Declared("creation") \subseteq set THEN Goto("context") ELSE Finish("failed")
    /\ UNCHANGED <<inputs, context, up, ran>>

\* The entries with this base name overwrite each other, the last one stays.
CopiedTo(f) ==
    LET copied == {i \in DOMAIN pidYaml["creation"] :
                      fileName[pidYaml["creation"][i].path] = f}
    IN IF copied = {} THEN NoPath ELSE pidYaml["creation"][Max(copied)].path

\* Mutant: the scripts are not copied.
PrepareDockerfileOnly ==
    /\ pc = "context"
    /\ Goto("build")
    /\ UNCHANGED <<inputs, context, up, ran>>

\* A script that cannot be read or written fails create.  The generated Dockerfile
\* goes into the same directory; no base name here is its own.
PrepareBuildContext ==
    /\ pc = "context"
    /\ \/ pidYaml["creation"] # <<>> /\ Finish("failed") /\ UNCHANGED context
       \/ context' = [f \in Files |-> CopiedTo(f)] /\ Goto("build")
    /\ UNCHANGED <<inputs, up, ran>>

\* docker build: a RUN line per creation script, of the file copied under its
\* base name; a build fails with the first script that does, or by itself.  A
\* layer from docker's cache stands for its run.
BuildImage ==
    /\ pc = "build"
    /\ \/ Finish("failed") /\ UNCHANGED ran
       \/ ~More("creation") /\ Goto("start") /\ UNCHANGED ran
       \/ /\ More("creation")
          /\ \E exit \in {"ok", "failed"} :
                /\ Runs("creation", context[fileName[Entry("creation").path]], exit)
                /\ IF exit = "ok" THEN NextEntry ELSE Finish("failed")
    /\ UNCHANGED <<inputs, context, up>>

\* docker run, then the metadata; without the metadata the container stays.
StartContainer ==
    /\ pc = "start"
    /\ \/ Finish("failed") /\ up' \in BOOLEAN
       \/ Goto("host") /\ up' = TRUE
    /\ UNCHANGED <<inputs, context, ran>>

\* Mutant: the exit code of a host script is dropped, as that of an env script is.
RunHostScriptAnyway ==
    /\ pc = "host"
    /\ \/ ~More("host") /\ Goto("env") /\ UNCHANGED ran
       \/ More("host") /\ Finish("failed") /\ UNCHANGED ran
       \/ /\ More("host") /\ Entry("host").env \subseteq set
          /\ \E exit \in {"ok", "failed"} : Runs("host", Entry("host").path, exit)
          /\ NextEntry
    /\ UNCHANGED <<inputs, context, up>>

\* A script that lacks a variable, cannot be started or exits with another code
\* than 0 fails create, which leaves the container as it is.
RunHostScript ==
    /\ pc = "host"
    /\ \/ ~More("host") /\ Goto("env") /\ UNCHANGED ran
       \/ More("host") /\ Finish("failed") /\ UNCHANGED ran
       \/ /\ More("host") /\ Entry("host").env \subseteq set
          /\ \E exit \in {"ok", "failed"} :
                /\ Runs("host", Entry("host").path, exit)
                /\ IF exit = "ok" THEN NextEntry ELSE Finish("failed")
    /\ UNCHANGED <<inputs, context, up>>

\* docker exec and limactl shell give the exit code without an error, and the
\* loop over the scripts looks at the error only.
RunInside(section) ==
    /\ \/ ~More(section) /\ Finish("ok") /\ UNCHANGED ran
       \/ More(section) /\ Finish("failed") /\ UNCHANGED ran
       \/ /\ More(section) /\ Entry(section).env \subseteq set
          /\ \E exit \in {"ok", "failed"} : Runs(section, Entry(section).path, exit)
          /\ NextEntry
    /\ UNCHANGED <<inputs, context, up>>

RunEnvScript == pc = "env" /\ RunInside("env")

-----------------------------------------------------------------------------
\* VM

\* All of createAndSetupVM before the scripts; a failed one leaves the VM.
SetUpVM ==
    /\ pc = "setUp"
    /\ \/ Finish("failed") /\ up' \in BOOLEAN
       \/ Goto("load") /\ up' = TRUE
    /\ UNCHANGED <<inputs, context, ran>>

RunVMIsolationScript == pc = "creation" /\ RunInside("creation")

-----------------------------------------------------------------------------

Next ==
    \/ LoadPidConfig
    \/ CollectBuildArgs \/ PrepareBuildContext \/ BuildImage \/ StartContainer
    \/ RunHostScript \/ RunEnvScript
    \/ SetUpVM \/ RunVMIsolationScript

Spec == Init /\ [][Next]_vars

-----------------------------------------------------------------------------
\* Properties

\* What a create of this type is to run, in order
Due ==
    LET Of(section) == [i \in DOMAIN pidYaml[section] |->
                           <<section, pidYaml[section][i].path>>]
    IN IF type = "vm" THEN Of("creation")
                      ELSE Of("creation") \o Of("host") \o Of("env")

Executed == [i \in DOMAIN ran |-> <<ran[i].section, ran[i].path>>]

DistinctNames ==
    \A s, t \in DOMAIN pidYaml["creation"] :
        fileName[pidYaml["creation"][s].path] = fileName[pidYaml["creation"][t].path]
            => pidYaml["creation"][s].path = pidYaml["creation"][t].path

\* The scripts run in the order of pid.yaml, none skipped and none twice, through
\* build context, docker build and host, unless creation scripts share a base
\* name; and after a script that failed in the build or on the host none runs.
RunsInOrder ==
    /\ type = "vm" \/ DistinctNames => IsPrefix(Executed, Due)
    /\ type = "container" =>
          \A i \in DOMAIN ran :
              i < Len(ran) /\ ran[i].section # "env" => ran[i].exit = "ok"

\* A create that reports success has run every script due, each with all the
\* variables it declares, has an environment, and no host or creation script of
\* a container has failed.
SuccessMeansDone ==
    result = "ok" =>
        /\ up
        /\ Len(ran) = Len(Due)
        /\ Declared("creation") \subseteq set
        /\ type = "container" =>
              /\ Declared("host") \cup Declared("env") \subseteq set
              /\ \A i \in DOMAIN ran : ran[i].section # "env" => ran[i].exit = "ok"

\* When a variable of any creation script is missing, no container is started
\* and no script has run, the ones before that script included.
MissingVarsLeaveNothing ==
    type = "container" /\ ~(Declared("creation") \subseteq set) => ~up /\ ran = <<>>

\* If any script fails, create fails.
FailedScriptFailsCreate ==
    result = "ok" => \A i \in DOMAIN ran : ran[i].exit = "ok"
=============================================================================
