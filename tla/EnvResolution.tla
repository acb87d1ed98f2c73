----------------------------- MODULE EnvResolution -----------------------------
(***************************************************************************)
(* Which environment a command line means.  An environment is a name and a *)
(* type, and exists as far as this part of the program can tell when there *)
(* is a directory ~/.isolarium/<name>/<type>.  Name and type come from the *)
(* flags, from ISOLARIUM_NAME and ISOLARIUM_TYPE, from defaults, and from  *)
(* the directories found.                                                  *)
(***************************************************************************)
EXTENDS FiniteSets

CONSTANTS
    Names,                       \* the names in use
    VmName, ContainerName, NonoName  \* the three default names

ASSUME NamesAssumption ==
    /\ {VmName, ContainerName, NonoName} \subseteq Names
    /\ "unset" \notin Names

Types == {"vm", "container", "nono"}

\* A command line: --name and --type as given, and the two variables as set.
Invocations == [name : Names \cup {"unset"}, type : Types \cup {"unset"},
                envName : Names \cup {"unset"}, envType : Types \cup {"unset", "bad"}]

VARIABLE dirs    \* the directories there are: a set of <<name, type>>

\* Only names and types of the program have directories.
TypeOK == dirs \subseteq Names \X Types

Init == dirs = {}

-----------------------------------------------------------------------------
\* From the command line to an environment

\* Mutant: ISOLARIUM_TYPE is not checked.
RejectedNever(i) == FALSE

\* applyEnvVarDefaults refuses an ISOLARIUM_TYPE it does not know.
Rejected(i) == i.type = "unset" /\ i.envType = "bad"

\* The values of the flags after applyEnvVarDefaults
TypeFlag(i) ==
    IF i.type # "unset" THEN i.type ELSE IF i.envType # "unset" THEN i.envType ELSE "vm"

NameFlag(i) ==
    IF i.name # "unset" THEN i.name ELSE IF i.envName # "unset" THEN i.envName ELSE VmName

\* resolveDefaultName looks at ISOLARIUM_NAME for the vm type only.
DefaultName(i) ==
    CASE i.name # "unset" -> i.name
      [] i.name = "unset" /\ TypeFlag(i) = "container" -> ContainerName
      [] i.name = "unset" /\ TypeFlag(i) = "nono" -> NonoName
      [] OTHER -> NameFlag(i)

\* ResolveEnvironmentType
Found(name, ds) == {t \in Types : <<name, t>> \in ds}

\* Mutant: of several types found the first is taken.
EnvTypesFirst(i, ds) ==
    LET found == Found(DefaultName(i), ds)
    IN CASE i.type # "unset" -> {i.type}
         [] i.type = "unset" /\ found = {} -> {TypeFlag(i)}
         [] i.type = "unset" /\ "vm" \in found -> {"vm"}
         [] i.type = "unset" /\ "vm" \notin found /\ "container" \in found -> {"container"}
         [] OTHER -> found

\* resolveEnvType, of every command but create: --type, else what is found, else
\* the flag's value; several types found are an error.
EnvTypes(i, ds) ==
    LET found == Found(DefaultName(i), ds)
    IN CASE i.type # "unset" -> {i.type}
         [] i.type = "unset" /\ Cardinality(found) = 1 -> found
         [] i.type = "unset" /\ Cardinality(found) = 0 -> {TypeFlag(i)}
         [] OTHER -> {}

\* What a command acts on, at most one environment; create does not look around.
Targets(i, ds) ==
    IF Rejected(i) THEN {} ELSE {<<DefaultName(i), t>> : t \in EnvTypes(i, ds)}

CreateTargets(i) == IF Rejected(i) THEN {} ELSE {<<DefaultName(i), TypeFlag(i)>>}

\* Mutant: status always filters by the name flag, its default included.
ListedByDefault(i, ds) ==
    {e \in ds : e[1] = NameFlag(i) /\ (i.type # "unset" => e[2] = i.type)}

\* ListAllEnvironments with the filters of the status command
Listed(i, ds) ==
    {e \in ds : (i.name # "unset" => e[1] = i.name) /\ (i.type # "unset" => e[2] = i.type)}

-----------------------------------------------------------------------------
\* The commands, as far as they make and remove directories

\* A create may fail before it has made the directory.
Create(i) == \E made \in SUBSET CreateTargets(i) : dirs' = dirs \cup made

\* A run that finds no VM sets one up; with --create it makes the other types too,
\* and first removes a container it finds outdated.
Run(i) ==
    \E made \in SUBSET Targets(i, dirs),
       gone \in SUBSET {e \in Targets(i, dirs) : e[2] = "container"} :
        dirs' = (dirs \ gone) \cup made

Destroy(i) == \E gone \in SUBSET Targets(i, dirs) : dirs' = dirs \ gone

Next == \E i \in Invocations : Create(i) \/ Run(i) \/ Destroy(i)

Spec == Init /\ [][Next]_dirs

-----------------------------------------------------------------------------
\* Properties

\* What create has made, any other command with the same flags and variables
\* acts on, or it says that it cannot tell; it never acts on another one.
CreatedIsFound ==
    \A i \in Invocations :
        CreateTargets(i) \subseteq dirs => Targets(i, dirs) \subseteq CreateTargets(i)

\* A command line that means an existing environment is never redirected to
\* another one by what is created or destroyed besides it.
NoRedirect ==
    [][dirs' # dirs =>
          \A i \in Invocations :
              LET before == Targets(i, dirs)
              IN before \cap dirs = {} \/ ~(before \subseteq dirs')
                 \/ Targets(i, dirs') \subseteq before]_dirs

\* What a command with flags acts on, if it exists, status with the same flags
\* lists, and it lists that alone if both flags are given.
StatusAgrees ==
    \A i \in Invocations :
        /\ Targets(i, dirs) \cap dirs \subseteq Listed(i, dirs)
        /\ i.name # "unset" /\ i.type # "unset" => Listed(i, dirs) \subseteq Targets(i, dirs)
=============================================================================
