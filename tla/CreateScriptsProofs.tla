-------------------------- MODULE CreateScriptsProofs --------------------------
(***************************************************************************)
(* What holds of CreateScripts for any paths, base names and variables and *)
(* any number of scripts.                                                  *)
(***************************************************************************)
EXTENDS CreateScripts, FiniteSetTheorems, TLAPS

-----------------------------------------------------------------------------
\* The greatest of some entries

\* A set of indices that is not empty has a greatest one.  The sets of those above
\* an index are finite, so one of them has no other below it.
LEMMA GreatestIndex ==
    ASSUME NEW n \in Nat, NEW S \in SUBSET (1..n), S # {}
    PROVE  Max(S) \in S /\ \A k \in S : k <= Max(S)
<1> DEFINE Above(x) == {k \in 1..n : k > x}
           T == {Above(x) : x \in S}
<1>1. IsFiniteSet(1..n)
  BY FS_Interval
<1>2. T \subseteq FiniteSubsetsOf(1..n) /\ T # {}
  <2>1. FiniteSubsetsOf(1..n) = SUBSET (1..n)
    BY <1>1, FS_FiniteSubsetsOfFinite
  <2>2. PICK x : x \in S
    OBVIOUS
  <2>3. Above(x) \in T
    BY <2>2
  <2>4. T \subseteq SUBSET (1..n)
    OBVIOUS
  <2> HIDE DEF T
  <2>5. QED
    BY <2>1, <2>3, <2>4
<1>3. PICK A \in T : \A B \in T : ~(<<B, A>> \in StrictSubsetOrdering(1..n))
  <2> HIDE DEF T
  <2>1. QED
    BY <1>2, FS_StrictSubsetOrderingWellFounded, WFMin
<1>4. PICK x \in S : A = Above(x)
  OBVIOUS
<1>5. ASSUME NEW y \in S, ~(y <= x) PROVE FALSE
  <2>1. x \in 1..n /\ y \in 1..n /\ y > x
    BY <1>5
  <2>2. Above(y) \subseteq Above(x) /\ y \in Above(x) /\ y \notin Above(y)
    BY <2>1
  <2>3. <<Above(y), Above(x)>> \in StrictSubsetOrdering(1..n)
    BY <2>2 DEF StrictSubsetOrdering
  <2>4. QED
    BY <1>3, <1>4, <2>3
<1>6. x \in S /\ \A y \in S : x >= y
  BY <1>5
<1>7. QED
  BY <1>6 DEF Max

-----------------------------------------------------------------------------
\* Types, and where create is

RanEntries == [section : Sections, path : Paths, exit : {"ok", "failed"}]

\* The types, the steps of each kind of create, the entry that is next, and the
\* content of the build context when it is used
Shape ==
    /\ type \in {"container", "vm"}
    /\ pidYaml \in PidConfigs /\ fileName \in [Paths -> Files] /\ set \in SUBSET Vars
    /\ pc \in IF type = "vm" THEN {"setUp", "load", "creation", "done"}
               ELSE {"load", "buildArgs", "context", "build", "start", "host", "env", "done"}
    /\ at \in 1..MaxScripts + 1
    /\ pc \in {"build", "creation"} => at <= Len(pidYaml["creation"]) + 1
    /\ pc = "host" => at <= Len(pidYaml["host"]) + 1
    /\ pc = "env" => at <= Len(pidYaml["env"]) + 1
    /\ context \in [Files -> Paths \cup {NoPath}]
    /\ pc = "build" => context = [f \in Files |-> CopiedTo(f)]
    /\ up \in BOOLEAN
    /\ ran \in Seq(RanEntries)
    /\ result \in {"none", "ok", "failed"} /\ (pc = "done" <=> result # "none")

\* A section is a sequence of entries, no longer than the bound.
LEMMA SectionIs ==
    ASSUME pidYaml \in PidConfigs, NEW s \in Sections
    PROVE  /\ pidYaml[s] \in Seq(Entries)
           /\ Len(pidYaml[s]) \in 0..MaxScripts
           /\ DOMAIN pidYaml[s] = 1..Len(pidYaml[s])
<1>1. PICK k \in 0..MaxScripts : pidYaml[s] \in [1..k -> Entries]
  BY DEF PidConfigs, SeqOf
<1>2. k \in Nat
  BY <1>1, ScriptsAssumption
<1>3. pidYaml[s] \in Seq(Entries) /\ Len(pidYaml[s]) = k
  BY <1>1, <1>2
<1>4. QED
  BY <1>1, <1>3

\* The entry that is next, while there is one
LEMMA NextIs ==
    ASSUME Shape, NEW s \in Sections, More(s)
    PROVE  /\ Entry(s) \in Entries /\ at \in DOMAIN pidYaml[s]
           /\ at + 1 \in 1..MaxScripts + 1 /\ at + 1 <= Len(pidYaml[s]) + 1
<1>1. /\ pidYaml[s] \in Seq(Entries)
      /\ Len(pidYaml[s]) \in 0..MaxScripts
      /\ DOMAIN pidYaml[s] = 1..Len(pidYaml[s])
  BY SectionIs DEF Shape
<1>2. QED
  BY <1>1, ScriptsAssumption DEF Shape, More, Entry

\* A file of the build context that a script was copied to has the content of a
\* script with that base name.
LEMMA CopyIs ==
    ASSUME pidYaml \in PidConfigs, NEW i \in DOMAIN pidYaml["creation"]
    PROVE  \E k \in DOMAIN pidYaml["creation"] :
              /\ CopiedTo(fileName[pidYaml["creation"][i].path]) = pidYaml["creation"][k].path
              /\ fileName[pidYaml["creation"][k].path] = fileName[pidYaml["creation"][i].path]
<1> DEFINE f == fileName[pidYaml["creation"][i].path]
           copied == {k \in DOMAIN pidYaml["creation"] :
                         fileName[pidYaml["creation"][k].path] = f}
<1>1. DOMAIN pidYaml["creation"] = 1..Len(pidYaml["creation"])
      /\ Len(pidYaml["creation"]) \in Nat
  BY SectionIs, ScriptsAssumption DEF Sections
<1>2. copied \in SUBSET (1..Len(pidYaml["creation"])) /\ i \in copied
  BY <1>1
<1>3. Max(copied) \in copied
  <2> HIDE DEF copied
  <2>1. QED
    BY <1>1, <1>2, GreatestIndex
<1>4. CopiedTo(f) = pidYaml["creation"][Max(copied)].path
  BY <1>2 DEF CopiedTo
<1>5. QED
  BY <1>3, <1>4

-----------------------------------------------------------------------------
\* The steps, by what they do

\* The end of create, with nothing run in the step
LEMMA FinishShape ==
    ASSUME Shape, NEW r \in {"ok", "failed"}, Finish(r), UNCHANGED <<inputs, context, ran>>,
           up' \in BOOLEAN
    PROVE  Shape'
BY DEF Shape, Finish, inputs

\* The section whose scripts are run at this step
Section == CASE pc = "host" -> "host" [] pc = "env" -> "env" [] OTHER -> "creation"

\* A script is run, and create goes on with the next entry or ends.
LEMMA RunsShape ==
    ASSUME Shape, pc \in {"build", "creation", "host", "env"},
           NEW path \in Paths, NEW exit \in {"ok", "failed"},
           Runs(Section, path, exit), More(Section), UNCHANGED <<inputs, context, up>>,
           NextEntry \/ Finish("failed")
    PROVE  Shape'
<1>1. Section \in Sections
  BY DEF Section, Sections
<1>2. ran' \in Seq(RanEntries)
  BY <1>1 DEF Shape, Runs, RanEntries
<1>3. at + 1 \in 1..MaxScripts + 1 /\ at + 1 <= Len(pidYaml[Section]) + 1
  BY <1>1, NextIs
<1>4. CASE Finish("failed")
  BY <1>2, <1>4 DEF Shape, Finish, inputs
<1>5. CASE NextEntry
  <2>1. UNCHANGED [f \in Files |-> CopiedTo(f)]
    BY DEF CopiedTo, inputs
  <2>2. QED
    BY <1>2, <1>3, <1>5, <2>1 DEF Shape, NextEntry, inputs, Section
<1>6. QED
  BY <1>4, <1>5

\* The paths run in an environment or on the host are those of entries.
LEMMA EntryPath ==
    ASSUME Shape, NEW s \in Sections, More(s)
    PROVE  Entry(s).path \in Paths
BY NextIs DEF Entries

\* What docker build runs for the next creation script is the script of an entry.
LEMMA BuildPath ==
    ASSUME Shape, pc = "build", More("creation")
    PROVE  \E k \in DOMAIN pidYaml["creation"] :
              /\ context[fileName[Entry("creation").path]] = pidYaml["creation"][k].path
              /\ pidYaml["creation"][k].path \in Paths
              /\ fileName[pidYaml["creation"][k].path] = fileName[Entry("creation").path]
<1>1. "creation" \in Sections
  BY DEF Sections
<1>2. at \in DOMAIN pidYaml["creation"] /\ Entry("creation") = pidYaml["creation"][at]
      /\ Entry("creation").path \in Paths
  BY <1>1, NextIs DEF Entry, Entries
<1>3. context[fileName[Entry("creation").path]] = CopiedTo(fileName[Entry("creation").path])
  BY <1>2 DEF Shape
<1>4. PICK k \in DOMAIN pidYaml["creation"] :
              /\ CopiedTo(fileName[pidYaml["creation"][at].path]) = pidYaml["creation"][k].path
              /\ fileName[pidYaml["creation"][k].path] = fileName[pidYaml["creation"][at].path]
  BY <1>2, CopyIs DEF Shape
<1>5. pidYaml["creation"][k].path \in Paths
  <2>1. pidYaml["creation"] \in Seq(Entries)
    BY <1>1, SectionIs DEF Shape
  <2>2. pidYaml["creation"][k] \in Entries
    BY <1>4, <2>1
  <2>3. QED
    BY <2>2 DEF Entries
<1>6. QED
  BY <1>2, <1>3, <1>4, <1>5

\* Every step keeps the shape.
LEMMA ShapeStep == ASSUME Shape, [Next]_vars PROVE Shape'
<1> USE DEF Sections
<1>1. CASE LoadPidConfig
  <2>1. CASE Finish("failed")
    BY <1>1, <2>1, FinishShape DEF LoadPidConfig, Shape
  <2>2. CASE Goto(IF type = "vm" THEN "creation" ELSE "buildArgs")
    <3>1. Len(pidYaml["creation"]) \in 0..MaxScripts
      BY SectionIs DEF Shape
    <3>2. QED
      BY <1>1, <2>2, <3>1, ScriptsAssumption DEF LoadPidConfig, Goto, Shape, inputs
  <2>3. QED
    BY <1>1, <2>1, <2>2 DEF LoadPidConfig
<1>2. CASE CollectBuildArgs
  <2>1. CASE Finish("failed")
    BY <1>2, <2>1, FinishShape DEF CollectBuildArgs, Shape
  <2>2. CASE Goto("context")
    BY <1>2, <2>2, ScriptsAssumption DEF CollectBuildArgs, Goto, Shape, inputs
  <2>3. QED
    BY <1>2, <2>1, <2>2 DEF CollectBuildArgs
<1>3. CASE PrepareBuildContext
  <2>1. CASE Finish("failed") /\ UNCHANGED context
    BY <1>3, <2>1, FinishShape DEF PrepareBuildContext, Shape
  <2>2. CASE context' = [f \in Files |-> CopiedTo(f)] /\ Goto("build")
    <3>1. Len(pidYaml["creation"]) \in 0..MaxScripts
      BY SectionIs DEF Shape
    <3>2. ASSUME NEW f \in Files PROVE CopiedTo(f) \in Paths \cup {NoPath}
      <4>1. CASE {i \in DOMAIN pidYaml["creation"] :
                      fileName[pidYaml["creation"][i].path] = f} = {}
        BY <4>1 DEF CopiedTo
      <4>2. ASSUME NEW i \in DOMAIN pidYaml["creation"],
                   fileName[pidYaml["creation"][i].path] = f
            PROVE  CopiedTo(f) \in Paths
        <5>1. PICK k \in DOMAIN pidYaml["creation"] : CopiedTo(f) = pidYaml["creation"][k].path
          BY <4>2, CopyIs DEF Shape
        <5>2. pidYaml["creation"] \in Seq(Entries)
          BY SectionIs DEF Shape
        <5>3. pidYaml["creation"][k] \in Entries
          BY <5>1, <5>2
        <5>4. QED
          BY <5>1, <5>3 DEF Entries
      <4>3. QED
        BY <4>1, <4>2
    <3>3. UNCHANGED [f \in Files |-> CopiedTo(f)]
      BY <1>3 DEF PrepareBuildContext, CopiedTo, inputs
    <3>4. QED
      BY <1>3, <2>2, <3>1, <3>2, <3>3, ScriptsAssumption
      DEF PrepareBuildContext, Goto, Shape, inputs
  <2>3. QED
    BY <1>3, <2>1, <2>2 DEF PrepareBuildContext
<1>4. CASE BuildImage
  <2>1. CASE Finish("failed") /\ UNCHANGED ran
    BY <1>4, <2>1, FinishShape DEF BuildImage, Shape
  <2>2. CASE Goto("start") /\ UNCHANGED ran
    BY <1>4, <2>2, ScriptsAssumption DEF BuildImage, Goto, Shape, inputs
  <2>3. ASSUME More("creation"), NEW exit \in {"ok", "failed"},
               Runs("creation", context[fileName[Entry("creation").path]], exit),
               IF exit = "ok" THEN NextEntry ELSE Finish("failed")
        PROVE  Shape'
    <3>1. context[fileName[Entry("creation").path]] \in Paths
      BY <1>4, <2>3, BuildPath DEF BuildImage
    <3>2. QED
      BY <1>4, <2>3, <3>1, RunsShape DEF BuildImage, Section
  <2>4. QED
    BY <1>4, <2>1, <2>2, <2>3 DEF BuildImage
<1>5. CASE StartContainer
  <2>1. CASE Finish("failed") /\ up' \in BOOLEAN
    BY <1>5, <2>1, FinishShape DEF StartContainer
  <2>2. CASE Goto("host") /\ up' = TRUE
    <3>1. Len(pidYaml["host"]) \in 0..MaxScripts
      BY SectionIs DEF Shape
    <3>2. QED
      BY <1>5, <2>2, <3>1, ScriptsAssumption DEF StartContainer, Goto, Shape, inputs
  <2>3. QED
    BY <1>5, <2>1, <2>2 DEF StartContainer
<1>6. CASE RunHostScript
  <2>1. CASE Finish("failed") /\ UNCHANGED ran
    BY <1>6, <2>1, FinishShape DEF RunHostScript, Shape
  <2>2. CASE Goto("env") /\ UNCHANGED ran
    <3>1. Len(pidYaml["env"]) \in 0..MaxScripts
      BY SectionIs DEF Shape
    <3>2. QED
      BY <1>6, <2>2, <3>1, ScriptsAssumption DEF RunHostScript, Goto, Shape, inputs
  <2>3. ASSUME More("host"), NEW exit \in {"ok", "failed"},
               Runs("host", Entry("host").path, exit),
               IF exit = "ok" THEN NextEntry ELSE Finish("failed")
        PROVE  Shape'
    BY <1>6, <2>3, EntryPath, RunsShape DEF RunHostScript, Section
  <2>4. QED
    BY <1>6, <2>1, <2>2, <2>3 DEF RunHostScript
<1>7. ASSUME NEW s \in {"creation", "env"}, pc = s, RunInside(s) PROVE Shape'
  <2>1. ASSUME NEW r \in {"ok", "failed"}, Finish(r), UNCHANGED ran PROVE Shape'
    BY <1>7, <2>1, FinishShape DEF RunInside, Shape
  <2>2. ASSUME More(s), NEW exit \in {"ok", "failed"},
               Runs(s, Entry(s).path, exit), NextEntry
        PROVE  Shape'
    BY <1>7, <2>2, EntryPath, RunsShape DEF RunInside, Section
  <2>3. QED
    BY <1>7, <2>1, <2>2 DEF RunInside
<1>8. CASE RunEnvScript \/ RunVMIsolationScript
  BY <1>7, <1>8 DEF RunEnvScript, RunVMIsolationScript
<1>9. CASE SetUpVM
  <2>1. CASE Finish("failed") /\ up' \in BOOLEAN
    BY <1>9, <2>1, FinishShape DEF SetUpVM
  <2>2. CASE Goto("load") /\ up' = TRUE
    BY <1>9, <2>2, ScriptsAssumption DEF SetUpVM, Goto, Shape, inputs
  <2>3. QED
    BY <1>9, <2>1, <2>2 DEF SetUpVM
<1>10. CASE UNCHANGED vars
  <2>1. UNCHANGED [f \in Files |-> CopiedTo(f)]
    BY <1>10 DEF vars, CopiedTo
  <2>2. QED
    BY <1>10, <2>1 DEF vars, Shape
<1>11. QED
  BY <1>1, <1>2, <1>3, <1>4, <1>5, <1>6, <1>8, <1>9, <1>10 DEF Next

\* A create starts in this shape.
LEMMA InitShape == ASSUME Init PROVE Shape
<1>1. context \in [Files -> Paths \cup {NoPath}] /\ ran \in Seq(RanEntries)
  BY DEF Init
<1>2. pc = IF type = "vm" THEN "setUp" ELSE "load"
  BY DEF Init
<1>3. at \in 1..MaxScripts + 1
  BY ScriptsAssumption DEF Init
<1>4. QED
  BY <1>1, <1>2, <1>3 DEF Init, Shape

\* Every reachable state has this shape.
LEMMA Shaped == Spec => []Shape
<1>1. Init => Shape
  BY InitShape
<1>2. Shape /\ [Next]_vars => Shape'
  BY ShapeStep
<1>3. QED
  BY <1>1, <1>2, PTL DEF Spec

\* Every variable keeps to its domain; in particular no RUN line of the Dockerfile
\* names a file that is not in the build context.
THEOREM ScriptsTypeCorrect == Spec => []TypeOK
<1>1. Shape => TypeOK
  <2> SUFFICES ASSUME Shape PROVE TypeOK
    OBVIOUS
  <2>1. \A s \in Sections : \A i \in DOMAIN pidYaml[s] : pidYaml[s][i] \in Entries
    <3> SUFFICES ASSUME NEW s \in Sections, NEW i \in DOMAIN pidYaml[s]
                 PROVE  pidYaml[s][i] \in Entries
      OBVIOUS
    <3>1. pidYaml[s] \in Seq(Entries)
      BY SectionIs DEF Shape
    <3>2. QED
      BY <3>1
  <2>2. \A i \in DOMAIN ran : ran[i] \in RanEntries
    BY DEF Shape
  <2>3. pc \in Labels
    BY DEF Shape, Labels
  <2>4. QED
    BY <2>1, <2>2, <2>3 DEF TypeOK, Shape, RanEntries
<1>2. QED
  BY <1>1, Shaped, PTL

-----------------------------------------------------------------------------
\* What has been checked before a script runs

\* In a container's create nothing is run or started before the variables of all
\* creation scripts have been looked at.
Checked ==
    type = "container" =>
          Declared("creation") \subseteq set
             \/ (ran = <<>> /\ ~up /\ pc \in {"load", "buildArgs", "done"})

\* Before a script runs or a container starts, the check it needs has been made.
LEMMA CheckedStep == ASSUME Shape, Checked, [Next]_vars PROVE Checked'
<1>1. UNCHANGED inputs
  BY DEF Next, LoadPidConfig, CollectBuildArgs, PrepareBuildContext, BuildImage, StartContainer,
         RunHostScript, RunEnvScript, RunInside, SetUpVM, RunVMIsolationScript, vars, inputs
<1>2. UNCHANGED <<Declared("creation"), type, set>>
  BY <1>1 DEF Declared, inputs
<1>3. CASE type # "container" \/ Declared("creation") \subseteq set
  BY <1>2, <1>3 DEF Checked
<1>4. CASE type = "container" /\ ~(Declared("creation") \subseteq set)
  <2>1. ran = <<>> /\ ~up /\ pc \in {"load", "buildArgs", "done"}
    BY <1>4 DEF Checked
  <2>2. CASE LoadPidConfig
    BY <1>2, <1>4, <2>1, <2>2 DEF LoadPidConfig, Finish, Goto, Checked
  <2>3. CASE CollectBuildArgs
    BY <1>2, <1>4, <2>1, <2>3 DEF CollectBuildArgs, Finish, Checked
  <2>4. CASE UNCHANGED vars
    BY <1>2, <1>4, <2>1, <2>4 DEF vars, Checked
  <2>5. QED
    BY <2>1, <2>2, <2>3, <2>4
    DEF Next, PrepareBuildContext, BuildImage, StartContainer, RunHostScript,
        RunEnvScript, SetUpVM, RunVMIsolationScript
<1>5. QED
  BY <1>3, <1>4

\* In a container's create, the variables of all creation scripts come first.
LEMMA ChecksFirst == Spec => []Checked
<1>1. Init => Checked
  BY DEF Init, Checked
<1>2. Shape /\ Checked /\ [Next]_vars => Checked'
  BY CheckedStep
<1>3. QED
  BY <1>1, <1>2, Shaped, PTL DEF Spec

\* However many scripts there are, one that lacks a variable leaves no container
\* and keeps all others from running.
THEOREM MissingVarsHolds == Spec => []MissingVarsLeaveNothing
<1>1. Checked => MissingVarsLeaveNothing
  BY DEF Checked, MissingVarsLeaveNothing
<1>2. QED
  BY <1>1, ChecksFirst, PTL

-----------------------------------------------------------------------------
\* How far create is, in the list of what is due

Running == {"build", "creation", "host", "env"}

\* The number of scripts due before those of a section
Offset(s) ==
    CASE s = "host" -> Len(pidYaml["creation"])
      [] s = "env" -> Len(pidYaml["creation"]) + Len(pidYaml["host"])
      [] OTHER -> 0

\* Where the elements of three sequences are in the three joined
LEMMA JoinThree ==
    ASSUME NEW T, NEW a \in Seq(T), NEW b \in Seq(T), NEW c \in Seq(T)
    PROVE  /\ Len(a \o b \o c) = Len(a) + Len(b) + Len(c)
           /\ \A i \in 1..Len(a) : (a \o b \o c)[i] = a[i]
           /\ \A i \in 1..Len(b) : (a \o b \o c)[Len(a) + i] = b[i]
           /\ \A i \in 1..Len(c) : (a \o b \o c)[Len(a) + Len(b) + i] = c[i]
OBVIOUS

\* The scripts due, by section
LEMMA DueIs ==
    ASSUME Shape
    PROVE  /\ Len(Due) = IF type = "vm" THEN Len(pidYaml["creation"])
                         ELSE Offset("env") + Len(pidYaml["env"])
           /\ \A s \in Sections : (type = "vm" => s = "creation")
                 => \A i \in 1..Len(pidYaml[s]) :
                       Due[Offset(s) + i] = <<s, pidYaml[s][i].path>>
<1> DEFINE Of(s) == [i \in DOMAIN pidYaml[s] |-> <<s, pidYaml[s][i].path>>]
<1>1. ASSUME NEW s \in Sections
      PROVE  /\ Len(pidYaml[s]) \in Nat /\ DOMAIN pidYaml[s] = 1..Len(pidYaml[s])
             /\ Of(s) \in Seq(Sections \X Paths) /\ Len(Of(s)) = Len(pidYaml[s])
             /\ \A i \in 1..Len(pidYaml[s]) : Of(s)[i] = <<s, pidYaml[s][i].path>>
  <2>1. pidYaml[s] \in Seq(Entries) /\ DOMAIN pidYaml[s] = 1..Len(pidYaml[s])
    BY SectionIs DEF Shape
  <2>2. \A i \in 1..Len(pidYaml[s]) : pidYaml[s][i] \in Entries
    BY <2>1
  <2>3. \A i \in 1..Len(pidYaml[s]) : pidYaml[s][i].path \in Paths
    BY <2>2 DEF Entries
  <2>4. QED
    BY <2>1, <2>3
<1>2. {"creation", "host", "env"} = Sections
  BY DEF Sections
<1>3. Due = IF type = "vm" THEN Of("creation") ELSE Of("creation") \o Of("host") \o Of("env")
  BY DEF Due
<1> HIDE DEF Of
<1>4. /\ Offset("creation") = 0 /\ Offset("host") = Len(pidYaml["creation"])
      /\ Offset("env") = Len(pidYaml["creation"]) + Len(pidYaml["host"])
  BY DEF Offset
<1>5. CASE type = "vm"
  <2>1. \A i \in 1..Len(pidYaml["creation"]) : 0 + i = i
    OBVIOUS
  <2>2. QED
    BY <1>1, <1>2, <1>3, <1>4, <1>5, <2>1
<1>6. CASE type # "vm"
  <2>1. PICK a, b, c : a = Of("creation") /\ b = Of("host") /\ c = Of("env")
    OBVIOUS
  <2>2. /\ a \in Seq(Sections \X Paths) /\ b \in Seq(Sections \X Paths)
        /\ c \in Seq(Sections \X Paths)
        /\ Len(a) = Len(pidYaml["creation"]) /\ Len(b) = Len(pidYaml["host"])
        /\ Len(c) = Len(pidYaml["env"])
    BY <1>1, <1>2, <2>1
  <2>3. Due = a \o b \o c
    BY <1>3, <1>6, <2>1
  <2>4. /\ Len(Due) = Len(a) + Len(b) + Len(c)
        /\ \A i \in 1..Len(a) : Due[i] = a[i]
        /\ \A i \in 1..Len(b) : Due[Len(a) + i] = b[i]
        /\ \A i \in 1..Len(c) : Due[Len(a) + Len(b) + i] = c[i]
    <3>1. PICK T : T = Sections \X Paths
      OBVIOUS
    <3>2. a \in Seq(T) /\ b \in Seq(T) /\ c \in Seq(T)
      BY <2>2, <3>1
    <3>3. /\ Len(a \o b \o c) = Len(a) + Len(b) + Len(c)
          /\ \A i \in 1..Len(a) : (a \o b \o c)[i] = a[i]
          /\ \A i \in 1..Len(b) : (a \o b \o c)[Len(a) + i] = b[i]
          /\ \A i \in 1..Len(c) : (a \o b \o c)[Len(a) + Len(b) + i] = c[i]
      BY <3>2, JoinThree
    <3>4. QED
      BY <2>3, <3>3, Zenon
  <2>5. Len(Due) = Offset("env") + Len(pidYaml["env"])
    BY <1>4, <2>2, <2>4
  <2>6. \A i \in 1..Len(pidYaml["creation"]) : Due[Offset("creation") + i] = Of("creation")[i]
    <3>1. \A i \in 1..Len(pidYaml["creation"]) : 0 + i = i
      OBVIOUS
    <3>2. QED
      BY <1>4, <2>1, <2>2, <2>4, <3>1
  <2>7. \A i \in 1..Len(pidYaml["host"]) : Due[Offset("host") + i] = Of("host")[i]
    BY <1>4, <2>1, <2>2, <2>4
  <2>8. \A i \in 1..Len(pidYaml["env"]) : Due[Offset("env") + i] = Of("env")[i]
    BY <1>4, <2>1, <2>2, <2>4
  <2>9. ASSUME NEW s \in Sections
        PROVE  \A i \in 1..Len(pidYaml[s]) : Due[Offset(s) + i] = <<s, pidYaml[s][i].path>>
    <3>1. s \in {"creation", "host", "env"}
      BY <1>2
    <3>2. \A i \in 1..Len(pidYaml[s]) : Due[Offset(s) + i] = Of(s)[i]
      BY <3>1, <2>6, <2>7, <2>8
    <3>3. QED
      BY <1>1, <3>2
  <2>10. QED
    BY <1>6, <2>5, <2>9
<1>7. QED
  BY <1>5, <1>6

\* A step runs nothing, or the next entry of its section: the file with its base
\* name in docker build, else the script itself with its variables set.
LEMMA StepIs ==
    ASSUME Shape, [Next]_vars
    PROVE  /\ UNCHANGED inputs
           /\ \/ UNCHANGED ran
              \/ /\ pc \in Running /\ More(Section) /\ UNCHANGED up
                 /\ pc # "build" => Entry(Section).env \subseteq set
                 /\ \E path \in Paths, exit \in {"ok", "failed"} :
                       /\ Runs(Section, path, exit)
                       /\ type = "vm" \/ DistinctNames => path = Entry(Section).path
                       /\ \/ NextEntry /\ (exit = "ok" \/ pc \in {"creation", "env"})
                          \/ Finish("failed")
<1> USE DEF Running, Section, Sections
<1>1. UNCHANGED inputs
  BY DEF Next, vars, inputs, LoadPidConfig, CollectBuildArgs, PrepareBuildContext, BuildImage,
         StartContainer, RunHostScript, RunEnvScript, SetUpVM, RunVMIsolationScript, RunInside
<1>2. CASE BuildImage /\ ~UNCHANGED ran
  <2>1. More("creation") /\ pc = "build" /\ UNCHANGED up
    BY <1>2 DEF BuildImage
  <2>2. PICK exit \in {"ok", "failed"} :
           /\ Runs("creation", context[fileName[Entry("creation").path]], exit)
           /\ IF exit = "ok" THEN NextEntry ELSE Finish("failed")
    BY <1>2 DEF BuildImage
  <2>3. PICK k \in DOMAIN pidYaml["creation"] :
              /\ context[fileName[Entry("creation").path]] = pidYaml["creation"][k].path
              /\ pidYaml["creation"][k].path \in Paths
              /\ fileName[pidYaml["creation"][k].path] = fileName[Entry("creation").path]
    BY <2>1, BuildPath
  <2>4. at \in DOMAIN pidYaml["creation"]
    BY <2>1, NextIs
  <2>5. DistinctNames => pidYaml["creation"][k].path = Entry("creation").path
    BY <2>3, <2>4 DEF DistinctNames, Entry
  <2>6. type # "vm"
    BY <2>1 DEF Shape
  <2>7. QED
    BY <1>1, <2>1, <2>2, <2>3, <2>5, <2>6
<1>3. CASE RunHostScript /\ ~UNCHANGED ran
  <2>1. More("host") /\ pc = "host" /\ UNCHANGED up /\ Entry("host").env \subseteq set
    BY <1>3 DEF RunHostScript
  <2>2. PICK exit \in {"ok", "failed"} :
           /\ Runs("host", Entry("host").path, exit)
           /\ IF exit = "ok" THEN NextEntry ELSE Finish("failed")
    BY <1>3 DEF RunHostScript
  <2>3. Entry("host").path \in Paths
    BY <2>1, EntryPath
  <2>4. QED
    BY <1>1, <2>1, <2>2, <2>3
<1>4. ASSUME NEW s \in {"creation", "env"}, pc = s, RunInside(s), ~UNCHANGED ran
      PROVE  /\ More(s) /\ UNCHANGED up /\ Entry(s).env \subseteq set
             /\ \E exit \in {"ok", "failed"} :
                   Runs(s, Entry(s).path, exit) /\ NextEntry /\ Entry(s).path \in Paths
  BY <1>4, EntryPath DEF RunInside
<1>5. CASE (RunEnvScript \/ RunVMIsolationScript) /\ ~UNCHANGED ran
  BY <1>1, <1>4, <1>5 DEF RunEnvScript, RunVMIsolationScript
<1>6. CASE ~(BuildImage \/ RunHostScript \/ RunEnvScript \/ RunVMIsolationScript)
  BY <1>1, <1>6 DEF Next, vars, LoadPidConfig, CollectBuildArgs, PrepareBuildContext,
                    StartContainer, SetUpVM
<1>7. QED
  BY <1>1, <1>2, <1>3, <1>5, <1>6

\* The number of scripts that have run, at each step
Counted ==
    /\ pc \in {"setUp", "load", "buildArgs", "context"} => ran = <<>>
    /\ pc = "start" => Len(ran) = Len(pidYaml["creation"])
    /\ pc \in Running => Len(ran) = Offset(Section) + at - 1
    /\ Len(ran) <= Len(Due)
    /\ result = "ok" => Len(ran) = Len(Due)

\* What is left unchanged with the inputs
LEMMA InputsKept ==
    ASSUME UNCHANGED inputs
    PROVE  /\ UNCHANGED <<type, set, pidYaml, Due, DistinctNames>>
           /\ \A s \in Sections : UNCHANGED <<Offset(s), Declared(s)>>
BY DEF inputs, Due, DistinctNames, Offset, Declared

\* A script that is run comes after those that were.
LEMMA RanIs ==
    ASSUME Shape, NEW s, NEW path, NEW exit, Runs(s, path, exit)
    PROVE  /\ Len(ran) \in Nat /\ Len(ran') = Len(ran) + 1
           /\ DOMAIN ran = 1..Len(ran) /\ DOMAIN ran' = 1..Len(ran) + 1
           /\ \A i \in 1..Len(ran) : ran'[i] = ran[i]
           /\ ran'[Len(ran) + 1] = [section |-> s, path |-> path, exit |-> exit]
BY DEF Shape, Runs

\* Lengths and places are numbers.
LEMMA Numbers ==
    ASSUME Shape
    PROVE  /\ Len(pidYaml["creation"]) \in Nat /\ Len(pidYaml["host"]) \in Nat
           /\ Len(pidYaml["env"]) \in Nat /\ Len(ran) \in Nat /\ at \in Nat \ {0}
           /\ Offset("creation") = 0 /\ Offset("host") = Len(pidYaml["creation"])
           /\ Offset("env") = Len(pidYaml["creation"]) + Len(pidYaml["host"])
           /\ Section \in Sections /\ Offset(Section) \in Nat
<1>1. /\ Len(pidYaml["creation"]) \in Nat /\ Len(pidYaml["host"]) \in Nat
      /\ Len(pidYaml["env"]) \in Nat
  <2>1. \A s \in Sections : Len(pidYaml[s]) \in 0..MaxScripts
    BY SectionIs DEF Shape
  <2>2. QED
    BY <2>1, ScriptsAssumption DEF Sections
<1>2. Len(ran) \in Nat /\ at \in Nat \ {0}
  BY ScriptsAssumption DEF Shape
<1>3. Section \in Sections
  BY DEF Section, Sections
<1>4. Offset(Section) \in Nat
  <2>1. CASE Section = "host"
    BY <1>1, <2>1 DEF Offset
  <2>2. CASE Section = "env"
    <3>1. ASSUME NEW c \in Nat, NEW h \in Nat PROVE c + h \in Nat
      OBVIOUS
    <3>2. Offset(Section) = Len(pidYaml["creation"]) + Len(pidYaml["host"])
      BY <2>2 DEF Offset
    <3>3. QED
      BY <1>1, <3>1, <3>2, Zenon
  <2>3. CASE Section = "creation"
    BY <2>3 DEF Offset
  <2>4. QED
    BY <1>3, <2>1, <2>2, <2>3 DEF Sections
<1>5. QED
  BY <1>1, <1>2, <1>3, <1>4 DEF Offset

\* The script that is next is the next one due.
LEMMA NextDue ==
    ASSUME Shape, Counted, pc \in Running, More(Section)
    PROVE  /\ Len(ran) + 1 <= Len(Due)
           /\ Due[Len(ran) + 1] = <<Section, Entry(Section).path>>
<1>1. Section \in Sections /\ (type = "vm" => Section = "creation")
  BY DEF Section, Sections, Shape, Running
<1>2. /\ at \in 1..Len(pidYaml[Section]) /\ Entry(Section) = pidYaml[Section][at]
  BY <1>1, NextIs, SectionIs DEF Entry, Shape
<1>3. Len(ran) + 1 = Offset(Section) + at
  <2>1. Offset(Section) \in Nat
    BY Numbers
  <2>2. Len(ran) = Offset(Section) + at - 1
    BY DEF Counted
  <2>3. at \in Nat /\ Len(ran) \in Nat
    BY Numbers
  <2>4. QED
    BY <2>1, <2>2, <2>3
<1>4. Due[Len(ran) + 1] = <<Section, Entry(Section).path>>
  BY <1>1, <1>2, <1>3, DueIs
<1>5. Len(ran) + 1 <= Len(Due)
  <2>1. CASE type = "vm"
    BY <1>1, <1>2, <1>3, <2>1, DueIs, Numbers
  <2>2. CASE type # "vm"
    <3>1. Section = "creation" \/ Section = "host" \/ Section = "env"
      BY <1>1 DEF Sections
    <3>2. Len(Due) = Len(pidYaml["creation"]) + Len(pidYaml["host"]) + Len(pidYaml["env"])
      BY <2>2, DueIs, Numbers
    <3>3. PICK c \in Nat, h \in Nat, e \in Nat :
             c = Len(pidYaml["creation"]) /\ h = Len(pidYaml["host"]) /\ e = Len(pidYaml["env"])
      BY Numbers, Zenon
    <3>4. Len(Due) = c + h + e
      BY <3>2, <3>3
    <3>5. CASE Section = "creation"
      <4>1. at \in Nat /\ at <= c /\ Len(ran) + 1 = 0 + at
        BY <1>2, <1>3, <3>3, <3>5, Numbers
      <4>2. QED
        BY <3>4, <4>1
    <3>6. CASE Section = "host"
      <4>1. at \in Nat /\ at <= h /\ Len(ran) + 1 = c + at
        BY <1>2, <1>3, <3>3, <3>6, Numbers
      <4>2. QED
        BY <3>4, <4>1
    <3>7. CASE Section = "env"
      <4>1. at \in Nat /\ at <= e /\ Len(ran) + 1 = (c + h) + at
        <5>1. Offset(Section) = c + h
          BY <3>3, <3>7, Numbers, Zenon
        <5>2. at \in Nat /\ at <= e
          BY <1>2, <3>3, <3>7, Numbers
        <5>3. QED
          BY <1>3, <5>1, <5>2
      <4>2. QED
        BY <3>4, <4>1
    <3>8. QED
      BY <3>1, <3>5, <3>6, <3>7
  <2>3. QED
    BY <2>1, <2>2
<1>6. QED
  BY <1>4, <1>5

\* Every script that is run is counted, none twice.
LEMMA CountedStep == ASSUME Shape, Counted, [Next]_vars PROVE Counted'
<1> USE DEF Running
<1>1. UNCHANGED <<type, pidYaml, Due>> /\ \A s \in Sections : UNCHANGED Offset(s)
  BY StepIs, InputsKept
<1>2. /\ Len(pidYaml["creation"]) \in Nat /\ Len(pidYaml["host"]) \in Nat
      /\ Len(pidYaml["env"]) \in Nat /\ Len(ran) \in Nat /\ at \in Nat \ {0}
      /\ Section \in Sections
  BY Numbers
<1>3. /\ Offset("creation") = 0 /\ Offset("host") = Len(pidYaml["creation"])
      /\ Offset("env") = Len(pidYaml["creation"]) + Len(pidYaml["host"])
      /\ UNCHANGED <<Offset("creation"), Offset("host"), Offset("env")>>
  BY <1>1, Numbers DEF Sections
<1>4. Len(<<>>) = 0
  OBVIOUS
<1>5. ASSUME ~UNCHANGED ran PROVE Counted'
  <2>1. PICK path \in Paths, exit \in {"ok", "failed"} :
           Runs(Section, path, exit) /\ (NextEntry \/ Finish("failed"))
    BY <1>5, StepIs
  <2>2. pc \in Running /\ More(Section)
    BY <1>5, StepIs
  <2>3. Len(ran') = Len(ran) + 1 /\ Len(ran) + 1 <= Len(Due)
    <3>1. Len(ran') = Len(ran) + 1
      BY <1>2, <2>1, RanIs
    <3>2. QED
      BY <2>2, <3>1, NextDue
  <2>4. CASE Finish("failed")
    BY <1>1, <2>3, <2>4 DEF Finish, Counted
  <2>5. CASE NextEntry
    <3>1. result' # "ok" /\ pc' = pc
      BY <2>2, <2>5 DEF NextEntry, Shape
    <3>2. Offset(Section)' = Offset(Section) /\ Offset(Section) \in Nat
      <4>1. Section' = Section
        BY <3>1 DEF Section
      <4>2. UNCHANGED Offset(Section)
        BY <1>1, <4>1 DEF Offset
      <4>3. QED
        BY <4>2, Numbers
    <3>3. Len(ran') = Offset(Section)' + at' - 1
      <4>1. Len(ran) = Offset(Section) + at - 1 /\ at' = at + 1
        BY <2>2, <2>5 DEF NextEntry, Counted
      <4>2. QED
        BY <1>2, <2>3, <3>2, <4>1
    <3>4. QED
      BY <1>1, <2>2, <2>3, <3>1, <3>3 DEF Counted
  <2>6. QED
    BY <2>1, <2>4, <2>5
<1>6. ASSUME UNCHANGED ran, Finish("failed") PROVE Counted'
  BY <1>1, <1>6 DEF Finish, Counted
<1>7. ASSUME UNCHANGED ran, NEW s, NEW path, NEW exit, Runs(s, path, exit) PROVE FALSE
  <2>1. Len(ran') = Len(ran) + 1
    BY <1>7, RanIs
  <2>2. QED
    BY <1>2, <1>7, <2>1
<1>8. CASE LoadPidConfig \/ CollectBuildArgs \/ PrepareBuildContext \/ SetUpVM
  BY <1>1, <1>2, <1>3, <1>4, <1>6, <1>8
  DEF LoadPidConfig, CollectBuildArgs, PrepareBuildContext, SetUpVM, Goto, Counted, Shape, Section
<1>9. CASE BuildImage /\ UNCHANGED ran
  <2>1. CASE ~More("creation") /\ Goto("start")
    <3>1. at = Len(pidYaml["creation"]) + 1
      BY <1>2, <1>9, <2>1 DEF BuildImage, More, Shape
    <3>2. Len(ran) = Len(pidYaml["creation"])
      BY <1>2, <1>3, <1>9, <3>1 DEF BuildImage, Counted, Section
    <3>3. result' # "ok"
      BY <1>9, <2>1 DEF BuildImage, Goto, Shape
    <3>4. QED
      BY <1>1, <1>9, <2>1, <3>2, <3>3 DEF Goto, Counted
  <2>2. QED
    BY <1>6, <1>7, <1>9, <2>1 DEF BuildImage
<1>10. CASE StartContainer
  <2>1. CASE Goto("host")
    <3>1. Len(ran) = Len(pidYaml["creation"]) /\ result' # "ok" /\ UNCHANGED ran
      BY <1>10, <2>1 DEF StartContainer, Goto, Counted, Shape
    <3>2. Section' = "host"
      BY <2>1 DEF Goto, Section
    <3>3. Offset("host")' = Len(pidYaml["creation"])
      BY <1>3
    <3>4. Len(ran') = Offset(Section)' + at' - 1
      <4>1. Offset(Section)' = Len(pidYaml["creation"])
        BY <1>1, <3>2 DEF Offset
      <4>2. QED
        BY <1>2, <2>1, <3>1, <4>1 DEF Goto
    <3>5. QED
      BY <1>1, <2>1, <3>1, <3>4 DEF Goto, Counted
  <2>2. QED
    BY <1>6, <1>10, <2>1 DEF StartContainer
<1>11. CASE RunHostScript /\ UNCHANGED ran
  <2>1. CASE ~More("host") /\ Goto("env")
    <3>1. at = Len(pidYaml["host"]) + 1
      BY <1>2, <1>11, <2>1 DEF RunHostScript, More, Shape
    <3>2. Len(ran) = Len(pidYaml["creation"]) + Len(pidYaml["host"])
      <4>1. Len(ran) = Offset("host") + at - 1
        BY <1>11 DEF RunHostScript, Counted, Section
      <4>2. Offset("host") = Len(pidYaml["creation"])
        BY <1>3
      <4>3. PICK c \in Nat, h \in Nat :
               c = Len(pidYaml["creation"]) /\ h = Len(pidYaml["host"])
        BY <1>2, Zenon
      <4>4. Len(ran) = c + (h + 1) - 1
        BY <3>1, <4>1, <4>2, <4>3, Zenon
      <4>5. QED
        BY <4>3, <4>4
    <3>3. Offset(Section)' = Len(pidYaml["creation"]) + Len(pidYaml["host"])
      BY <1>1, <2>1 DEF Goto, Section, Offset
    <3>4. Len(ran') = Offset(Section)' + at' - 1 /\ result' # "ok"
      BY <1>2, <1>11, <2>1, <3>2, <3>3 DEF Goto, RunHostScript, Shape
    <3>5. QED
      BY <1>1, <1>11, <2>1, <3>4 DEF Goto, Counted
  <2>2. QED
    BY <1>6, <1>7, <1>11, <2>1 DEF RunHostScript
<1>12. ASSUME NEW s \in {"creation", "env"}, pc = s, RunInside(s), UNCHANGED ran PROVE Counted'
  <2>1. CASE ~More(s) /\ Finish("ok")
    <3>1. at = Len(pidYaml[s]) + 1
      BY <1>2, <1>12, <2>1 DEF More, Shape
    <3>2. Len(Due) = Offset(s) + Len(pidYaml[s])
      BY <1>2, <1>3, <1>12, DueIs DEF Shape
    <3>3. Len(ran) = Offset(s) + at - 1
      BY <1>12 DEF Counted, Section
    <3>4. Len(ran) = Len(Due)
      BY <1>2, <1>3, <3>1, <3>2, <3>3
    <3>5. QED
      BY <1>1, <1>2, <1>12, <2>1, <3>4 DEF Finish, Counted
  <2>2. QED
    BY <1>6, <1>7, <1>12, <2>1 DEF RunInside
<1>13. CASE (RunEnvScript \/ RunVMIsolationScript) /\ UNCHANGED ran
  BY <1>12, <1>13 DEF RunEnvScript, RunVMIsolationScript
<1>14. CASE UNCHANGED vars
  <2>1. UNCHANGED Offset(Section)
    BY <1>1, <1>14 DEF vars, Section, Offset
  <2>2. QED
    BY <1>1, <1>14, <2>1 DEF vars, Counted
<1>15. QED
  BY <1>5, <1>8, <1>9, <1>10, <1>11, <1>13, <1>14 DEF Next

-----------------------------------------------------------------------------
\* The order of what has run, and how it ended

Ordered ==
    type = "vm" \/ DistinctNames =>
        \A i \in 1..Len(ran) : <<ran[i].section, ran[i].path>> = Due[i]

\* A script in the build or on the host that failed is the last, and create failed.
Stopped ==
    type = "container" =>
        \A i \in 1..Len(ran) :
            ran[i].section # "env" /\ (i < Len(ran) \/ result # "failed") => ran[i].exit = "ok"

\* What is run next is next in the order.
LEMMA OrderedStep == ASSUME Shape, Counted, Ordered, [Next]_vars PROVE Ordered'
<1>1. UNCHANGED <<type, Due, DistinctNames>>
  BY StepIs, InputsKept
<1>2. CASE UNCHANGED ran
  BY <1>1, <1>2 DEF Ordered
<1>3. CASE ~UNCHANGED ran
  <2>1. PICK path \in Paths, exit \in {"ok", "failed"} :
           /\ Runs(Section, path, exit)
           /\ type = "vm" \/ DistinctNames => path = Entry(Section).path
    BY <1>3, StepIs
  <2>2. Due[Len(ran) + 1] = <<Section, Entry(Section).path>>
    BY <1>3, StepIs, NextDue
  <2>3. /\ Len(ran) \in Nat /\ Len(ran') = Len(ran) + 1
        /\ \A i \in 1..Len(ran) : ran'[i] = ran[i]
        /\ ran'[Len(ran) + 1] = [section |-> Section, path |-> path, exit |-> exit]
    BY <2>1, RanIs
  <2> SUFFICES ASSUME type = "vm" \/ DistinctNames, NEW i \in 1..Len(ran')
               PROVE  <<ran'[i].section, ran'[i].path>> = Due[i]
    BY <1>1 DEF Ordered
  <2>4. CASE i \in 1..Len(ran)
    BY <2>3, <2>4 DEF Ordered
  <2>5. CASE i = Len(ran) + 1
    BY <2>1, <2>2, <2>3, <2>5
  <2>6. QED
    BY <2>3, <2>4, <2>5
<1>4. QED
  BY <1>2, <1>3

\* Nothing follows a failed script of the build or the host.
LEMMA StoppedStep == ASSUME Shape, Stopped, [Next]_vars PROVE Stopped'
<1>1. UNCHANGED type
  BY StepIs, InputsKept
<1>2. result = "none" \/ UNCHANGED vars
  <2>1. CASE pc = "done"
    BY <2>1 DEF Next, LoadPidConfig, CollectBuildArgs, PrepareBuildContext, BuildImage,
                StartContainer, RunHostScript, RunEnvScript, SetUpVM, RunVMIsolationScript
  <2>2. QED
    BY <2>1 DEF Shape
<1>3. CASE UNCHANGED vars
  BY <1>3 DEF Stopped, vars
<1>4. CASE result = "none" /\ UNCHANGED ran
  BY <1>1, <1>4 DEF Stopped
<1>5. CASE result = "none" /\ ~UNCHANGED ran
  <2>1. PICK path \in Paths, exit \in {"ok", "failed"} :
           /\ Runs(Section, path, exit)
           /\ (NextEntry /\ (exit = "ok" \/ pc \in {"creation", "env"})) \/ Finish("failed")
    BY <1>5, StepIs
  <2>2. /\ Len(ran) \in Nat /\ Len(ran') = Len(ran) + 1
        /\ \A i \in 1..Len(ran) : ran'[i] = ran[i]
        /\ ran'[Len(ran) + 1] = [section |-> Section, path |-> path, exit |-> exit]
    BY <2>1, RanIs
  <2> SUFFICES ASSUME type = "container", NEW i \in 1..Len(ran'), ran'[i].section # "env",
                      i < Len(ran') \/ result' # "failed"
               PROVE  ran'[i].exit = "ok"
    BY <1>1 DEF Stopped
  <2>3. CASE i \in 1..Len(ran)
    BY <1>5, <2>2, <2>3 DEF Stopped
  <2>4. CASE i = Len(ran) + 1
    <3>1. ~Finish("failed") /\ Section # "env"
      BY <2>2, <2>4 DEF Finish
    <3>2. pc # "creation" /\ pc # "env"
      BY <3>1 DEF Shape, Section
    <3>3. QED
      BY <2>1, <2>2, <2>4, <3>1, <3>2
  <2>5. QED
    BY <2>2, <2>3, <2>4
<1>6. QED
  BY <1>2, <1>3, <1>4, <1>5

\* Nothing has run when create starts.
LEMMA InitCounted == ASSUME Init PROVE Counted
<1>1. Shape
  BY InitShape
<1>2. Len(Due) \in Nat
  <2>1. CASE type = "vm"
    BY <1>1, <2>1, DueIs, Numbers
  <2>2. CASE type # "vm"
    <3>1. PICK c \in Nat, h \in Nat, e \in Nat :
             c = Len(pidYaml["creation"]) /\ h = Len(pidYaml["host"]) /\ e = Len(pidYaml["env"])
      BY <1>1, Numbers, Zenon
    <3>2. Len(Due) = (c + h) + e
      <4>1. Len(Due) = Offset("env") + Len(pidYaml["env"])
        BY <1>1, <2>2, DueIs
      <4>2. Offset("env") = Len(pidYaml["creation"]) + Len(pidYaml["host"])
        BY <1>1, Numbers
      <4>3. QED
        BY <3>1, <4>1, <4>2, Zenon
    <3>3. (c + h) + e \in Nat
      OBVIOUS
    <3>4. QED
      BY <3>2, <3>3
  <2>3. QED
    BY <2>1, <2>2
<1>3. Len(ran) = 0
  BY DEF Init
<1>4. QED
  BY <1>2, <1>3 DEF Init, Counted, Running

\* However many scripts there are, they run in the order of pid.yaml.
THEOREM RunsInOrderHolds == Spec => []RunsInOrder
<1>1. Init => Counted /\ Ordered /\ Stopped
  <2>1. Init => Counted
    BY InitCounted
  <2>2. Init => Ordered /\ Stopped
    BY DEF Init, Ordered, Stopped
  <2>3. QED
    BY <2>1, <2>2
<1>2. Shape /\ Counted /\ Ordered /\ Stopped /\ [Next]_vars => (Counted /\ Ordered /\ Stopped)'
  BY CountedStep, OrderedStep, StoppedStep
<1>3. Shape /\ Counted /\ Ordered /\ Stopped => RunsInOrder
  <2> SUFFICES ASSUME Shape, Counted, Ordered, Stopped PROVE RunsInOrder
    OBVIOUS
  <2>1. Len(ran) \in Nat /\ DOMAIN ran = 1..Len(ran) /\ Len(Executed) = Len(ran)
    BY DEF Shape, Executed
  <2>2. ASSUME type = "vm" \/ DistinctNames PROVE IsPrefix(Executed, Due)
    <3>1. \A i \in 1..Len(Executed) : Executed[i] = Due[i]
      BY <2>1, <2>2 DEF Ordered, Executed
    <3>2. Len(Executed) <= Len(Due)
      BY <2>1 DEF Counted
    <3>3. QED
      BY <3>1, <3>2, <2>1 DEF IsPrefix
  <2>3. QED
    BY <2>1, <2>2 DEF RunsInOrder, Stopped
<1>4. QED
  BY <1>1, <1>2, <1>3, Shaped, PTL DEF Spec

-----------------------------------------------------------------------------
\* What a create that reports success has done

\* The entries of a section before a place lack no variable.
Supplied(s, n) == \A i \in 1..Len(pidYaml[s]) : i < n => pidYaml[s][i].env \subseteq set

\* What has been done at each step
Done ==
    /\ pc \in {"host", "env", "creation"} \/ (type = "vm" /\ pc = "load") => up
    /\ pc = "host" => Supplied("host", at)
    /\ pc = "env" => Declared("host") \subseteq set /\ Supplied("env", at)
    /\ pc = "creation" => Supplied("creation", at)
    /\ result = "ok" =>
          /\ up
          /\ type = "vm" => Declared("creation") \subseteq set
          /\ type = "container" => Declared("host") \cup Declared("env") \subseteq set

\* All of a section's variables are set once its last entry has been looked at.
LEMMA AllSupplied ==
    ASSUME Shape, NEW s \in Sections, Supplied(s, at), ~More(s)
    PROVE  Declared(s) \subseteq set
<1>1. DOMAIN pidYaml[s] = 1..Len(pidYaml[s]) /\ Len(pidYaml[s]) \in Nat /\ at \in Nat
  BY SectionIs, ScriptsAssumption DEF Shape
<1>2. \A i \in DOMAIN pidYaml[s] : pidYaml[s][i].env \subseteq set
  BY <1>1 DEF Supplied, More
<1>3. QED
  BY <1>2 DEF Declared

\* The entry that has its variables joins those before it.
LEMMA OneMoreSupplied ==
    ASSUME Shape, NEW s \in Sections, Supplied(s, at), More(s), Entry(s).env \subseteq set
    PROVE  Supplied(s, at + 1)
<1>1. Len(pidYaml[s]) \in Nat /\ at \in Nat
  BY SectionIs, ScriptsAssumption DEF Shape
<1>2. QED
  BY <1>1 DEF Supplied, Entry

\* Every step keeps what has been done.
LEMMA DoneStep == ASSUME Shape, Done, [Next]_vars PROVE Done'
<1>1. /\ UNCHANGED <<type, set, pidYaml, Declared("creation"), Declared("host"), Declared("env")>>
      /\ Supplied("host", at)' = Supplied("host", at')
      /\ Supplied("env", at)' = Supplied("env", at')
      /\ Supplied("creation", at)' = Supplied("creation", at')
  BY StepIs, InputsKept DEF Sections, Supplied
<1>2. ASSUME Finish("failed") PROVE Done'
  BY <1>2 DEF Finish, Done
<1>3. Supplied("creation", 1) /\ Supplied("host", 1) /\ Supplied("env", 1)
  <2>1. \A s \in Sections : Supplied(s, 1)
    BY SectionIs, ScriptsAssumption DEF Shape, Supplied
  <2>2. QED
    BY <2>1 DEF Sections
<1>4. CASE LoadPidConfig
  BY <1>1, <1>2, <1>3, <1>4 DEF LoadPidConfig, Goto, Done, Shape
<1>5. CASE CollectBuildArgs \/ PrepareBuildContext
  BY <1>1, <1>2, <1>5 DEF CollectBuildArgs, PrepareBuildContext, Goto, Done, Shape
<1>6. CASE BuildImage
  BY <1>1, <1>2, <1>6 DEF BuildImage, Goto, NextEntry, Done, Shape
<1>7. CASE StartContainer
  BY <1>1, <1>2, <1>3, <1>7 DEF StartContainer, Goto, Done, Shape
<1>8. CASE RunHostScript
  <2>1. Supplied("host", at) /\ up /\ up' /\ type = "container" /\ result = "none"
    BY <1>8 DEF RunHostScript, Done, Shape
  <2>2. CASE ~More("host") /\ Goto("env")
    <3>1. Declared("host") \subseteq set
      BY <2>1, <2>2, AllSupplied DEF Sections
    <3>2. QED
      BY <1>1, <1>3, <2>1, <2>2, <3>1 DEF Goto, Done
  <2>3. CASE More("host") /\ Entry("host").env \subseteq set /\ NextEntry
    <3>1. Supplied("host", at + 1)
      BY <2>1, <2>3, OneMoreSupplied DEF Sections
    <3>2. QED
      BY <1>1, <1>8, <2>1, <2>3, <3>1 DEF RunHostScript, NextEntry, Done
  <2>4. QED
    BY <1>2, <1>8, <2>2, <2>3 DEF RunHostScript
<1>9. ASSUME NEW s \in {"creation", "env"}, pc = s, RunInside(s) PROVE Done'
  <2>1. /\ Supplied(s, at) /\ up /\ up' /\ result = "none" /\ s \in Sections
        /\ (s = "creation" => type = "vm")
        /\ (s = "env" => type = "container" /\ Declared("host") \subseteq set)
    BY <1>9 DEF RunInside, Done, Shape, Sections
  <2>2. CASE ~More(s) /\ Finish("ok")
    <3>1. Declared(s) \subseteq set
      BY <2>1, <2>2, AllSupplied
    <3>2. QED
      BY <1>1, <1>9, <2>1, <2>2, <3>1 DEF Finish, Done
  <2>3. CASE More(s) /\ Entry(s).env \subseteq set /\ NextEntry
    <3>1. Supplied(s, at + 1)
      BY <2>1, <2>3, OneMoreSupplied
    <3>2. QED
      BY <1>1, <1>9, <2>1, <2>3, <3>1 DEF NextEntry, Done
  <2>4. QED
    BY <1>2, <1>9, <2>2, <2>3 DEF RunInside
<1>10. CASE RunEnvScript \/ RunVMIsolationScript
  BY <1>9, <1>10 DEF RunEnvScript, RunVMIsolationScript
<1>11. CASE SetUpVM
  BY <1>1, <1>2, <1>11 DEF SetUpVM, Goto, Done, Shape
<1>12. CASE UNCHANGED vars
  BY <1>1, <1>12 DEF vars, Done
<1>13. QED
  BY <1>4, <1>5, <1>6, <1>7, <1>8, <1>10, <1>11, <1>12 DEF Next

\* However many scripts there are, a create that reports success has run all that
\* are due, each with its variables.
THEOREM SuccessMeansDoneHolds == Spec => []SuccessMeansDone
<1>1. Init => Counted /\ Stopped /\ Done
  <2>1. Init => Counted
    BY InitCounted
  <2>2. Init => Stopped /\ Done
    BY DEF Init, Stopped, Done
  <2>3. QED
    BY <2>1, <2>2
<1>2. Shape /\ Counted /\ Stopped /\ Done /\ [Next]_vars => (Counted /\ Stopped /\ Done)'
  BY CountedStep, StoppedStep, DoneStep
<1>3. Shape /\ Checked /\ Counted /\ Stopped /\ Done => SuccessMeansDone
  <2> SUFFICES ASSUME Shape, Checked, Counted, Stopped, Done, result = "ok"
               PROVE  SuccessMeansDone
    BY DEF SuccessMeansDone
  <2>1. DOMAIN ran = 1..Len(ran) /\ type \in {"container", "vm"}
    BY DEF Shape
  <2>2. up /\ Len(ran) = Len(Due)
    BY DEF Done, Counted
  <2>3. Declared("creation") \subseteq set
    BY <2>1, <2>2 DEF Done, Checked
  <2>4. type = "container" => \A i \in DOMAIN ran : ran[i].section # "env" => ran[i].exit = "ok"
    BY <2>1 DEF Stopped
  <2>5. QED
    BY <2>2, <2>3, <2>4 DEF SuccessMeansDone, Done
<1>4. QED
  BY <1>1, <1>2, <1>3, Shaped, ChecksFirst, PTL DEF Spec
================================================================================
