-------------------------- MODULE EnvResolutionProofs --------------------------
(***************************************************************************)
(* What holds of EnvResolution for any set of names.                       *)
(***************************************************************************)
EXTENDS EnvResolution, FiniteSetTheorems, TLAPS

\* A set of types of which one element is known has that element alone when its
\* cardinality is one, and does not have cardinality zero.
LEMMA OneFound ==
    ASSUME NEW S \in SUBSET Types, NEW t \in S
    PROVE  /\ Cardinality(S) # 0
           /\ Cardinality(S) = 1 => S = {t}
<1>1. IsFiniteSet(Types)
  <2>1. Types = (({} \cup {"vm"}) \cup {"container"}) \cup {"nono"}
    BY DEF Types
  <2>2. QED
    BY <2>1, FS_EmptySet, FS_AddElement
<1>2. IsFiniteSet(S)
  BY <1>1, FS_Subset
<1>3. Cardinality(S) # 0
  BY <1>2, FS_EmptySet
<1>4. ASSUME Cardinality(S) = 1 PROVE S = {t}
  <2>1. PICK x : S = {x}
    BY <1>2, <1>4, FS_Singleton
  <2>2. QED
    BY <2>1
<1>5. QED
  BY <1>3, <1>4

\* A command whose name has a directory of type t acts on the type it was given,
\* on t, or on nothing.
LEMMA TypesMeant ==
    ASSUME NEW i \in Invocations, NEW ds, NEW t \in Types, <<DefaultName(i), t>> \in ds
    PROVE  EnvTypes(i, ds) \subseteq (IF i.type # "unset" THEN {i.type} ELSE {t})
<1>1. CASE i.type # "unset"
  BY <1>1 DEF EnvTypes
<1>2. CASE i.type = "unset"
  <2>1. t \in Found(DefaultName(i), ds) /\ Found(DefaultName(i), ds) \in SUBSET Types
    BY DEF Found
  <2>2. QED
    BY <1>2, <2>1, OneFound DEF EnvTypes
<1>3. QED
  BY <1>1, <1>2

\* Whatever directories there are, a command acts on what create has made with
\* the same flags and variables, or on nothing.
THEOREM CreatedFound == Spec => []CreatedIsFound
<1>1. CreatedIsFound
  <2> SUFFICES ASSUME NEW i \in Invocations, CreateTargets(i) \subseteq dirs
               PROVE  Targets(i, dirs) \subseteq CreateTargets(i)
    BY DEF CreatedIsFound
  <2>1. CASE Rejected(i)
    BY <2>1 DEF Targets
  <2>2. CASE ~Rejected(i)
    <3>1. TypeFlag(i) \in Types /\ (i.type # "unset" => TypeFlag(i) = i.type)
      BY <2>2 DEF TypeFlag, Rejected, Invocations, Types
    <3>2. <<DefaultName(i), TypeFlag(i)>> \in dirs
      BY <2>2 DEF CreateTargets
    <3>3. EnvTypes(i, dirs) \subseteq {TypeFlag(i)}
      BY <3>1, <3>2, TypesMeant
    <3>4. QED
      BY <2>2, <3>3 DEF Targets, CreateTargets
  <2>3. QED
    BY <2>1, <2>2
<1>2. QED
  BY <1>1, PTL

\* A command line means names and types of the program.
LEMMA TargetsTyped ==
    ASSUME NEW i \in Invocations, NEW ds
    PROVE  CreateTargets(i) \cup Targets(i, ds) \subseteq Names \X Types
<1>1. CASE Rejected(i)
  BY <1>1 DEF CreateTargets, Targets
<1>2. CASE ~Rejected(i)
  <2>1. DefaultName(i) \in Names /\ TypeFlag(i) \in Types
    BY <1>2, NamesAssumption
    DEF DefaultName, NameFlag, TypeFlag, Rejected, Invocations, Types
  <2>2. EnvTypes(i, ds) \subseteq Types
    BY <2>1 DEF EnvTypes, Found, Invocations
  <2>3. QED
    BY <2>1, <2>2 DEF CreateTargets, Targets
<1>3. QED
  BY <1>1, <1>2

\* Only names and types of the program ever have directories.
THEOREM EnvTypeCorrect == Spec => []TypeOK
<1>1. Init => TypeOK
  BY DEF Init, TypeOK
<1>2. TypeOK /\ [Next]_dirs => TypeOK'
  BY TargetsTyped DEF TypeOK, Next, Create, Run, Destroy
<1>3. QED
  BY <1>1, <1>2, PTL DEF Spec

\* No step redirects a command line from an environment that stays to another.
THEOREM NeverRedirected == Spec => NoRedirect
<1> DEFINE Keeps ==
        dirs' # dirs =>
          \A i \in Invocations :
              LET before == Targets(i, dirs)
              IN before \cap dirs = {} \/ ~(before \subseteq dirs')
                 \/ Targets(i, dirs') \subseteq before
<1>1. TypeOK /\ [Next]_dirs => [Keeps]_dirs
  <2> SUFFICES ASSUME TypeOK, NEW i \in Invocations,
                      NEW e \in Targets(i, dirs), e \in dirs, Targets(i, dirs) \subseteq dirs'
               PROVE  Targets(i, dirs') \subseteq Targets(i, dirs)
    OBVIOUS
  <2>1. ~Rejected(i)
    BY DEF Targets
  <2>2. PICK t \in EnvTypes(i, dirs) : e = <<DefaultName(i), t>>
    BY <2>1 DEF Targets
  <2>3. t \in Types
    BY <2>2 DEF TypeOK
  <2>4. EnvTypes(i, dirs') \subseteq (IF i.type # "unset" THEN {i.type} ELSE {t})
    BY <2>2, <2>3, TypesMeant
  <2>5. i.type # "unset" => t = i.type
    BY <2>2 DEF EnvTypes
  <2>6. QED
    BY <2>1, <2>2, <2>4, <2>5 DEF Targets
<1>2. QED
  BY <1>1, EnvTypeCorrect, PTL DEF Spec, NoRedirect

\* What a command with flags acts on, if it exists, status with the same flags
\* lists, and lists alone if both flags are given.
THEOREM StatusIsRight == Spec => []StatusAgrees
<1>1. TypeOK => StatusAgrees
  <2> SUFFICES ASSUME TypeOK, NEW i \in Invocations
               PROVE  /\ Targets(i, dirs) \cap dirs \subseteq Listed(i, dirs)
                      /\ i.name # "unset" /\ i.type # "unset"
                            => Listed(i, dirs) \subseteq Targets(i, dirs)
    BY DEF StatusAgrees
  <2>1. ASSUME NEW e \in Targets(i, dirs), e \in dirs PROVE e \in Listed(i, dirs)
    <3>1. PICK t \in EnvTypes(i, dirs) : e = <<DefaultName(i), t>>
      BY <2>1 DEF Targets
    <3>2. i.name # "unset" => DefaultName(i) = i.name
      BY DEF DefaultName
    <3>3. i.type # "unset" => t = i.type
      BY <3>1 DEF EnvTypes
    <3>4. QED
      BY <2>1, <3>1, <3>2, <3>3 DEF Listed
  <2>2. ASSUME i.name # "unset", i.type # "unset", NEW e \in Listed(i, dirs)
        PROVE  e \in Targets(i, dirs)
    <3>1. e \in Names \X Types /\ e[1] = i.name /\ e[2] = i.type
      BY <2>2 DEF Listed, TypeOK
    <3>2. e = <<DefaultName(i), i.type>>
      BY <2>2, <3>1 DEF DefaultName
    <3>3. EnvTypes(i, dirs) = {i.type} /\ ~Rejected(i)
      BY <2>2 DEF EnvTypes, Rejected
    <3>4. QED
      BY <3>2, <3>3 DEF Targets
  <2>3. QED
    BY <2>1, <2>2
<1>2. QED
  BY <1>1, EnvTypeCorrect, PTL
================================================================================
