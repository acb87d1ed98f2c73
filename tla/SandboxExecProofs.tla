--------------------------- MODULE SandboxExecProofs ---------------------------
(***************************************************************************)
(* SandboxExec implements the safety part of SupervisedCommand, for any    *)
(* set of sandboxed processes and any number of signals.                   *)
(***************************************************************************)
EXTENDS SandboxExec, TLAPS

\* Taking the signal out of a channel of capacity one leaves it empty.
LEMMA TakeSignal ==
    ASSUME TypeOK, sigCh # <<>>
    PROVE  Head(sigCh) \in Polite /\ Tail(sigCh) = <<>>
<1>1. PICK s \in Polite : sigCh = <<s>>
  BY DEF TypeOK
<1>2. QED
  BY <1>1

\* Every step keeps the types; a forwarded signal is one that was taken.
LEMMA TypeStep ==
    ASSUME TypeOK, GoroutinesAgree, [Next]_vars
    PROVE  TypeOK'
<1> USE SandboxAssumption DEF TypeOK, config, kernel, Polite, Members
<1>1. CASE Start
  BY <1>1 DEF Start, Return
<1>2. CASE SelectSignal \/ SelectDone
  BY <1>2, TakeSignal DEF SelectSignal, SelectDone, Return
<1>3. CASE Forward
  <2>1. sig \in Polite
    BY <1>3 DEF GoroutinesAgree, Forward
  <2>2. got' \in [Members -> SUBSET (Polite \cup {"KILL"})]
    BY <1>3, <2>1 DEF Forward, Deliver
  <2>3. QED
    BY <1>3, <2>2 DEF Forward
<1>4. CASE EscalateDone \/ EscalateSignal \/ EscalateTimeout \/ WaitDone
  BY <1>4, TakeSignal DEF EscalateDone, EscalateSignal, EscalateTimeout, WaitDone, Return
<1>5. CASE ForceKill
  BY <1>5 DEF ForceKill, Deliver, Targets
<1>6. CASE Reap \/ Tick
  BY <1>6 DEF Reap, Tick
<1>7. ASSUME NEW m \in Members, Ends(m) \/ Succumbs(m) PROVE TypeOK'
  BY <1>7 DEF Ends, Succumbs, Dies
<1>8. ASSUME NEW m \in Members, NEW d \in Descendants, Spawns(m, d) PROVE TypeOK'
  BY <1>8 DEF Spawns
<1>9. CASE Terminate \/ CtrlC
  BY <1>9 DEF Terminate, CtrlC, Notify, Deliver
<1>10. CASE UNCHANGED vars
  BY <1>10 DEF vars
<1>11. QED
  BY <1>1, <1>2, <1>3, <1>4, <1>5, <1>6, <1>7, <1>8, <1>9, <1>10 DEF Next, Main

\* Every step keeps the goroutines in agreement.
LEMMA AgreeStep ==
    ASSUME TypeOK, GoroutinesAgree, [Next]_vars
    PROVE  GoroutinesAgree'
<1> USE SandboxAssumption DEF TypeOK, GoroutinesAgree, config, kernel, Polite, Members
<1>1. CASE Start
  <2>1. CASE Return("error") /\ UNCHANGED <<waiter, alive, born>>
    BY <1>1, <2>1 DEF Start, Return
  <2>2. CASE /\ main' = "select" /\ waiter' = "waiting"
             /\ alive' = {Leader} /\ born' = {Leader} /\ UNCHANGED code
    BY <1>1, <2>2 DEF Start
  <2>3. QED
    BY <1>1, <2>1, <2>2 DEF Start
<1>2. CASE SelectSignal \/ SelectDone
  BY <1>2, TakeSignal DEF SelectSignal, SelectDone, Return
<1>3. CASE Forward \/ ForceKill
  BY <1>3 DEF Forward, ForceKill
<1>4. CASE EscalateDone \/ EscalateSignal \/ EscalateTimeout \/ WaitDone
  BY <1>4, TakeSignal DEF EscalateDone, EscalateSignal, EscalateTimeout, WaitDone, Return
<1>5. CASE Reap \/ Tick
  BY <1>5 DEF Reap, Tick
<1>6. ASSUME NEW m \in Members, Ends(m) \/ Succumbs(m) PROVE GoroutinesAgree'
  BY <1>6 DEF Ends, Succumbs, Dies
<1>7. ASSUME NEW m \in Members, NEW d \in Descendants, Spawns(m, d)
      PROVE  GoroutinesAgree'
  BY <1>7 DEF Spawns
<1>8. CASE Terminate \/ CtrlC
  BY <1>8 DEF Terminate, CtrlC, Notify
<1>9. CASE UNCHANGED vars
  BY <1>9 DEF vars
<1>10. QED
  BY <1>1, <1>2, <1>3, <1>4, <1>5, <1>6, <1>7, <1>8, <1>9 DEF Next, Main

\* The main goroutine's program counter, the leader's being started and reaped
\* and the signal taken agree, whatever the processes and the senders do.
THEOREM Agreement == Safety => [](TypeOK /\ GoroutinesAgree)
<1>1. Init => TypeOK /\ GoroutinesAgree
  BY SandboxAssumption DEF Init, TypeOK, GoroutinesAgree, Members, Polite
<1>2. TypeOK /\ GoroutinesAgree /\ [Next]_vars => TypeOK' /\ GoroutinesAgree'
  BY TypeStep, AgreeStep
<1>3. QED
  BY <1>1, <1>2, PTL DEF Safety

\* Every variable keeps to its domain: the channel never holds two signals.
THEOREM SandboxTypeCorrect == Safety => []TypeOK
BY Agreement, PTL

-----------------------------------------------------------------------------
\* The refinement mapping, label by label

\* The phase the promise sees, read off the operation of the main goroutine.
LEMMA PhaseIs ==
    /\ main = "start" => Phase = "idle"
    /\ main = "select" => Phase = "running"
    /\ main \in {"forward", "escalate"} => Phase = "stopping"
    /\ main \in {"kill", "waitDone"} => Phase = "forced"
    /\ main = "returned" => Phase = "returned"
BY DEF Phase

\* The same for the state after a step.
LEMMA PhaseNext ==
    /\ main' = "start" => Phase' = "idle"
    /\ main' = "select" => Phase' = "running"
    /\ main' \in {"forward", "escalate"} => Phase' = "stopping"
    /\ main' \in {"kill", "waitDone"} => Phase' = "forced"
    /\ main' = "returned" => Phase' = "returned"
BY DEF Phase

\* A step that leaves the main goroutine where it is leaves the phase.
LEMMA PhaseSame == main' = main => Phase' = Phase
BY DEF Phase

\* Every step of the code is a step of the promise or changes nothing it sees.
LEMMA StepKeepsPromise ==
    ASSUME TypeOK, GoroutinesAgree, [Next]_vars
    PROVE  [Promise!Next]_(Promise!vars)
<1> USE SandboxAssumption, PhaseIs, PhaseNext, PhaseSame
    DEF TypeOK, GoroutinesAgree, config, kernel, Polite, Members, Child, Code,
        Promise!vars
<1>1. CASE Start
  <2>1. Promise!Launch
    BY <1>1 DEF Start, Return, Promise!Launch
  <2>2. QED
    BY <2>1 DEF Promise!Next
<1>2. CASE SelectSignal
  <2>1. Promise!Ask
    BY <1>2, TakeSignal DEF SelectSignal, Promise!Ask
  <2>2. QED
    BY <2>1 DEF Promise!Next
<1>3. CASE SelectDone
  <2>1. Promise!Finish
    BY <1>3 DEF SelectDone, Return, Promise!Finish
  <2>2. QED
    BY <2>1 DEF Promise!Next
<1>4. CASE EscalateDone \/ WaitDone
  <2>1. Promise!Return
    BY <1>4 DEF EscalateDone, WaitDone, Return, Promise!Return
  <2>2. QED
    BY <2>1 DEF Promise!Next
<1>5. CASE EscalateSignal \/ EscalateTimeout
  <2>1. Promise!Force
    BY <1>5 DEF EscalateSignal, EscalateTimeout, Promise!Force
  <2>2. QED
    BY <2>1 DEF Promise!Next
<1>6. CASE Forward \/ ForceKill
  BY <1>6 DEF Forward, ForceKill
<1>7. CASE Reap \/ Tick \/ Terminate \/ CtrlC
  BY <1>7 DEF Reap, Tick, Terminate, CtrlC, Notify
<1>8. ASSUME NEW m \in Members, Ends(m) \/ Succumbs(m)
      PROVE  [Promise!Next]_(Promise!vars)
  <2>1. CASE m = Leader
    <3>1. Promise!ChildEnds
      BY <1>8, <2>1 DEF Ends, Succumbs, Dies, Promise!ChildEnds
    <3>2. QED
      BY <3>1 DEF Promise!Next
  <2>2. CASE m # Leader
    BY <1>8, <2>2 DEF Ends, Succumbs, Dies
  <2>3. QED
    BY <2>1, <2>2
<1>9. ASSUME NEW m \in Members, NEW d \in Descendants, Spawns(m, d)
      PROVE  [Promise!Next]_(Promise!vars)
  BY <1>9 DEF Spawns
<1>10. CASE UNCHANGED vars
  BY <1>10 DEF vars
<1>11. QED
  BY <1>1, <1>2, <1>3, <1>4, <1>5, <1>6, <1>7, <1>8, <1>9, <1>10 DEF Next, Main

\* runWithSignals keeps the safety part of its promise: it answers only when
\* nono is dead, launches it once, and reports the first signal it took.
THEOREM ImplementsPromise == Safety => Promise!Spec
<1>1. Init => Promise!Init
  BY PhaseIs DEF Init, Promise!Init, Child, Code
<1>2. TypeOK /\ GoroutinesAgree /\ [Next]_vars => [Promise!Next]_(Promise!vars)
  BY StepKeepsPromise
<1>3. QED
  BY <1>1, <1>2, Agreement, PTL DEF Safety, Promise!Spec

-----------------------------------------------------------------------------
\* Which signals there have been, as seen from the channel and the processes

\* A signal in the channel was sent, one that was taken was sent before it, and a
\* kill has one of its two causes.
SignalsCounted ==
    /\ sigCh # <<>> \/ sig # "none" => sent >= 1
    /\ sigCh # <<>> /\ sig # "none" => sent >= 2
    /\ main = "kill" => timer = "fired" \/ sent >= 2

\* Without a terminal in common, the one polite signal nono and its descendants
\* ever see is the one isolarium has taken.
OnlyTheTaken ==
    /\ ~interactive => \A m \in Members : got[m] \cap Polite \subseteq {sig}
    /\ ~interactive /\ death \in Polite => death = sig
    /\ main = "returned" => code \in {"own", "error"} \/ code = sig

\* Every step keeps the count of the signals.
LEMMA CountStep ==
    ASSUME TypeOK, GoroutinesAgree, SignalsCounted, [Next]_vars
    PROVE  SignalsCounted'
<1> USE SandboxAssumption DEF TypeOK, SignalsCounted, config, kernel
<1>1. CASE Start \/ SelectDone \/ Reap \/ Tick
  BY <1>1 DEF Start, SelectDone, Return, Reap, Tick
<1>2. CASE SelectSignal
  BY <1>2, TakeSignal DEF SelectSignal
<1>3. CASE EscalateSignal
  <2>1. sig # "none"
    BY <1>3 DEF EscalateSignal, GoroutinesAgree
  <2>2. QED
    BY <1>3, <2>1, TakeSignal DEF EscalateSignal
<1>4. CASE Forward \/ ForceKill
  BY <1>4 DEF Forward, ForceKill
<1>5. CASE EscalateDone \/ EscalateTimeout \/ WaitDone
  BY <1>5 DEF EscalateDone, EscalateTimeout, WaitDone, Return
<1>6. ASSUME NEW m \in Members, Ends(m) \/ Succumbs(m) PROVE SignalsCounted'
  BY <1>6 DEF Ends, Succumbs, Dies
<1>7. ASSUME NEW m \in Members, NEW d \in Descendants, Spawns(m, d) PROVE SignalsCounted'
  BY <1>7 DEF Spawns
<1>8. CASE Terminate \/ CtrlC
  BY <1>8 DEF Terminate, CtrlC, Notify
<1>9. CASE UNCHANGED vars
  BY <1>9 DEF vars
<1>10. QED
  BY <1>1, <1>2, <1>3, <1>4, <1>5, <1>6, <1>7, <1>8, <1>9 DEF Next, Main

\* Only a signal that isolarium took is passed on.
LEMMA TakenStep ==
    ASSUME TypeOK, GoroutinesAgree, OnlyTheTaken, [Next]_vars
    PROVE  OnlyTheTaken'
<1> USE SandboxAssumption DEF TypeOK, OnlyTheTaken, config, kernel, Polite
<1>1. CASE Start \/ SelectDone \/ Reap \/ Tick
  BY <1>1 DEF Start, SelectDone, Return, Reap, Tick, GoroutinesAgree
<1>2. CASE SelectSignal
  <2>1. sig = "none"
    BY <1>2 DEF SelectSignal, GoroutinesAgree
  <2>2. QED
    BY <1>2, <2>1 DEF SelectSignal
<1>3. CASE EscalateSignal \/ EscalateTimeout
  BY <1>3 DEF EscalateSignal, EscalateTimeout
<1>4. CASE Forward
  <2>1. \A m \in Members : got'[m] \subseteq got[m] \cup {sig}
    BY <1>4 DEF Forward, Deliver
  <2>2. QED
    BY <1>4, <2>1 DEF Forward
<1>5. CASE ForceKill
  <2>1. \A m \in Members : got'[m] \subseteq got[m] \cup {"KILL"}
    BY <1>5 DEF ForceKill, Deliver
  <2>2. QED
    BY <1>5, <2>1 DEF ForceKill
<1>6. CASE EscalateDone \/ WaitDone
  BY <1>6 DEF EscalateDone, WaitDone, Return
<1>7. ASSUME NEW m \in Members, Ends(m) PROVE OnlyTheTaken'
  BY <1>7 DEF Ends, Dies
<1>8. ASSUME NEW m \in Members, Succumbs(m) PROVE OnlyTheTaken'
  <2>1. PICK s \in got[m] : Dies(m, s)
    BY <1>8 DEF Succumbs
  <2>2. ~interactive /\ s \in Polite => s = sig
    BY <2>1
  <2>3. QED
    BY <2>1, <2>2 DEF Dies
<1>9. ASSUME NEW m \in Members, NEW d \in Descendants, Spawns(m, d) PROVE OnlyTheTaken'
  BY <1>9 DEF Spawns
<1>10. CASE Terminate
  BY <1>10 DEF Terminate, Notify
<1>11. CASE CtrlC
  <2>1. ~interactive => got' = got
    BY <1>11 DEF CtrlC, Deliver
  <2>2. QED
    BY <1>11, <2>1 DEF CtrlC, Notify
<1>12. CASE UNCHANGED vars
  BY <1>12 DEF vars
<1>13. QED
  BY <1>1, <1>2, <1>3, <1>4, <1>5, <1>6, <1>7, <1>8, <1>9, <1>10, <1>11, <1>12
  DEF Next, Main

\* For any set of processes and any number of signals, SIGKILL follows a forwarded
\* polite signal and the end of the grace period or a second signal.
THEOREM KillsInTime == Safety => NoHastyKill
<1>1. Init => SignalsCounted
  BY DEF Init, SignalsCounted
<1>2. TypeOK /\ GoroutinesAgree /\ SignalsCounted /\ [Next]_vars => SignalsCounted'
  BY CountStep
<1>3. TypeOK /\ GoroutinesAgree /\ SignalsCounted /\ [Next]_vars
        => [\A m \in Members : "KILL" \in got'[m] \ got[m] =>
              /\ sig # "none" /\ main = "kill"
              /\ timer = "fired" \/ sent >= 2]_vars
  <2> SUFFICES ASSUME TypeOK, GoroutinesAgree, SignalsCounted, Next,
                      NEW m \in Members, "KILL" \in got'[m], "KILL" \notin got[m]
               PROVE  /\ sig # "none" /\ main = "kill"
                      /\ timer = "fired" \/ sent >= 2
    OBVIOUS
  <2>1. ASSUME got' = got PROVE FALSE
    BY <2>1
  <2>2. ASSUME NEW s \in Polite, NEW S, Deliver(s, S) PROVE FALSE
    BY <2>2 DEF Deliver, TypeOK, Polite
  <2>3. ~Forward
    <3>1. Forward => sig \in Polite
      BY DEF Forward, TypeOK, GoroutinesAgree
    <3>2. QED
      BY <2>2, <3>1 DEF Forward
  <2>4. ~CtrlC
    BY <2>2 DEF CtrlC, Polite
  <2>5. ForceKill
    BY <2>1, <2>3, <2>4
    DEF Next, Main, Start, SelectSignal, SelectDone, EscalateDone, EscalateSignal,
        EscalateTimeout, WaitDone, Reap, Tick, Ends, Succumbs, Dies, Spawns, Terminate,
        kernel
  <2>6. QED
    BY <2>5 DEF ForceKill, GoroutinesAgree, SignalsCounted
<1>4. QED
  BY <1>1, <1>2, <1>3, Agreement, PTL DEF Safety, NoHastyKill

\* Whatever else is sent and however long it takes, a nono in a group of its own
\* that SIGINT or SIGTERM ended is reported with the code of that signal.
THEOREM SignalIsTold == Safety => []CodeTellsSignal
<1>1. Init => OnlyTheTaken
  BY DEF Init, OnlyTheTaken, Polite
<1>2. TypeOK /\ GoroutinesAgree /\ OnlyTheTaken /\ [Next]_vars => OnlyTheTaken'
  BY TakenStep
<1>3. TypeOK /\ GoroutinesAgree /\ OnlyTheTaken => CodeTellsSignal
  BY DEF TypeOK, GoroutinesAgree, OnlyTheTaken, CodeTellsSignal, Polite
<1>4. QED
  BY <1>1, <1>2, <1>3, Agreement, PTL DEF Safety

-----------------------------------------------------------------------------
\* Nobody of the group escapes

\* The step that forwards the polite signal, and later the one that sends SIGKILL,
\* reaches all of the group at once; so whoever is alive after it has been signalled,
\* and nobody can start a process that has not been.
GroupReached ==
    /\ ~interactive /\ ignores = {} /\ sig # "none" /\ main # "forward" =>
          \A m \in alive : got[m] # {}
    /\ ~interactive => \A k \in Members : "KILL" \in got[k] =>
                          \A m \in alive : "KILL" \in got[m]
    /\ \A k \in Members : "KILL" \in got[k] => main \in {"waitDone", "returned"}

\* What NothingLeft waits for: the group has been signalled with what none of it
\* ignores, or SIGKILL has been sent.
Closing ==
    /\ ~interactive
    /\ \/ ignores = {} /\ sig # "none" /\ main # "forward"
       \/ \E k \in Members : "KILL" \in got[k]

\* The kernel is about to end a process: a step of Succumbs is possible for it.
Doomed(m) == \E s \in got[m] : s = "KILL" \/ m \notin ignores

\* Every step keeps GroupReached.
LEMMA ReachedStep ==
    ASSUME TypeOK, GoroutinesAgree, GroupReached, [Next]_vars
    PROVE  GroupReached'
<1> USE SandboxAssumption DEF TypeOK, GroupReached, config, kernel
<1>1. CASE Start
  BY <1>1 DEF Start, Return, GoroutinesAgree
<1>2. CASE SelectSignal \/ SelectDone
  BY <1>2 DEF SelectSignal, SelectDone, Return, GoroutinesAgree
<1>3. CASE Forward
  <2>1. /\ got' = [m \in Members |->
                      IF m \in Targets THEN got[m] \cup {sig} ELSE got[m]]
        /\ alive' = alive /\ alive \subseteq Members /\ sig # "KILL"
        /\ main = "forward" /\ interactive' = interactive /\ ignores' = ignores
        /\ main' = "escalate"
    BY <1>3 DEF Forward, Deliver, Polite
  <2>2. \A k \in Members : "KILL" \in got'[k] <=> "KILL" \in got[k]
    BY <2>1
  <2>3. ~interactive => \A m \in alive : got'[m] # {}
    BY <2>1 DEF Targets
  <2>4. QED
    BY <2>1, <2>2, <2>3
<1>4. CASE EscalateDone \/ EscalateSignal \/ EscalateTimeout \/ WaitDone
  BY <1>4
  DEF EscalateDone, EscalateSignal, EscalateTimeout, WaitDone, Return, GoroutinesAgree
<1>5. CASE ForceKill
  <2>1. /\ got' = [m \in Members |->
                      IF m \in Targets THEN got[m] \cup {"KILL"} ELSE got[m]]
        /\ alive' = alive /\ alive \subseteq Members
        /\ main' = "waitDone" /\ interactive' = interactive
    BY <1>5 DEF ForceKill, Deliver
  <2>2. ~interactive => \A m \in alive : "KILL" \in got'[m]
    BY <2>1 DEF Targets
  <2>3. QED
    BY <2>1, <2>2
<1>6. CASE Reap \/ Tick
  BY <1>6 DEF Reap, Tick
<1>7. ASSUME NEW m \in Members, Ends(m) \/ Succumbs(m) PROVE GroupReached'
  BY <1>7 DEF Ends, Succumbs, Dies
<1>8. ASSUME NEW m \in Members, NEW d \in Descendants, Spawns(m, d) PROVE GroupReached'
  BY <1>8 DEF Spawns
<1>9. CASE Terminate
  BY <1>9 DEF Terminate, Notify
<1>10. CASE CtrlC
  <2>1. ~interactive => got' = got
    BY <1>10 DEF CtrlC, Deliver
  <2>2. \A k \in Members : "KILL" \in got'[k] <=> "KILL" \in got[k]
    BY <1>10 DEF CtrlC, Deliver
  <2>3. QED
    BY <1>10, <2>1, <2>2 DEF CtrlC, Notify
<1>11. CASE UNCHANGED vars
  BY <1>11 DEF vars
<1>12. QED
  BY <1>1, <1>2, <1>3, <1>4, <1>5, <1>6, <1>7, <1>8, <1>9, <1>10, <1>11 DEF Next, Main

\* Once the group is closing it stays so, and no process is added to it.
LEMMA ClosingStep ==
    ASSUME TypeOK, GoroutinesAgree, GroupReached, Closing, [Next]_vars
    PROVE  Closing' /\ alive' \subseteq alive
<1> USE SandboxAssumption DEF TypeOK, Closing, config, kernel
<1>0. main \notin {"start", "select", "forward"}
  BY DEF GoroutinesAgree, GroupReached
<1>1. CASE EscalateDone \/ EscalateSignal \/ EscalateTimeout \/ WaitDone
  BY <1>1 DEF EscalateDone, EscalateSignal, EscalateTimeout, WaitDone, Return
<1>2. CASE ForceKill
  BY <1>2 DEF ForceKill, Deliver
<1>3. CASE Reap \/ Tick
  BY <1>3 DEF Reap, Tick
<1>4. ASSUME NEW m \in Members, Ends(m) \/ Succumbs(m)
      PROVE  Closing' /\ alive' \subseteq alive
  BY <1>4 DEF Ends, Succumbs, Dies
<1>5. ASSUME NEW m \in Members, NEW d \in Descendants, Spawns(m, d) PROVE FALSE
  BY <1>5 DEF Spawns, GroupReached
<1>6. CASE Terminate
  BY <1>6 DEF Terminate, Notify
<1>7. CASE CtrlC
  <2>1. got' = got
    BY <1>7 DEF CtrlC, Deliver
  <2>2. QED
    BY <1>7, <2>1 DEF CtrlC, Notify
<1>8. CASE UNCHANGED vars
  BY <1>8 DEF vars
<1>9. QED
  BY <1>0, <1>1, <1>2, <1>3, <1>4, <1>5, <1>6, <1>7, <1>8
  DEF Next, Main, Start, SelectSignal, SelectDone, Forward

\* Whatever else is sent and whoever starts processes meanwhile: once a group in
\* which nobody ignores the signal has been signalled, or any group has been sent
\* SIGKILL, everybody alive in it is about to be ended, and it only ever shrinks.
\* That is NothingLeft but for the time it takes the kernel.
THEOREM NobodyEscapes ==
    Safety => /\ [](Closing => \A m \in alive : Doomed(m))
              /\ [][Closing => Closing' /\ alive' \subseteq alive]_vars
<1>1. Init => GroupReached
  BY DEF Init, GroupReached
<1>2. TypeOK /\ GoroutinesAgree /\ GroupReached /\ [Next]_vars => GroupReached'
  BY ReachedStep
<1>3. TypeOK /\ GroupReached => (Closing => \A m \in alive : Doomed(m))
  BY DEF TypeOK, GroupReached, Closing, Doomed
<1>4. TypeOK /\ GoroutinesAgree /\ GroupReached /\ [Next]_vars
        => [Closing => Closing' /\ alive' \subseteq alive]_vars
  BY ClosingStep
<1>5. QED
  BY <1>1, <1>2, <1>3, <1>4, Agreement, PTL DEF Safety
=============================================================================
