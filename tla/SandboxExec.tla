------------------------------ MODULE SandboxExec ------------------------------
(***************************************************************************)
(* runWithSignals of internal/nono/exec.go: isolarium starts nono, waits   *)
(* for it in a goroutine, and selects between that and the signals it has  *)
(* asked for.  Besides isolarium's main goroutine and the waiter there are *)
(* the kernel (processes, groups, timer) and whoever sends signals.        *)
(***************************************************************************)
EXTENDS Naturals, Sequences, FiniteSets

CONSTANTS
    Leader,       \* the nono process
    Descendants,  \* the processes nono may start
    MayIgnore,    \* those that may ignore SIGINT and SIGTERM
    Modes,        \* the values of --interactive considered
    MaxSignals    \* how many signals are sent in a behaviour

Members == {Leader} \cup Descendants

Polite == {"INT", "TERM"}

ASSUME SandboxAssumption ==
    /\ Leader \notin Descendants
    /\ MayIgnore \subseteq Members
    /\ Modes \subseteq BOOLEAN
    /\ MaxSignals \in Nat

VARIABLES
    interactive,  \* the child keeps the terminal and isolarium's process group
    ignores,      \* the processes that ignore polite signals
    main,         \* the main goroutine: the operation it does next
    sigCh,        \* the signal channel, of capacity one
    waiter,       \* cmd.Wait: "none", "waiting", "sent" (doneCh full), "taken"
    timer,        \* time.After(gracePeriod): "off", "armed" or "fired"
    sig,          \* the signal taken from sigCh first
    code,         \* what runWithSignals returned
    alive,        \* the sandbox processes that are running
    born,         \* those that were ever started
    got,          \* per process, the signals delivered and not acted on
    death,        \* what the leader died of: "none", "own", or a signal
    sent          \* how many signals have been sent

vars == <<interactive, ignores, main, sigCh, waiter, timer, sig, code, alive,
          born, got, death, sent>>

kernel == <<alive, born, got, death>>
config == <<interactive, ignores>>

(***************************************************************************)
(* Every variable keeps to its domain; the signal channel never holds more *)
(* than one signal.                                                        *)
(***************************************************************************)
TypeOK ==
    /\ interactive \in BOOLEAN
    /\ ignores \in SUBSET Members
    /\ main \in {"start", "select", "forward", "escalate", "kill", "waitDone",
                 "returned"}
    /\ sigCh \in {<<>>} \cup {<<s>> : s \in Polite}
    /\ waiter \in {"none", "waiting", "sent", "taken"}
    /\ timer \in {"off", "armed", "fired"}
    /\ sig \in {"none"} \cup Polite
    /\ code \in {"none", "error", "own"} \cup Polite
    /\ alive \in SUBSET Members
    /\ born \in SUBSET Members
    /\ got \in [Members -> SUBSET (Polite \cup {"KILL"})]
    /\ death \in {"none", "own", "KILL"} \cup Polite
    /\ sent \in 0..MaxSignals

Init ==
    /\ interactive \in Modes
    /\ ignores \in SUBSET MayIgnore
    /\ main = "start"
    /\ sigCh = <<>>
    /\ waiter = "none"
    /\ timer = "off"
    /\ sig = "none"
    /\ code = "none"
    /\ alive = {}
    /\ born = {}
    /\ got = [m \in Members |-> {}]
    /\ death = "none"
    /\ sent = 0

-----------------------------------------------------------------------------
\* isolarium's main goroutine

Return(c) == main' = "returned" /\ code' = c

\* cmd.Start, after signal.Notify
Start ==
    /\ main = "start"
    /\ \/ /\ main' = "select"
          /\ waiter' = "waiting"
          /\ alive' = {Leader} /\ born' = {Leader}
          /\ UNCHANGED code
       \/ /\ Return("error")
          /\ UNCHANGED <<waiter, alive, born>>
    /\ UNCHANGED <<config, sigCh, timer, sig, got, death, sent>>

\* Mutant: the signal taken is forgotten.
SelectSignalForgotten ==
    /\ main = "select"
    /\ sigCh # <<>>
    /\ sigCh' = Tail(sigCh)
    /\ main' = "forward"
    /\ UNCHANGED <<config, waiter, timer, sig, code, kernel, sent>>

\* The first select: a signal and the end of the command may both be ready.
SelectSignal ==
    /\ main = "select"
    /\ sigCh # <<>>
    /\ sig' = Head(sigCh)
    /\ sigCh' = Tail(sigCh)
    /\ main' = "forward"
    /\ UNCHANGED <<config, waiter, timer, code, kernel, sent>>

SelectDone ==
    /\ main = "select"
    /\ waiter = "sent"
    /\ waiter' = "taken"
    /\ Return("own")
    /\ UNCHANGED <<config, sigCh, timer, sig, kernel, sent>>

\* Mutant: the leader alone is signalled, in a group of its own as well.
TargetsLeader == alive \cap {Leader}

\* killPid is the group, or for an interactive command the leader alone.
Targets == IF interactive THEN alive \cap {Leader} ELSE alive

Deliver(signal, targets) ==
    got' = [m \in Members |-> IF m \in targets THEN got[m] \cup {signal} ELSE got[m]]

Forward ==
    /\ main = "forward"
    /\ Deliver(sig, Targets)
    /\ main' = "escalate"
    /\ timer' = "armed"
    /\ UNCHANGED <<config, sigCh, waiter, sig, code, alive, born, death, sent>>

\* Mutant: the command's own exit code is returned after a forwarded signal.
EscalateDoneOwnCode ==
    /\ main = "escalate"
    /\ waiter = "sent"
    /\ waiter' = "taken"
    /\ Return("own")
    /\ UNCHANGED <<config, sigCh, timer, sig, kernel, sent>>

\* The second select, in escalateOrWait
EscalateDone ==
    /\ main = "escalate"
    /\ waiter = "sent"
    /\ waiter' = "taken"
    /\ Return(sig)
    /\ UNCHANGED <<config, sigCh, timer, sig, kernel, sent>>

EscalateSignal ==
    /\ main = "escalate"
    /\ sigCh # <<>>
    /\ sigCh' = Tail(sigCh)
    /\ main' = "kill"
    /\ UNCHANGED <<config, waiter, timer, sig, code, kernel, sent>>

\* Mutant: the grace period is not waited for.
EscalateAtOnce ==
    /\ main = "escalate"
    /\ timer \in {"armed", "fired"}
    /\ main' = "kill"
    /\ UNCHANGED <<config, sigCh, waiter, timer, sig, code, kernel, sent>>

EscalateTimeout ==
    /\ main = "escalate"
    /\ timer = "fired"
    /\ main' = "kill"
    /\ UNCHANGED <<config, sigCh, waiter, timer, sig, code, kernel, sent>>

ForceKill ==
    /\ main = "kill"
    /\ Deliver("KILL", Targets)
    /\ main' = "waitDone"
    /\ UNCHANGED <<config, sigCh, waiter, timer, sig, code, alive, born, death, sent>>

\* Mutant: a command that had to be killed is answered with the exit code of its end.
WaitDoneOwnCode ==
    /\ main = "waitDone"
    /\ waiter = "sent"
    /\ waiter' = "taken"
    /\ Return("own")
    /\ UNCHANGED <<config, sigCh, timer, sig, kernel, sent>>

WaitDone ==
    /\ main = "waitDone"
    /\ waiter = "sent"
    /\ waiter' = "taken"
    /\ Return(sig)
    /\ UNCHANGED <<config, sigCh, timer, sig, kernel, sent>>

Main ==
    \/ Start \/ SelectSignal \/ SelectDone \/ Forward
    \/ EscalateDone \/ EscalateSignal \/ EscalateTimeout
    \/ ForceKill \/ WaitDone

\* The goroutine: cmd.Wait returns, the leader is reaped, doneCh takes the result.
Reap ==
    /\ waiter = "waiting"
    /\ Leader \notin alive
    /\ waiter' = "sent"
    /\ UNCHANGED <<config, main, sigCh, timer, sig, code, kernel, sent>>

\* The grace period ends.
Tick ==
    /\ timer = "armed"
    /\ timer' = "fired"
    /\ UNCHANGED <<config, main, sigCh, waiter, sig, code, kernel, sent>>

-----------------------------------------------------------------------------
\* The kernel and the sandboxed processes

Dies(m, cause) ==
    /\ alive' = alive \ {m}
    /\ death' = IF m = Leader THEN cause ELSE death
    /\ UNCHANGED <<config, main, sigCh, waiter, timer, sig, code, born, got, sent>>

\* A process ends by itself.
Ends(m) == m \in alive /\ Dies(m, "own")

\* A delivered signal ends it, unless the signal is one it ignores.
Succumbs(m) ==
    /\ m \in alive
    /\ \E s \in got[m] : (s = "KILL" \/ m \notin ignores) /\ Dies(m, s)

\* A process no delivered signal is about to end starts another.
Spawns(m, d) ==
    /\ m \in alive /\ d \in Descendants \ born
    /\ "KILL" \notin got[m] /\ (got[m] = {} \/ m \in ignores)
    /\ alive' = alive \cup {d}
    /\ born' = born \cup {d}
    /\ UNCHANGED <<config, main, sigCh, waiter, timer, sig, code, got, death, sent>>

-----------------------------------------------------------------------------
\* Signals to isolarium

\* Mutant: every signal is queued, as if the channel had room for all.
NotifyQueued(s) ==
    /\ main # "returned"
    /\ sent < MaxSignals
    /\ sent' = sent + 1
    /\ sigCh' = Append(sigCh, s)
    /\ UNCHANGED <<config, main, waiter, timer, sig, code, alive, born, death>>

\* signal.Notify never blocks: a signal that finds the channel full is dropped.
Notify(s) ==
    /\ main # "returned"
    /\ sent < MaxSignals
    /\ sent' = sent + 1
    /\ sigCh' = IF sigCh = <<>> THEN <<s>> ELSE sigCh
    /\ UNCHANGED <<config, main, waiter, timer, sig, code, alive, born, death>>

\* kill of the isolarium process
Terminate == Notify("TERM") /\ UNCHANGED got

\* Ctrl-C at the terminal reaches every process of isolarium's own group.
CtrlC == Notify("INT") /\ Deliver("INT", IF interactive THEN alive ELSE {})

-----------------------------------------------------------------------------

Next ==
    \/ Main \/ Reap \/ Tick
    \/ \E m \in Members : Ends(m) \/ Succumbs(m)
    \/ \E m \in Members, d \in Descendants : Spawns(m, d)
    \/ Terminate \/ CtrlC

\* The goroutines run, time passes, and the kernel acts on delivered signals;
\* nothing obliges a process to end by itself or anyone to send a signal.
Fairness ==
    /\ WF_vars(Main) /\ WF_vars(Reap) /\ WF_vars(Tick)
    /\ \A m \in Members : WF_vars(Succumbs(m))

Safety == Init /\ [][Next]_vars

Spec == Safety /\ Fairness

-----------------------------------------------------------------------------
\* The promise, and the part of the state it speaks of

Phase ==
    CASE main = "start" -> "idle"
      [] main = "select" -> "running"
      [] main \in {"forward", "escalate"} -> "stopping"
      [] main \in {"kill", "waitDone"} -> "forced"
      [] OTHER -> "returned"

Child ==
    IF born = {} THEN "absent" ELSE IF Leader \in alive THEN "alive" ELSE "gone"

\* A signal decides the code when it is taken; what runWithSignals has returned
\* is its answer, whatever had been decided.
Code == IF main = "returned" THEN code ELSE IF sig # "none" THEN sig ELSE code

Promise == INSTANCE SupervisedCommand WITH phase <- Phase, child <- Child, code <- Code

\* runWithSignals keeps every promise of SupervisedCommand, the safety ones and
\* that it returns: what it answers after a signal is the code of the first one it
\* took, forced or not, its own end is answered with its own code, and nono is
\* dead on return.
KeepsPromise == Promise!FairSpec

\* Why it does: what the main goroutine is doing agrees with the leader's being
\* started and reaped and with the signal it has taken.
GoroutinesAgree ==
    /\ main = "start" => born = {} /\ waiter = "none"
    /\ main \notin {"start", "returned"} =>
          Leader \in born /\ waiter \in {"waiting", "sent"}
    /\ main # "returned" => code = "none"
    /\ born = {} \/ Leader \in born
    /\ waiter \in {"sent", "taken"} => Leader \notin alive
    /\ waiter # "none" => Leader \in born
    /\ (sig = "none") <=> (main \in {"start", "select"} \/ code \in {"own", "error"})
    /\ alive \subseteq born

\* Once a signal is taken, no process of the group is left over for good, unless
\* it ignores the signal; an interactive nono has no group of its own.
NothingLeft == sig # "none" /\ ~interactive /\ ignores = {} ~> alive = {}

\* SIGKILL comes only after a polite signal has been forwarded, and then only
\* once the grace period is over or a second signal has come.
NoHastyKill ==
    [][\A m \in Members : "KILL" \in got'[m] \ got[m] =>
          /\ sig # "none" /\ main = "kill"
          /\ timer = "fired" \/ sent >= 2]_vars

\* A nono that SIGINT or SIGTERM ended is reported with the code of that signal,
\* even when further signals came and the grace period was over.  An interactive
\* one gets Ctrl-C from the terminal too, and its end may be noticed first.
CodeTellsSignal ==
    main = "returned" /\ ~interactive /\ death \in Polite => code = death
=============================================================================
