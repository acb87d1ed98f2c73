------------------------------ MODULE SessionEnv ------------------------------
(***************************************************************************)
(* The environment variables a run or a shell gives to its session, from   *)
(* the command line to the backend.  A variable may come from isolarium's  *)
(* own environment, .env.local, --env, run.env of pid.yaml, the settings a *)
(* nono session needs, and a GitHub token fetched for the session.  One    *)
(* variable is followed through a call; the value is named for its source. *)
(***************************************************************************)
EXTENDS EnvResolution, Naturals

CONSTANT MaxDirs    \* a bound: calls start while there are no more directories

Keys == {"GH_TOKEN", "GIT_TOKEN", "GIT_CONFIG", "UV_CACHE_DIR", "XDG_CACHE_HOME",
         "PRE_COMMIT_HOME", "CLAUDECODE", "other"}

\* How --env or run.env names the variable: not at all, VAR, or VAR=VALUE
Entries == {"none", "VAR", "VAR=VALUE"}

Values == {"absent", "", "process", "file", "flag", "pid", "base", "token"}

VARIABLES
    pc,        \* what the call does next
    call,      \* the command line, and what the call has read so far
    process,   \* the variable in isolarium's own environment
    parsed,    \* and in parsedEnvVars
    env,       \* and in the map the backend is given
    seen       \* and in the session

session == <<pc, call, process, parsed, env, seen>>
allVars == <<dirs, session>>

NoCall == [cmd |-> "none", key |-> "other", type |-> "none", noToken |-> FALSE,
           own |-> "absent", file |-> "absent", flag |-> "none", pid |-> "none",
           token |-> "absent"]

Calls == [cmd : {"none", "run", "shell"}, key : Keys, type : Types \cup {"none"},
          noToken : BOOLEAN, own : {"absent", "", "process"},
          file : {"absent", "", "file"}, flag : Entries, pid : Entries,
          token : {"absent", "token"}]

Labels == {"idle", "load", "parse", "resolve", "build", "token", "installation",
           "accessToken", "deliver", "session"}

(***************************************************************************)
(* The variables of a call keep to their domains.                          *)
(***************************************************************************)
SessionTypeOK ==
    /\ pc \in Labels
    /\ call \in Calls
    /\ {process, parsed, env, seen} \subseteq Values
    /\ pc \in {"build", "token", "installation", "accessToken", "deliver", "session"}
          => call.type \in Types

SessionInit ==
    /\ Init
    /\ pc = "idle" /\ call = NoCall
    /\ process = "absent" /\ parsed = "absent" /\ env = "absent" /\ seen = "absent"

-----------------------------------------------------------------------------

\* The value, or what is below it where there is none
Over(value, below) == IF value = "absent" THEN below ELSE value

\* VAR reads isolarium's environment; a variable that is not set there is empty.
Resolved(entry, literal) ==
    CASE entry = "none" -> "absent"
      [] entry = "VAR" -> Over(process, "")
      [] entry = "VAR=VALUE" -> literal

\* The call ends, in an error or with its session.
Return ==
    /\ pc' = "idle" /\ call' = NoCall
    /\ process' = "absent" /\ parsed' = "absent" /\ env' = "absent" /\ seen' = "absent"
    /\ UNCHANGED dirs

\* vmTokenVars, containerTokenVars and nonoTokenVars of run; shell sets one
TokenKeys ==
    CASE call.cmd = "shell" -> {"GH_TOKEN"}
      [] call.cmd # "shell" /\ call.type = "vm" -> {"GH_TOKEN", "GIT_TOKEN"}
      [] OTHER -> {"GH_TOKEN", "GIT_CONFIG"}

\* The directories a nono session keeps in the temporary directory; UV_CACHE_DIR
\* stands for UV_TOOL_DIR too, as GIT_CONFIG does for its three variables.
BaseKeys ==
    CASE call.type # "nono" -> {}
      [] call.type = "nono" /\ call.cmd = "run" -> {"UV_CACHE_DIR", "XDG_CACHE_HOME"}
      [] OTHER -> {"UV_CACHE_DIR", "PRE_COMMIT_HOME"}

Base == IF call.key \in BaseKeys THEN "base" ELSE "absent"

Begin ==
    /\ pc = "idle" /\ Cardinality(dirs) <= MaxDirs
    /\ \E cmd \in {"run", "shell"}, key \in Keys, noToken \in BOOLEAN,
          flag \in Entries, own \in {"absent", "", "process"} :
        /\ noToken => cmd = "run"
        /\ call' = [NoCall EXCEPT !.cmd = cmd, !.key = key, !.noToken = noToken,
                                  !.flag = flag, !.own = own]
        /\ process' = own
    /\ pc' = "load"
    /\ UNCHANGED <<dirs, parsed, env, seen>>

\* The first variable named *_PATH whose file does not exist fails the call; a
\* variable that is set to something keeps its value.
LoadEnvFile ==
    /\ pc = "load"
    /\ \/ Return
       \/ \E file \in {"absent", "", "file"} :
             /\ call' = [call EXCEPT !.file = file]
             /\ process' = IF process \in {"absent", ""} THEN Over(file, process)
                           ELSE process
             /\ pc' = "parse"
             /\ UNCHANGED <<dirs, parsed, env, seen>>

\* Mutant: an entry without a value stands for itself.
ParseEnvFlagsVerbatim ==
    /\ pc = "parse"
    /\ parsed' = IF call.flag = "VAR" THEN "VAR" ELSE Resolved(call.flag, "flag")
    /\ pc' = "resolve"
    /\ UNCHANGED <<dirs, call, process, env, seen>>

ParseEnvFlags ==
    /\ pc = "parse"
    /\ parsed' = Resolved(call.flag, "flag")
    /\ pc' = "resolve"
    /\ UNCHANGED <<dirs, call, process, env, seen>>

\* The environment meant, or an error, then or while it is prepared.  What a run
\* makes or removes of it is Run of EnvResolution, a step before the call: the
\* variables do not depend on it.
ResolveTarget ==
    /\ pc = "resolve"
    /\ \/ Return
       \/ \E e \in UNION {Targets(i, dirs) : i \in Invocations} :
             /\ call' = [call EXCEPT !.type = e[2]]
             /\ pc' = "build"
             /\ UNCHANGED <<dirs, process, parsed, env, seen>>

\* Mutant: run.env overrides --env.
BuildRunEnvVarsPidLast ==
    /\ pc = "build" /\ call.cmd = "run"
    /\ \/ Return
       \/ \E pid \in Entries :
             /\ call' = [call EXCEPT !.pid = pid]
             /\ env' = Over(Resolved(pid, "pid"), Over(parsed, Base))
             /\ pc' = "token"
             /\ UNCHANGED <<dirs, process, parsed, seen>>

\* run: the base variables, run.env over them, --env over both
BuildRunEnvVars ==
    /\ pc = "build" /\ call.cmd = "run"
    /\ \/ Return
       \/ \E pid \in Entries :
             /\ call' = [call EXCEPT !.pid = pid]
             /\ env' = Over(parsed, Over(Resolved(pid, "pid"), Base))
             /\ pc' = "token"
             /\ UNCHANGED <<dirs, process, parsed, seen>>

\* shell: --env, and the base variables over it
BuildShellEnvVars ==
    /\ pc = "build" /\ call.cmd = "shell"
    /\ env' = Over(Base, parsed)
    /\ pc' = IF call.type = "container" THEN "token" ELSE "deliver"
    /\ UNCHANGED <<dirs, call, process, parsed, seen>>

\* What is done with a token, absent for an empty one
AddToken(token) ==
    /\ call' = [call EXCEPT !.token = token]
    /\ env' = IF call.key \in TokenKeys THEN Over(token, env) ELSE env
    /\ pc' = "deliver"
    /\ UNCHANGED <<dirs, process, parsed, seen>>

\* A container has the token of gh, whose failure counts as no token.
ExtractGitHubToken ==
    /\ pc = "token" /\ call.type = "container" /\ ~call.noToken
    /\ \E token \in {"absent", "token"} : AddToken(token)

DeclineToken ==
    /\ pc = "token" /\ call.noToken
    /\ AddToken("absent")

\* The others mint one: the app has to be configured, its key readable and the
\* remote one of GitHub.
MintGitHubToken ==
    /\ pc = "token" /\ call.type # "container" /\ ~call.noToken
    /\ \/ Return
       \/ pc' = "installation" /\ UNCHANGED <<dirs, call, process, parsed, env, seen>>

\* Where the app is not installed the first request is answered with 404.
GetInstallationID ==
    /\ pc = "installation"
    /\ \/ Return
       \/ pc' = "accessToken" /\ UNCHANGED <<dirs, call, process, parsed, env, seen>>

\* An answer without a token is an empty one.
CreateAccessToken ==
    /\ pc = "accessToken"
    /\ Return \/ \E token \in {"absent", "token"} : AddToken(token)

\* docker exec -e and limactl shell env pass the map on its own; a nono session
\* has isolarium's environment, without CLAUDECODE, under it.
Deliver ==
    /\ pc = "deliver"
    /\ seen' = CASE call.type # "nono" -> env
                 [] call.type = "nono" /\ call.key = "CLAUDECODE" -> env
                 [] OTHER -> Over(env, process)
    /\ pc' = "session"
    /\ UNCHANGED <<dirs, call, process, parsed, env>>

EndSession == pc = "session" /\ Return

SessionNext ==
    \/ pc = "idle" /\ Next /\ UNCHANGED session
    \/ Begin \/ LoadEnvFile \/ ParseEnvFlags \/ ResolveTarget
    \/ BuildRunEnvVars \/ BuildShellEnvVars
    \/ ExtractGitHubToken \/ DeclineToken
    \/ MintGitHubToken \/ GetInstallationID \/ CreateAccessToken
    \/ Deliver \/ EndSession

SessionSpec == SessionInit /\ [][SessionNext]_allVars

-----------------------------------------------------------------------------
\* Properties

\* The variable as the sources of a call leave it in isolarium's environment
Host == IF call.own = "process" THEN "process" ELSE Over(call.file, call.own)

\* What each source that has a say in this call gives for the variable
Given(source) ==
    LET Of(entry, literal) ==
            CASE entry = "none" -> {}
              [] entry = "VAR" -> {IF Host = "absent" THEN "" ELSE Host}
              [] OTHER -> {literal}
    IN CASE source = "token" -> IF call.key \in TokenKeys THEN {call.token} ELSE {}
         [] source = "flag" -> Of(call.flag, "flag")
         [] source = "pid" -> Of(call.pid, "pid")
         [] source = "base" -> {Base}
         [] source = "host" -> IF call.type = "nono" /\ call.key # "CLAUDECODE"
                               THEN {Host} ELSE {}

Ranking ==
    IF call.cmd = "run" THEN <<"token", "flag", "pid", "base", "host">>
                        ELSE <<"token", "base", "flag", "host">>

\* The session has the variable from the source that ranks highest among those
\* that have it, whatever the others say, and does not have it if none does:
\* the token first, then --env over run.env over the settings of nono.
SessionValue ==
    pc = "session" =>
        LET says == {n \in DOMAIN Ranking : Given(Ranking[n]) \ {"absent"} # {}}
        IN IF says = {} THEN seen = "absent"
           ELSE \E n \in says : /\ seen \in Given(Ranking[n])
                                /\ \A m \in says : n <= m
=============================================================================
