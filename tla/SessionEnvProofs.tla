--------------------------- MODULE SessionEnvProofs ---------------------------
(***************************************************************************)
(* What holds of SessionEnv for any set of names and any number of         *)
(* directories.                                                            *)
(***************************************************************************)
EXTENDS SessionEnv, EnvResolutionProofs

\* Whatever is resolved has a value, and is absent or empty only as it should be.
LEMMA ResolvedValue ==
    ASSUME NEW entry \in Entries, NEW literal \in Values, process \in Values
    PROVE  Resolved(entry, literal) \in Values
BY DEF Resolved, Entries, Over, Values

\* A call makes and removes no directory: what holds of EnvResolution's commands
\* holds with calls between them.
THEOREM CallsKeepDirs == SessionSpec => Spec
<1>1. SessionInit => Init
  BY DEF SessionInit
<1>2. [SessionNext]_allVars => [Next]_dirs
  BY DEF SessionNext, allVars, session, Begin, LoadEnvFile, ParseEnvFlags, ResolveTarget,
         BuildRunEnvVars, BuildShellEnvVars, ExtractGitHubToken, DeclineToken,
         MintGitHubToken, GetInstallationID, CreateAccessToken, Deliver, EndSession,
         Return, AddToken
<1>3. QED
  BY <1>1, <1>2, PTL DEF SessionSpec, Spec

\* Every variable of a call keeps to its domain, and what is not absent has a
\* value of one of its sources.
THEOREM SessionTypeCorrect == SessionSpec => []SessionTypeOK
<1>1. SessionInit => SessionTypeOK
  BY DEF SessionInit, SessionTypeOK, Labels, Calls, NoCall, Keys, Entries, Values, Types
<1>2. SessionTypeOK /\ [SessionNext]_allVars => SessionTypeOK'
  <2> SUFFICES ASSUME SessionTypeOK, [SessionNext]_allVars
               PROVE  SessionTypeOK'
    OBVIOUS
  <2> USE DEF SessionTypeOK
  <2>1. CASE Return
    BY <2>1 DEF Return, Labels, Calls, NoCall, Keys, Entries, Values, Types
  <2>2. CASE Begin
    <3>1. PICK cmd \in {"run", "shell"}, key \in Keys, noToken \in BOOLEAN,
               flag \in Entries, own \in {"absent", "", "process"} :
                /\ call' = [NoCall EXCEPT !.cmd = cmd, !.key = key, !.noToken = noToken,
                                          !.flag = flag, !.own = own]
                /\ process' = own
      BY <2>2 DEF Begin
    <3>2. call' \in Calls
      BY <3>1 DEF Calls, NoCall, Entries, Types
    <3>3. QED
      BY <2>2, <3>1, <3>2 DEF Begin, Labels, Values
  <2>3. CASE LoadEnvFile
    <3>1. ASSUME NEW file \in {"absent", "", "file"}, call' = [call EXCEPT !.file = file],
                 process' = IF process \in {"absent", ""} THEN Over(file, process) ELSE process,
                 pc' = "parse", UNCHANGED <<dirs, parsed, env, seen>>
          PROVE  SessionTypeOK'
      <4>1. call' \in Calls
        BY <3>1 DEF Calls
      <4>2. process' \in Values
        BY <3>1 DEF Over, Values
      <4>3. QED
        BY <3>1, <4>1, <4>2 DEF Labels
    <3>2. QED
      BY <2>1, <2>3, <3>1 DEF LoadEnvFile
  <2>4. CASE ParseEnvFlags
    <3>1. Resolved(call.flag, "flag") \in Values
      BY ResolvedValue DEF Calls, Values
    <3>2. QED
      BY <2>4, <3>1 DEF ParseEnvFlags, Labels
  <2>5. CASE ResolveTarget
    <3>1. ASSUME NEW e \in UNION {Targets(i, dirs) : i \in Invocations}
          PROVE  e[2] \in Types
      BY <3>1, TargetsTyped
    <3>2. ASSUME NEW type \in Types, call' = [call EXCEPT !.type = type],
                 pc' = "build", UNCHANGED <<dirs, process, parsed, env, seen>>
          PROVE  SessionTypeOK'
      <4>1. call' \in Calls /\ call'.type = type
        BY <3>2 DEF Calls
      <4>2. QED
        BY <3>2, <4>1 DEF Labels
    <3>3. QED
      BY <2>1, <2>5, <3>1, <3>2 DEF ResolveTarget
  <2>6. CASE BuildRunEnvVars
    <3>1. ASSUME NEW pid \in Entries
          PROVE  Over(parsed, Over(Resolved(pid, "pid"), Base)) \in Values
      BY <3>1, ResolvedValue DEF Over, Base, Values
    <3>2. ASSUME NEW pid \in Entries, call' = [call EXCEPT !.pid = pid],
                 env' = Over(parsed, Over(Resolved(pid, "pid"), Base)),
                 pc = "build", pc' = "token", UNCHANGED <<dirs, process, parsed, seen>>
          PROVE  SessionTypeOK'
      <4>1. call' \in Calls /\ call'.type = call.type
        BY <3>2 DEF Calls
      <4>2. QED
        BY <3>1, <3>2, <4>1 DEF Labels
    <3>3. QED
      BY <2>1, <2>6, <3>2 DEF BuildRunEnvVars
  <2>7. CASE BuildShellEnvVars
    BY <2>7 DEF BuildShellEnvVars, Over, Base, Labels, Values
  <2>8. ASSUME NEW token \in {"absent", "token"}, AddToken(token), pc = "token" \/ pc = "accessToken"
        PROVE  SessionTypeOK'
    BY <2>8 DEF AddToken, Over, Labels, Calls, Values
  <2>9. CASE ExtractGitHubToken
    BY <2>8, <2>9 DEF ExtractGitHubToken
  <2>10. CASE DeclineToken
    BY <2>8, <2>10 DEF DeclineToken
  <2>11. CASE MintGitHubToken
    BY <2>1, <2>11 DEF MintGitHubToken, Labels
  <2>12. CASE GetInstallationID
    BY <2>1, <2>12 DEF GetInstallationID, Labels
  <2>13. CASE CreateAccessToken
    BY <2>1, <2>8, <2>13 DEF CreateAccessToken
  <2>14. CASE Deliver
    BY <2>14 DEF Deliver, Over, Labels, Values
  <2>15. CASE EndSession
    BY <2>1, <2>15 DEF EndSession
  <2>16. CASE UNCHANGED session
    BY <2>16 DEF session
  <2>17. QED
    BY <2>2, <2>3, <2>4, <2>5, <2>6, <2>7, <2>9, <2>10, <2>11, <2>12, <2>13, <2>14,
       <2>15, <2>16 DEF SessionNext, allVars
<1>3. QED
  BY <1>1, <1>2, PTL DEF SessionSpec

-----------------------------------------------------------------------------
\* What a call has at each of its steps, as the sources it has read have it

LoadedAt == {"parse", "resolve", "build", "token", "installation", "accessToken",
             "deliver", "session"}
ParsedAt == LoadedAt \ {"parse"}
BuiltAt == {"token", "installation", "accessToken", "deliver", "session"}
AnsweredAt == {"deliver", "session"}

\* The environment before a token is added
Merged ==
    IF call.cmd = "run" THEN Over(parsed, Over(Resolved(call.pid, "pid"), Base))
                        ELSE Over(Base, parsed)

FromSources ==
    /\ pc # "idle" => call.cmd \in {"run", "shell"}
    /\ pc = "load" => process = call.own
    /\ pc \in LoadedAt => process = Host
    /\ pc \in ParsedAt => parsed = Resolved(call.flag, "flag")
    /\ pc \notin AnsweredAt => call.token = "absent"
    /\ pc \in BuiltAt => env = IF call.key \in TokenKeys THEN Over(call.token, Merged)
                                                        ELSE Merged
    /\ pc = "session" => seen = IF call.type = "nono" /\ call.key # "CLAUDECODE"
                                THEN Over(env, process) ELSE env

\* Every step keeps the sources of the values.
LEMMA SourcesKept == SessionTypeOK /\ FromSources /\ [SessionNext]_allVars => FromSources'
<1> SUFFICES ASSUME SessionTypeOK, FromSources, [SessionNext]_allVars PROVE FromSources'
  OBVIOUS
<1> USE DEF LoadedAt, ParsedAt, BuiltAt, AnsweredAt
<1>1. CASE Return
  BY <1>1 DEF Return, NoCall, FromSources
<1>2. CASE Begin
  BY <1>2 DEF Begin, NoCall, FromSources
<1>3. CASE LoadEnvFile
  <2>1. ASSUME NEW file \in {"absent", "", "file"}, call' = [call EXCEPT !.file = file], pc = "load",
               process' = IF process \in {"absent", ""} THEN Over(file, process) ELSE process,
               pc' = "parse", UNCHANGED <<dirs, parsed, env, seen>>
        PROVE  FromSources'
    <3>1. call'.cmd = call.cmd /\ call'.token = call.token /\ call'.own = call.own
          /\ call'.file = file /\ call.own \in {"absent", "", "process"}
      BY <2>1 DEF SessionTypeOK, Calls
    <3>2. process' = Host'
      BY <2>1, <3>1 DEF FromSources, Host, Over
    <3>3. QED
      BY <2>1, <3>1, <3>2 DEF FromSources
  <2>2. QED
    BY <1>1, <1>3, <2>1 DEF LoadEnvFile
<1>4. CASE ParseEnvFlags
  BY <1>4 DEF ParseEnvFlags, FromSources, Host, Resolved
<1>5. CASE ResolveTarget
  <2>1. ASSUME NEW e, call' = [call EXCEPT !.type = e[2]], pc = "resolve",
               pc' = "build", UNCHANGED <<dirs, process, parsed, env, seen>>
        PROVE  FromSources'
    <3>1. call'.cmd = call.cmd /\ call'.token = call.token /\ call'.own = call.own
          /\ call'.file = call.file /\ call'.flag = call.flag
      BY <2>1 DEF SessionTypeOK, Calls
    <3>2. QED
      BY <2>1, <3>1 DEF FromSources, Host, Resolved
  <2>2. QED
    BY <1>1, <1>5, <2>1 DEF ResolveTarget
<1>6. CASE BuildRunEnvVars
  <2>1. ASSUME NEW pid \in Entries, call' = [call EXCEPT !.pid = pid],
               env' = Over(parsed, Over(Resolved(pid, "pid"), Base)), call.cmd = "run",
               pc = "build", pc' = "token", UNCHANGED <<dirs, process, parsed, seen>>
        PROVE  FromSources'
    <3>1. /\ call'.cmd = call.cmd /\ call'.token = call.token /\ call'.own = call.own
          /\ call'.file = call.file /\ call'.flag = call.flag /\ call'.type = call.type
          /\ call'.key = call.key /\ call'.pid = pid
      BY <2>1 DEF SessionTypeOK, Calls
    <3>2. UNCHANGED <<Base, Host, Resolved(pid, "pid"), Resolved(call.flag, "flag")>>
      <4>1. UNCHANGED BaseKeys
        BY <3>1 DEF BaseKeys
      <4>2. UNCHANGED Resolved(pid, "pid") /\ UNCHANGED Resolved(call.flag, "flag")
        BY <2>1, <3>1 DEF Resolved
      <4>3. QED
        BY <3>1, <4>1, <4>2 DEF Base, Host
    <3>3. env' = Merged' /\ call'.token = "absent"
      BY <2>1, <3>1, <3>2 DEF Merged, FromSources, Over
    <3>4. call'.token = "absent" /\ env' = Over(call'.token, Merged')
      BY <3>3 DEF Over
    <3>5. QED
      BY <2>1, <3>1, <3>2, <3>3, <3>4 DEF FromSources
  <2>2. QED
    BY <1>1, <1>6, <2>1 DEF BuildRunEnvVars
<1>7. CASE BuildShellEnvVars
  <2>1. UNCHANGED <<call, process, parsed>> /\ env' = Merged' /\ call.token = "absent"
    BY <1>7 DEF BuildShellEnvVars, Merged, FromSources, Over, Base, BaseKeys
  <2>2. QED
    BY <1>7, <2>1 DEF BuildShellEnvVars, FromSources, Host, Resolved, Over
<1>8. ASSUME NEW token \in {"absent", "token"}, AddToken(token), pc = "token" \/ pc = "accessToken"
      PROVE  FromSources'
  <2>1. /\ call'.cmd = call.cmd /\ call'.token = token /\ call'.own = call.own
        /\ call'.file = call.file /\ call'.flag = call.flag /\ call'.type = call.type
        /\ call'.key = call.key /\ call'.pid = call.pid
    BY <1>8 DEF AddToken, SessionTypeOK, Calls
  <2>2. UNCHANGED <<Merged, TokenKeys, Host, Resolved(call.flag, "flag")>>
    <3>1. UNCHANGED BaseKeys /\ UNCHANGED TokenKeys
      BY <2>1 DEF BaseKeys, TokenKeys
    <3>2. UNCHANGED Resolved(call.pid, "pid") /\ UNCHANGED Resolved(call.flag, "flag")
      BY <1>8, <2>1 DEF AddToken, Resolved
    <3>3. QED
      BY <1>8, <2>1, <3>1, <3>2 DEF AddToken, Merged, Host, Base
  <2>3. env = Merged
    BY <1>8 DEF FromSources, Over
  <2>4. QED
    BY <1>8, <2>1, <2>2, <2>3 DEF AddToken, FromSources, Over
<1>9. CASE ExtractGitHubToken
  BY <1>8, <1>9 DEF ExtractGitHubToken
<1>10. CASE DeclineToken
  BY <1>8, <1>10 DEF DeclineToken
<1>11. ASSUME pc = "token" \/ pc = "installation", pc' \in {"installation", "accessToken"},
              UNCHANGED <<dirs, call, process, parsed, env, seen>>
       PROVE  FromSources'
  <2>1. UNCHANGED <<Merged, TokenKeys, Host, Resolved(call.flag, "flag")>>
    BY <1>11 DEF Merged, TokenKeys, Host, Resolved, Over, Base, BaseKeys
  <2>2. QED
    BY <1>11, <2>1 DEF FromSources, Over
<1>12. CASE MintGitHubToken \/ GetInstallationID
  BY <1>1, <1>11, <1>12 DEF MintGitHubToken, GetInstallationID
<1>13. CASE CreateAccessToken
  BY <1>1, <1>8, <1>13 DEF CreateAccessToken
<1>14. CASE Deliver
  <2>1. UNCHANGED <<Merged, TokenKeys, Host, Resolved(call.flag, "flag")>>
    BY <1>14 DEF Deliver, Merged, TokenKeys, Host, Resolved, Over, Base, BaseKeys
  <2>2. seen' = IF call.type = "nono" /\ call.key # "CLAUDECODE"
                THEN Over(env, process) ELSE env
    BY <1>14 DEF Deliver
  <2>3. QED
    BY <1>14, <2>1, <2>2 DEF Deliver, FromSources, Over
<1>15. CASE EndSession
  BY <1>1, <1>15 DEF EndSession
<1>16. CASE UNCHANGED session
  <2>1. UNCHANGED <<Merged, TokenKeys, Host, Resolved(call.flag, "flag")>>
    BY <1>16 DEF session, Merged, TokenKeys, Host, Resolved, Over, Base, BaseKeys
  <2>2. QED
    BY <1>16, <2>1 DEF session, FromSources, Over
<1>17. QED
  BY <1>2, <1>3, <1>4, <1>5, <1>6, <1>7, <1>9, <1>10, <1>12, <1>13, <1>14, <1>15, <1>16
  DEF SessionNext, allVars

\* Of values of which each is absent where its set is empty, and else the only
\* element of its set, the highest one that is there is the one Over gives.
LEMMA HighestOfFive ==
    ASSUME NEW v1, NEW v2, NEW v3, NEW v4, NEW v5, NEW G,
           G = <<v1, v2, v3, v4, v5>>,
           NEW x, x = Over(v1, Over(v2, Over(v3, Over(v4, v5))))
    PROVE  LET says == {n \in 1..5 : G[n] # "absent"}
           IN IF says = {} THEN x = "absent"
              ELSE \E n \in says : x = G[n] /\ \A k \in says : n <= k
<1> DEFINE says == {n \in 1..5 : G[n] # "absent"}
<1>1. CASE v1 # "absent"
  <2>1. 1 \in says /\ x = G[1] /\ \A k \in says : 1 <= k
    BY <1>1 DEF Over
  <2>2. QED
    BY <2>1
<1>2. CASE v1 = "absent" /\ v2 # "absent"
  <2>1. 2 \in says /\ x = G[2] /\ \A k \in says : 2 <= k
    BY <1>2 DEF Over
  <2>2. QED
    BY <2>1
<1>3. CASE v1 = "absent" /\ v2 = "absent" /\ v3 # "absent"
  <2>1. 3 \in says /\ x = G[3] /\ \A k \in says : 3 <= k
    BY <1>3 DEF Over
  <2>2. QED
    BY <2>1
<1>4. CASE v1 = "absent" /\ v2 = "absent" /\ v3 = "absent" /\ v4 # "absent"
  <2>1. 4 \in says /\ x = G[4] /\ \A k \in says : 4 <= k
    BY <1>4 DEF Over
  <2>2. QED
    BY <2>1
<1>5. CASE v1 = "absent" /\ v2 = "absent" /\ v3 = "absent" /\ v4 = "absent" /\ v5 # "absent"
  <2>1. 5 \in says /\ x = G[5] /\ \A k \in says : 5 <= k
    BY <1>5 DEF Over
  <2>2. QED
    BY <2>1
<1>6. CASE v1 = "absent" /\ v2 = "absent" /\ v3 = "absent" /\ v4 = "absent" /\ v5 = "absent"
  <2>1. says = {} /\ x = "absent"
    BY <1>6 DEF Over
  <2>2. QED
    BY <2>1
<1>7. QED
  BY <1>1, <1>2, <1>3, <1>4, <1>5, <1>6

\* What each source gives, as one value
Says(source) ==
    CASE source = "token" -> IF call.key \in TokenKeys THEN call.token ELSE "absent"
      [] source = "flag" -> Resolved(call.flag, "flag")
      [] source = "pid" -> Resolved(call.pid, "pid")
      [] source = "base" -> Base
      [] OTHER -> IF call.type = "nono" /\ call.key # "CLAUDECODE" THEN process ELSE "absent"

\* The value that is given comes from the source with the highest rank.
LEMMA GivenSays ==
    ASSUME SessionTypeOK, FromSources, pc = "session",
           NEW source \in {"token", "flag", "pid", "base", "host"}
    PROVE  Given(source) \ {"absent"} = IF Says(source) = "absent" THEN {} ELSE {Says(source)}
<1>1. process = Host
  BY DEF FromSources, LoadedAt
<1>2. CASE source = "token"
  BY <1>2 DEF Given, Says
<1>3. CASE source = "flag"
  BY <1>1, <1>3 DEF Given, Says, Resolved, Over, SessionTypeOK, Calls, Entries
<1>4. CASE source = "pid"
  BY <1>1, <1>4 DEF Given, Says, Resolved, Over, SessionTypeOK, Calls, Entries
<1>5. CASE source = "base"
  BY <1>5 DEF Given, Says
<1>6. CASE source = "host"
  BY <1>1, <1>6 DEF Given, Says
<1>7. QED
  BY <1>2, <1>3, <1>4, <1>5, <1>6

\* For any names and any number of directories, a session has every variable from
\* the source that ranks highest among those that have it.
THEOREM SessionValueHolds == SessionSpec => []SessionValue
<1>1. SessionInit => FromSources
  BY DEF SessionInit, NoCall, FromSources, LoadedAt, ParsedAt, BuiltAt, AnsweredAt
<1>2. SessionTypeOK /\ FromSources => SessionValue
  <2> SUFFICES ASSUME SessionTypeOK, FromSources, pc = "session"
               PROVE  LET says == {n \in DOMAIN Ranking : Given(Ranking[n]) \ {"absent"} # {}}
                      IN IF says = {} THEN seen = "absent"
                         ELSE \E n \in says : /\ seen \in Given(Ranking[n])
                                              /\ \A m \in says : n <= m
    BY DEF SessionValue
  <2>1. seen = Over(Says("token"), Over(Merged, Says("host")))
    BY DEF FromSources, LoadedAt, BuiltAt, Says, Over
  <2>2. CASE call.cmd = "run"
    <3> DEFINE G == <<Says("token"), Says("flag"), Says("pid"), Says("base"), Says("host")>>
    <3>1. seen = Over(Says("token"), Over(Says("flag"), Over(Says("pid"),
                     Over(Says("base"), Says("host")))))
      BY <2>1, <2>2 DEF FromSources, LoadedAt, ParsedAt, Merged, Says, Over
    <3>2. Ranking = <<"token", "flag", "pid", "base", "host">>
      BY <2>2 DEF Ranking
    <3>3. DOMAIN Ranking = 1..5
      BY <3>2
    <3>4. ASSUME NEW n \in 1..5
          PROVE  /\ Given(Ranking[n]) \ {"absent"} # {} <=> G[n] # "absent"
                 /\ G[n] # "absent" => G[n] \in Given(Ranking[n])
      <4>1. Ranking[n] \in {"token", "flag", "pid", "base", "host"} /\ G[n] = Says(Ranking[n])
        BY <3>2
      <4>2. QED
        BY <4>1, GivenSays
    <3>5. LET says == {n \in 1..5 : G[n] # "absent"}
          IN IF says = {} THEN seen = "absent"
             ELSE \E n \in says : seen = G[n] /\ \A k \in says : n <= k
      <4>1. QED
        BY <3>1, HighestOfFive
    <3> HIDE DEF G
    <3>6. QED
      BY <3>3, <3>4, <3>5
  <2>3. CASE call.cmd = "shell"
    <3> DEFINE G == <<Says("token"), Says("base"), Says("flag"), Says("host"), "absent">>
    <3>1. seen = Over(Says("token"), Over(Says("base"), Over(Says("flag"),
                     Over(Says("host"), "absent"))))
      BY <2>1, <2>3 DEF FromSources, LoadedAt, ParsedAt, Merged, Says, Over
    <3>2. Ranking = <<"token", "base", "flag", "host">>
      BY <2>3 DEF Ranking
    <3>3. DOMAIN Ranking = 1..4
      BY <3>2
    <3>4. ASSUME NEW n \in 1..4
          PROVE  /\ Given(Ranking[n]) \ {"absent"} # {} <=> G[n] # "absent"
                 /\ G[n] # "absent" => G[n] \in Given(Ranking[n])
      <4>1. Ranking[n] \in {"token", "flag", "pid", "base", "host"} /\ G[n] = Says(Ranking[n])
        BY <3>2
      <4>2. QED
        BY <4>1, GivenSays
    <3>5. LET says == {n \in 1..5 : G[n] # "absent"}
          IN IF says = {} THEN seen = "absent"
             ELSE \E n \in says : seen = G[n] /\ \A k \in says : n <= k
      <4>1. QED
        BY <3>1, HighestOfFive
    <3>6. G[5] = "absent"
      OBVIOUS
    <3> HIDE DEF G
    <3>7. {n \in 1..5 : G[n] # "absent"} = {n \in 1..4 : G[n] # "absent"}
      BY <3>6
    <3>8. QED
      BY <3>3, <3>4, <3>5, <3>7
  <2>4. QED
    BY <2>2, <2>3 DEF FromSources
<1>3. QED
  BY <1>1, <1>2, SourcesKept, SessionTypeCorrect, PTL DEF SessionSpec
=============================================================================
