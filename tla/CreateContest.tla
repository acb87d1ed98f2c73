----------------------------- MODULE CreateContest -----------------------------
(***************************************************************************)
(* What create promises to several users who create an environment of one  *)
(* name at the same time, whether it is a container made from a directory  *)
(* or a VM made from a branch.  The environment gets its content once, and *)
(* keeps it.  The record that isolarium keeps of it names that content or  *)
(* nothing.  A create that is told of success got what it asked for, with  *)
(* the record of it; any other create fails.                               *)
(***************************************************************************)
CONSTANTS
    Users,    \* the processes
    Values,   \* what an environment can be made from
    NoValue   \* nothing

VARIABLES
    content,  \* what the environment was made from, NoValue before it is
    record,   \* what can be read in its record, NoValue if nothing can
    want,     \* per user, what the create that is running asks for
    pleased   \* per user, its last command reported success

vars == <<content, record, want, pleased>>

Nothing == [u \in Users |-> NoValue]

Init ==
    /\ content = NoValue
    /\ record = NoValue
    /\ want = Nothing
    /\ pleased = [u \in Users |-> FALSE]

\* Once, the environment is made.
Make == content = NoValue /\ content' \in Values

\* The record is written, or spoilt.
Publish == content \in Values /\ record' = content

Spoil == record' = NoValue

\* A create begins to ask for something.
Ask(u) ==
    /\ want[u] = NoValue
    /\ \E v \in Values : want' = [want EXCEPT ![u] = v]
    /\ pleased' = [pleased EXCEPT ![u] = FALSE]

\* It ends in success only if the environment and the record are as it asked.
Succeed(u) ==
    /\ want[u] \in Values /\ content = want[u] /\ record = want[u]
    /\ want' = [want EXCEPT ![u] = NoValue]
    /\ pleased' = [pleased EXCEPT ![u] = TRUE]

GiveUp(u) ==
    /\ want[u] \in Values
    /\ want' = [want EXCEPT ![u] = NoValue]
    /\ pleased' = [pleased EXCEPT ![u] = FALSE]

\* A command that asks for nothing, a run for example, ends as it likes.
Other(u) ==
    /\ want[u] = NoValue
    /\ \E ok \in BOOLEAN : pleased' = [pleased EXCEPT ![u] = ok]
    /\ UNCHANGED want

\* The environment, the record and one user may change in the same step, as when
\* a command fails in the middle of a write.
Next ==
    /\ Make \/ UNCHANGED content
    /\ Publish \/ Spoil \/ UNCHANGED record
    /\ \/ \E u \in Users : Ask(u) \/ Succeed(u) \/ GiveUp(u) \/ Other(u)
       \/ UNCHANGED <<want, pleased>>

Spec == Init /\ [][Next]_vars

\* A record that can be read names the content.  (MetadataMatches of containers
\* and RecordMatchesClone of VMs are this invariant.)
RecordTrue == record \in Values => content = record
=============================================================================
