----------------------------- MODULE RunnerCall -----------------------------
(***************************************************************************)
(* What Hub.Call promises its callers: a call ends, with the answer to     *)
(* its own command or with an error. The command is executed at most once, *)
(* and possibly after the caller has been told that the call failed.       *)
(***************************************************************************)
CONSTANTS Calls, None

VARIABLES
    status,    \* of each call
    answer,    \* the call whose answer a call was given
    executed   \* calls whose command the runner has executed

vars == <<status, answer, executed>>

Init ==
    /\ status = [c \in Calls |-> "idle"]
    /\ answer = [c \in Calls |-> None]
    /\ executed = {}

Issue(c) ==
    /\ status[c] = "idle"
    /\ status' = [status EXCEPT ![c] = "open"]
    /\ UNCHANGED <<answer, executed>>

Execute(c) ==
    /\ status[c] # "idle"
    /\ c \notin executed
    /\ executed' = executed \cup {c}
    /\ UNCHANGED <<status, answer>>

Answer(c) ==
    /\ status[c] = "open"
    /\ c \in executed
    /\ status' = [status EXCEPT ![c] = "answered"]
    /\ answer' = [answer EXCEPT ![c] = c]
    /\ UNCHANGED executed

Fail(c) ==
    /\ status[c] \in {"idle", "open"}
    /\ status' = [status EXCEPT ![c] = "failed"]
    /\ UNCHANGED <<answer, executed>>

Next == \E c \in Calls : Issue(c) \/ Execute(c) \/ Answer(c) \/ Fail(c)

\* Nothing else ever happens to a call.
SafeSpec == Init /\ [][Next]_vars

\* And a call that was issued ends.
Spec ==
    /\ SafeSpec
    /\ \A c \in Calls : WF_vars(status[c] = "open" /\ (Answer(c) \/ Fail(c)))

=============================================================================
