----------------------------- MODULE RunnerHub ------------------------------
(***************************************************************************)
(* The dial-home tunnel of one desktop: runnerhub.Hub on the appliance, the*)
(* StreamHandler goroutine of every stream its runner opened, the callers  *)
(* of Hub.Call, and the runner's goroutines that execute a command and POST*)
(* its result. The network may cut the stream and lose a result; credential*)
(* rotation disconnects the session.                                       *)
(*                                                                         *)
(* Hub and sessions are keyed by the authenticated device id, so desktops  *)
(* share nothing and one is enough.                                        *)
(***************************************************************************)
EXTENDS Naturals, Sequences, FiniteSets

CONSTANTS
    Streams,     \* bound: streams the runner opens, a session each
    Calls,       \* bound: calls of Hub.Call
    None,
    OutboxCap,   \* capacity of session.outbox
    Faults       \* what the environment may do

FaultKinds ==
    { "cut",      \* the runner loses its stream
      "lost",     \* a result never reaches the appliance
      "revoke" }  \* the credential is rotated or revoked

ASSUME HubAssumption ==
    /\ None \notin Streams \cup Calls
    /\ OutboxCap \in Nat \ {0}
    /\ Faults \subseteq FaultKinds
    /\ IsFiniteSet(Calls)

VARIABLES
    current,   \* Hub.sessions[deviceID]
    handler,   \* StreamHandler of each stream: where it is
    closed,    \* sessions whose done channel is closed
    outbox,    \* session.outbox
    seq,       \* session.seq
    pending,   \* session.pending: the entries [id, call]
    pc,        \* session.call of each call: where it is
    sess,      \* the session a call goes through
    id,        \* its command id
    chan,      \* its result channel, of capacity one
    answer,    \* what it returned: a result, or None for an error
    tunnel,    \* the stream the runner dials or reads
    doing,     \* commands the runner is executing
    posts,     \* results on their way through ResultHandler
    executed,  \* calls whose command the runner has executed
    state      \* the state column of the desktop's instance row

hubVars == <<current, handler, closed>>
sessionVars == <<outbox, seq, pending>>
callVars == <<pc, sess, id, chan, answer>>
runnerVars == <<tunnel, doing, posts, executed>>
vars == <<hubVars, sessionVars, callVars, runnerVars, state>>

-----------------------------------------------------------------------------

\* A command carries only its id; via and call say, for the properties, on which
\* session and for which call it was sent. A result carries them back.
Commands == [id : Nat, via : Streams, call : Calls]
Posts == [cmd : Commands, to : Streams]

TypeOK ==
    /\ current \in Streams \cup {None}
    /\ handler \in [Streams -> {"none", "registered", "open", "left", "removed", "ended"}]
    /\ closed \subseteq Streams
    /\ outbox \in [Streams -> Seq(Commands)]
    /\ seq \in [Streams -> Nat]
    /\ pending \in [Streams -> SUBSET [id : Nat, call : Calls]]
    /\ pc \in [Calls -> {"idle", "found", "queue", "wait", "leave", "answered", "failed"}]
    /\ sess \in [Calls -> Streams \cup {None}]
    /\ id \in [Calls -> Nat]
    /\ chan \in [Calls -> Commands \cup {None}]
    /\ answer \in [Calls -> Commands \cup {None}]
    /\ tunnel \in Streams \cup {None}
    /\ doing \subseteq Commands
    /\ posts \subseteq Posts
    /\ executed \subseteq Calls
    /\ state \in {"online", "offline"}

Init ==
    /\ current = None
    /\ handler = [s \in Streams |-> "none"]
    /\ closed = {}
    /\ outbox = [s \in Streams |-> <<>>]
    /\ seq = [s \in Streams |-> 0]
    /\ pending = [s \in Streams |-> {}]
    /\ pc = [c \in Calls |-> "idle"]
    /\ sess = [c \in Calls |-> None]
    /\ id = [c \in Calls |-> 0]
    /\ chan = [c \in Calls |-> None]
    /\ answer = [c \in Calls |-> None]
    /\ tunnel = None
    /\ doing = {}
    /\ posts = {}
    /\ executed = {}
    /\ state = "offline"

-----------------------------------------------------------------------------
(* StreamHandler.                                                          *)

At(s, from, to) == handler[s] = from /\ handler' = [handler EXCEPT ![s] = to]

\* The runner dials; the new session supersedes the registered one.
Connect(s) ==
    /\ tunnel = None
    /\ At(s, "none", "registered")
    /\ closed' = closed \cup ({current} \ {None})
    /\ current' = s
    /\ tunnel' = s
    /\ UNCHANGED <<sessionVars, callVars, doing, posts, executed, state>>

\* OnOnline(id, true), outside the lock.
MarkOnline(s) ==
    /\ At(s, "registered", "open")
    /\ state' = "online"
    /\ UNCHANGED <<current, closed, sessionVars, callVars, runnerVars>>

\* A command taken from the outbox reaches the runner if it still reads the
\* stream; each command runs in a goroutine of its own there.
Send(s) ==
    /\ handler[s] = "open"
    /\ outbox[s] # <<>>
    /\ outbox' = [outbox EXCEPT ![s] = Tail(@)]
    /\ doing' = IF tunnel = s THEN doing \cup {Head(outbox[s])} ELSE doing
    /\ UNCHANGED <<hubVars, seq, pending, callVars, tunnel, posts, executed, state>>

\* The request context ends with the connection; done is closed by Disconnect
\* or by a newer stream. Returning closes the connection.
Leave(s) ==
    /\ s \in closed \/ tunnel # s
    /\ At(s, "open", "left")
    /\ tunnel' = IF tunnel = s THEN None ELSE tunnel
    /\ UNCHANGED <<current, closed, sessionVars, callVars, doing, posts, executed, state>>

\* The deferred function: the session unregisters itself if it is still the
\* registered one, and calls OnOnline(id, false) in any case.
Unregister(s) ==
    /\ At(s, "left", "removed")
    /\ current' = IF current = s THEN None ELSE current
    /\ UNCHANGED <<closed, sessionVars, callVars, runnerVars, state>>

\* Fault: OnOnline(id, false) is not called.
EndQuietly(s) ==
    /\ At(s, "removed", "ended")
    /\ UNCHANGED <<current, closed, sessionVars, callVars, runnerVars, state>>

MarkOffline(s) ==
    /\ At(s, "removed", "ended")
    /\ state' = "offline"
    /\ UNCHANGED <<current, closed, sessionVars, callVars, runnerVars>>

\* Hub.Disconnect, called when the credential is rotated or revoked.
Disconnect ==
    /\ "revoke" \in Faults
    /\ current # None
    /\ closed' = closed \cup {current}
    /\ current' = None
    /\ UNCHANGED <<handler, sessionVars, callVars, runnerVars, state>>

CutStream ==
    /\ "cut" \in Faults
    /\ tunnel # None
    /\ tunnel' = None
    /\ UNCHANGED <<hubVars, sessionVars, callVars, doing, posts, executed, state>>

-----------------------------------------------------------------------------
(* Hub.Call and session.call.                                              *)

Goto(c, from, to) == pc[c] = from /\ pc' = [pc EXCEPT ![c] = to]

\* Hub.Call looks the session up and lets go of the lock.
LookUp(c) ==
    /\ Goto(c, "idle", IF current = None THEN "failed" ELSE "found")
    /\ sess' = [sess EXCEPT ![c] = current]
    /\ UNCHANGED <<hubVars, sessionVars, id, chan, answer, runnerVars, state>>

\* Fault: seq is read but not advanced.
RegisterSameId(c) ==
    /\ Goto(c, "found", "queue")
    /\ id' = [id EXCEPT ![c] = seq[sess[c]] + 1]
    /\ pending' = [pending EXCEPT ![sess[c]] = @ \cup {[id |-> seq[sess[c]] + 1, call |-> c]}]
    /\ UNCHANGED <<hubVars, outbox, seq, sess, chan, answer, runnerVars, state>>

\* session.call takes the next id and registers its channel under it.
Register(c) ==
    /\ Goto(c, "found", "queue")
    /\ seq' = [seq EXCEPT ![sess[c]] = @ + 1]
    /\ id' = [id EXCEPT ![c] = seq[sess[c]] + 1]
    /\ pending' = [pending EXCEPT ![sess[c]] = @ \cup {[id |-> seq[sess[c]] + 1, call |-> c]}]
    /\ UNCHANGED <<hubVars, outbox, sess, chan, answer, runnerVars, state>>

Enqueue(c) ==
    /\ Goto(c, "queue", "wait")
    /\ Len(outbox[sess[c]]) < OutboxCap
    /\ outbox' = [outbox EXCEPT ![sess[c]] =
                    Append(@, [id |-> id[c], via |-> sess[c], call |-> c])]
    /\ UNCHANGED <<hubVars, seq, pending, sess, id, chan, answer, runnerVars, state>>

Receive(c) ==
    /\ chan[c] # None
    /\ Goto(c, "wait", "leave")
    /\ answer' = [answer EXCEPT ![c] = chan[c]]
    /\ UNCHANGED <<hubVars, sessionVars, sess, id, chan, runnerVars, state>>

\* Fault: no callTimeout.
ExpireInQueue(c) ==
    /\ Goto(c, "queue", "leave")
    /\ UNCHANGED <<hubVars, sessionVars, sess, id, chan, answer, runnerVars, state>>

\* sendTimeout, callTimeout or the caller's context.
Expire(c) ==
    /\ pc[c] \in {"queue", "wait"}
    /\ pc' = [pc EXCEPT ![c] = "leave"]
    /\ UNCHANGED <<hubVars, sessionVars, sess, id, chan, answer, runnerVars, state>>

\* The deferred delete from pending.
Return(c) ==
    /\ Goto(c, "leave", IF answer[c] = None THEN "failed" ELSE "answered")
    /\ pending' = [pending EXCEPT ![sess[c]] = {e \in @ : e.id # id[c]}]
    /\ UNCHANGED <<hubVars, outbox, seq, sess, id, chan, answer, runnerVars, state>>

-----------------------------------------------------------------------------
(* The runner's respond and ResultHandler.                                 *)

\* Fault: ResultHandler does not ask whether a session is registered.
PostAnyway(m) ==
    /\ m \in doing
    /\ doing' = doing \ {m}
    /\ executed' = executed \cup {m.call}
    /\ posts' = posts \cup {[cmd |-> m, to |-> current]}
    /\ UNCHANGED <<hubVars, sessionVars, callVars, tunnel, state>>

\* The result is POSTed with the device's token: ResultHandler picks the
\* session that is registered now, or answers 410.
PostResult(m) ==
    /\ m \in doing
    /\ doing' = doing \ {m}
    /\ executed' = executed \cup {m.call}
    /\ posts' = IF current = None THEN posts ELSE posts \cup {[cmd |-> m, to |-> current]}
    /\ UNCHANGED <<hubVars, sessionVars, callVars, tunnel, state>>

LoseResult(m) ==
    /\ "lost" \in Faults
    /\ m \in doing
    /\ doing' = doing \ {m}
    /\ executed' = executed \cup {m.call}
    /\ UNCHANGED <<hubVars, sessionVars, callVars, tunnel, posts, state>>

\* session.resolve: find the channel under the id, send without blocking.
resolve(p) ==
    /\ p \in posts
    /\ posts' = posts \ {p}
    /\ chan' = [c \in Calls |->
                  IF [id |-> p.cmd.id, call |-> c] \in pending[p.to] /\ chan[c] = None
                    THEN p.cmd ELSE chan[c]]
    /\ UNCHANGED <<hubVars, sessionVars, pc, sess, id, answer, tunnel, doing, executed, state>>

-----------------------------------------------------------------------------

StreamStep(s) == MarkOnline(s) \/ Send(s) \/ Leave(s) \/ Unregister(s) \/ MarkOffline(s)
CallStep(c) == Register(c) \/ Enqueue(c) \/ Receive(c) \/ Expire(c) \/ Return(c)

Next ==
    \/ \E s \in Streams : Connect(s) \/ StreamStep(s)
    \/ \E c \in Calls : LookUp(c) \/ CallStep(c)
    \/ \E m \in doing : PostResult(m) \/ LoseResult(m)
    \/ \E p \in posts : resolve(p)
    \/ Disconnect \/ CutStream

\* Goroutines run; both selects of session.call have a timer.
Fairness ==
    /\ \A s \in Streams : WF_vars(StreamStep(s))
    /\ \A c \in Calls : WF_vars(CallStep(c))

Spec == Init /\ [][Next]_vars /\ Fairness

-----------------------------------------------------------------------------
(* Properties.                                                             *)

\* A call that is answered over the session it was sent on gets the answer to
\* its own command, however answers are reordered, delayed past a timeout or
\* lost: ids are not reused within a session.
SessionAnswersOwn ==
    \A c \in Calls : answer[c] # None /\ answer[c].via = sess[c] => answer[c].call = c

Quiet == \A s \in Streams : \/ handler[s] \in {"none", "ended"}
                            \/ handler[s] = "open" /\ s \notin closed

\* When no stream is between two steps of its life, an instance that reads online
\* has a registered session; a superseded or revoked one never leaves it behind.
OnlineHasSession == Quiet /\ state = "online" => current # None

\* A session that was superseded or revoked is gone from the hub for good, so no
\* later call is sent to it.
ClosedIsUnregistered ==
    /\ current \notin closed
    /\ current # None => handler[current] \in {"registered", "open", "left"}

\* Hub.Call of a tunnel that is never re-established keeps its promise.
Abstract ==
    INSTANCE RunnerCall
      WITH status <- [c \in Calls |->
                        IF pc[c] = "idle" THEN "idle"
                        ELSE IF pc[c] \in {"failed", "answered"} THEN pc[c] ELSE "open"],
           answer <- [c \in Calls |-> IF pc[c] = "answered" THEN answer[c].call ELSE None],
           executed <- executed
KeepsPromise == Abstract!Spec

=============================================================================
