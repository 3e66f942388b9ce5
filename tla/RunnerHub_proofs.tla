-------------------------- MODULE RunnerHub_proofs --------------------------
(***************************************************************************)
(* Proofs about RunnerHub: types, the life of a session in the hub, and    *)
(* the correlation of answers within a session, for any number of streams  *)
(* and calls and every capacity of the outbox.                             *)
(***************************************************************************)
EXTENDS RunnerHub, TLAPS

HubOK ==
    /\ current \in Streams \cup {None}
    /\ handler \in [Streams -> {"none", "registered", "open", "left", "removed", "ended"}]
    /\ closed \subseteq Streams
    /\ state \in {"online", "offline"}
    /\ tunnel \in Streams \cup {None}

SessionOK ==
    /\ outbox \in [Streams -> Seq(Commands)]
    /\ seq \in [Streams -> Nat]
    /\ pending \in [Streams -> SUBSET [id : Nat, call : Calls]]

\* A call past its lookup that has not failed there has a session.
CallOK ==
    /\ pc \in [Calls -> {"idle", "found", "queue", "wait", "leave", "answered", "failed"}]
    /\ sess \in [Calls -> Streams \cup {None}]
    /\ id \in [Calls -> Nat]
    /\ chan \in [Calls -> Commands \cup {None}]
    /\ answer \in [Calls -> Commands \cup {None}]
    /\ \A c \in Calls : pc[c] \in {"found", "queue", "wait", "leave"} => sess[c] \in Streams

RunnerOK == doing \subseteq Commands /\ posts \subseteq Posts /\ executed \subseteq Calls

TypeInv == HubOK /\ SessionOK /\ CallOK /\ RunnerOK

LEMMA TypeInit == Init => TypeInv
<1> USE HubAssumption DEF Init, TypeInv
<1>1. Init => HubOK /\ CallOK /\ RunnerOK
  BY DEF HubOK, CallOK, RunnerOK
<1>2. Init => SessionOK
  <2>1. <<>> \in Seq(Commands)
    OBVIOUS
  <2> QED
    BY <2>1 DEF SessionOK
<1> QED
  BY <1>1, <1>2

\* One step per component of the state; an action that leaves a component alone
\* needs no step of its own.
LEMMA TypeNext == TypeInv /\ [Next]_vars => TypeInv'
<1> SUFFICES ASSUME TypeInv, [Next]_vars PROVE TypeInv'
    OBVIOUS
<1> USE HubAssumption DEF TypeInv, At, Goto
<1>1. HubOK'
  <2>1. ASSUME NEW s \in Streams, Connect(s) \/ StreamStep(s) PROVE HubOK'
    BY <2>1 DEF HubOK, Connect, StreamStep, MarkOnline, Send, Leave, Unregister, MarkOffline,
       hubVars, runnerVars
  <2>2. CASE Disconnect \/ CutStream
    BY <2>2 DEF HubOK, Disconnect, CutStream, hubVars, runnerVars
  <2>3. CASE UNCHANGED <<hubVars, tunnel, state>>
    BY <2>3 DEF HubOK, hubVars
  <2> QED
    BY <2>1, <2>2, <2>3 DEF Next, vars, CallStep, LookUp, Register, Enqueue, Receive, Expire,
       Return, PostResult, LoseResult, resolve, runnerVars
<1>2. SessionOK'
  <2>1. ASSUME NEW s \in Streams, Send(s) PROVE SessionOK'
    <3>1. Tail(outbox[s]) \in Seq(Commands)
      BY <2>1 DEF SessionOK, Send
    <3> QED
      BY <2>1, <3>1 DEF SessionOK, Send
  <2>2. ASSUME NEW c \in Calls, Register(c) PROVE SessionOK'
    <3>1. sess[c] \in Streams
      BY <2>2 DEF CallOK, Register
    <3> QED
      BY <2>2, <3>1 DEF SessionOK, Register
  <2>3. ASSUME NEW c \in Calls, Enqueue(c) PROVE SessionOK'
    <3>1. sess[c] \in Streams /\ id[c] \in Nat
      BY <2>3 DEF CallOK, Enqueue
    <3>2. [id |-> id[c], via |-> sess[c], call |-> c] \in Commands
      BY <3>1 DEF Commands
    <3> QED
      BY <2>3, <3>1, <3>2 DEF SessionOK, Enqueue
  <2>4. ASSUME NEW c \in Calls, Return(c) PROVE SessionOK'
    <3>1. sess[c] \in Streams
      BY <2>4 DEF CallOK, Return
    <3> QED
      BY <2>4, <3>1 DEF SessionOK, Return
  <2>5. CASE UNCHANGED sessionVars
    BY <2>5 DEF SessionOK, sessionVars
  <2> QED
    BY <2>1, <2>2, <2>3, <2>4, <2>5
       DEF Next, vars, StreamStep, CallStep, Connect, MarkOnline, Leave, Unregister, MarkOffline,
           Disconnect, CutStream, LookUp, Receive, Expire, PostResult, LoseResult, resolve
<1>3. CallOK'
  <2>1. ASSUME NEW c \in Calls, LookUp(c) PROVE CallOK'
    BY <2>1 DEF CallOK, HubOK, LookUp
  <2>2. ASSUME NEW c \in Calls, Register(c) PROVE CallOK'
    <3>1. seq[sess[c]] + 1 \in Nat
      BY <2>2 DEF CallOK, SessionOK, Register
    <3> QED
      BY <2>2, <3>1 DEF CallOK, Register
  <2>3. ASSUME NEW c \in Calls, Enqueue(c) \/ Receive(c) \/ Expire(c) \/ Return(c) PROVE CallOK'
    BY <2>3 DEF CallOK, Enqueue, Receive, Expire, Return
  <2>4. ASSUME NEW p \in posts, resolve(p) PROVE CallOK'
    <3>1. p.cmd \in Commands
      BY DEF RunnerOK, Posts
    <3> QED
      BY <2>4, <3>1 DEF CallOK, resolve
  <2>5. CASE UNCHANGED callVars
    BY <2>5 DEF CallOK, callVars
  <2> QED
    BY <2>1, <2>2, <2>3, <2>4, <2>5
       DEF Next, vars, StreamStep, CallStep, Connect, MarkOnline, Send, Leave, Unregister,
           MarkOffline, Disconnect, CutStream, PostResult, LoseResult
<1>4. RunnerOK'
  <2>1. ASSUME NEW s \in Streams, Send(s) PROVE RunnerOK'
    <3>1. Head(outbox[s]) \in Commands
      BY <2>1 DEF SessionOK, Send
    <3> QED
      BY <2>1, <3>1 DEF RunnerOK, Send
  <2>2. ASSUME NEW m \in doing, PostResult(m) \/ LoseResult(m) PROVE RunnerOK'
    BY <2>2 DEF RunnerOK, HubOK, PostResult, LoseResult, Posts, Commands
  <2>3. ASSUME NEW p \in posts, resolve(p) PROVE RunnerOK'
    BY <2>3 DEF RunnerOK, resolve
  <2>4. CASE UNCHANGED <<doing, posts, executed>>
    BY <2>4 DEF RunnerOK
  <2> QED
    BY <2>1, <2>2, <2>3, <2>4
       DEF Next, vars, StreamStep, CallStep, Connect, MarkOnline, Leave, Unregister, MarkOffline,
           Disconnect, CutStream, LookUp, Register, Enqueue, Receive, Expire, Return, runnerVars
<1> QED
  BY <1>1, <1>2, <1>3, <1>4

LEMMA TypeAlways == Spec => []TypeInv
<1>1. TypeInv /\ [Next]_vars => TypeInv'
  BY TypeNext
<1> QED
  BY <1>1, TypeInit, PTL DEF Spec

\* Hub, sessions, calls and the runner's goroutines always have their types.
THEOREM TypeCorrect == Spec => []TypeOK
<1>1. TypeInv => TypeOK
  BY DEF TypeInv, HubOK, SessionOK, CallOK, RunnerOK, TypeOK
<1> QED
  BY <1>1, TypeAlways, PTL

-----------------------------------------------------------------------------
(* The life of a session. A registered session is neither closed nor past  *)
(* its deferred function; a stream that is not closed is the registered    *)
(* one; an online row has a stream that will still mark it offline.        *)

LifeInv ==
    /\ current \notin closed
    /\ current # None => handler[current] \in {"registered", "open", "left"}
    /\ \A s \in closed : handler[s] # "none"
    /\ \A s \in Streams : handler[s] \in {"registered", "open"} /\ s \notin closed => current = s
    /\ state = "online" => \E s \in Streams : handler[s] \in {"open", "left", "removed"}

LEMMA LifeNext ==
    ASSUME TypeInv, LifeInv, [Next]_vars
    PROVE  LifeInv'
<1> USE HubAssumption DEF TypeInv, HubOK, At
<1>1. ASSUME NEW s \in Streams, Connect(s) PROVE LifeInv'
  BY <1>1 DEF LifeInv, Connect
<1>2. ASSUME NEW s \in Streams, MarkOnline(s) PROVE LifeInv'
  BY <1>2 DEF LifeInv, MarkOnline
<1>3. ASSUME NEW s \in Streams, Leave(s) PROVE LifeInv'
  BY <1>3 DEF LifeInv, Leave
<1>4. ASSUME NEW s \in Streams, Unregister(s) PROVE LifeInv'
  BY <1>4 DEF LifeInv, Unregister
<1>5. ASSUME NEW s \in Streams, MarkOffline(s) PROVE LifeInv'
  BY <1>5 DEF LifeInv, MarkOffline
<1>6. CASE Disconnect
  BY <1>6 DEF LifeInv, Disconnect
<1>7. CASE UNCHANGED <<hubVars, state>>
  BY <1>7 DEF LifeInv, hubVars
<1> QED
  BY <1>1, <1>2, <1>3, <1>4, <1>5, <1>6, <1>7
     DEF Next, vars, StreamStep, CallStep, Send, CutStream, LookUp, Register, Enqueue, Receive,
         Expire, Return, PostResult, LoseResult, resolve

LEMMA LifeAlways == Spec => []LifeInv
<1>1. Init => LifeInv
  BY HubAssumption DEF Init, LifeInv
<1>2. TypeInv /\ LifeInv /\ [Next]_vars => LifeInv'
  BY LifeNext
<1> QED
  BY <1>1, <1>2, TypeAlways, PTL DEF Spec

\* A session that was superseded or disconnected never becomes the one that
\* Hub.Call finds again.
THEOREM ClosedStaysUnregistered == Spec => []ClosedIsUnregistered
<1>1. LifeInv => ClosedIsUnregistered
  BY DEF LifeInv, ClosedIsUnregistered
<1> QED
  BY <1>1, LifeAlways, PTL

\* A desktop never reads online for good without a registered session, however
\* its streams are superseded, cut and disconnected.
THEOREM OnlineIsBacked == Spec => []OnlineHasSession
<1>1. TypeInv /\ LifeInv => OnlineHasSession
  BY HubAssumption DEF TypeInv, HubOK, LifeInv, OnlineHasSession, Quiet
<1> QED
  BY <1>1, TypeAlways, LifeAlways, PTL

-----------------------------------------------------------------------------
(* Correlation. Within a session the ids of all calls differ, and whatever *)
(* travels (a queued command, one the runner executes, its result, the     *)
(* content of a channel) still names the id its call registered under.     *)

\* m names the id and the session its call registered with.
Genuine(m) == id[m.call] # 0 /\ id[m.call] = m.id /\ sess[m.call] = m.via

IdsInv ==
    /\ \A c \in Calls : pc[c] \in {"idle", "found"} => id[c] = 0
    /\ \A c \in Calls : pc[c] = "queue" => id[c] # 0
    /\ \A c \in Calls : id[c] # 0 => sess[c] \in Streams /\ id[c] <= seq[sess[c]]
    /\ \A c, d \in Calls : id[c] # 0 /\ id[c] = id[d] /\ sess[c] = sess[d] => c = d
    /\ \A s \in Streams : \A e \in pending[s] : id[e.call] # 0 /\ id[e.call] = e.id

TravelInv ==
    /\ \A s \in Streams : \A i \in 1..Len(outbox[s]) : Genuine(outbox[s][i])
    /\ \A m \in doing : Genuine(m)
    /\ \A p \in posts : Genuine(p.cmd)
    /\ \A c \in Calls : chan[c] # None => Genuine(chan[c]) /\ chan[c].id = id[c]
    /\ \A c \in Calls : answer[c] # None => Genuine(answer[c]) /\ answer[c].id = id[c]

LEMMA IdsNext ==
    ASSUME TypeInv, IdsInv, [Next]_vars
    PROVE  IdsInv'
<1> USE DEF TypeInv, SessionOK, CallOK, Goto
<1>1. ASSUME NEW c \in Calls, LookUp(c) PROVE IdsInv'
  BY <1>1 DEF IdsInv, LookUp, sessionVars
<1>2. ASSUME NEW c \in Calls, Register(c) PROVE IdsInv'
  BY <1>2 DEF IdsInv, Register
<1>3. ASSUME NEW c \in Calls, Enqueue(c) \/ Receive(c) \/ Expire(c) PROVE IdsInv'
  BY <1>3 DEF IdsInv, Enqueue, Receive, Expire, sessionVars
<1>4. ASSUME NEW c \in Calls, Return(c) PROVE IdsInv'
  BY <1>4 DEF IdsInv, Return
<1>5. CASE UNCHANGED <<seq, pending, pc, sess, id>>
  BY <1>5 DEF IdsInv
<1> QED
  BY <1>1, <1>2, <1>3, <1>4, <1>5
     DEF Next, vars, StreamStep, CallStep, Connect, MarkOnline, Send, Leave, Unregister,
         MarkOffline, Disconnect, CutStream, PostResult, LoseResult, resolve, sessionVars, callVars

\* An id and the session that goes with it are never changed once registered.
LEMMA IdStable ==
    ASSUME TypeInv, IdsInv, [Next]_vars, NEW d \in Calls, id[d] # 0
    PROVE  id'[d] = id[d] /\ sess'[d] = sess[d]
<1> USE DEF TypeInv, CallOK, Goto
<1>1. ASSUME NEW c \in Calls, LookUp(c) \/ Register(c)
      PROVE  id'[d] = id[d] /\ sess'[d] = sess[d]
  BY <1>1 DEF IdsInv, LookUp, Register
<1> QED
  BY <1>1 DEF Next, vars, StreamStep, CallStep, Connect, MarkOnline, Send, Leave, Unregister,
     MarkOffline, Disconnect, CutStream, Enqueue, Receive, Expire, Return, PostResult, LoseResult,
     resolve, callVars

LEMMA GenuineStable ==
    ASSUME TypeInv, IdsInv, [Next]_vars, NEW m \in Commands, Genuine(m)
    PROVE  Genuine(m)'
<1>1. m.call \in Calls
  BY DEF Commands
<1> QED
  BY <1>1, IdStable DEF Genuine

LEMMA TravelNext ==
    ASSUME TypeInv, IdsInv, TravelInv, [Next]_vars
    PROVE  TravelInv'
<1> DEFINE Queued == \A s \in Streams : \A i \in 1..Len(outbox[s]) : Genuine(outbox[s][i])
           InHand == (\A m \in doing : Genuine(m)) /\ (\A p \in posts : Genuine(p.cmd))
           Given(f) == \A c \in Calls : f[c] # None => Genuine(f[c]) /\ f[c].id = id[c]
<1>1. \A m \in Commands : Genuine(m) => Genuine(m)'
  BY GenuineStable
<1>2. \A c \in Calls, m \in Commands : Genuine(m) /\ m.id = id[c] => id'[c] = id[c]
  BY IdStable DEF Genuine
<1>3. Queued'
  <2>0. ASSUME \A t \in Streams : \A i \in 1..Len(outbox'[t]) :
                  \E g \in Commands : outbox'[t][i] = g /\ Genuine(g)'
        PROVE  Queued'
    BY <2>0 DEF Genuine
  <2> USE DEF TypeInv, SessionOK, TravelInv
  <2>1. ASSUME NEW s \in Streams, Send(s) PROVE Queued'
    <3> SUFFICES ASSUME NEW t \in Streams, NEW i \in 1..Len(outbox'[t])
                 PROVE  \E g \in Commands : outbox'[t][i] = g /\ Genuine(g)'
      BY <2>0
    <3>1. \E j \in 1..Len(outbox[t]) : outbox'[t][i] = outbox[t][j]
      <4>1. CASE t = s
        <5>1. outbox'[t] = Tail(outbox[t]) /\ outbox[t] \in Seq(Commands) /\ outbox[t] # <<>>
          BY <2>1, <4>1 DEF Send
        <5>2. i + 1 \in 1..Len(outbox[t]) /\ outbox'[t][i] = outbox[t][i + 1]
          BY <5>1
        <5> QED
          BY <5>2
      <4>2. CASE t # s
        BY <2>1, <4>2 DEF Send
      <4> QED
        BY <4>1, <4>2
    <3>2. \A j \in 1..Len(outbox[t]) : outbox[t][j] \in Commands /\ Genuine(outbox[t][j])
      OBVIOUS
    <3> QED
      BY <3>1, <3>2, <1>1
  <2>2. ASSUME NEW c \in Calls, Enqueue(c) PROVE Queued'
    <3>1. sess[c] \in Streams /\ id[c] \in Nat /\ id' = id /\ sess' = sess /\ pc[c] = "queue"
      BY <2>2 DEF CallOK, Enqueue, Goto
    <3>2. PICK m \in Commands : m = [id |-> id[c], via |-> sess[c], call |-> c]
      BY <3>1 DEF Commands
    <3>3. id[c] # 0
      BY <3>1 DEF IdsInv
    <3>4. Genuine(m)'
      BY <3>1, <3>2, <3>3 DEF Genuine
    <3> SUFFICES ASSUME NEW t \in Streams, NEW i \in 1..Len(outbox'[t])
                 PROVE  \E g \in Commands : outbox'[t][i] = g /\ Genuine(g)'
      BY <2>0
    <3>5. outbox'[t][i] = m \/ \E j \in 1..Len(outbox[t]) : outbox'[t][i] = outbox[t][j]
      <4>1. outbox' = [outbox EXCEPT ![sess[c]] = Append(@, m)]
        BY <2>2, <3>2 DEF Enqueue
      <4>2. CASE t = sess[c]
        <5>1. outbox'[t] = Append(outbox[t], m) /\ outbox[t] \in Seq(Commands)
          BY <4>1, <4>2
        <5>2. CASE i \in 1..Len(outbox[t])
          <6>1. outbox'[t][i] = outbox[t][i]
            BY <5>1, <5>2, <3>2
          <6> QED
            BY <5>2, <6>1
        <5>3. CASE i \notin 1..Len(outbox[t])
          <6>1. i = Len(outbox[t]) + 1
            BY <5>1, <5>3, <3>2
          <6> QED
            BY <5>1, <6>1, <3>2
        <5> QED
          BY <5>2, <5>3
      <4>3. CASE t # sess[c]
        BY <4>1, <4>3
      <4> QED
        BY <4>2, <4>3
    <3>6. \A j \in 1..Len(outbox[t]) : outbox[t][j] \in Commands /\ Genuine(outbox[t][j])
      OBVIOUS
    <3> QED
      BY <3>2, <3>4, <3>5, <3>6, <1>1
  <2>3. ASSUME UNCHANGED outbox PROVE Queued'
    BY <2>3, <1>1
  <2> QED
    BY <2>1, <2>2, <2>3
       DEF Next, vars, StreamStep, CallStep, Connect, MarkOnline, Leave, Unregister, MarkOffline,
           Disconnect, CutStream, LookUp, Register, Receive, Expire, Return, PostResult,
           LoseResult, resolve, sessionVars
<1>4. InHand'
  <2> USE DEF TypeInv, RunnerOK, TravelInv
  <2>1. ASSUME NEW s \in Streams, Send(s) PROVE InHand'
    <3>1. Head(outbox[s]) \in Commands /\ Genuine(Head(outbox[s]))
      <4>1. outbox[s] \in Seq(Commands) /\ outbox[s] # <<>>
        BY <2>1 DEF SessionOK, Send
      <4>2. 1 \in 1..Len(outbox[s]) /\ Head(outbox[s]) = outbox[s][1]
        BY <4>1
      <4> QED
        BY <4>1, <4>2
    <3> QED
      BY <2>1, <3>1, <1>1 DEF Send, Posts
  <2>2. ASSUME NEW m \in doing, PostResult(m) \/ LoseResult(m) PROVE InHand'
    BY <2>2, <1>1 DEF PostResult, LoseResult, Posts
  <2>3. ASSUME NEW p \in posts, resolve(p) PROVE InHand'
    BY <2>3, <1>1 DEF resolve, Posts
  <2>4. ASSUME UNCHANGED <<doing, posts>> PROVE InHand'
    BY <2>4, <1>1 DEF Posts
  <2> QED
    BY <2>1, <2>2, <2>3, <2>4
       DEF Next, vars, StreamStep, CallStep, Connect, MarkOnline, Leave, Unregister, MarkOffline,
           Disconnect, CutStream, LookUp, Register, Enqueue, Receive, Expire, Return, runnerVars
<1>5. Given(chan)'
  <2> USE DEF TypeInv, CallOK, TravelInv
  <2>1. ASSUME NEW p \in posts, resolve(p) PROVE Given(chan)'
    <3>1. p.cmd \in Commands /\ Genuine(p.cmd) /\ id' = id /\ p.to \in Streams
      BY <2>1 DEF RunnerOK, Posts, resolve
    <3>2. \A c \in Calls : [id |-> p.cmd.id, call |-> c] \in pending[p.to] => id[c] = p.cmd.id
      BY <3>1 DEF IdsInv
    <3> QED
      BY <2>1, <3>1, <3>2, <1>1 DEF resolve
  <2>2. ASSUME UNCHANGED chan PROVE Given(chan)'
    BY <2>2, <1>1, <1>2
  <2> QED
    BY <2>1, <2>2
       DEF Next, vars, StreamStep, CallStep, Connect, MarkOnline, Send, Leave, Unregister,
           MarkOffline, Disconnect, CutStream, LookUp, Register, Enqueue, Receive, Expire, Return,
           PostResult, LoseResult, callVars
<1>6. Given(answer)'
  <2> USE DEF TypeInv, CallOK, TravelInv
  <2>1. ASSUME NEW c \in Calls, Receive(c) PROVE Given(answer)'
    BY <2>1, <1>1, <1>2 DEF Receive
  <2>2. ASSUME UNCHANGED answer PROVE Given(answer)'
    BY <2>2, <1>1, <1>2
  <2> QED
    BY <2>1, <2>2
       DEF Next, vars, StreamStep, CallStep, Connect, MarkOnline, Send, Leave, Unregister,
           MarkOffline, Disconnect, CutStream, LookUp, Register, Enqueue, Expire, Return,
           PostResult, LoseResult, resolve, callVars
<1> QED
  BY <1>3, <1>4, <1>5, <1>6 DEF TravelInv

\* Whatever is lost, delayed past its caller's timeout or reordered, an answer
\* that comes back over the session its command was sent on reaches the call
\* that sent it.
THEOREM SessionsAnswerTheirOwn == Spec => []SessionAnswersOwn
<1>1. Init => IdsInv /\ TravelInv
  BY HubAssumption DEF Init, IdsInv, TravelInv
<1>2. TypeInv /\ IdsInv /\ TravelInv /\ [Next]_vars => IdsInv' /\ TravelInv'
  BY IdsNext, TravelNext
<1>3. TypeInv /\ IdsInv /\ TravelInv => SessionAnswersOwn
  <2> SUFFICES ASSUME TypeInv, IdsInv, TravelInv, NEW c \in Calls, answer[c] # None,
                      answer[c].via = sess[c]
               PROVE  answer[c].call = c
    BY DEF SessionAnswersOwn
  <2>1. answer[c] \in Commands /\ answer[c].call \in Calls
    BY DEF TypeInv, CallOK, Commands
  <2>2. Genuine(answer[c]) /\ answer[c].id = id[c]
    BY DEF TravelInv
  <2> QED
    BY <2>1, <2>2 DEF Genuine, IdsInv
<1> QED
  BY <1>1, <1>2, <1>3, TypeAlways, PTL DEF Spec

-----------------------------------------------------------------------------
(* The refinement. A command is in one place at a time: in its session's   *)
(* outbox, with a goroutine of the runner, or executed. What is on its way *)
(* back, in a channel or returned was executed before.                     *)

Unsent == {"idle", "found", "queue"}

OnceInv ==
    /\ \A s \in Streams : \A i \in 1..Len(outbox[s]) :
        /\ outbox[s][i].via = s
        /\ pc[outbox[s][i].call] \notin Unsent
        /\ outbox[s][i].call \notin executed
        /\ \A m \in doing : m.call # outbox[s][i].call
        /\ \A j \in 1..Len(outbox[s]) : outbox[s][i].call = outbox[s][j].call => i = j
    /\ \A m \in doing : pc[m.call] \notin Unsent /\ m.call \notin executed
    /\ \A c \in executed : pc[c] \notin Unsent

BackInv ==
    /\ \A p \in posts : p.cmd.call \in executed
    /\ \A c \in Calls : chan[c] # None => chan[c].call \in executed
    /\ \A c \in Calls : answer[c] # None => answer[c].call \in executed

HubInv == TypeInv /\ IdsInv /\ TravelInv /\ OnceInv /\ BackInv

\* Two commands with the same call are the same command.
LEMMA GenuineUnique ==
    ASSUME NEW m \in Commands, NEW n \in Commands, Genuine(m), Genuine(n), m.call = n.call
    PROVE  m = n
BY DEF Genuine, Commands

LEMMA OnceNext ==
    ASSUME HubInv, [Next]_vars
    PROVE  OnceInv'
<1> USE DEF HubInv, TypeInv, Goto
<1>c. ASSUME NEW s \in Streams, NEW i \in 1..Len(outbox[s])
      PROVE  outbox[s][i] \in Commands /\ outbox[s][i].call \in Calls /\ Genuine(outbox[s][i])
  <2>1. outbox[s] \in Seq(Commands)
    BY DEF SessionOK
  <2>2. outbox[s][i] \in Commands
    BY <2>1
  <2>3. Genuine(outbox[s][i])
    BY DEF TravelInv
  <2> QED
    BY <2>2, <2>3 DEF Commands
<1>d. ASSUME NEW m \in doing PROVE m \in Commands /\ m.call \in Calls /\ Genuine(m)
    BY DEF RunnerOK, TravelInv, Commands
\* pc only moves on
<1>p. \A c \in Calls : pc[c] \notin Unsent => pc'[c] \notin Unsent
    BY DEF CallOK, Next, vars, Unsent, StreamStep, CallStep, Connect, MarkOnline, Send, Leave,
       Unregister, MarkOffline, Disconnect, CutStream, LookUp, Register, Enqueue, Receive, Expire,
       Return, PostResult, LoseResult, resolve, callVars
<1>1. ASSUME NEW s \in Streams, Send(s) PROVE OnceInv'
  <2>1. outbox[s] \in Seq(Commands) /\ outbox[s] # <<>> /\ pc' = pc /\ executed' = executed
        /\ outbox' = [outbox EXCEPT ![s] = Tail(@)]
    BY <1>1 DEF SessionOK, Send, callVars
  <2>2. 1 \in 1..Len(outbox[s]) /\ Head(outbox[s]) = outbox[s][1]
    BY <2>1
  <2>3. \A t \in Streams : \A i \in 1..Len(outbox'[t]) : \E k \in 1..Len(outbox[t]) :
            /\ outbox'[t][i] = outbox[t][k]
            /\ t = s => k = i + 1
            /\ t # s => k = i
    <3> SUFFICES ASSUME NEW t \in Streams, NEW i \in 1..Len(outbox'[t])
                 PROVE  \E k \in 1..Len(outbox[t]) : /\ outbox'[t][i] = outbox[t][k]
                                                     /\ t = s => k = i + 1
                                                     /\ t # s => k = i
      OBVIOUS
    <3>1. CASE t = s
      <4>1. outbox'[t] = Tail(outbox[s])
        BY <2>1, <3>1 DEF SessionOK
      <4>2. outbox[t] \in Seq(Commands) /\ outbox[t] # <<>> /\ outbox'[t] = Tail(outbox[t])
        BY <2>1, <3>1, <4>1
      <4>3. i + 1 \in 1..Len(outbox[t]) /\ outbox'[t][i] = outbox[t][i + 1]
        BY <4>2
      <4> QED
        BY <3>1, <4>3
    <3>2. CASE t # s
      BY <2>1, <3>2 DEF SessionOK
    <3> QED
      BY <3>1, <3>2
  \* what was sent is not queued any more, here or on another stream
  <2>4. ASSUME NEW t \in Streams, NEW k \in 1..Len(outbox[t]), t = s => k # 1
        PROVE  outbox[t][k].call # outbox[s][1].call
    <3>1. CASE t = s
      BY <2>2, <2>4, <3>1 DEF OnceInv
    <3>2. CASE t # s
      <4>1. outbox[t][k].via = t /\ outbox[s][1].via = s
        BY <2>2 DEF OnceInv
      <4>2. sess[outbox[t][k].call] = t /\ sess[outbox[s][1].call] = s
        BY <1>c, <2>2, <4>1 DEF Genuine
      <4> QED
        BY <3>2, <4>2
    <3> QED
      BY <3>1, <3>2
  <2>5. doing' \subseteq doing \cup {outbox[s][1]}
    BY <1>1, <2>2 DEF Send
  <2>6. ASSUME NEW t \in Streams, NEW i \in 1..Len(outbox'[t])
        PROVE  /\ outbox'[t][i].via = t
               /\ pc'[outbox'[t][i].call] \notin Unsent
               /\ outbox'[t][i].call \notin executed'
               /\ \A m \in doing' : m.call # outbox'[t][i].call
               /\ \A j \in 1..Len(outbox'[t]) : outbox'[t][i].call = outbox'[t][j].call => i = j
    <3>1. PICK k \in 1..Len(outbox[t]) : /\ outbox'[t][i] = outbox[t][k]
                                         /\ t = s => k = i + 1
                                         /\ t # s => k = i
      BY <2>3
    <3>2. outbox[t][k].call # outbox[s][1].call
      BY <2>4, <3>1
    <3>3. \A j \in 1..Len(outbox'[t]) : outbox'[t][i].call = outbox'[t][j].call => i = j
      <4> SUFFICES ASSUME NEW j \in 1..Len(outbox'[t]), outbox'[t][i].call = outbox'[t][j].call
                   PROVE  i = j
        OBVIOUS
      <4>1. PICK l \in 1..Len(outbox[t]) : /\ outbox'[t][j] = outbox[t][l]
                                           /\ t = s => l = j + 1
                                           /\ t # s => l = j
        BY <2>3
      <4>2. k = l
        BY <3>1, <4>1 DEF OnceInv
      <4>3. i \in Nat /\ j \in Nat
        BY <3>1, <4>1
      <4> QED
        BY <3>1, <4>1, <4>2, <4>3
    <3> QED
      BY <2>1, <2>5, <3>1, <3>2, <3>3 DEF OnceInv
  <2>7. /\ \A m \in doing' : pc'[m.call] \notin Unsent /\ m.call \notin executed'
        /\ \A c \in executed' : pc'[c] \notin Unsent
    BY <2>1, <2>2, <2>5 DEF OnceInv
  <2> QED
    BY <2>6, <2>7 DEF OnceInv
<1>2. ASSUME NEW c \in Calls, Enqueue(c) PROVE OnceInv'
  <2> DEFINE n == [id |-> id[c], via |-> sess[c], call |-> c]
  <2>1. /\ sess[c] \in Streams /\ id[c] \in Nat /\ doing' = doing /\ executed' = executed
        /\ pc[c] = "queue" /\ pc' = [pc EXCEPT ![c] = "wait"]
        /\ outbox' = [outbox EXCEPT ![sess[c]] = Append(@, n)]
    BY <1>2 DEF CallOK, Enqueue, runnerVars
  <2>2. n \in Commands /\ n.call = c /\ n.via = sess[c]
    BY <2>1 DEF Commands
  \* until now the command was nowhere
  <2>3. c \notin executed /\ \A m \in doing : m.call # c
    BY <2>1 DEF OnceInv, Unsent
  <2>4. \A t \in Streams : \A i \in 1..Len(outbox[t]) : outbox[t][i].call # c
    BY <2>1 DEF OnceInv, Unsent
  <2>5. \A t \in Streams : \A i \in 1..Len(outbox'[t]) :
            \/ i \in 1..Len(outbox[t]) /\ outbox'[t][i] = outbox[t][i]
            \/ t = sess[c] /\ i = Len(outbox[t]) + 1 /\ outbox'[t][i] = n
    <3> SUFFICES ASSUME NEW t \in Streams, NEW i \in 1..Len(outbox'[t])
                 PROVE  \/ i \in 1..Len(outbox[t]) /\ outbox'[t][i] = outbox[t][i]
                        \/ t = sess[c] /\ i = Len(outbox[t]) + 1 /\ outbox'[t][i] = n
      OBVIOUS
    <3>1. outbox[t] \in Seq(Commands)
      BY DEF SessionOK
    <3> HIDE DEF n
    <3>2. CASE t = sess[c]
      <4>1. outbox'[t] = Append(outbox[t], n)
        BY <2>1, <3>2 DEF SessionOK
      <4> QED
        BY <2>2, <3>1, <3>2, <4>1
    <3>3. CASE t # sess[c]
      BY <2>1, <3>3 DEF SessionOK
    <3> QED
      BY <3>2, <3>3
  <2> HIDE DEF n
  <2>6. ASSUME NEW t \in Streams, NEW i \in 1..Len(outbox'[t])
        PROVE  /\ outbox'[t][i].via = t
               /\ pc'[outbox'[t][i].call] \notin Unsent
               /\ outbox'[t][i].call \notin executed'
               /\ \A m \in doing' : m.call # outbox'[t][i].call
               /\ \A j \in 1..Len(outbox'[t]) : outbox'[t][i].call = outbox'[t][j].call => i = j
    <3>1. CASE i \in 1..Len(outbox[t]) /\ outbox'[t][i] = outbox[t][i]
      BY <1>c, <1>p, <2>1, <2>2, <2>4, <2>5, <3>1 DEF OnceInv
    <3>2. CASE t = sess[c] /\ i = Len(outbox[t]) + 1 /\ outbox'[t][i] = n
      <4>1. pc'[c] \notin Unsent
        BY <2>1 DEF CallOK, Unsent
      <4> QED
        BY <2>1, <2>2, <2>3, <2>4, <2>5, <3>2, <4>1
    <3> QED
      BY <2>5, <3>1, <3>2
  <2>7. /\ \A m \in doing' : pc'[m.call] \notin Unsent /\ m.call \notin executed'
        /\ \A d \in executed' : pc'[d] \notin Unsent
    BY <1>d, <1>p, <2>1 DEF OnceInv, RunnerOK
  <2> QED
    BY <2>6, <2>7 DEF OnceInv
<1>3. ASSUME NEW m \in doing, PostResult(m) \/ LoseResult(m) PROVE OnceInv'
  <2>1. /\ doing' = doing \ {m} /\ executed' = executed \cup {m.call} /\ pc' = pc
        /\ outbox' = outbox
    BY <1>3 DEF PostResult, LoseResult, callVars, sessionVars
  <2>2. \A n \in doing' : n.call # m.call
    BY <1>d, <2>1, GenuineUnique
  <2> QED
    BY <2>1, <2>2 DEF OnceInv
<1>4. ASSUME UNCHANGED <<outbox, doing, executed>> PROVE OnceInv'
  BY <1>c, <1>d, <1>p, <1>4 DEF OnceInv, RunnerOK
<1> QED
  BY <1>1, <1>2, <1>3, <1>4
     DEF Next, vars, StreamStep, CallStep, Connect, MarkOnline, Leave, Unregister, MarkOffline,
         Disconnect, CutStream, LookUp, Register, Receive, Expire, Return, resolve, sessionVars,
         runnerVars

LEMMA BackNext ==
    ASSUME HubInv, [Next]_vars
    PROVE  BackInv'
<1> USE DEF HubInv, TypeInv, RunnerOK, CallOK, Goto
<1>1. ASSUME NEW m \in doing, PostResult(m) \/ LoseResult(m) PROVE BackInv'
  BY <1>1 DEF BackInv, PostResult, LoseResult, callVars
<1>2. ASSUME NEW p \in posts, resolve(p) PROVE BackInv'
  BY <1>2 DEF BackInv, resolve
<1>3. ASSUME NEW c \in Calls, Receive(c) PROVE BackInv'
  BY <1>3 DEF BackInv, Receive, runnerVars
<1>4. ASSUME UNCHANGED <<posts, chan, answer, executed>> PROVE BackInv'
  BY <1>4 DEF BackInv
<1> QED
  BY <1>1, <1>2, <1>3, <1>4
     DEF Next, vars, StreamStep, CallStep, Connect, MarkOnline, Send, Leave, Unregister,
         MarkOffline, Disconnect, CutStream, LookUp, Register, Enqueue, Expire, Return,
         callVars, runnerVars

LEMMA HubInvAlways == Spec => []HubInv
<1>1. Init => IdsInv /\ TravelInv /\ OnceInv /\ BackInv
  BY HubAssumption DEF Init, IdsInv, TravelInv, OnceInv, BackInv
<1>2. HubInv /\ [Next]_vars => HubInv'
  BY TypeNext, IdsNext, TravelNext, OnceNext, BackNext DEF HubInv
<1> QED
  BY <1>1, <1>2, TypeInit, PTL DEF Spec, HubInv

\* The runner executes no command twice, over any number of streams: whatever is
\* cut, superseded or timed out, a command is never sent a second time.
THEOREM EachCommandRunsOnce ==
    Spec => [][\A m \in doing : m \notin doing' => m.call \notin executed]_vars
<1>1. HubInv /\ [Next]_vars => [\A m \in doing : m \notin doing' => m.call \notin executed]_vars
  BY DEF HubInv, OnceInv
<1> QED
  BY <1>1, HubInvAlways, PTL DEF Spec

-----------------------------------------------------------------------------

\* A tunnel that is never re-established.
OneStream == \A s, t \in Streams : s = t

LEMMA AnswerIsOwn ==
    ASSUME HubInv, OneStream, NEW c \in Calls, answer[c] # None
    PROVE  answer[c].call = c /\ c \in executed
<1>1. answer[c] \in Commands /\ answer[c].call \in Calls /\ answer[c].via \in Streams
  BY DEF HubInv, TypeInv, CallOK, Commands
<1>2. Genuine(answer[c]) /\ answer[c].id = id[c]
  BY DEF HubInv, TravelInv
<1>3. sess[c] = sess[answer[c].call]
  BY <1>1, <1>2 DEF Genuine, HubInv, IdsInv, OneStream
<1> QED
  BY <1>1, <1>2, <1>3 DEF Genuine, HubInv, IdsInv, BackInv

\* Every step of the tunnel is a step of RunnerCall, or none.
LEMMA StepRefines ==
    ASSUME HubInv, HubInv', OneStream, [Next]_vars
    PROVE  [Abstract!Next]_(Abstract!vars)
<1> USE DEF HubInv, TypeInv, CallOK, Goto
<1>1. ASSUME NEW c \in Calls, LookUp(c) PROVE Abstract!Next
  <2>1. CASE current = None
    <3>1. Abstract!Fail(c)
      BY <1>1, <2>1 DEF LookUp, Abstract!Fail, runnerVars
    <3> QED
      BY <3>1 DEF Abstract!Next
  <2>2. CASE current # None
    <3>1. Abstract!Issue(c)
      BY <1>1, <2>2 DEF LookUp, Abstract!Issue, runnerVars
    <3> QED
      BY <3>1 DEF Abstract!Next
  <2> QED
    BY <2>1, <2>2
<1>2. ASSUME NEW c \in Calls, Return(c) PROVE Abstract!Next
  <2>1. CASE answer[c] = None
    <3>1. Abstract!Fail(c)
      BY <1>2, <2>1 DEF Return, Abstract!Fail, runnerVars
    <3> QED
      BY <3>1 DEF Abstract!Next
  <2>2. CASE answer[c] # None
    <3>1. answer[c].call = c /\ c \in executed
      BY <2>2, AnswerIsOwn
    <3>2. Abstract!Answer(c)
      BY <1>2, <2>2, <3>1 DEF Return, Abstract!Answer, runnerVars
    <3> QED
      BY <3>2 DEF Abstract!Next
  <2> QED
    BY <2>1, <2>2
<1>3. ASSUME NEW m \in doing, PostResult(m) \/ LoseResult(m) PROVE Abstract!Next
  <2>1. m.call \in Calls /\ m.call \notin executed /\ pc[m.call] # "idle"
    BY DEF RunnerOK, Commands, OnceInv, Unsent
  <2>2. Abstract!Execute(m.call)
    BY <1>3, <2>1 DEF PostResult, LoseResult, Abstract!Execute, callVars
  <2> QED
    BY <2>1, <2>2 DEF Abstract!Next
<1>4. ASSUME NEW c \in Calls, Register(c) \/ Enqueue(c) \/ Expire(c) \/ Receive(c)
      PROVE  UNCHANGED Abstract!vars
  BY <1>4 DEF Register, Enqueue, Expire, Receive, Abstract!vars, runnerVars
<1>5. ASSUME UNCHANGED <<pc, answer, executed>> PROVE UNCHANGED Abstract!vars
  BY <1>5 DEF Abstract!vars
<1> QED
  BY <1>1, <1>2, <1>3, <1>4, <1>5
     DEF Next, vars, StreamStep, CallStep, Connect, MarkOnline, Send, Leave, Unregister,
         MarkOffline, Disconnect, CutStream, resolve, callVars, runnerVars

\* What Hub.Call promises, as far as safety goes: a call over a tunnel that is
\* not re-established is given the answer to its own command or an error, and
\* the command runs at most once, whatever is cut, lost or timed out.
THEOREM TunnelImplementsCall ==
    ASSUME OneStream
    PROVE  Spec => Abstract!SafeSpec
<1>1. Init => Abstract!Init
  BY DEF Init, Abstract!Init
<1>2. HubInv /\ HubInv' /\ [Next]_vars => [Abstract!Next]_(Abstract!vars)
  BY OneStream, StepRefines
<1> QED
  BY <1>1, <1>2, HubInvAlways, PTL DEF Spec, Abstract!SafeSpec

=============================================================================
