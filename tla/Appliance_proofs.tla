--------------------------- MODULE Appliance_proofs ---------------------------
(***************************************************************************)
(* Proofs about the runner's input events and the device tools, and that   *)
(* the appliance, of which one part moves at a time, satisfies every       *)
(* part's specification, so that what is proved of a part holds of it.     *)
(***************************************************************************)
EXTENDS MCAppliance, Stores_proofs, SequenceTheorems

(***************************************************************************)
(* Input events: a runner leaves nothing held down, for any number of      *)
(* commands, every set of keys, texts and chords and any length of a drag. *)
(***************************************************************************)

Things == Keys \cup Buttons \cup {Nothing}
AllEvents == [do : {"down", "hold", "up", "move", "tap"}, key : Things]

SequencesOK ==
    /\ status \in [Commands -> {"new", "busy", "ok", "error"}]
    /\ gesture \in [Commands -> Gestures \cup {Nothing}]
    /\ rest \in [Commands -> Seq(Things)]
    /\ todo \in [Commands -> Seq(AllEvents)]
    /\ own \in [Commands -> Seq(Things)]

\* In every turn a key that goes down comes up again
Paired(events) ==
    \A i \in 1..Len(events) :
        events[i].do = "down" =>
            \E j \in (i + 1)..Len(events) : events[j].do = "up" /\ events[j].key = events[i].key

\* What a command that may fail half-way has to release, it holds as its own
Whole(events) == \A i \in 1..Len(events) : events[i].do \notin {"down", "up"}

TurnInv ==
    \A c \in Commands :
        /\ status[c] = "new" => rest[c] = <<>>
        /\ Paired(todo[c])
        /\ platform # "windows" => /\ Whole(todo[c])
                                   /\ rest[c] # <<>> => gesture[c].do = "drag"

\* A command with this status, holding this and with these events before it, is
\* going to release k
Owes(state, holds, events, k) ==
    /\ state = "busy"
    /\ \/ \E i \in 1..Len(holds) : holds[i] = k
       \/ \E i \in 1..Len(events) : events[i].do = "up" /\ events[i].key = k

HeldInv == \A k \in held \ lost : \E c \in Commands : Owes(status[c], own[c], todo[c], k)

InputInv == SequencesOK /\ TurnInv /\ HeldInv

LEMMA InputInvInit == InputInit => InputInv
<1> SUFFICES ASSUME InputInit PROVE InputInv
    OBVIOUS
<1>1. SequencesOK
    BY DEF InputInit, SequencesOK
<1>2. TurnInv /\ HeldInv
    BY DEF InputInit, TurnInv, Paired, Whole, HeldInv
<1> QED  BY <1>1, <1>2 DEF InputInv

\* The events of one turn of a loop, whatever the loop.
LEMMA StrokePaired ==
    ASSUME NEW k \in Things
    PROVE  Stroke(k) \in Seq(AllEvents) /\ Paired(Stroke(k))
BY DEF Stroke, Event, Paired, AllEvents

LEMMA SinglePaired ==
    ASSUME NEW k \in Things, NEW what \in {"hold", "up", "move", "tap"}
    PROVE  <<Event(what, k)>> \in Seq(AllEvents) /\ Paired(<<Event(what, k)>>)
BY DEF Event, Paired, AllEvents

LEMMA NonePaired == <<>> \in Seq(AllEvents) /\ Paired(<<>>) /\ Whole(<<>>)
BY DEF Paired, Whole

LEMMA FourJoined ==
    ASSUME NEW S, NEW a \in S, NEW b \in S, NEW d \in S, NEW e \in S
    PROVE  LET t == <<a>> \o <<b, d>> \o <<e>>
           IN  t \in Seq(S) /\ Len(t) = 4 /\ t[1] = a /\ t[2] = b /\ t[3] = d /\ t[4] = e
<1>1. <<a>> \o <<b, d>> = <<a, b, d>>
    <2> DEFINE u == <<a>> \o <<b, d>>
    <2>1. u \in Seq(S) /\ Len(u) = 3 /\ u[1] = a /\ u[2] = b /\ u[3] = d
        OBVIOUS
    <2> HIDE DEF u
    <2>2. u = <<a, b, d>>
        BY <2>1
    <2> QED  BY <2>2 DEF u
<1>2. <<a, b, d>> \o <<e>> = Append(<<a, b, d>>, e)
    OBVIOUS
<1> QED  BY <1>1, <1>2

LEMMA TypeRunePaired ==
    ASSUME NEW k \in Things
    PROVE  TypeRune(k) \in Seq(AllEvents) /\ Paired(TypeRune(k))
<1>1. CASE k \in Shifted
    <2>1. "SHIFT" \in Things
        BY InputAssumption DEF Things, Keys
    <2>2. \A what \in {"down", "up"} : Event(what, "SHIFT") \in AllEvents /\ Event(what, k) \in AllEvents
        BY <2>1 DEF Event, AllEvents
    <2> DEFINE t == TypeRune(k)
    <2>3. t = <<Event("down", "SHIFT")>> \o <<Event("down", k), Event("up", k)>> \o <<Event("up", "SHIFT")>>
        BY <1>1, InputAssumption DEF TypeRune, Stroke
    <2>4. /\ t \in Seq(AllEvents) /\ Len(t) = 4
          /\ t[1] = Event("down", "SHIFT") /\ t[2] = Event("down", k)
          /\ t[3] = Event("up", k) /\ t[4] = Event("up", "SHIFT")
        BY <2>2, <2>3, FourJoined
    <2> HIDE DEF t
    <2>5. Paired(t)
        BY <2>4 DEF Event, Paired
    <2> QED  BY <2>4, <2>5 DEF t
<1>2. CASE k \notin Shifted /\ k \in Foreign
    BY <1>2, NonePaired DEF TypeRune
<1>3. CASE k \notin Shifted /\ k \notin Foreign
    BY <1>3, StrokePaired DEF TypeRune
<1> QED  BY <1>1, <1>2, <1>3

\* The rest of a turn after its first event.
LEMMA TailKeeps ==
    ASSUME NEW s \in Seq(AllEvents), s # <<>>
    PROVE  /\ Tail(s) \in Seq(AllEvents) /\ Head(s) \in AllEvents
           /\ Paired(s) => Paired(Tail(s))
           /\ Whole(s) => Whole(Tail(s))
<1>1. /\ Tail(s) \in Seq(AllEvents) /\ Head(s) \in AllEvents /\ Len(Tail(s)) = Len(s) - 1
      /\ \A i \in 1..(Len(s) - 1) : Tail(s)[i] = s[i + 1]
    OBVIOUS
<1>2. Paired(s) => Paired(Tail(s))
    <2> SUFFICES ASSUME Paired(s), NEW i \in 1..Len(Tail(s)), Tail(s)[i].do = "down"
                 PROVE  \E j \in (i + 1)..Len(Tail(s)) :
                            Tail(s)[j].do = "up" /\ Tail(s)[j].key = Tail(s)[i].key
        BY DEF Paired
    <2>1. i + 1 \in 1..Len(s) /\ s[i + 1] = Tail(s)[i]
        BY <1>1
    <2>2. PICK j \in (i + 2)..Len(s) : s[j].do = "up" /\ s[j].key = s[i + 1].key
        BY <2>1 DEF Paired
    <2>3. j - 1 \in (i + 1)..Len(Tail(s)) /\ Tail(s)[j - 1] = s[j]
        BY <1>1, <2>2
    <2> QED  BY <2>1, <2>2, <2>3
<1>3. Whole(s) => Whole(Tail(s))
    BY <1>1 DEF Whole
<1> QED  BY <1>1, <1>2, <1>3

LEMMA FrontKeeps ==
    ASSUME NEW S, NEW s \in Seq(S), s # <<>>
    PROVE  /\ Len(Front(s)) = Len(s) - 1
           /\ \A i \in 1..(Len(s) - 1) : Front(s)[i] = s[i]
<1>1. Len(s) \in Nat \ {0}
    OBVIOUS
<1>2. \A i \in 1..(Len(s) - 1) : s[i] \in S
    BY <1>1
<1> DEFINE n == Len(s) - 1
           t == SubSeq(s, 1, n)
<1>3. n \in Nat /\ \A i \in 1..n : s[i] \in S
    BY <1>1, <1>2
<1> HIDE DEF n
<1>4. /\ Len(t) = IF 1 <= n THEN n - 1 + 1 ELSE 0
      /\ \A i \in 1..(n - 1 + 1) : t[i] = s[1 + i - 1]
    BY <1>3, SubSeqProperties
<1> HIDE DEF t
<1>5. Len(t) = n /\ \A i \in 1..n : t[i] = s[i]
    BY <1>3, <1>4
<1> QED  BY <1>5 DEF n, t, Front

LEMMA GestureKeys ==
    ASSUME NEW g \in Gestures
    PROVE  g.keys \in Seq(Things)
<1>1. Keys \subseteq Things /\ Buttons \subseteq Things
    BY DEF Things
<1>2. \A b \in Buttons : <<b>> \in Seq(Things) /\ <<b, b>> \in Seq(Things)
    BY <1>1
<1>3. \A k \in Keys : <<k>> \in Seq(Things)
    BY <1>1
<1>4. Seq(Keys) \subseteq Seq(Things)
    BY <1>1
<1>5. <<"LEFT">> \in Seq(Things)
    BY <1>2 DEF Buttons
<1> QED  BY <1>2, <1>3, <1>4, <1>5, InputAssumption DEF Gestures

\* A turn puts the events of its gesture in front of the command.
LEMMA TurnEvents ==
    ASSUME InputInv, NEW c \in Commands, Turn(c)
    PROVE  /\ todo'[c] \in Seq(AllEvents) /\ Paired(todo'[c])
           /\ platform # "windows" => Whole(todo'[c])
           /\ todo' = [todo EXCEPT ![c] = todo'[c]]
           /\ rest'[c] \in Seq(Things) /\ rest' = [rest EXCEPT ![c] = rest'[c]]
<1> USE DEF InputInv, SequencesOK
<1> DEFINE k == Head(rest[c])
           g == gesture[c]
           bad == g.do = "chord" /\ ~virtualKey(k)
           next == CASE g.do = "drag" -> <<Event("move", Nothing)>>
                     [] g.do = "type" -> TypeRune(k)
                     [] g.do = "chord" -> IF bad THEN <<>> ELSE ChordKey(k, Len(rest[c]) = 1)
                     [] OTHER -> Stroke(k)
<1>1. k \in Things /\ Tail(rest[c]) \in Seq(Things) /\ <<>> \in Seq(Things)
    BY DEF Turn
<1>2. rest'[c] \in Seq(Things) /\ rest' = [rest EXCEPT ![c] = rest'[c]]
    BY <1>1 DEF Turn
<1>3. todo'[c] = next /\ todo' = [todo EXCEPT ![c] = todo'[c]]
    BY DEF Turn
<1>4. next \in Seq(AllEvents) /\ Paired(next)
    <2>1. CASE g.do = "drag"
        <3>1. Nothing \in Things
            BY DEF Things
        <3> QED  BY <2>1, <3>1, SinglePaired
    <2>2. CASE g.do = "type"
        BY <1>1, <2>2, TypeRunePaired
    <2>3. CASE g.do = "chord"
        BY <1>1, <2>3, StrokePaired, SinglePaired, NonePaired DEF ChordKey
    <2>4. CASE g.do \notin {"drag", "type", "chord"}
        BY <1>1, <2>4, StrokePaired
    <2> QED  BY <2>1, <2>2, <2>3, <2>4
<1>5. ASSUME platform # "windows" PROVE Whole(next)
    <2>1. g.do = "drag"
        BY <1>5 DEF Turn, TurnInv
    <2> QED  BY <2>1 DEF Whole, Event
<1> QED  BY <1>2, <1>3, <1>4, <1>5

LEMMA SequencesStep == InputInv /\ [InputNext]_inputVars => SequencesOK'
<1> SUFFICES ASSUME InputInv, [InputNext]_inputVars PROVE SequencesOK'
    OBVIOUS
<1> USE DEF InputInv, SequencesOK
<1>0. CASE UNCHANGED inputVars
    BY <1>0 DEF inputVars
<1>1. ASSUME NEW c \in Commands, Receive(c) PROVE SequencesOK'
    <2>1. PICK g \in Gestures :
            /\ gesture' = [gesture EXCEPT ![c] = g]
            /\ \/ /\ status' = [status EXCEPT ![c] = "error"]
                  /\ UNCHANGED <<rest, todo>>
               \/ /\ status' = [status EXCEPT ![c] = "busy"]
                  /\ rest' = [rest EXCEPT ![c] =
                        CASE g.do = "drag" -> [i \in 1..DragSteps |-> Nothing]
                          [] g.do # "drag" /\ platform = "windows" -> g.keys
                          [] OTHER -> <<>>]
                  /\ todo' = [todo EXCEPT ![c] =
                        CASE g.do = "drag" -> <<Event("hold", "LEFT")>>
                          [] g.do # "drag" /\ platform = "windows" -> <<>>
                          [] OTHER -> <<Event("tap", Nothing)>>]
        BY <1>1 DEF Receive
    <2>2. [i \in 1..DragSteps |-> Nothing] \in Seq(Things) /\ g.keys \in Seq(Things) /\ <<>> \in Seq(Things)
        BY GestureKeys, InputAssumption DEF Things
    <2>3. /\ <<Event("hold", "LEFT")>> \in Seq(AllEvents) /\ <<Event("tap", Nothing)>> \in Seq(AllEvents)
          /\ <<>> \in Seq(AllEvents)
        BY SinglePaired, NonePaired DEF Things, Buttons
    <2>4. UNCHANGED own
        BY <1>1 DEF Receive
    <2>5. status' \in [Commands -> {"new", "busy", "ok", "error"}] /\ gesture' \in [Commands -> Gestures \cup {Nothing}]
        BY <2>1
    <2>6. rest' \in [Commands -> Seq(Things)]
        BY <2>1, <2>2
    <2>7. todo' \in [Commands -> Seq(AllEvents)]
        BY <2>1, <2>3
    <2> QED  BY <2>4, <2>5, <2>6, <2>7
<1>2. ASSUME NEW c \in Commands, Turn(c) PROVE SequencesOK'
    <2>1. UNCHANGED <<status, gesture, own>>
        BY <1>2 DEF Turn
    <2> QED  BY <1>2, <2>1, TurnEvents
<1>3. ASSUME NEW c \in Commands, Emit(c) PROVE SequencesOK'
    <2>1. Tail(todo[c]) \in Seq(AllEvents) /\ Head(todo[c]) \in AllEvents
        BY <1>3, TailKeeps DEF Emit
    <2>2. todo' \in [Commands -> Seq(AllEvents)] /\ UNCHANGED <<status, gesture, rest>>
        BY <1>3, <2>1 DEF Emit
    <2>3. Head(todo[c]).key \in Things
        BY <2>1 DEF AllEvents
    <2>4. UNCHANGED own \/ own' = [own EXCEPT ![c] = Append(@, Head(todo[c]).key)]
        BY <1>3, <2>1 DEF Emit, AllEvents
    <2>5. own' \in [Commands -> Seq(Things)]
        <3>1. Append(own[c], Head(todo[c]).key) \in Seq(Things)
            BY <2>3
        <3> QED  BY <2>4, <3>1
    <2> QED  BY <2>2, <2>5
<1>4. ASSUME NEW c \in Commands, EmitFails(c) PROVE SequencesOK'
    BY <1>4 DEF EmitFails
<1>5. ASSUME NEW c \in Commands, LetGo(c) \/ LetGoFails(c) PROVE SequencesOK'
    <2>1. own[c] \in Seq(Things) /\ own[c] # <<>> /\ own' = [own EXCEPT ![c] = Front(@)]
        BY <1>5 DEF LetGo, LetGoFails
    <2>2. Front(own[c]) \in Seq(Things)
        BY <2>1 DEF Front
    <2> QED  BY <1>5, <2>1, <2>2 DEF LetGo, LetGoFails
<1>6. ASSUME NEW c \in Commands, Respond(c) PROVE SequencesOK'
    BY <1>6 DEF Respond
<1> QED  BY <1>0, <1>1, <1>2, <1>3, <1>4, <1>5, <1>6 DEF InputNext, InputStep

LEMMA TurnStep == InputInv /\ [InputNext]_inputVars => TurnInv'
<1> SUFFICES ASSUME InputInv, [InputNext]_inputVars PROVE TurnInv'
    OBVIOUS
<1> USE DEF InputInv, SequencesOK
<1>0. ASSUME UNCHANGED <<platform, status, gesture, rest, todo>> PROVE TurnInv'
    BY <1>0 DEF TurnInv
<1>1. ASSUME NEW c \in Commands, Receive(c) PROVE TurnInv'
    <2> SUFFICES ASSUME NEW d \in Commands
                 PROVE  /\ status'[d] = "new" => rest'[d] = <<>>
                        /\ Paired(todo'[d])
                        /\ platform' # "windows" => /\ Whole(todo'[d])
                                                    /\ rest'[d] # <<>> => gesture'[d].do = "drag"
        BY DEF TurnInv
    <2>1. /\ UNCHANGED platform /\ status'[c] # "new"
          /\ d # c => /\ todo'[d] = todo[d] /\ rest'[d] = rest[d]
                      /\ gesture'[d] = gesture[d] /\ status'[d] = status[d]
        BY <1>1 DEF Receive
    <2>2. CASE d # c
        BY <2>1, <2>2 DEF TurnInv
    <2>3. CASE d = c /\ UNCHANGED <<rest, todo>> /\ rest[c] = <<>>
        BY <2>1, <2>3 DEF TurnInv
    <2>4. CASE d = c /\ ~UNCHANGED <<rest, todo>>
        <3>1. PICK g \in Gestures :
                /\ gesture'[c] = g
                /\ rest'[c] = CASE g.do = "drag" -> [i \in 1..DragSteps |-> Nothing]
                                [] g.do # "drag" /\ platform = "windows" -> g.keys
                                [] OTHER -> <<>>
                /\ todo'[c] = CASE g.do = "drag" -> <<Event("hold", "LEFT")>>
                                [] g.do # "drag" /\ platform = "windows" -> <<>>
                                [] OTHER -> <<Event("tap", Nothing)>>
            BY <1>1, <2>4 DEF Receive
        <3>2. /\ Paired(<<Event("hold", "LEFT")>>) /\ Paired(<<Event("tap", Nothing)>>) /\ Paired(<<>>)
              /\ Whole(<<Event("hold", "LEFT")>>) /\ Whole(<<Event("tap", Nothing)>>)
            BY DEF Paired, Whole, Event
        <3> QED  BY <2>1, <2>4, <3>1, <3>2
    <2>5. status[c] = "new" => rest[c] = <<>>
        BY DEF TurnInv
    <2> QED  BY <1>1, <2>2, <2>3, <2>4, <2>5 DEF Receive
<1>2. ASSUME NEW c \in Commands, Turn(c) PROVE TurnInv'
    <2>1. /\ UNCHANGED <<platform, status, gesture>> /\ rest[c] # <<>>
          /\ \A d \in Commands : d # c => todo'[d] = todo[d] /\ rest'[d] = rest[d]
        BY <1>2 DEF Turn
    <2> QED  BY <1>2, <2>1, TurnEvents DEF TurnInv
<1>3. ASSUME NEW c \in Commands, Emit(c) PROVE TurnInv'
    <2>1. /\ todo' = [todo EXCEPT ![c] = Tail(@)] /\ todo[c] # <<>>
          /\ UNCHANGED <<platform, status, gesture, rest>>
        BY <1>3 DEF Emit
    <2> QED  BY <2>1, TailKeeps DEF TurnInv
<1>4. ASSUME NEW c \in Commands, EmitFails(c) PROVE TurnInv'
    <2>1. /\ todo' = [todo EXCEPT ![c] = <<>>] /\ rest' = [rest EXCEPT ![c] = <<>>]
          /\ UNCHANGED <<platform, status, gesture>>
        BY <1>4 DEF EmitFails
    <2> QED  BY <2>1, NonePaired DEF TurnInv
<1>5. ASSUME NEW c \in Commands, LetGo(c) \/ LetGoFails(c) PROVE TurnInv'
    BY <1>0, <1>5 DEF LetGo, LetGoFails
<1>6. ASSUME NEW c \in Commands, Respond(c) PROVE TurnInv'
    BY <1>6 DEF Respond, TurnInv
<1> QED  BY <1>0, <1>1, <1>2, <1>3, <1>4, <1>5, <1>6 DEF InputNext, InputStep, inputVars

\* A command with no events before it owes what it holds, and goes on owing it
\* whatever events come next.
LEMMA OwesHolds ==
    ASSUME NEW state, NEW holds, NEW events, NEW k, events = <<>>, Owes(state, holds, events, k)
    PROVE  /\ \E i \in 1..Len(holds) : holds[i] = k
           /\ \A later : Owes(state, holds, later, k)
<1>1. ~ \E i \in 1..Len(events) : events[i].do = "up" /\ events[i].key = k
    <2>1. 1..Len(events) = {}
        OBVIOUS
    <2> QED  BY <2>1, Zenon
<1>2. state = "busy" /\ \E i \in 1..Len(holds) : holds[i] = k
    BY <1>1, Zenon DEF Owes
<1> QED  BY <1>2, Zenon DEF Owes

\* Every step keeps somebody who owes the release of what is held.
LEMMA HeldStep == InputInv /\ [InputNext]_inputVars => HeldInv'
<1> SUFFICES ASSUME InputInv, [InputNext]_inputVars PROVE HeldInv'
    OBVIOUS
<1> USE DEF InputInv, SequencesOK
<1> DEFINE Others(c) == \A d \in Commands \ {c} :
                status'[d] = status[d] /\ own'[d] = own[d] /\ todo'[d] = todo[d]
<1>0. CASE UNCHANGED inputVars
    BY <1>0 DEF inputVars, HeldInv
\* a step touches one command, and it is enough to look at that one
<1>q. ASSUME NEW c \in Commands, Others(c),
             \A k \in (held' \ lost') : \/ Owes(status'[c], own'[c], todo'[c], k)
                                        \/ k \in held \ lost /\ ~Owes(status[c], own[c], todo[c], k)
      PROVE  HeldInv'
    BY <1>q DEF HeldInv
<1>1. ASSUME NEW c \in Commands, Receive(c) \/ Respond(c) PROVE HeldInv'
    <2>1. UNCHANGED <<held, lost>>
        BY <1>1 DEF Receive, Respond
    <2>2. \A k : ~Owes(status[c], own[c], todo[c], k)
        BY <1>1 DEF Receive, Respond, Owes
    <2>i. Others(c)
        BY <1>1 DEF Receive, Respond
    <2> QED  BY <1>q, <2>1, <2>2, <2>i
<1>2. ASSUME NEW c \in Commands, Turn(c) PROVE HeldInv'
    <2>1. UNCHANGED <<held, lost, status, own>> /\ todo[c] = <<>>
        BY <1>2 DEF Turn
    <2>2. \A k : Owes(status[c], own[c], todo[c], k) => Owes(status'[c], own'[c], todo'[c], k)
        <3>1. status'[c] = status[c] /\ own'[c] = own[c]
            BY <2>1
        <3>2. \A k : Owes(status[c], own[c], todo[c], k) => Owes(status[c], own[c], todo'[c], k)
            BY <2>1, OwesHolds
        <3> QED  BY <3>1, <3>2, Zenon
    <2>3. \A k \in (held' \ lost') : \/ Owes(status'[c], own'[c], todo'[c], k)
                                     \/ k \in held \ lost /\ ~Owes(status[c], own[c], todo[c], k)
        BY <2>1, <2>2
    <2>i. Others(c)
        BY <1>2 DEF Turn
    <2> QED  BY <1>q, <2>3, <2>i
<1>3. ASSUME NEW c \in Commands, EmitFails(c) PROVE HeldInv'
    <2>1. UNCHANGED <<held, lost, status, own>> /\ Whole(todo[c])
        BY <1>3 DEF EmitFails, TurnInv
    <2>2. \A k : Owes(status[c], own[c], todo[c], k) => Owes(status'[c], own'[c], todo'[c], k)
        BY <2>1 DEF Owes, Whole
    <2>3. \A k \in (held' \ lost') : \/ Owes(status'[c], own'[c], todo'[c], k)
                                     \/ k \in held \ lost /\ ~Owes(status[c], own[c], todo[c], k)
        BY <2>1, <2>2
    <2>i. Others(c)
        BY <1>3 DEF EmitFails
    <2> QED  BY <1>q, <2>3, <2>i
<1>4. ASSUME NEW c \in Commands, LetGo(c) \/ LetGoFails(c) PROVE HeldInv'
    <2> DEFINE x == Last(own[c])
    <2>1. /\ todo[c] = <<>> /\ UNCHANGED <<status, todo>> /\ own[c] # <<>>
          /\ own' = [own EXCEPT ![c] = Front(@)]
        BY <1>4 DEF LetGo, LetGoFails
    <2>2. held' \ lost' = (held \ lost) \ {x}
        BY <1>4 DEF LetGo, LetGoFails, Released
    <2>3. \A k : Owes(status[c], own[c], todo[c], k) /\ k # x => Owes(status'[c], own'[c], todo'[c], k)
        <3>1. /\ Len(Front(own[c])) = Len(own[c]) - 1
              /\ \A i \in 1..(Len(own[c]) - 1) : Front(own[c])[i] = own[c][i]
            BY <2>1, FrontKeeps
        <3>2. own'[c] = Front(own[c])
            BY <2>1
        <3> SUFFICES ASSUME NEW k, Owes(status[c], own[c], todo[c], k), k # x PROVE Owes(status'[c], own'[c], todo'[c], k)
            OBVIOUS
        <3>3. PICK i \in 1..Len(own[c]) : own[c][i] = k
            BY <2>1, OwesHolds
        <3>4. i \in 1..Len(Front(own[c])) /\ Front(own[c])[i] = k
            BY <3>1, <3>3 DEF Last
        <3> QED  BY <2>1, <3>2, <3>4 DEF Owes
    <2>4. \A k \in (held' \ lost') : \/ Owes(status'[c], own'[c], todo'[c], k)
                                     \/ k \in held \ lost /\ ~Owes(status[c], own[c], todo[c], k)
        BY <2>2, <2>3
    <2>i. Others(c)
        BY <1>4 DEF LetGo, LetGoFails
    <2> QED  BY <1>q, <2>4, <2>i
<1>5. ASSUME NEW c \in Commands, Emit(c) PROVE HeldInv'
    <2> DEFINE s == todo[c]
               e == Head(s)
    <2>1. /\ s \in Seq(AllEvents) /\ s # <<>> /\ e \in AllEvents /\ e = s[1]
          /\ Len(Tail(s)) = Len(s) - 1 /\ \A i \in 1..(Len(s) - 1) : Tail(s)[i] = s[i + 1]
        BY <1>5 DEF Emit
    <2>2. todo'[c] = Tail(s) /\ UNCHANGED status /\ status[c] = "busy"
        BY <1>5 DEF Emit
    \* an event that comes later is still to come
    <2>3. \A i \in 2..Len(s) : i - 1 \in 1..Len(Tail(s)) /\ Tail(s)[i - 1] = s[i]
        BY <2>1
    <2>4. ASSUME NEW i \in 2..Len(s), s[i].do = "up" PROVE Owes(status'[c], own'[c], todo'[c], s[i].key)
        BY <2>2, <2>3, <2>4 DEF Owes
    <2>5. \A i \in 1..Len(own[c]) : i \in 1..Len(own'[c]) /\ own'[c][i] = own[c][i]
        BY <1>5 DEF Emit
    <2>6. ASSUME NEW k, Owes(status[c], own[c], todo[c], k), ~(e.do = "up" /\ e.key = k) PROVE Owes(status'[c], own'[c], todo'[c], k)
        <3>1. CASE \E i \in 1..Len(own[c]) : own[c][i] = k
            BY <2>2, <2>5, <3>1 DEF Owes
        <3>2. CASE \E i \in 1..Len(s) : s[i].do = "up" /\ s[i].key = k
            <4>1. PICK i \in 1..Len(s) : s[i].do = "up" /\ s[i].key = k
                BY <3>2
            <4>2. i \in 2..Len(s)
                BY <2>1, <2>6, <4>1
            <4> QED  BY <2>4, <4>1, <4>2
        <3> QED  BY <2>6, <3>1, <3>2 DEF Owes
    <2>7. CASE e.do = "down"
        <3>1. held' = held \cup {e.key} /\ lost' = lost
            BY <1>5, <2>7 DEF Emit, Pressed
        <3>2. Owes(status'[c], own'[c], todo'[c], e.key)
            <4>1. PICK j \in 2..Len(s) : s[j].do = "up" /\ s[j].key = s[1].key
                <5>1. Paired(s) /\ 1 \in 1..Len(s) /\ s[1].do = "down"
                    BY <2>1, <2>7 DEF TurnInv
                <5> QED  BY <5>1 DEF Paired
            <4> QED  BY <2>1, <2>4, <4>1
        <3>3. \A k \in (held' \ lost') : \/ Owes(status'[c], own'[c], todo'[c], k)
                                         \/ k \in held \ lost /\ ~Owes(status[c], own[c], todo[c], k)
            BY <2>6, <2>7, <3>1, <3>2
        <3>i. Others(c)
            BY <1>5 DEF Emit
        <3> QED  BY <1>q, <3>3, <3>i
    <2>8. CASE e.do = "hold"
        <3>1. held' = held \cup {e.key} /\ lost' = lost /\ own' = [own EXCEPT ![c] = Append(@, e.key)]
            BY <1>5, <2>8 DEF Emit, Pressed
        <3>2. Len(own[c]) + 1 \in 1..Len(own'[c]) /\ own'[c][Len(own[c]) + 1] = e.key
            BY <3>1
        <3>3. Owes(status'[c], own'[c], todo'[c], e.key)
            BY <2>2, <3>2 DEF Owes
        <3>4. \A k \in (held' \ lost') : \/ Owes(status'[c], own'[c], todo'[c], k)
                                         \/ k \in held \ lost /\ ~Owes(status[c], own[c], todo[c], k)
            BY <2>6, <2>8, <3>1, <3>3
        <3>i. Others(c)
            BY <1>5 DEF Emit
        <3> QED  BY <1>q, <3>4, <3>i
    <2>9. CASE e.do = "up"
        <3>1. held' \ lost' = (held \ lost) \ {e.key}
            BY <1>5, <2>9 DEF Emit, Released
        <3>2. \A k \in (held' \ lost') : \/ Owes(status'[c], own'[c], todo'[c], k)
                                         \/ k \in held \ lost /\ ~Owes(status[c], own[c], todo[c], k)
            BY <2>6, <3>1
        <3>i. Others(c)
            BY <1>5 DEF Emit
        <3> QED  BY <1>q, <3>2, <3>i
    <2>10. CASE e.do \in {"move", "tap"}
        <3>1. UNCHANGED <<held, lost>>
            BY <1>5, <2>10 DEF Emit
        <3>2. \A k \in (held' \ lost') : \/ Owes(status'[c], own'[c], todo'[c], k)
                                         \/ k \in held \ lost /\ ~Owes(status[c], own[c], todo[c], k)
            BY <2>6, <2>10, <3>1
        <3>i. Others(c)
            BY <1>5 DEF Emit
        <3> QED  BY <1>q, <3>2, <3>i
    <2> QED  BY <2>1, <2>7, <2>8, <2>9, <2>10 DEF AllEvents
<1> QED  BY <1>0, <1>1, <1>2, <1>3, <1>4, <1>5 DEF InputNext, InputStep

LEMMA InputInvStep == InputInv /\ [InputNext]_inputVars => InputInv'
BY SequencesStep, TurnStep, HeldStep DEF InputInv

\* However the events of any number of commands interleave, and whichever of
\* them fail, a runner that has answered every command holds nothing down, but
\* for a button whose release command failed.
THEOREM NothingIsLeftHeld == InputSpec => []NothingStaysHeld
<1>1. InputInv => NothingStaysHeld
    BY DEF InputInv, HeldInv, Owes, NothingStaysHeld, Busy
<1> QED  BY <1>1, InputInvInit, InputInvStep, PTL DEF InputSpec

-----------------------------------------------------------------------------
(* What the events, the held keys and the loops are made of.               *)

Real == Keys \cup Buttons

EventOK(e) ==
    \/ e.do \in {"down", "hold", "up"} /\ e.key \in Real
    \/ e.do \in {"move", "tap"} /\ e.key = Nothing

KeysInv ==
    /\ platform \in {"windows", "linux", "darwin"} /\ cliclick \in BOOLEAN
    /\ \A c \in Commands :
        /\ status[c] # "new" => gesture[c] \in Gestures
        /\ gesture[c].do # "drag" => rest[c] \in Seq(Real)
        /\ \A i \in 1..Len(todo[c]) : EventOK(todo[c][i])
        /\ own[c] \in Seq(Real)
    /\ held \subseteq Real /\ lost \subseteq held /\ failing \subseteq Commands

LEMMA KeysInvTypes == InputInv /\ KeysInv => InputTypeOK
<1> SUFFICES ASSUME InputInv, KeysInv PROVE InputTypeOK
    OBVIOUS
<1>1. ASSUME NEW c \in Commands PROVE todo[c] \in Seq(Events)
    <2>1. todo[c] \in Seq(AllEvents)
        BY DEF InputInv, SequencesOK
    <2>2. \A e \in AllEvents : EventOK(e) => e \in Events
        BY DEF AllEvents, EventOK, Events, Real
    <2>3. \A i \in 1..Len(todo[c]) : todo[c][i] \in AllEvents
        BY <2>1
    <2>4. \A i \in 1..Len(todo[c]) : todo[c][i] \in Events
        BY <2>2, <2>3 DEF KeysInv
    <2> QED  BY <2>1, <2>4
<1> QED  BY <1>1 DEF InputInv, SequencesOK, KeysInv, InputTypeOK, Things, Real

LEMMA KeysInvInit == InputInit => KeysInv
<1> SUFFICES ASSUME InputInit PROVE KeysInv
    OBVIOUS
<1>1. <<>> \in Seq(Real)
    OBVIOUS
<1>2. ASSUME NEW c \in Commands
      PROVE  /\ status[c] = "new" /\ rest[c] = <<>> /\ todo[c] = <<>> /\ own[c] = <<>>
    BY DEF InputInit
<1>3. cliclick \in BOOLEAN
    BY DEF InputInit
<1> QED  BY <1>1, <1>2, <1>3 DEF InputInit, KeysInv

\* The keys of every gesture but a drag are keys or buttons.
LEMMA GestureReal ==
    ASSUME NEW g \in Gestures
    PROVE  g.keys \in Seq(Real)
<1>1. \A b \in Buttons : <<b>> \in Seq(Real) /\ <<b, b>> \in Seq(Real)
    BY DEF Real
<1>2. \A k \in Keys : <<k>> \in Seq(Real)
    BY DEF Real
<1>3. Seq(Keys) \subseteq Seq(Real)
    BY DEF Real
<1>4. <<"LEFT">> \in Seq(Real)
    BY <1>1 DEF Buttons
<1> QED  BY <1>1, <1>2, <1>3, <1>4, InputAssumption DEF Gestures

\* The events a turn puts in front of a command name keys and buttons.
LEMMA TurnKeys ==
    ASSUME InputInv, KeysInv, NEW c \in Commands, Turn(c)
    PROVE  /\ \A i \in 1..Len(todo'[c]) : EventOK(todo'[c][i])
           /\ gesture[c].do # "drag" => rest'[c] \in Seq(Real)
<1> DEFINE k == Head(rest[c])
           g == gesture[c]
           bad == g.do = "chord" /\ ~virtualKey(k)
           next == CASE g.do = "drag" -> <<Event("move", Nothing)>>
                     [] g.do = "type" -> TypeRune(k)
                     [] g.do = "chord" -> IF bad THEN <<>> ELSE ChordKey(k, Len(rest[c]) = 1)
                     [] OTHER -> Stroke(k)
<1>1. /\ rest' = [rest EXCEPT ![c] = IF bad THEN <<>> ELSE Tail(@)] /\ rest[c] # <<>>
      /\ todo' = [todo EXCEPT ![c] = next] /\ rest \in [Commands -> Seq(Things)]
      /\ todo \in [Commands -> Seq(AllEvents)]
    BY DEF Turn, InputInv, SequencesOK
<1>2. g.do # "drag" => k \in Real /\ Tail(rest[c]) \in Seq(Real) /\ <<>> \in Seq(Real)
    <2>1. g.do # "drag" => rest[c] \in Seq(Real) /\ rest[c] # <<>>
        BY <1>1 DEF KeysInv
    <2> QED  BY <2>1
<1>3. g.do # "drag" => rest'[c] \in Seq(Real)
    BY <1>1, <1>2
<1>4. ASSUME NEW key \in Real
      PROVE  /\ \A i \in 1..Len(Stroke(key)) : EventOK(Stroke(key)[i])
             /\ \A i \in 1..Len(<<Event("hold", key)>>) : EventOK(<<Event("hold", key)>>[i])
    <2>1. EventOK(Event("down", key)) /\ EventOK(Event("up", key)) /\ EventOK(Event("hold", key))
        BY DEF Event, EventOK
    <2> QED  BY <2>1 DEF Stroke
<1>5. \A i \in 1..Len(next) : EventOK(next[i])
    <2>1. CASE g.do = "drag"
        <3>1. EventOK(Event("move", Nothing)) /\ next = <<Event("move", Nothing)>>
            BY <2>1 DEF Event, EventOK
        <3> HIDE DEF next
        <3> QED  BY <3>1
    <2>2. CASE g.do = "type"
        <3>1. k \in Real /\ next = TypeRune(k)
            BY <1>2, <2>2
        <3> HIDE DEF k, next
        <3>2. CASE k \in Shifted
            <4>1. "SHIFT" \in Real
                BY InputAssumption DEF Real, Keys
            <4>2. \A what \in {"down", "up"} : /\ EventOK(Event(what, "SHIFT")) /\ EventOK(Event(what, k))
                                               /\ Event(what, "SHIFT") \in AllEvents
                                               /\ Event(what, k) \in AllEvents
                BY <3>1, <4>1 DEF Event, EventOK, AllEvents, Things, Real
            <4>3. next = <<Event("down", "SHIFT")>> \o <<Event("down", k), Event("up", k)>> \o <<Event("up", "SHIFT")>>
                BY <3>1, <3>2, InputAssumption DEF TypeRune, Stroke
            <4>4. /\ Len(next) = 4 /\ next[1] = Event("down", "SHIFT") /\ next[2] = Event("down", k)
                  /\ next[3] = Event("up", k) /\ next[4] = Event("up", "SHIFT")
                BY <4>2, <4>3, FourJoined
            <4> QED  BY <4>2, <4>4
        <3>3. CASE k \notin Shifted /\ k \in Foreign
            <4>1. next = <<>>
                BY <3>1, <3>3 DEF TypeRune
            <4> QED  BY <4>1
        <3>4. CASE k \notin Shifted /\ k \notin Foreign
            <4>1. next = Stroke(k)
                BY <3>1, <3>4 DEF TypeRune
            <4> QED  BY <4>1, <3>1, <1>4
        <3> QED  BY <3>2, <3>3, <3>4
    <2>3. CASE g.do = "chord"
        <3>1. k \in Real /\ (next = <<>> \/ next = Stroke(k) \/ next = <<Event("hold", k)>>)
            BY <1>2, <2>3 DEF ChordKey
        <3> HIDE DEF k, next
        <3>2. CASE next = <<>>
            BY <3>2
        <3>3. CASE next = Stroke(k)
            BY <3>1, <3>3, <1>4
        <3>4. CASE next = <<Event("hold", k)>>
            BY <3>1, <3>4, <1>4
        <3> QED  BY <3>1, <3>2, <3>3, <3>4
    <2>4. CASE g.do \notin {"drag", "type", "chord"}
        <3>1. k \in Real /\ next = Stroke(k)
            BY <1>2, <2>4
        <3> HIDE DEF k, next
        <3> QED  BY <3>1, <1>4
    <2> QED  BY <2>1, <2>2, <2>3, <2>4
<1>6. todo'[c] = next
    BY <1>1
<1> HIDE DEF next
<1> QED  BY <1>3, <1>5, <1>6

LEMMA KeysStep == InputInv /\ KeysInv /\ [InputNext]_inputVars => KeysInv'
<1> SUFFICES ASSUME InputInv, KeysInv, [InputNext]_inputVars PROVE KeysInv'
    OBVIOUS
<1>a. /\ status \in [Commands -> {"new", "busy", "ok", "error"}]
      /\ gesture \in [Commands -> Gestures \cup {Nothing}]
      /\ rest \in [Commands -> Seq(Things)] /\ todo \in [Commands -> Seq(AllEvents)]
      /\ own \in [Commands -> Seq(Things)] /\ <<>> \in Seq(Real)
    BY DEF InputInv, SequencesOK
<1>0. CASE UNCHANGED inputVars
    BY <1>0 DEF inputVars, KeysInv
<1>1. ASSUME NEW c \in Commands, Receive(c) PROVE KeysInv'
    <2>1. /\ UNCHANGED <<platform, cliclick, own, failing, held, lost>> /\ status[c] = "new"
          /\ \A d \in Commands \ {c} : /\ status'[d] = status[d] /\ gesture'[d] = gesture[d]
                                       /\ rest'[d] = rest[d] /\ todo'[d] = todo[d]
        BY <1>1, <1>a DEF Receive
    <2>2. PICK g \in Gestures :
            /\ gesture' = [gesture EXCEPT ![c] = g]
            /\ \/ UNCHANGED <<rest, todo>>
               \/ /\ rest' = [rest EXCEPT ![c] =
                        CASE g.do = "drag" -> [i \in 1..DragSteps |-> Nothing]
                          [] g.do # "drag" /\ platform = "windows" -> g.keys
                          [] OTHER -> <<>>]
                  /\ todo' = [todo EXCEPT ![c] =
                        CASE g.do = "drag" -> <<Event("hold", "LEFT")>>
                          [] g.do # "drag" /\ platform = "windows" -> <<>>
                          [] OTHER -> <<Event("tap", Nothing)>>]
        BY <1>1 DEF Receive
    <2>3. rest[c] = <<>>
        BY <2>1 DEF InputInv, TurnInv
    <2>4. gesture'[c] = g /\ (g.do # "drag" => rest'[c] \in {<<>>, g.keys})
        BY <2>2, <2>3, <1>a
    <2>5. gesture'[c] \in Gestures /\ (gesture'[c].do # "drag" => rest'[c] \in Seq(Real))
        BY <2>4, GestureReal, <1>a
    <2>6. \/ todo'[c] = todo[c] \/ todo'[c] = <<>>
          \/ todo'[c] = <<Event("hold", "LEFT")>> \/ todo'[c] = <<Event("tap", Nothing)>>
        BY <2>2, <1>a
    <2>7. EventOK(Event("hold", "LEFT")) /\ EventOK(Event("tap", Nothing))
        BY DEF EventOK, Event, Real, Buttons
    <2>8. \A i \in 1..Len(todo'[c]) : EventOK(todo'[c][i])
        <3>1. CASE todo'[c] = todo[c]
            BY <3>1 DEF KeysInv
        <3>2. CASE todo'[c] = <<>>
            BY <3>2
        <3>3. CASE todo'[c] = <<Event("hold", "LEFT")>>
            BY <3>3, <2>7
        <3>4. CASE todo'[c] = <<Event("tap", Nothing)>>
            BY <3>4, <2>7
        <3> QED  BY <2>6, <3>1, <3>2, <3>3, <3>4
    <2> QED  BY <2>1, <2>5, <2>8 DEF KeysInv
<1>2. ASSUME NEW c \in Commands, Turn(c) PROVE KeysInv'
    <2>1. /\ UNCHANGED <<platform, cliclick, status, gesture, own, held, lost>>
          /\ failing' \subseteq failing \cup {c}
          /\ \A d \in Commands \ {c} : rest'[d] = rest[d] /\ todo'[d] = todo[d]
        BY <1>2, <1>a DEF Turn
    <2>2. /\ \A i \in 1..Len(todo'[c]) : EventOK(todo'[c][i])
          /\ gesture[c].do # "drag" => rest'[c] \in Seq(Real)
        BY <1>2, TurnKeys
    <2> QED  BY <2>1, <2>2 DEF KeysInv
<1>3. ASSUME NEW c \in Commands, Emit(c) PROVE KeysInv'
    <2> DEFINE e == Head(todo[c])
    <2>1. /\ todo[c] # <<>> /\ todo' = [todo EXCEPT ![c] = Tail(@)]
          /\ UNCHANGED <<platform, cliclick, status, gesture, rest, failing>>
          /\ \/ e.do \in {"down", "hold"} /\ held' = held \cup {e.key} /\ lost' = lost
             \/ held' \subseteq held /\ lost' \subseteq held'
          /\ own' = own \/ (e.do = "hold" /\ own' = [own EXCEPT ![c] = Append(@, e.key)])
        <3>1. /\ todo[c] # <<>> /\ todo' = [todo EXCEPT ![c] = Tail(@)]
              /\ UNCHANGED <<platform, cliclick, status, gesture, rest, failing>>
              /\ \/ e.do = "down" /\ Pressed(e.key) /\ own' = own
                 \/ e.do = "hold" /\ Pressed(e.key) /\ own' = [own EXCEPT ![c] = Append(@, e.key)]
                 \/ e.do = "up" /\ Released(e.key) /\ own' = own
                 \/ UNCHANGED <<own, held, lost>>
            BY <1>3 DEF Emit
        <3>2. Released(e.key) \/ UNCHANGED <<held, lost>> => held' \subseteq held /\ lost' \subseteq held'
            BY DEF Released, KeysInv
        <3> HIDE DEF e
        <3> QED  BY <3>1, <3>2 DEF Pressed
    <2>2. /\ e = todo[c][1] /\ Len(todo[c]) \in Nat \ {0}
          /\ Len(Tail(todo[c])) = Len(todo[c]) - 1
          /\ \A i \in 1..Len(Tail(todo[c])) : Tail(todo[c])[i] = todo[c][i + 1]
        <3>1. todo[c] \in Seq(AllEvents) /\ todo[c] # <<>>
            BY <2>1, <1>a
        <3> QED  BY <3>1
    <2>3. EventOK(e) /\ \A i \in 1..Len(Tail(todo[c])) : EventOK(Tail(todo[c])[i])
        BY <2>2 DEF KeysInv
    <2> HIDE DEF e
    <2>4. e.do \in {"down", "hold"} => e.key \in Real
        BY <2>3 DEF EventOK
    <2>5. held' \subseteq Real /\ lost' \subseteq held'
        BY <2>1, <2>4 DEF KeysInv
    <2>6. ASSUME NEW d \in Commands PROVE own'[d] \in Seq(Real)
        <3>1. own[d] \in Seq(Real)
            BY DEF KeysInv
        <3>2. e.key \in Real => Append(own[d], e.key) \in Seq(Real)
            BY <3>1
        <3> QED  BY <2>1, <2>4, <3>1, <3>2, <1>a
    <2>7. \A d \in Commands : \A i \in 1..Len(todo'[d]) : EventOK(todo'[d][i])
        BY <2>1, <2>3, <1>a DEF KeysInv
    <2> QED  BY <2>1, <2>5, <2>6, <2>7 DEF KeysInv
<1>4. ASSUME NEW c \in Commands, EmitFails(c) PROVE KeysInv'
    <2>1. /\ todo' = [todo EXCEPT ![c] = <<>>] /\ rest' = [rest EXCEPT ![c] = <<>>]
          /\ failing' = failing \cup {c}
          /\ UNCHANGED <<platform, cliclick, status, gesture, own, held, lost>>
        BY <1>4 DEF EmitFails
    <2>2. \A d \in Commands : /\ todo'[d] = todo[d] \/ todo'[d] = <<>>
                              /\ rest'[d] = rest[d] \/ rest'[d] = <<>>
        BY <2>1, <1>a
    <2>3. \A d \in Commands : \A i \in 1..Len(todo'[d]) : EventOK(todo'[d][i])
        BY <2>2 DEF KeysInv
    <2> QED  BY <2>1, <2>2, <2>3, <1>a DEF KeysInv
<1>5. ASSUME NEW c \in Commands, LetGo(c) \/ LetGoFails(c) PROVE KeysInv'
    <2>1. /\ UNCHANGED <<platform, cliclick, status, gesture, rest, todo>>
          /\ own[c] # <<>> /\ own' = [own EXCEPT ![c] = Front(@)]
          /\ failing' \subseteq failing \cup {c}
          /\ \/ held' = held \ {Last(own[c])} /\ lost' = lost \ {Last(own[c])}
             \/ held' = held /\ lost' = lost \cup ({Last(own[c])} \cap held)
        BY <1>5 DEF LetGo, LetGoFails, Released
    <2>2. Front(own[c]) \in Seq(Real)
        <3>1. own[c] \in Seq(Real) /\ own[c] # <<>>
            BY <2>1 DEF KeysInv
        <3> QED  BY <3>1 DEF Front
    <2>3. \A d \in Commands : own'[d] \in Seq(Real)
        BY <2>1, <2>2, <1>a DEF KeysInv
    <2>4. held' \subseteq Real /\ lost' \subseteq held'
        BY <2>1 DEF KeysInv
    <2> QED  BY <2>1, <2>3, <2>4 DEF KeysInv
<1>6. ASSUME NEW c \in Commands, Respond(c) PROVE KeysInv'
    <2>1. /\ status[c] = "busy" /\ UNCHANGED <<platform, cliclick, gesture, rest, todo, own, failing, held, lost>>
          /\ \A d \in Commands \ {c} : status'[d] = status[d]
        BY <1>6, <1>a DEF Respond
    <2>2. \A d \in Commands : status'[d] # "new" => gesture[d] \in Gestures
        BY <2>1 DEF KeysInv
    <2> QED  BY <2>1, <2>2 DEF KeysInv
<1> QED  BY <1>0, <1>1, <1>2, <1>3, <1>4, <1>5, <1>6 DEF InputNext, InputStep

\* The type invariant of a runner's input: what it presses and holds are keys and
\* buttons, and what is lost is held.
THEOREM InputTypeCorrect == InputSpec => []InputTypeOK
<1>1. InputInv /\ KeysInv /\ [InputNext]_inputVars => (InputInv /\ KeysInv)'
    BY InputInvStep, KeysStep
<1> QED  BY <1>1, InputInvInit, KeysInvInit, KeysInvTypes, PTL DEF InputSpec

-----------------------------------------------------------------------------
(* Device tools. A call settles on one device; what it sends goes to the   *)
(* address that device's row had, which nobody else has unless the VM went *)
(* away after the row was read.                                            *)

Calls == [pc : {"new", "check", "gate", "send", "ok", "error"}, tool : Tools,
          dev : Targets \cup {Nobody}, meant : Targets \cup {Nobody},
          plan : Seq(Operations), script : Seq({"hard", "soft"}),
          addr : Targets \cup {Port, Nobody}, scale : InputSizes,
          read : BOOLEAN, moved : BOOLEAN, resized : BOOLEAN]
Sents == [op : Operations, to : Targets \cup {Nobody}, runs : 0..2, denied : BOOLEAN,
          point : InputSizes]

ToolsTypes ==
    /\ active \in Targets \cup {Nobody}
    /\ target \in [Targets -> {"none", "running", "stopped", "online", "offline"}]
    /\ ported \in Vms \cup {Nobody} /\ there \subseteq Phones \cup Desktops
    /\ known \subseteq TcpAddresses /\ inputSize \in [Targets -> InputSizes]
    /\ call \in Calls /\ sent \in Sents /\ moves \in 0..MaxMoves

\* The VM that has a row has the port; a desktop's display keeps its size.
RowsInv ==
    /\ \A d \in Vms : target[d] # "none" <=> ported = d
    /\ \A d \in Desktops : inputSize[d] = ShotSize

\* The call's VM was deleted: its port is free, or another's, and no longer its own
Away == call.dev \in Vms /\ ported # call.dev

CallInv ==
    /\ call.pc = "new" => call = NoCall
    /\ call.pc \in {"new", "check"} => sent = Unsent
    /\ call.pc \in {"check", "gate", "send"} =>
        /\ call.dev \in Targets /\ call.dev = call.meant /\ call.plan # <<>>
        /\ ~call.read => call.scale = ShotSize
        /\ call.read => call.scale = inputSize[call.dev] \/ call.resized \/ Away
    /\ call.pc = "send" =>
        /\ call.addr = adbTarget(call.dev)
        /\ Away => call.moved
        /\ Head(call.plan) = "InputSize" =>
              \A i \in 1..Len(call.script) : call.script[i] = "hard"

ToolsInv == ToolsTypes /\ RowsInv /\ CallInv /\ CommandsArriveAsMeant

\* The scripts of an operation are commands that end it or do not; the one that
\* reads the display's size ends it.
LEMMA ScriptsTyped ==
    ASSUME NEW op \in Operations, NEW d \in Targets
    PROVE  /\ Script(op, d) \in Seq({"hard", "soft"})
           /\ op = "InputSize" => \A i \in 1..Len(Script(op, d)) : Script(op, d)[i] = "hard"
<1> DEFINE Steps == {"hard", "soft"}
<1>1. /\ Hard(1) = <<"hard">> /\ Hard(2) = <<"hard", "hard">>
      /\ Soft(1) = <<"soft">> /\ Soft(2) = <<"soft", "soft">>
    BY DEF Hard, Soft
<1>2. /\ Hard(1) \in Seq(Steps) /\ Hard(2) \in Seq(Steps) /\ Soft(1) \in Seq(Steps)
      /\ Soft(2) \in Seq(Steps) /\ <<>> \in Seq(Steps)
    <2>1. \A s, t \in Steps : <<s>> \in Seq(Steps) /\ <<s, t>> \in Seq(Steps)
        OBVIOUS
    <2>2. "hard" \in Steps /\ "soft" \in Steps /\ <<>> \in Seq(Steps)
        OBVIOUS
    <2> HIDE DEF Steps
    <2> QED  BY <1>1, <2>1, <2>2
<1>3. \A s, t \in Seq(Steps) : s \o t \in Seq(Steps)
    OBVIOUS
<1> HIDE DEF Steps
<1>4. AdbScript(op, d) \in Seq(Steps)
    <2>1. Soft(1) \o Hard(1) \in Seq(Steps) /\ Soft(1) \o Hard(1) \o Soft(1) \in Seq(Steps)
        BY <1>2, <1>3
    <2>2. (IF d \in Vms THEN Soft(2) ELSE <<>>) \o Hard(1) \in Seq(Steps)
        BY <1>2, <1>3
    <2> QED  BY <1>2, <2>1, <2>2 DEF AdbScript
<1>5. RunnerScript(op) \in Seq(Steps)
    BY <1>2 DEF RunnerScript
<1>6. op = "InputSize" => Script(op, d) = <<>> \/ Script(op, d) = <<"hard">>
    BY <1>1 DEF Script, AdbScript, RunnerScript
<1>7. op = "InputSize" => \A i \in 1..Len(Script(op, d)) : Script(op, d)[i] = "hard"
    <2>1. ASSUME Script(op, d) = <<>> PROVE \A i \in 1..Len(Script(op, d)) : Script(op, d)[i] = "hard"
        BY <2>1
    <2>2. ASSUME Script(op, d) = <<"hard">> PROVE \A i \in 1..Len(Script(op, d)) : Script(op, d)[i] = "hard"
        BY <2>2
    <2> QED  BY <1>6, <2>1, <2>2
<1> QED  BY <1>4, <1>5, <1>7 DEF Script, Steps

\* Every plan of every tool is a sequence of operations, and has a first one.
LEMMA PlansTyped ==
    ASSUME NEW tool \in Tools, NEW plan \in Plans[tool]
    PROVE  plan \in Seq(Operations) /\ plan # <<>>
<1> DEFINE Good(p) == p \in Seq(Operations) /\ p # <<>>
<1>1. \A op \in Operations : Good(<<op>>)
    OBVIOUS
<1>2. /\ Good(<<"InputSize", "Scroll">>) /\ Good(<<"Screenshot", "InputSize", "Tap">>)
      /\ Good(<<"Screenshot", "InputSize">>)
    <2>1. {"InputSize", "Scroll", "Screenshot", "Tap"} \subseteq Operations
        BY DEF Operations, Primitives, AdbOnly, RunnerOnly, Queries
    <2> QED  BY <2>1
<1>3. {"UITree", "Scroll", "ScrollAtEdge", "Click", "DoubleClick", "RightClick", "Chord", "Text", "Key",
       "LaunchApp", "OpenApp", "ListApps", "CurrentActivity", "Tap", "Screenshot"} \subseteq Operations
    BY DEF Operations, Primitives, AdbOnly, RunnerOnly, Queries
<1> HIDE DEF Good
<1>4. \A x \in DOMAIN InputPlans : \A p \in InputPlans[x] : Good(p)
    BY <1>1, <1>2, <1>3 DEF InputPlans
<1>5. \A x \in DOMAIN AppPlans : \A p \in AppPlans[x] : Good(p)
    BY <1>1, <1>3 DEF AppPlans
<1>6. \A x \in DOMAIN ScreenPlans : \A p \in ScreenPlans[x] : Good(p)
    BY <1>1, <1>2, <1>3 DEF ScreenPlans
<1>7. \A x \in DOMAIN ControlPlans : \A p \in ControlPlans[x] : Good(p)
    BY <1>1 DEF ControlPlans
<1>8. \/ tool \in DOMAIN InputPlans /\ Plans[tool] = InputPlans[tool]
      \/ tool \in DOMAIN AppPlans /\ Plans[tool] = AppPlans[tool]
      \/ tool \in DOMAIN ScreenPlans /\ Plans[tool] = ScreenPlans[tool]
      \/ tool \in DOMAIN ControlPlans /\ Plans[tool] = ControlPlans[tool]
    BY DEF Plans, Tools
<1>9. Good(plan)
    BY <1>4, <1>5, <1>6, <1>7, <1>8
<1> QED  BY <1>9 DEF Good

\* What a call becomes that ends, whose operation failed, or that passes its gate.
LEMMA EndTyped ==
    ASSUME NEW c \in Calls, NEW how \in {"ok", "error"}
    PROVE  /\ End(c, how) \in Calls /\ End(c, how).pc = how /\ End(c, how).tool = c.tool
           /\ End(c, how).meant = c.meant /\ End(c, how).read = c.read
           /\ End(c, how).moved = c.moved /\ End(c, how).resized = c.resized
<1>1. <<>> \in Seq(Operations) /\ <<>> \in Seq({"hard", "soft"})
    OBVIOUS
<1> QED  BY <1>1, ToolsAssumption DEF End, NoCall, Calls

LEMMA AfterFailureTyped ==
    ASSUME NEW c \in Calls, c.plan # <<>>
    PROVE  LET r == AfterFailure(c)
           IN  /\ r \in Calls /\ r.tool = c.tool /\ r.meant = c.meant /\ r.read = c.read
               /\ r.moved = c.moved /\ r.resized = c.resized
               /\ \/ r.pc = "error"
                  \/ r.pc = "gate" /\ r.plan # <<>> /\ r.dev = c.dev /\ r.scale = c.scale
<1>1. CASE Head(c.plan) = "InputSize" /\ Len(c.plan) > 1
    <2>1. c.plan \in Seq(Operations)
        BY DEF Calls
    <2> DEFINE next == Tail(c.plan)
    <2>2. next \in Seq(Operations) /\ next # <<>>
        <3>1. next \in Seq(Operations) /\ Len(next) = Len(c.plan) - 1 /\ Len(c.plan) \in Nat
            BY <2>1, <1>1
        <3>2. Len(next) > 0
            BY <3>1, <1>1
        <3> HIDE DEF next
        <3> QED  BY <3>1, <3>2
    <2>3. <<>> \in Seq({"hard", "soft"})
        OBVIOUS
    <2> HIDE DEF next
    <2> DEFINE r == [c EXCEPT !.pc = "gate", !.plan = next, !.script = <<>>]
    <2>4. AfterFailure(c) = r
        BY <1>1 DEF AfterFailure, next
    <2>5. r \in Calls /\ r.tool = c.tool /\ r.meant = c.meant /\ r.read = c.read
          /\ r.moved = c.moved /\ r.resized = c.resized
          /\ r.pc = "gate" /\ r.plan = next /\ r.dev = c.dev /\ r.scale = c.scale
        BY <2>2, <2>3 DEF Calls
    <2> HIDE DEF r
    <2> QED  BY <2>2, <2>4, <2>5
<1>2. CASE ~(Head(c.plan) = "InputSize" /\ Len(c.plan) > 1)
    <2>1. AfterFailure(c) = End(c, "error")
        BY <1>2 DEF AfterFailure
    <2> QED  BY <2>1, EndTyped
<1> QED  BY <1>1, <1>2

LEMMA GatedTyped ==
    ASSUME NEW c \in Calls, c.plan # <<>>, c.dev \in Targets
    PROVE  LET r == Gated(c)
           IN  /\ r \in Calls /\ r.tool = c.tool /\ r.meant = c.meant /\ r.read = c.read
               /\ r.resized = c.resized
               /\ \/ r.pc = "error"
                  \/ r.pc = "gate" /\ r.plan # <<>> /\ r.dev = c.dev /\ r.scale = c.scale
                  \/ /\ r.pc = "send" /\ r.plan # <<>> /\ r.dev = c.dev /\ r.scale = c.scale
                     /\ Resolvable(c.dev) /\ r.addr = adbTarget(c.dev)
                     /\ Head(r.plan) = "InputSize" =>
                           \A i \in 1..Len(r.script) : r.script[i] = "hard"
<1> DEFINE op == Head(c.plan)
           commands == Script(op, c.dev)
           to == adbTarget(c.dev)
           r == [c EXCEPT !.pc = "send", !.script = commands, !.addr = to, !.moved = FALSE]
<1>1. CASE Resolvable(c.dev) /\ ~Unsupported(op, c.dev)
    <2>1. c.plan \in Seq(Operations)
        BY DEF Calls
    <2>2. op \in Operations
        BY <2>1
    <2>3. commands \in Seq({"hard", "soft"})
          /\ (op = "InputSize" => \A i \in 1..Len(commands) : commands[i] = "hard")
        BY <2>2, ScriptsTyped
    <2>4. to \in Targets \cup {Port, Nobody}
        BY DEF adbTarget
    <2>5. Gated(c) = r
        BY <1>1 DEF Gated
    <2> HIDE DEF commands, to
    <2>6. r \in Calls /\ r.tool = c.tool /\ r.meant = c.meant /\ r.read = c.read
          /\ r.resized = c.resized /\ r.pc = "send" /\ r.plan = c.plan /\ r.dev = c.dev
          /\ r.scale = c.scale /\ r.addr = to /\ r.script = commands
        BY <2>3, <2>4 DEF Calls
    <2> HIDE DEF r
    <2> QED  BY <1>1, <2>3, <2>5, <2>6 DEF to
<1>2. CASE ~(Resolvable(c.dev) /\ ~Unsupported(op, c.dev))
    <2>1. Gated(c) = AfterFailure(c)
        BY <1>2 DEF Gated
    <2> QED  BY <2>1, AfterFailureTyped
<1> QED  BY <1>1, <1>2

LEMMA ToolsInvInit == ToolsInit => ToolsInv
<1> SUFFICES ASSUME ToolsInit PROVE ToolsInv
    OBVIOUS
<1>1. <<>> \in Seq(Operations) /\ <<>> \in Seq({"hard", "soft"}) /\ "api" \in Tools
      /\ "Perf" \in Operations
    BY DEF Tools, ControlPlans, Operations, Queries
<1>2. NoCall \in Calls
    BY <1>1, ToolsAssumption DEF NoCall, Calls
<1>3. Unsent \in Sents
    BY <1>1, ToolsAssumption DEF Unsent, Sents
<1>4. PICK up \in SUBSET Targets :
        /\ up \cap Vms \subseteq {ported}
        /\ target = [d \in Targets |->
            CASE d \in Vms /\ d = ported -> IF d \in up THEN "running" ELSE "stopped"
              [] d \in Vms /\ d # ported -> "none"
              [] OTHER -> IF d \in up THEN "online" ELSE "offline"]
        /\ there = up \ Vms
    BY DEF ToolsInit
<1>5. target \in [Targets -> {"none", "running", "stopped", "online", "offline"}]
    BY <1>4
<1>6. there \subseteq Phones \cup Desktops
    BY <1>4 DEF Targets, Android
<1>7. inputSize \in [Targets -> InputSizes] /\ \A d \in Desktops : inputSize[d] = ShotSize
    BY ToolsAssumption DEF ToolsInit, Targets
<1>8. \A d \in Vms : target[d] # "none" <=> ported = d
    BY <1>4 DEF Targets, Android
<1>9. known \subseteq TcpAddresses
    BY DEF ToolsInit, TcpAddresses
<1>10. ToolsTypes
    BY <1>2, <1>3, <1>5, <1>6, <1>7, <1>9, ToolsAssumption DEF ToolsInit, ToolsTypes
<1>11. CallInv
    BY DEF ToolsInit, CallInv, NoCall
<1>12. CommandsArriveAsMeant
    BY DEF ToolsInit, Unsent, CommandsArriveAsMeant, CommandsKeepTheirDevice, CommandsRunOnce,
           TapsHitTheirElement
<1> QED  BY <1>7, <1>8, <1>10, <1>11, <1>12 DEF ToolsInv, RowsInv

\* A step that changes the call and what it sent last, and nothing beside them.
LEMMA CallMoves ==
    ASSUME ToolsInv, UNCHANGED <<active, target, ported, there, inputSize, moves>>,
           known' \subseteq TcpAddresses, call' \in Calls, sent' \in Sents, CallInv', CommandsArriveAsMeant'
    PROVE  ToolsInv'
BY DEF ToolsInv, ToolsTypes, RowsInv

LEMMA UnsentArrives == sent' = Unsent => sent' \in Sents /\ CommandsArriveAsMeant'
<1>1. Unsent \in Sents
    BY ToolsAssumption DEF Unsent, Sents, Operations, Queries
<1> QED  BY <1>1 DEF Unsent, CommandsArriveAsMeant, CommandsKeepTheirDevice, CommandsRunOnce,
                     TapsHitTheirElement

\* How often a device runs a command that adb may send it twice.
LEMMA AdbCounts ==
    ASSUME NEW live \in BOOLEAN, NEW again \in BOOLEAN, NEW somebody \in BOOLEAN,
           NEW good \in BOOLEAN, live => somebody, again => somebody, ~live /\ good => again,
           NEW times, times = (IF live THEN 1 ELSE 0) + (IF again THEN 1 ELSE 0)
    PROVE  (good => somebody /\ times > 0) /\ (times > 1 => again)
<1>1. good => somebody
    OBVIOUS
<1>2. CASE live /\ again
    <2>1. times = 2
        BY <1>2
    <2> QED  BY <2>1, <1>2
<1>3. CASE live /\ ~again
    <2>1. times = 1
        BY <1>3
    <2> QED  BY <2>1, <1>3, <1>1
<1>4. CASE ~live /\ again
    <2>1. times = 1
        BY <1>4
    <2> QED  BY <2>1, <1>4
<1>5. CASE ~live /\ ~again
    <2>1. times = 0 /\ ~good
        BY <1>5
    <2> QED  BY <2>1
<1> QED  BY <1>2, <1>3, <1>4, <1>5

\* Who a command reaches: the call's device or nobody, or whoever has the port of
\* a VM that went away.
LEMMA Delivered ==
    ASSUME ToolsInv, call.pc = "send", NEW first \in Answers, NEW second \in Answers, NEW times \in 0..2,
           IF call.dev \in Android THEN adb(call.addr, first, second, times)
                                   ELSE tunnel(call.dev, first, second, times),
           NEW to, to = IF times > 0 THEN Occupant(call.addr) ELSE Nobody
    PROVE  /\ to \in Targets \cup {Nobody} /\ known' \subseteq TcpAddresses
           /\ to \in {Nobody, call.dev} \/ (Away /\ call.moved)
           /\ second = "ok" => to # Nobody
           /\ times > 1 => first = "not found" /\ to \in Vms \cup TcpPhones
<1> DEFINE d == Occupant(call.addr)
<1>0. to = IF times > 0 THEN d ELSE Nobody
    OBVIOUS
<1>1. /\ call.dev \in Targets /\ call.addr = adbTarget(call.dev) /\ (Away => call.moved)
      /\ ported \in Vms \cup {Nobody} /\ there \subseteq Phones \cup Desktops /\ known \subseteq TcpAddresses
    BY DEF ToolsInv, ToolsTypes, CallInv
<1>2. /\ call.dev \in Vms <=> call.addr = Port
      /\ call.dev \notin Vms => call.addr = call.dev
    BY <1>1, ToolsAssumption DEF adbTarget, Targets, Android
<1>3. /\ call.addr = Port => d \in {ported, Nobody}
      /\ call.addr # Port => d \in {call.dev, Nobody}
    BY <1>2 DEF Occupant
<1>4. d \in Targets \cup {Nobody}
    BY <1>1, <1>3 DEF Targets, Android
<1>5. d \in {Nobody, call.dev} \/ (Away /\ call.moved)
    BY <1>1, <1>2, <1>3 DEF Away
<1> HIDE DEF d
<1>6. ASSUME times > 1 => first = "not found" /\ call.addr \in TcpAddresses /\ d # Nobody,
             second = "ok" => d # Nobody /\ times > 0, known' \subseteq TcpAddresses
      PROVE  /\ to \in Targets \cup {Nobody} /\ known' \subseteq TcpAddresses
             /\ to \in {Nobody, call.dev} \/ (Away /\ call.moved)
             /\ second = "ok" => to # Nobody
             /\ times > 1 => first = "not found" /\ to \in Vms \cup TcpPhones
    <2>1. call.addr \in TcpAddresses /\ d # Nobody => d \in Vms \cup TcpPhones
        BY <1>1, <1>2, <1>3, ToolsAssumption DEF TcpAddresses, Targets, Android
    <2>2. times > 1 => to = d
        BY <1>0
    <2>3. to = d \/ to = Nobody
        BY <1>0
    <2>4. second = "ok" => to = d
        BY <1>0, <1>6
    <2>5. times > 1 => first = "not found" /\ to \in Vms \cup TcpPhones
        BY <1>6, <2>1, <2>2
    <2>6. second = "ok" => to # Nobody
        BY <1>6, <2>4
    <2>7. to \in Targets \cup {Nobody} /\ (to \in {Nobody, call.dev} \/ (Away /\ call.moved))
        BY <1>4, <1>5, <2>3
    <2> QED  BY <1>6, <2>5, <2>6, <2>7
<1>7. CASE call.dev \in Android
    <2> DEFINE live == d # Nobody /\ (call.addr \in TcpAddresses => call.addr \in known)
    <2>1. PICK again \in BOOLEAN :
          /\ again => call.addr \in TcpAddresses /\ first = "not found" /\ d # Nobody
          /\ second = first \/ again
          /\ times = (IF live THEN 1 ELSE 0) + (IF again THEN 1 ELSE 0)
          /\ known' = known \cup (IF again THEN {call.addr} ELSE {})
        BY <1>7 DEF adb, isDeviceNotFound, d
    <2>0. ~live => first = "not found"
        BY <1>7 DEF adb, d
    <2> DEFINE good == second = "ok"
               somebody == d # Nobody
    <2>2. /\ live \in BOOLEAN /\ somebody \in BOOLEAN /\ good \in BOOLEAN
          /\ live => somebody
          /\ again => somebody
          /\ ~live /\ good => again
        BY <2>0, <2>1
    <2>3. known' \subseteq TcpAddresses
        BY <2>1, <1>1
    <2> HIDE DEF live, somebody, good
    <2>4. (good => somebody /\ times > 0) /\ (times > 1 => again)
        BY <2>1, <2>2, AdbCounts
    <2>5. ASSUME times > 1 PROVE first = "not found" /\ call.addr \in TcpAddresses /\ d # Nobody
        <3>1. again
            BY <2>4, <2>5
        <3> QED  BY <2>1, <3>1
    <2>6. second = "ok" => d # Nobody /\ times > 0
        BY <2>4 DEF somebody, good
    <2> QED  BY <2>3, <2>5, <2>6, <1>6
<1>8. CASE call.dev \notin Android
    <2>1. /\ second = first /\ known' = known
          /\ call.dev \notin there => first = "error"
          /\ times = IF call.dev \in there THEN 1 ELSE 0
        BY <1>8 DEF tunnel
    <2>2. call.addr = call.dev /\ call.addr # Port
        BY <1>1, <1>2, <1>8 DEF Android
    <2>3. call.dev \in there => d = call.dev
        BY <2>2 DEF Occupant, d
    <2>4. call.dev # Nobody
        BY <1>1, ToolsAssumption
    <2>5. ~(times > 1)
        BY <2>1
    <2>6. second = "ok" => d # Nobody /\ times > 0
        BY <2>1, <2>3, <2>4
    <2>7. known' \subseteq TcpAddresses
        BY <1>1, <2>1
    <2>8. times > 1 => first = "not found" /\ call.addr \in TcpAddresses /\ d # Nobody
        BY <2>5
    <2> QED  BY <2>6, <2>7, <2>8, <1>6
<1> QED  BY <1>7, <1>8

LEMMA SendStep == ASSUME ToolsInv, Send PROVE ToolsInv'
<1>1. PICK first \in Answers, second \in Answers, times \in 0..2 :
        /\ IF call.dev \in Android THEN adb(call.addr, first, second, times)
                                   ELSE tunnel(call.dev, first, second, times)
        /\ LET to == IF times > 0 THEN Occupant(call.addr) ELSE Nobody
           IN  /\ sent' = [op |-> Head(call.plan), to |-> to, runs |-> times,
                           denied |-> first = "not found", point |-> call.scale]
               /\ call' = IF second # "ok" /\ Head(call.script) = "hard"
                          THEN AfterFailure(call)
                          ELSE [call EXCEPT !.script = Tail(@),
                                !.scale = Scale(call, second, to),
                                !.read = @ \/ (Head(call.plan) = "InputSize" /\ second = "ok"),
                                !.resized = @ /\ Head(call.plan) # "InputSize"]
    BY DEF Send
<1>2. /\ call.pc = "send" /\ call.script # <<>>
      /\ UNCHANGED <<active, target, ported, there, inputSize, moves>>
    BY DEF Send
<1> DEFINE to == IF times > 0 THEN Occupant(call.addr) ELSE Nobody
<1>3. /\ to \in Targets \cup {Nobody} /\ known' \subseteq TcpAddresses
      /\ to \in {Nobody, call.dev} \/ (Away /\ call.moved)
      /\ second = "ok" => to # Nobody
      /\ times > 1 => first = "not found" /\ to \in Vms \cup TcpPhones
    BY <1>1, <1>2, Delivered
<1>4. /\ sent' = [op |-> Head(call.plan), to |-> to, runs |-> times,
                  denied |-> first = "not found", point |-> call.scale]
      /\ call' = IF second # "ok" /\ Head(call.script) = "hard"
                 THEN AfterFailure(call)
                 ELSE [call EXCEPT !.script = Tail(@),
                       !.scale = Scale(call, second, to),
                       !.read = @ \/ (Head(call.plan) = "InputSize" /\ second = "ok"),
                       !.resized = @ /\ Head(call.plan) # "InputSize"]
    BY <1>1
<1> HIDE DEF to
<1>5. /\ call \in Calls /\ call.dev \in Targets /\ call.dev = call.meant /\ call.plan # <<>>
      /\ call.plan \in Seq(Operations) /\ call.script \in Seq({"hard", "soft"})
      /\ ~call.read => call.scale = ShotSize
      /\ call.read => call.scale = inputSize[call.dev] \/ call.resized \/ Away
      /\ call.addr = adbTarget(call.dev) /\ (Away => call.moved)
      /\ Head(call.plan) = "InputSize" => \A i \in 1..Len(call.script) : call.script[i] = "hard"
      /\ inputSize \in [Targets -> InputSizes]
      /\ call.read \in BOOLEAN /\ call.resized \in BOOLEAN /\ call.scale \in InputSizes
    BY <1>2 DEF ToolsInv, ToolsTypes, CallInv, Calls
<1>6. Head(call.plan) \in Operations
    BY <1>5
<1>7. /\ sent' \in Sents /\ sent'.op = Head(call.plan) /\ sent'.to = to /\ sent'.runs = times
      /\ sent'.denied = (first = "not found") /\ sent'.point = call.scale
    BY <1>3, <1>4, <1>5, <1>6 DEF Sents
<1>8. ASSUME call' \in Calls, call'.meant = call.meant, call'.moved = call.moved,
             Head(call.plan) = "Tap" => call'.read = call.read /\ call'.resized = call.resized
      PROVE  CommandsArriveAsMeant'
    <2>1. CommandsKeepTheirDevice'
        BY <1>3, <1>5, <1>7, <1>8 DEF CommandsKeepTheirDevice
    <2>2. CommandsRunOnce'
        BY <1>3, <1>7 DEF CommandsRunOnce
    <2>3. TapsHitTheirElement'
        <3> SUFFICES ASSUME Head(call.plan) = "Tap", to # Nobody, ~call.moved
                     PROVE  \/ call.scale = inputSize[to] \/ call.resized
                            \/ ~call.read /\ to \in Android
            BY <1>2, <1>7, <1>8 DEF TapsHitTheirElement
        <3>1. to = call.dev /\ ~Away
            BY <1>3, <1>5
        <3>2. CASE call.read
            BY <3>1, <3>2, <1>5
        <3>3. CASE ~call.read /\ call.dev \in Desktops
            BY <3>1, <3>3, <1>5 DEF ToolsInv, RowsInv
        <3>4. CASE ~call.read /\ call.dev \in Android
            BY <3>1, <3>4
        <3> QED  BY <3>2, <3>3, <3>4, <1>5 DEF Targets
    <2> QED  BY <2>1, <2>2, <2>3 DEF CommandsArriveAsMeant
<1>9. CASE second # "ok" /\ Head(call.script) = "hard"
    <2> DEFINE r == AfterFailure(call)
    <2>1. /\ r \in Calls /\ r.tool = call.tool /\ r.meant = call.meant /\ r.read = call.read
          /\ r.moved = call.moved /\ r.resized = call.resized
          /\ \/ r.pc = "error"
             \/ r.pc = "gate" /\ r.plan # <<>> /\ r.dev = call.dev /\ r.scale = call.scale
        BY <1>5, AfterFailureTyped
    <2>2. call' = r
        BY <1>4, <1>9
    <2> HIDE DEF r
    <2>3. CallInv'
        BY <2>1, <2>2, <1>2, <1>5 DEF CallInv, Away
    <2>4. CommandsArriveAsMeant'
        BY <2>1, <2>2, <1>8
    <2> QED  BY <2>1, <2>2, <2>3, <2>4, <1>2, <1>3, <1>7, CallMoves
<1>10. CASE ~(second # "ok" /\ Head(call.script) = "hard")
    <2> DEFINE commands == Tail(call.script)
               scale == Scale(call, second, to)
               read == call.read \/ (Head(call.plan) = "InputSize" /\ second = "ok")
               resized == call.resized /\ Head(call.plan) # "InputSize"
               r == [call EXCEPT !.script = commands, !.scale = scale, !.read = read,
                                 !.resized = resized]
    <2>1. /\ commands \in Seq({"hard", "soft"})
          /\ Head(call.plan) = "InputSize" => \A i \in 1..Len(commands) : commands[i] = "hard"
          /\ Head(call.plan) = "InputSize" => second = "ok"
        <3>1. /\ commands \in Seq({"hard", "soft"}) /\ Head(call.script) = call.script[1]
              /\ Len(call.script) \in Nat \ {0} /\ Len(commands) = Len(call.script) - 1
              /\ \A i \in 1..Len(commands) : commands[i] = call.script[i + 1]
            BY <1>2, <1>5
        <3>2. \A i \in 1..Len(commands) : i + 1 \in 1..Len(call.script)
            BY <3>1
        <3> HIDE DEF commands, scale, read, resized, r
        <3> SUFFICES ASSUME Head(call.plan) = "InputSize"
                     PROVE  (\A i \in 1..Len(commands) : commands[i] = "hard") /\ second = "ok"
            BY <3>1
        <3>3. \A i \in 1..Len(call.script) : call.script[i] = "hard"
            BY <1>5
        <3>4. \A i \in 1..Len(commands) : commands[i] = "hard"
            BY <3>1, <3>2, <3>3
        <3>5. call.script[1] = "hard"
            <4>1. 1 \in 1..Len(call.script)
                BY <3>1
            <4> QED  BY <3>3, <4>1
        <3>6. second = "ok"
            BY <3>1, <3>5, <1>10
        <3> QED  BY <3>4, <3>6
    <2>2. /\ Head(call.plan) = "InputSize" => scale = inputSize[to] /\ read /\ ~resized /\ to # Nobody
          /\ Head(call.plan) # "InputSize" => /\ scale = call.scale
                                              /\ read = call.read /\ resized = call.resized
        BY <2>1, <1>3, <1>5 DEF Scale
    <2>3. read \in BOOLEAN /\ resized \in BOOLEAN /\ scale \in InputSizes
        <3>1. read \in BOOLEAN /\ resized \in BOOLEAN
            OBVIOUS
        <3>2. scale \in InputSizes
            BY <2>2, <1>3, <1>5
        <3> QED  BY <3>1, <3>2
    <2>4. call' = r
        BY <1>4, <1>10
    <2> HIDE DEF commands, scale, read, resized
    <2>5. /\ r \in Calls /\ r.pc = call.pc /\ r.tool = call.tool /\ r.meant = call.meant
          /\ r.dev = call.dev /\ r.plan = call.plan /\ r.addr = call.addr /\ r.moved = call.moved
          /\ r.script = commands /\ r.scale = scale /\ r.read = read /\ r.resized = resized
        BY <2>1, <2>3, <1>5 DEF Calls
    <2> HIDE DEF r
    <2>6. CallInv'
        <3>1. ~call'.read => call'.scale = ShotSize
            BY <2>2, <2>4, <2>5, <1>5
        <3>2. Away' <=> Away
            BY <2>4, <2>5, <1>2 DEF Away
        <3>3. call'.read => call'.scale = inputSize'[call'.dev] \/ call'.resized \/ Away'
            <4>1. CASE Head(call.plan) = "InputSize"
                BY <4>1, <3>2, <2>2, <2>4, <2>5, <1>2, <1>3
            <4>2. CASE Head(call.plan) # "InputSize"
                BY <4>2, <3>2, <2>2, <2>4, <2>5, <1>2, <1>5
            <4> QED  BY <4>1, <4>2
        <3> QED  BY <3>1, <3>2, <3>3, <2>1, <2>4, <2>5, <1>2, <1>5 DEF CallInv
    <2>7. CommandsArriveAsMeant'
        BY <2>2, <2>4, <2>5, <1>8
    <2> QED  BY <2>4, <2>5, <2>6, <2>7, <1>2, <1>3, <1>7, CallMoves
<1> QED  BY <1>9, <1>10

\* The steps of a call that send nothing.
LEMMA CallSteps ==
    ASSUME ToolsInv,
           \/ \E tool \in Tools : \E plan \in Plans[tool] : \E named \in Targets \cup {Nobody} :
                 Call(tool, plan, named)
           \/ CheckRow \/ Gate \/ EndOperation \/ NotLocated
    PROVE  ToolsInv'
<1>0. /\ call \in Calls /\ sent \in Sents /\ active \in Targets \cup {Nobody} /\ known \subseteq TcpAddresses
      /\ call.tool \in Tools /\ call.plan \in Seq(Operations) /\ "api" \in Tools
      /\ Nobody \notin Targets
    BY ToolsAssumption DEF ToolsInv, ToolsTypes, Calls, Tools, ControlPlans
<1>1. \A tool \in Tools : Kept(tool) \in Tools
    BY <1>0 DEF Kept
<1>2. ASSUME NEW tool \in Tools, NEW plan \in Plans[tool], NEW named \in Targets \cup {Nobody},
             Call(tool, plan, named)
      PROVE  ToolsInv'
    <2> DEFINE d == resolveDevice(named)
               bad == d = Nobody \/ (tool # "api" /\ named # Nobody /\ target[named] = "none")
               pc == IF tool \in ReadsRow THEN "check" ELSE "gate"
               as == IF tool \in ReadsRow THEN tool ELSE Kept(tool)
               r == [call EXCEPT !.pc = pc, !.tool = as, !.plan = plan, !.dev = d, !.meant = d]
               failed == [call EXCEPT !.pc = "error"]
    <2>1. /\ call.pc = "new" /\ call' = IF bad THEN failed ELSE r
          /\ UNCHANGED <<active, target, ported, there, known, inputSize, sent, moves>>
        BY <1>2 DEF Call
    <2>2. d \in Targets \cup {Nobody}
        BY <1>0 DEF resolveDevice
    <2>3. call = NoCall /\ sent = Unsent
        BY <2>1 DEF ToolsInv, CallInv
    <2>4. plan \in Seq(Operations) /\ plan # <<>>
        BY PlansTyped
    <2>5. as \in Tools /\ pc \in {"check", "gate"}
        BY <1>1
    <2>6. bad \/ d \in Targets
        BY <2>2
    <2> HIDE DEF d, as, pc, bad
    <2>7. failed \in Calls /\ failed.pc = "error"
        BY <1>0 DEF Calls
    <2>8. /\ r \in Calls /\ r.pc = pc /\ r.plan = plan /\ r.dev = d /\ r.meant = d
          /\ r.read = call.read /\ r.scale = call.scale
        BY <1>0, <2>2, <2>4, <2>5 DEF Calls
    <2>9. ~call.read /\ call.scale = ShotSize
        BY <2>3 DEF NoCall
    <2> HIDE DEF failed, r
    <2>10. call' \in Calls /\ CallInv'
        <3>1. CASE bad
            BY <3>1, <2>1, <2>3, <2>7 DEF CallInv
        <3>2. CASE ~bad
            BY <3>2, <2>1, <2>3, <2>4, <2>5, <2>6, <2>8, <2>9 DEF CallInv
        <3> QED  BY <3>1, <3>2
    <2>11. CommandsArriveAsMeant' /\ sent' \in Sents
        BY <2>1, <2>3, UnsentArrives
    <2> QED  BY <2>1, <2>10, <2>11, <1>0, CallMoves
<1>3. CASE CheckRow
    <2> DEFINE r == [call EXCEPT !.pc = "gate", !.tool = Kept(@)]
    <2>1. /\ call.pc = "check" /\ (call' = r \/ call' = End(call, "error"))
          /\ UNCHANGED <<active, target, ported, there, known, inputSize, sent, moves>>
        BY <1>3 DEF CheckRow
    <2>2. /\ r \in Calls /\ r.pc = "gate" /\ r.plan = call.plan /\ r.dev = call.dev
          /\ r.meant = call.meant /\ r.read = call.read /\ r.scale = call.scale
          /\ r.resized = call.resized
        BY <1>0, <1>1 DEF Calls
    <2> HIDE DEF r
    <2>3. call' \in Calls /\ CallInv'
        <3>1. CASE call' = r
            BY <3>1, <2>1, <2>2 DEF ToolsInv, CallInv, Away
        <3>2. CASE call' = End(call, "error")
            BY <3>2, <1>0, EndTyped DEF CallInv
        <3> QED  BY <2>1, <3>1, <3>2
    <2>4. CommandsArriveAsMeant' /\ sent' \in Sents
        <3>1. sent = Unsent
            BY <2>1 DEF ToolsInv, CallInv
        <3> QED  BY <3>1, <2>1, UnsentArrives
    <2> QED  BY <2>1, <2>3, <2>4, <1>0, CallMoves
<1>4. CASE Gate
    <2>1. /\ call.pc = "gate" /\ call' = Gated(call) /\ sent' = Unsent
          /\ UNCHANGED <<active, target, ported, there, known, inputSize, moves>>
        BY <1>4 DEF Gate
    <2>2. /\ call.dev \in Targets /\ call.dev = call.meant /\ call.plan # <<>>
          /\ ~call.read => call.scale = ShotSize
          /\ call.read => call.scale = inputSize[call.dev] \/ call.resized \/ Away
        BY <2>1 DEF ToolsInv, CallInv
    <2> DEFINE r == Gated(call)
    <2>3. /\ r \in Calls /\ r.tool = call.tool /\ r.meant = call.meant /\ r.read = call.read
          /\ r.resized = call.resized
          /\ \/ r.pc = "error"
             \/ r.pc = "gate" /\ r.plan # <<>> /\ r.dev = call.dev /\ r.scale = call.scale
             \/ /\ r.pc = "send" /\ r.plan # <<>> /\ r.dev = call.dev /\ r.scale = call.scale
                /\ Resolvable(call.dev) /\ r.addr = adbTarget(call.dev)
                /\ Head(r.plan) = "InputSize" =>
                      \A i \in 1..Len(r.script) : r.script[i] = "hard"
        BY <1>0, <2>2, GatedTyped
    <2> HIDE DEF r
    <2>4. call' = r
        BY <2>1 DEF r
    <2>5. Resolvable(call.dev) => ~Away
        BY ToolsAssumption DEF Resolvable, Away, Android
    <2>6. CallInv'
        <3>1. CASE r.pc = "error"
            BY <3>1, <2>4 DEF CallInv
        <3>2. CASE r.pc = "gate"
            BY <3>2, <2>1, <2>2, <2>3, <2>4 DEF CallInv, Away
        <3>3. CASE r.pc = "send"
            <4>1. r.dev = call.dev /\ r.scale = call.scale /\ ~Away' /\ r.plan # <<>>
                  /\ r.addr = adbTarget(call.dev)
                  /\ (Head(r.plan) = "InputSize" => \A i \in 1..Len(r.script) : r.script[i] = "hard")
                BY <3>3, <2>1, <2>3, <2>4, <2>5 DEF Away
            <4> QED  BY <4>1, <3>3, <2>1, <2>2, <2>3, <2>4 DEF CallInv, Away
        <3> QED  BY <2>3, <3>1, <3>2, <3>3
    <2> QED  BY <2>1, <2>3, <2>4, <2>6, <1>0, UnsentArrives, CallMoves
<1>5. CASE EndOperation
    <2> DEFINE next == Tail(call.plan)
               r == [call EXCEPT !.pc = "gate", !.plan = next]
    <2>1. /\ call.pc = "send" /\ sent' = Unsent
          /\ \/ call' = End(call, "ok")
             \/ Len(call.plan) # 1 /\ call' = r
          /\ UNCHANGED <<active, target, ported, there, known, inputSize, moves>>
        BY <1>5 DEF EndOperation
    <2>2. CASE call' = End(call, "ok")
        <3>1. call' \in Calls /\ CallInv'
            BY <2>2, <1>0, EndTyped DEF CallInv
        <3> QED  BY <3>1, <2>1, <1>0, UnsentArrives, CallMoves
    <2>3. CASE Len(call.plan) # 1 /\ call' = r
        <3>1. next \in Seq(Operations) /\ next # <<>>
            <4>1. call.plan # <<>>
                BY <2>1 DEF ToolsInv, CallInv
            <4>2. next \in Seq(Operations) /\ Len(next) = Len(call.plan) - 1 /\ Len(call.plan) \in Nat \ {0}
                BY <1>0, <4>1
            <4> DEFINE n == Len(call.plan)
            <4>3. n # 1 /\ n \in Nat \ {0} /\ Len(next) = n - 1
                BY <2>3, <4>2
            <4> HIDE DEF next, n
            <4>4. Len(next) > 0
                BY <4>3
            <4> QED  BY <4>2, <4>4
        <3>2. call' = r
            BY <2>3
        <3> HIDE DEF next
        <3>3. /\ r \in Calls /\ r.pc = "gate" /\ r.plan = next /\ r.dev = call.dev
              /\ r.meant = call.meant /\ r.read = call.read /\ r.scale = call.scale
              /\ r.resized = call.resized
            BY <1>0, <3>1 DEF Calls
        <3> HIDE DEF r
        <3>4. CallInv'
            BY <2>1, <3>1, <3>2, <3>3 DEF ToolsInv, CallInv, Away
        <3> QED  BY <2>1, <3>2, <3>3, <3>4, <1>0, UnsentArrives, CallMoves
    <2> QED  BY <2>1, <2>2, <2>3
<1>6. CASE NotLocated
    <2>1. /\ call' = End(call, "error")
          /\ UNCHANGED <<active, target, ported, there, known, inputSize, sent, moves>>
        BY <1>6 DEF NotLocated
    <2>2. /\ call' \in Calls /\ call'.pc = "error" /\ call'.tool = call.tool
          /\ call'.meant = call.meant /\ call'.read = call.read
          /\ call'.moved = call.moved /\ call'.resized = call.resized
        BY <2>1, <1>0, EndTyped
    <2>3. CallInv'
        BY <2>2 DEF CallInv
    <2>4. CommandsArriveAsMeant'
        BY <2>1, <2>2 DEF ToolsInv, CommandsArriveAsMeant, CommandsKeepTheirDevice, CommandsRunOnce,
                          TapsHitTheirElement
    <2> QED  BY <2>1, <2>2, <2>3, <2>4, <1>0, CallMoves
<1> QED  BY <1>2, <1>3, <1>4, <1>5, <1>6

\* What happens beside a call changes no command it has sent, and marks it when
\* its VM goes away or its display changes size.
LEMMA BesideMoves ==
    ASSUME ToolsInv, BesideStep, moves' \in 0..MaxMoves,
           active' \in Targets \cup {Nobody},
           target' \in [Targets -> {"none", "running", "stopped", "online", "offline"}],
           ported' \in Vms \cup {Nobody}, there' \subseteq Phones \cup Desktops, known' \subseteq TcpAddresses,
           inputSize' \in [Targets -> InputSizes], RowsInv', sent' = sent,
           call.pc \in {"check", "gate", "send"},
           NEW moved \in BOOLEAN, NEW resized \in BOOLEAN,
           call' = [call EXCEPT !.moved = moved, !.resized = resized],
           call.moved => moved, call.resized => resized,
           inputSize'[call.dev] = inputSize[call.dev] \/ resized,
           \A d \in Targets \ {call.dev} : inputSize'[d] = inputSize[d],
           Away => Away', Away' => Away \/ moved
    PROVE  ToolsInv'
<1>1. /\ call \in Calls /\ call.dev \in Targets /\ call.dev = call.meant
    BY DEF ToolsInv, ToolsTypes, CallInv
<1> DEFINE r == [call EXCEPT !.moved = moved, !.resized = resized]
<1>2. /\ r \in Calls /\ r.pc = call.pc /\ r.tool = call.tool /\ r.dev = call.dev
      /\ r.meant = call.meant /\ r.plan = call.plan /\ r.script = call.script
      /\ r.addr = call.addr /\ r.scale = call.scale /\ r.read = call.read
      /\ r.moved = moved /\ r.resized = resized
    BY <1>1 DEF Calls
<1>3. call' = r
    OBVIOUS
<1> HIDE DEF r
<1>4. ToolsTypes'
    BY <1>2, <1>3 DEF ToolsInv, ToolsTypes
<1>5. CallInv'
    <2>1. call'.read => call'.scale = inputSize'[call'.dev] \/ call'.resized \/ Away'
        <3>1. call.read => call.scale = inputSize[call.dev] \/ call.resized \/ Away
            BY DEF ToolsInv, CallInv
        <3> QED  BY <3>1, <1>2, <1>3
    <2>2. call.pc = "send" => (Away' => call'.moved)
        BY <1>2, <1>3 DEF ToolsInv, CallInv
    <2>3. call.pc # "new" /\ (call.pc = "check" => sent' = Unsent)
        BY DEF ToolsInv, CallInv
    <2> QED  BY <2>1, <2>2, <2>3, <1>2, <1>3 DEF ToolsInv, CallInv
<1>6. CommandsArriveAsMeant'
    <2>1. CommandsKeepTheirDevice' /\ CommandsRunOnce'
        BY <1>2, <1>3 DEF ToolsInv, CommandsArriveAsMeant, CommandsKeepTheirDevice, CommandsRunOnce
    <2>2. TapsHitTheirElement'
        <3>1. sent.to \in {Nobody, call.dev} \/ call.moved
            BY <1>1 DEF ToolsInv, CommandsArriveAsMeant, CommandsKeepTheirDevice
        <3>2. TapsHitTheirElement /\ sent.to \in Targets \cup {Nobody}
            BY DEF ToolsInv, ToolsTypes, Sents, CommandsArriveAsMeant
        <3> SUFFICES ASSUME sent.op = "Tap", call.tool = "tap_element", sent.to # Nobody,
                            ~moved, ~resized
                     PROVE  sent.point = inputSize'[sent.to] \/ (~call.read /\ sent.to \in Android)
            BY <1>2, <1>3 DEF TapsHitTheirElement
        <3>3. sent.to = call.dev
            BY <3>1
        <3> QED  BY <3>2, <3>3 DEF TapsHitTheirElement
    <2> QED  BY <2>1, <2>2 DEF CommandsArriveAsMeant
<1> QED  BY <1>4, <1>5, <1>6 DEF ToolsInv

LEMMA BesideSteps == ASSUME ToolsInv, BesideStep PROVE ToolsInv'
<1>0. /\ call \in Calls /\ moves \in 0..MaxMoves /\ active \in Targets \cup {Nobody}
      /\ target \in [Targets -> {"none", "running", "stopped", "online", "offline"}]
      /\ ported \in Vms \cup {Nobody} /\ there \subseteq Phones \cup Desktops /\ known \subseteq TcpAddresses
      /\ inputSize \in [Targets -> InputSizes] /\ RowsInv
      /\ call.moved \in BOOLEAN /\ call.resized \in BOOLEAN
    BY DEF ToolsInv, ToolsTypes, Calls
<1>1. Beside => call.pc \in {"check", "gate", "send"} /\ moves' \in 0..MaxMoves
    BY <1>0, ToolsAssumption DEF Beside
<1>2. call = [call EXCEPT !.moved = call.moved, !.resized = call.resized]
    BY <1>0 DEF Calls
<1>3. ASSUME NEW d \in Targets, select_device(d) PROVE ToolsInv'
    <2>1. Beside /\ active' = d /\ UNCHANGED <<target, ported, there, known, inputSize, call, sent>>
        BY <1>3 DEF select_device
    <2>2. RowsInv' /\ (Away' <=> Away)
        BY <2>1, <1>0 DEF RowsInv, Away
    <2> QED  BY <2>1, <2>2, <1>0, <1>1, <1>2, BesideMoves
<1>4. ASSUME NEW d \in {call.dev} \cap (Phones \cup Desktops), Appears(d) \/ RowFollows(d)
      PROVE  ToolsInv'
    <2>1. /\ Beside /\ UNCHANGED <<active, ported, known, inputSize, call, sent>>
          /\ there' \subseteq there \cup {d}
          /\ \/ target' = target
             \/ target' = [target EXCEPT ![d] = IF d \in there THEN "online" ELSE "offline"]
        BY <1>4 DEF Appears, RowFollows
    <2>2. d \notin Vms /\ d \in Targets
        BY ToolsAssumption DEF Targets, Android
    <2>3. /\ target' \in [Targets -> {"none", "running", "stopped", "online", "offline"}]
          /\ \A v \in Vms : target'[v] = target[v]
        <3> DEFINE state == IF d \in there THEN "online" ELSE "offline"
        <3>1. state \in {"online", "offline"}
            OBVIOUS
        <3>2. target' = target \/ target' = [target EXCEPT ![d] = state]
            BY <2>1
        <3> HIDE DEF state
        <3>3. \A v \in Vms : v \in Targets /\ v # d
            BY <2>2 DEF Targets, Android
        <3> QED  BY <3>1, <3>2, <3>3, <2>2, <1>0
    <2>4. RowsInv' /\ (Away' <=> Away)
        BY <2>1, <2>3, <1>0 DEF RowsInv, Away
    <2>5. there' \subseteq Phones \cup Desktops
        BY <2>1, <1>0
    <2> QED  BY <2>1, <2>3, <2>4, <2>5, <1>0, <1>1, <1>2, BesideMoves
<1>5. ASSUME NEW d \in {call.dev} \cap Android, NEW s \in InputSizes, Resized(d, s) PROVE ToolsInv'
    <2>1. /\ Beside /\ inputSize' = [inputSize EXCEPT ![d] = s]
          /\ call' = [call EXCEPT !.resized = TRUE]
          /\ UNCHANGED <<active, target, ported, there, known, sent>>
        BY <1>5 DEF Resized
    <2>2. /\ inputSize' \in [Targets -> InputSizes]
          /\ \A e \in Targets \ {call.dev} : inputSize'[e] = inputSize[e]
        BY <2>1, <1>0
    <2>3. call' = [call EXCEPT !.moved = call.moved, !.resized = TRUE] /\ call'.dev = call.dev
        BY <2>1, <1>0 DEF Calls
    <2>4. RowsInv'
        <3>1. \A e \in Desktops : inputSize'[e] = inputSize[e]
            BY <2>2, ToolsAssumption DEF Targets, Android
        <3> QED  BY <3>1, <2>1, <1>0 DEF RowsInv
    <2>5. Away' <=> Away
        BY <2>1, <2>3 DEF Away
    <2> QED  BY <2>1, <2>2, <2>3, <2>4, <2>5, <1>0, <1>1, BesideMoves
<1>6. ASSUME NEW addr, AdbForgets(addr) PROVE ToolsInv'
    <2>1. Beside /\ known' = known \ {addr} /\ UNCHANGED <<active, target, ported, there, inputSize, call, sent>>
        BY <1>6 DEF AdbForgets
    <2>2. RowsInv' /\ (Away' <=> Away)
        BY <2>1, <1>0 DEF RowsInv, Away
    <2> QED  BY <2>1, <2>2, <1>0, <1>1, <1>2, BesideMoves
<1>7. ASSUME call.dev \in Vms, NEW d \in Vms, NEW to \in {"running", "stopped", "none"}, VmMoves(d, to)
      PROVE  ToolsInv'
    <2> DEFINE moved == call.moved \/ (call.dev = d /\ to # "running")
    <2>1. /\ Beside /\ target[d] # to /\ target' = [target EXCEPT ![d] = to]
          /\ call' = [call EXCEPT !.moved = moved]
          /\ \/ to # "none" /\ target[d] # "none" /\ ported' = ported
             \/ to = "running" /\ target[d] = "none" /\ ported = Nobody /\ d # call.dev /\ ported' = d
             \/ to = "none" /\ ported' = Nobody
          /\ UNCHANGED <<active, there, known, inputSize, sent>>
        BY <1>7 DEF VmMoves
    <2>2. moved \in BOOLEAN /\ (call.moved => moved)
        BY <1>0
    <2>3. d \in Targets /\ Nobody \notin Vms
        BY ToolsAssumption DEF Targets, Android
    <2>4. /\ target' \in [Targets -> {"none", "running", "stopped", "online", "offline"}]
          /\ target'[d] = to /\ \A v \in Targets \ {d} : target'[v] = target[v]
        BY <2>1, <2>3, <1>0
    <2>5. ported' \in Vms \cup {Nobody}
        BY <2>1, <1>0
    <2>6. to = "none" => ported = d
        BY <2>1, <1>0 DEF RowsInv
    <2>7. \A v \in Vms : target'[v] # "none" <=> ported' = v
        BY <2>1, <2>3, <2>4, <2>6, <1>0 DEF RowsInv, Targets, Android
    <2>8. RowsInv'
        BY <2>1, <2>7, <1>0 DEF RowsInv
    <2>9. moved \/ call.dev # d \/ to = "running"
        OBVIOUS
    <2> HIDE DEF moved
    <2>10. call' = [call EXCEPT !.moved = moved, !.resized = call.resized] /\ call'.dev = call.dev
        BY <2>1, <1>0 DEF Calls
    <2>11. Away => Away'
        <3>1. Away => call.dev # ported /\ ported' # call.dev
            BY <2>1, <2>3, <1>0, <1>7 DEF Away, RowsInv
        <3> QED  BY <3>1, <2>10, <1>7 DEF Away
    <2>12. Away' => Away \/ moved
        <3>1. ASSUME ported = call.dev, ported' # call.dev PROVE moved
            <4>1. to = "none" /\ d = call.dev
                BY <3>1, <2>1, <2>3, <2>6, <1>7
            <4> QED  BY <4>1, <2>9
        <3> QED  BY <3>1, <2>10, <1>7 DEF Away
    <2> QED  BY <2>1, <2>2, <2>4, <2>5, <2>8, <2>10, <2>11, <2>12, <1>0, <1>1, BesideMoves
<1> QED  BY <1>3, <1>4, <1>5, <1>6, <1>7 DEF BesideStep

LEMMA ToolsInvStep == ToolsInv /\ [ToolsNext]_toolVars => ToolsInv'
<1> SUFFICES ASSUME ToolsInv, [ToolsNext]_toolVars PROVE ToolsInv'
    OBVIOUS
<1>1. CASE UNCHANGED toolVars
    BY <1>1 DEF toolVars, ToolsInv, ToolsTypes, RowsInv, CallInv, Away, CommandsArriveAsMeant,
                CommandsKeepTheirDevice, CommandsRunOnce, TapsHitTheirElement
<1>2. CASE ToolStep
    BY <1>2, CallSteps, SendStep DEF ToolStep
<1>3. CASE BesideStep
    BY <1>3, BesideSteps
<1> QED  BY <1>1, <1>2, <1>3 DEF ToolsNext

\* The type invariant of a tool's call, the rows and what it sends.
THEOREM ToolsTypeCorrect == ToolsSpec => []ToolsTypeOK
<1>1. ToolsInv => ToolsTypeOK
    BY DEF ToolsInv, ToolsTypes, Calls, Sents, ToolsTypeOK
<1> QED  BY <1>1, ToolsInvInit, ToolsInvStep, PTL DEF ToolsSpec

\* Whatever other clients select, VMs and handsets do and displays become while a
\* call runs, for any number of such events: what it sends reaches its device or
\* nobody; it runs there once, unless the device has a host:port address and
\* answers "not found" itself; and a described element is tapped in the space the
\* device takes input in.
THEOREM CommandsArrive == ToolsSpec => []CommandsArriveAsMeant
<1>1. ToolsInv => CommandsArriveAsMeant
    BY DEF ToolsInv
<1> QED  BY <1>1, ToolsInvInit, ToolsInvStep, PTL DEF ToolsSpec

-----------------------------------------------------------------------------
(* The appliance. One part moves while the others stay as they are, so its *)
(* behaviours satisfy the specification of each.                           *)

LEMMA InitParts == Init => InputInit /\ ToolsInit /\ InstallInit /\ AccessInit /\ ImageInit
BY DEF Init

LEMMA NextParts ==
    ASSUME [Next]_vars
    PROVE  /\ [InputNext]_inputVars /\ [ToolsNext]_toolVars /\ [InstallNext]_installVars
           /\ [AccessNext]_accessVars /\ [ImageNext]_imageVars
<1>1. CASE UNCHANGED vars
    BY <1>1 DEF vars
<1>2. CASE Next
    BY <1>2 DEF Next
<1> QED  BY <1>1, <1>2

\* The appliance implements each of its parts.
THEOREM ApplianceImplementsParts ==
    Spec => InputSpec /\ ToolsSpec /\ InstallSpec /\ AccessSpec /\ ImageSpec
BY InitParts, NextParts, PTL
   DEF Spec, InputSpec, ToolsSpec, InstallSpec, AccessSpec, ImageSpec

\* The type invariant of the appliance.
THEOREM ApplianceTypeCorrect == Spec => []TypeOK
<1>1. InputTypeOK /\ ToolsTypeOK /\ InstallTypeOK /\ AccessTypeOK /\ ImageTypeOK => TypeOK
    BY DEF TypeOK
<1> QED  BY <1>1, ApplianceImplementsParts, InputTypeCorrect, ToolsTypeCorrect, InstallTypeCorrect,
            AccessTypeCorrect, ImageTypeCorrect, PTL

\* In every behaviour of the appliance each part keeps what it promises by itself.
THEOREM ApplianceIsSafe ==
    Spec => [](NothingStaysHeld /\ CommandsArriveAsMeant /\ InstallsAreVerified
               /\ AccessIsEarned /\ LaunchesAreWhole)
BY ApplianceImplementsParts, NothingIsLeftHeld, CommandsArrive, InstallsVerified, AccessEarned,
   LaunchesWhole, PTL

=============================================================================
