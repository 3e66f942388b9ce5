---------------------------- MODULE DesktopInput ----------------------------
(***************************************************************************)
(* How a desktop runner turns a command of the tunnel into key and button  *)
(* events. Every command runs on a goroutine of its own (go respond), and  *)
(* controller.handle takes no lock around the screen, so the events of two *)
(* commands interleave: a caller that timed out, or a second client, sends *)
(* the next one while this one still runs.                                 *)
(*                                                                         *)
(* On Windows each event is a call of the operating system whose result is *)
(* ignored. On Linux and macOS a whole click, text, key or chord is one    *)
(* command of xdotool, osascript or cliclick, and only a drag holds        *)
(* something between two commands; a command that fails has no effect.     *)
(* Coordinates and waiting times are left out, and so are scrolling and    *)
(* the commands that only look, which hold nothing.                        *)
(***************************************************************************)
EXTENDS Integers, Sequences, SequencesExt

CONSTANTS
    Commands,   \* bound: commands received
    Modifiers,  \* CTRL, SHIFT, ALT, WIN
    Named,      \* the other keys of keyMap
    Chars,      \* single characters
    Shifted,    \* the characters typed with SHIFT
    Foreign,    \* names that are no key on any platform
    Chords,     \* keys a chord may ask for
    Texts,      \* texts that may be typed
    DragSteps,  \* moves of a drag (10 in the code)
    Nothing

Buttons == {"LEFT", "RIGHT", "MIDDLE"}
Keys == Modifiers \cup Named \cup Chars \cup Foreign

ASSUME InputAssumption ==
    /\ "SHIFT" \in Modifiers /\ Shifted \subseteq Chars
    /\ Foreign \cap (Modifiers \cup Named \cup Chars) = {}
    /\ Chords \subseteq Seq(Keys) /\ Texts \subseteq Seq(Keys)
    /\ DragSteps \in Nat

VARIABLES
    platform,   \* what the binary was built for
    cliclick,   \* macOS: whether the helper is installed
    status,     \* of a command: "new", "busy", "ok", "error"
    gesture,    \* what the command asks for
    rest,       \* what its loop has still to go through
    todo,       \* the events of this turn of the loop
    own,        \* the slice held of a chord, or the button of a drag
    failing,    \* commands that will answer with an error
    held,       \* what the operating system takes to be held down
    lost        \* held because the command that releases it failed

inputVars == <<platform, cliclick, status, gesture, rest, todo, own, failing, held, lost>>

Gestures ==
         [do : {"click"}, keys : {<<b>> : b \in Buttons} \cup {<<b, b>> : b \in Buttons}]
    \cup [do : {"type"}, keys : Texts]
    \cup [do : {"key"}, keys : {<<k>> : k \in Keys}]
    \cup [do : {"chord"}, keys : Chords]
    \cup [do : {"drag"}, keys : {<<"LEFT">>}]

Events == [do : {"down", "hold", "up"}, key : Keys \cup Buttons]
          \cup [do : {"move", "tap"}, key : {Nothing}]
Event(what, key) == [do |-> what, key |-> key]
Stroke(key) == <<Event("down", key), Event("up", key)>>

InputTypeOK ==
    /\ platform \in {"windows", "linux", "darwin"} /\ cliclick \in BOOLEAN
    /\ status \in [Commands -> {"new", "busy", "ok", "error"}]
    /\ \A c \in Commands :
        /\ status[c] # "new" => gesture[c] \in Gestures
        /\ rest[c] \in Seq(Keys \cup Buttons \cup {Nothing})
        /\ todo[c] \in Seq(Events)
        /\ own[c] \in Seq(Keys \cup Buttons)
    /\ held \subseteq Keys \cup Buttons /\ lost \subseteq held
    /\ failing \subseteq Commands

InputInit ==
    /\ platform \in {"windows", "linux", "darwin"}
    /\ cliclick \in IF platform = "darwin" THEN BOOLEAN ELSE {FALSE}
    /\ status = [c \in Commands |-> "new"]
    /\ gesture = [c \in Commands |-> Nothing]
    /\ rest = [c \in Commands |-> <<>>] /\ todo = [c \in Commands |-> <<>>]
    /\ own = [c \in Commands |-> <<>>]
    /\ failing = {} /\ held = {} /\ lost = {}

Busy == {c \in Commands : status[c] = "busy"}

-----------------------------------------------------------------------------
(* What a platform refuses before it does anything.                        *)

\* virtualKey: a named key, a modifier by itself, or a character
virtualKey(k) == k \notin Foreign
keyMap(k) == k \in Named \cup {"WIN"}
x11Keysym(k) == k \notin Foreign
macKey(k) == k \in Named \cup Chars

macChord(keys) ==
    /\ keys # <<>>
    /\ \A i \in 1..(Len(keys) - 1) : keys[i] \in Modifiers
    /\ macKey(keys[Len(keys)])

winRefuses(g) ==
    \/ g.do = "key" /\ ~keyMap(g.keys[1])
    \/ g.do = "chord" /\ g.keys = <<>>

x11Refuses(g) ==
    \/ g.do = "key" /\ ~x11Keysym(g.keys[1])
    \/ g.do = "chord" /\ (g.keys = <<>> \/ \E i \in DOMAIN g.keys : ~x11Keysym(g.keys[i]))

\* Without cliclick there is no other button, and no drag
macClick(button) == button = "LEFT" \/ (cliclick /\ button = "RIGHT")
macRefuses(g) ==
    \/ g.do = "click" /\ ~macClick(g.keys[1])
    \/ g.do = "key" /\ ~macKey(g.keys[1])
    \/ g.do = "chord" /\ ~macChord(g.keys)
    \/ g.do = "drag" /\ ~cliclick

Refuses(g) ==
    \/ platform = "windows" /\ winRefuses(g)
    \/ platform = "linux" /\ x11Refuses(g)
    \/ platform = "darwin" /\ macRefuses(g)

\* respond calls handle on a goroutine of its own
Receive(c) ==
    /\ status[c] = "new"
    /\ \E g \in Gestures :
        /\ gesture' = [gesture EXCEPT ![c] = g]
        /\ \/ /\ Refuses(g)
              /\ status' = [status EXCEPT ![c] = "error"]
              /\ UNCHANGED <<rest, todo>>
           \/ /\ ~Refuses(g)
              /\ status' = [status EXCEPT ![c] = "busy"]
              /\ rest' = [rest EXCEPT ![c] =
                    CASE g.do = "drag" -> [i \in 1..DragSteps |-> Nothing]
                      [] g.do # "drag" /\ platform = "windows" -> g.keys
                      [] OTHER -> <<>>]
              /\ todo' = [todo EXCEPT ![c] =
                    CASE g.do = "drag" -> <<Event("hold", "LEFT")>>
                      [] g.do # "drag" /\ platform = "windows" -> <<>>
                      [] OTHER -> <<Event("tap", Nothing)>>]
    /\ UNCHANGED <<platform, cliclick, own, failing, held, lost>>

-----------------------------------------------------------------------------
(* The loops.                                                              *)

\* winScreen.Type: a character that no key gives is skipped
TypeRune(k) ==
    CASE k \in Shifted -> <<Event("down", "SHIFT")>> \o Stroke(k) \o <<Event("up", "SHIFT")>>
      [] k \in Foreign -> <<>>
      [] OTHER -> Stroke(k)

\* winScreen.Chord: everything but the last key is held
ChordKey(k, last) == IF last THEN Stroke(k) ELSE <<Event("hold", k)>>

\* One turn of the loop of a drag, of winScreen.Type, Chord, Click or Key. A
\* key that a chord cannot press ends it; what it holds is released.
Turn(c) ==
    /\ status[c] = "busy" /\ todo[c] = <<>> /\ rest[c] # <<>>
    /\ LET k == Head(rest[c])
           g == gesture[c]
           bad == g.do = "chord" /\ ~virtualKey(k)
       IN  /\ rest' = [rest EXCEPT ![c] = IF bad THEN <<>> ELSE Tail(@)]
           /\ todo' = [todo EXCEPT ![c] =
                CASE g.do = "drag" -> <<Event("move", Nothing)>>
                  [] g.do = "type" -> TypeRune(k)
                  [] g.do = "chord" -> IF bad THEN <<>> ELSE ChordKey(k, Len(rest[c]) = 1)
                  [] OTHER -> Stroke(k)]
           /\ failing' = IF bad THEN failing \cup {c} ELSE failing
    /\ UNCHANGED <<platform, cliclick, status, gesture, own, held, lost>>

Pressed(k) == held' = held \cup {k} /\ UNCHANGED lost
Released(k) == held' = held \ {k} /\ lost' = lost \ {k}

Emit(c) ==
    /\ status[c] = "busy" /\ todo[c] # <<>>
    /\ LET e == Head(todo[c])
       IN  /\ todo' = [todo EXCEPT ![c] = Tail(@)]
           /\ CASE e.do = "down" -> Pressed(e.key) /\ UNCHANGED own
                [] e.do = "hold" -> Pressed(e.key) /\ own' = [own EXCEPT ![c] = Append(@, e.key)]
                [] e.do = "up"   -> Released(e.key) /\ UNCHANGED own
                [] OTHER         -> UNCHANGED <<own, held, lost>>
    /\ UNCHANGED <<platform, cliclick, status, gesture, rest, failing>>

\* A command of xdotool, osascript or cliclick fails: the drag lets go of its
\* button, the others have nothing to let go of.
EmitFails(c) ==
    /\ status[c] = "busy" /\ todo[c] # <<>> /\ platform # "windows"
    /\ todo' = [todo EXCEPT ![c] = <<>>] /\ rest' = [rest EXCEPT ![c] = <<>>]
    /\ failing' = failing \cup {c}
    /\ UNCHANGED <<platform, cliclick, status, gesture, own, held, lost>>

\* Fault: the release is not deferred, so an error returns past it
LetGoOnSuccess(c) ==
    /\ status[c] = "busy" /\ todo[c] = <<>> /\ rest[c] = <<>> /\ own[c] # <<>>
    /\ own' = [own EXCEPT ![c] = Front(@)]
    /\ IF c \in failing THEN UNCHANGED <<held, lost>> ELSE Released(Last(own[c]))
    /\ UNCHANGED <<platform, cliclick, status, gesture, rest, todo, failing>>

\* The deferred release of a chord, the last first; the mouseup of a drag,
\* at its end or after a move that failed
LetGo(c) ==
    /\ status[c] = "busy" /\ todo[c] = <<>> /\ rest[c] = <<>> /\ own[c] # <<>>
    /\ own' = [own EXCEPT ![c] = Front(@)]
    /\ Released(Last(own[c]))
    /\ UNCHANGED <<platform, cliclick, status, gesture, rest, todo, failing>>

\* That mouseup fails: nothing tries again
LetGoFails(c) ==
    /\ status[c] = "busy" /\ todo[c] = <<>> /\ rest[c] = <<>> /\ own[c] # <<>>
    /\ platform # "windows"
    /\ own' = [own EXCEPT ![c] = Front(@)]
    /\ lost' = lost \cup ({Last(own[c])} \cap held)
    /\ failing' = failing \cup {c}
    /\ UNCHANGED <<platform, cliclick, status, gesture, rest, todo, held>>

Respond(c) ==
    /\ status[c] = "busy" /\ todo[c] = <<>> /\ rest[c] = <<>> /\ own[c] = <<>>
    /\ status' = [status EXCEPT ![c] = IF c \in failing THEN "error" ELSE "ok"]
    /\ UNCHANGED <<platform, cliclick, gesture, rest, todo, own, failing, held, lost>>

InputStep(c) ==
    Receive(c) \/ Turn(c) \/ Emit(c) \/ EmitFails(c) \/ LetGo(c) \/ LetGoFails(c) \/ Respond(c)

InputNext == \E c \in Commands : InputStep(c)

InputSpec == InputInit /\ [][InputNext]_inputVars

-----------------------------------------------------------------------------

\* However the events of commands interleave, and whichever of them end in an
\* error, once the runner has answered them all no key or button is down, but
\* for one whose release command failed ("never leave the button stuck down").
NothingStaysHeld == Busy = {} => held \subseteq lost

=============================================================================
