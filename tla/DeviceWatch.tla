----------------------------- MODULE DeviceWatch -----------------------------
(***************************************************************************)
(* Handsets: their registration, and the poller that copies what adb sees  *)
(* of them into the instances table every five seconds.                    *)
(*                                                                         *)
(* A handset on USB shows up in `adb devices` by itself. One reached over  *)
(* TCP shows up only while the adb server has a transport for it, which it *)
(* loses when it restarts; a transport whose handset went away reads       *)
(* offline until somebody connects again. A poll reads the rows, lists,    *)
(* connects, lists again and then writes row by row, while handsets come   *)
(* and go, rows are deleted and registered, and commands fail.             *)
(***************************************************************************)
EXTENDS Naturals

CONSTANTS
    Handsets,
    Tcp,         \* those whose target is host:port
    PhoneRows,   \* bound: registrations, by the id of their row
    Sizes,       \* display sizes
    NoPhone,
    MaxChanges,  \* bound on what happens to handsets, the adb server and the API
    MaxFaults    \* bound on commands and statements that fail

\* The states of `adb devices`; "unknown" is a serial that is not listed.
Statuses == {"device", "offline", "unauthorized", "no permissions", "unknown"}
Links == {"device", "unauthorized", "no permissions", "absent"}

ASSUME WatchAssumption ==
    /\ Tcp \subseteq Handsets /\ NoPhone \notin Sizes \cup Handsets
    /\ MaxChanges \in Nat /\ MaxFaults \in Nat

VARIABLES
    link,       \* what adb would find of a handset
    transport,  \* TCP: "none", "live", or "dead" since the handset went away
    size,       \* a handset's input size
    phone,      \* rows of source physical
    reg,        \* registrations: [pc, target]
    poll,       \* the poller's goroutine
    since,      \* what adb had to say of a handset since the poll began
    excused,    \* rows whose size changed, or could not be read, once online
    changes, faults

watchVars == <<link, transport, size, phone, reg, poll, since, excused, changes, faults>>

PhoneRow == [target : Handsets, state : {"online", "offline"},
             message : {"", "offline", "unauthorized", "no permissions", "unknown"},
             display : Sizes \cup {NoPhone}]
PollPcs == {"idle", "list", "connect", "reconcile", "size", "display"}

WatchTypeOK ==
    /\ link \in [Handsets -> Links] /\ size \in [Handsets -> Sizes]
    /\ transport \in [Handsets -> {"none", "live", "dead"}]
    /\ phone \in [PhoneRows -> PhoneRow \cup {NoPhone}]
    /\ reg \in [PhoneRows -> [pc : {"new", "checked", "done"}, target : Handsets \cup {NoPhone}]]
    /\ poll.pc \in PollPcs /\ poll.got \in [PhoneRows -> PhoneRow \cup {NoPhone}]
    /\ poll.seen \in [Handsets -> Statuses]
    /\ poll.todo \subseteq PhoneRows /\ poll.dial \subseteq Tcp
    /\ poll.row \in PhoneRows \cup {NoPhone} /\ poll.size \in Sizes \cup {NoPhone}
    /\ poll.flawed \in BOOLEAN
    /\ since \in [Handsets -> SUBSET Statuses] /\ excused \subseteq PhoneRows
    /\ changes \in 0..MaxChanges /\ faults \in 0..MaxFaults

ListedAs(h, l, t) ==
    CASE h \notin Tcp /\ l = "absent" -> "unknown"
      [] h \in Tcp /\ t = "none"       -> "unknown"
      [] h \in Tcp /\ t = "dead"       -> "offline"
      [] OTHER                         -> l
Listed(h) == ListedAs(h, link[h], transport[h])

Idle == [pc |-> "idle", got |-> [r \in PhoneRows |-> NoPhone], todo |-> {}, dial |-> {},
         seen |-> [h \in Handsets |-> "unknown"], row |-> NoPhone, size |-> NoPhone, flawed |-> FALSE]

WatchInit ==
    /\ link \in [Handsets -> {"device", "absent"}]
    /\ transport = [h \in Handsets |-> "none"]
    /\ size \in [Handsets -> Sizes]
    /\ phone = [r \in PhoneRows |-> NoPhone]
    /\ reg = [r \in PhoneRows |-> [pc |-> "new", target |-> NoPhone]]
    /\ poll = Idle /\ excused = {} /\ changes = 0 /\ faults = 0
    /\ since = [h \in Handsets |-> {Listed(h)}]

Registered == {r \in PhoneRows : phone[r] # NoPhone}

\* since follows every change of what adb would list
Noted == since' = [h \in Handsets |-> since[h] \cup {ListedAs(h, link'[h], transport'[h])}]

Fails == faults < MaxFaults /\ faults' = faults + 1

-----------------------------------------------------------------------------
(* Registration and deletion.                                              *)

\* CreatePhysicalAndroid looks the target up, and inserts later
CheckTarget(r) ==
    /\ reg[r].pc = "new"
    /\ \E h \in Handsets :
        reg' = [reg EXCEPT ![r] =
            IF \E q \in Registered : phone[q].target = h
            THEN [pc |-> "done", target |-> NoPhone]
            ELSE [pc |-> "checked", target |-> h]]
    /\ UNCHANGED <<link, transport, size, phone, poll, since, excused, changes, faults>>

InsertPhone(r) ==
    /\ reg[r].pc = "checked"
    /\ reg' = [reg EXCEPT ![r].pc = "done"]
    /\ phone' = [phone EXCEPT ![r] = [target |-> reg[r].target, state |-> "offline",
                                      message |-> "", display |-> NoPhone]]
    /\ UNCHANGED <<link, transport, size, poll, since, excused, changes, faults>>

DeletePhone(r) ==
    /\ r \in Registered
    /\ phone' = [phone EXCEPT ![r] = NoPhone]
    /\ excused' = excused \ {r}
    /\ UNCHANGED <<link, transport, size, reg, poll, since, changes, faults>>

-----------------------------------------------------------------------------
(* pollOnce.                                                               *)

\* ListPhysicalAndroid; without rows the poll is over
BeginPoll ==
    /\ poll.pc = "idle" /\ Registered # {}
    /\ poll' = [Idle EXCEPT !.pc = "list", !.got = phone]
    /\ since' = [h \in Handsets |-> {Listed(h)}]
    /\ UNCHANGED <<link, transport, size, phone, reg, excused, changes, faults>>

Polled == {r \in PhoneRows : poll.got[r] # NoPhone}
Listing == [h \in Handsets |-> Listed(h)]
EmptyListing == [h \in Handsets |-> "unknown"]

\* Fault: only handsets that are not listed at all are connected
DialUnlisted(seen) == {h \in Tcp : seen[h] = "unknown" /\ \E r \in Polled : poll.got[r].target = h}

\* The TCP targets to connect: not listed, or listed as offline
Dial(seen) ==
    {h \in Tcp : /\ seen[h] \in {"unknown", "offline"}
                 /\ \E r \in Polled : poll.got[r].target = h}

\* adbDevices: a command that fails is an empty list
adbDevices(seen) ==
    \/ seen = Listing /\ UNCHANGED faults
    \/ seen = EmptyListing /\ Fails

FirstListing ==
    /\ poll.pc = "list"
    /\ \E seen \in {Listing, EmptyListing} :
        /\ adbDevices(seen)
        /\ poll' = [poll EXCEPT !.pc = "connect", !.seen = seen, !.dial = Dial(seen)]
    /\ UNCHANGED <<link, transport, size, phone, reg, since, excused, changes>>

\* adb connect, whose outcome is ignored
ConnectOne ==
    /\ poll.pc = "connect"
    /\ \E h \in poll.dial :
        /\ poll' = [poll EXCEPT !.dial = @ \ {h}]
        /\ \/ /\ link[h] # "absent"
              /\ transport' = [transport EXCEPT ![h] = "live"] /\ UNCHANGED faults
           \/ link[h] = "absent" /\ UNCHANGED <<transport, faults>>
           \/ link[h] # "absent" /\ Fails /\ UNCHANGED transport
    /\ UNCHANGED <<link, size, phone, reg, excused, changes>>
    /\ Noted

\* Fault: what was connected is taken to be there
TrustConnect ==
    /\ poll.pc = "connect" /\ poll.dial = {}
    /\ poll' = [poll EXCEPT !.pc = "reconcile", !.todo = Polled,
            !.seen = [h \in Handsets |-> IF h \in Dial(poll.seen) THEN "device" ELSE poll.seen[h]]]
    /\ UNCHANGED <<link, transport, size, phone, reg, since, excused, changes, faults>>

SecondListing ==
    /\ poll.pc = "connect" /\ poll.dial = {}
    /\ \E seen \in {Listing, EmptyListing} :
        /\ adbDevices(seen)
        /\ poll' = [poll EXCEPT !.pc = "reconcile", !.seen = seen, !.todo = Polled,
                                !.flawed = (faults' # faults)]
    /\ UNCHANGED <<link, transport, size, phone, reg, since, excused, changes>>

WantState(status) == IF status = "device" THEN "online" ELSE "offline"
Message(status) == IF status = "device" THEN "" ELSE status

\* reconcile: the row as the poll read it decides whether there is anything to
\* write. An UPDATE of a row that has gone matches nothing, and reading it back
\* fails.
ReconcilePhone(r) ==
    /\ poll.pc = "reconcile" /\ r \in poll.todo
    /\ LET status == poll.seen[poll.got[r].target]
           same == poll.got[r].state = WantState(status) /\ poll.got[r].message = Message(status)
           written == ~same /\ phone[r] # NoPhone
       IN  \/ /\ poll' = [poll EXCEPT !.todo = @ \ {r},
                            !.pc = IF written /\ status = "device" THEN "size" ELSE @,
                            !.row = IF written /\ status = "device" THEN r ELSE NoPhone]
              /\ phone' = IF written
                          THEN [phone EXCEPT ![r].state = WantState(status),
                                             ![r].message = Message(status)]
                          ELSE phone
              /\ excused' = IF written THEN excused \ {r} ELSE excused
              /\ UNCHANGED faults
           \/ /\ ~same /\ Fails
              /\ poll' = [poll EXCEPT !.todo = @ \ {r}]
              /\ UNCHANGED <<phone, excused>>
    /\ UNCHANGED <<link, transport, size, reg, since, changes>>

\* refreshDisplay: `wm size`; what cannot be read is left as it was
ReadSize ==
    /\ poll.pc = "size"
    /\ LET h == poll.got[poll.row].target
       IN  \/ /\ Listed(h) = "device"
              /\ poll' = [poll EXCEPT !.pc = "display", !.size = size[h]]
              /\ UNCHANGED <<excused, faults>>
           \/ /\ poll' = [poll EXCEPT !.pc = "reconcile", !.row = NoPhone]
              /\ excused' = excused \cup {poll.row}
              /\ IF Listed(h) = "device" THEN Fails ELSE UNCHANGED faults
    /\ UNCHANGED <<link, transport, size, phone, reg, since, changes>>

\* UpdateInstanceDisplay
WriteDisplay ==
    /\ poll.pc = "display"
    /\ poll' = [poll EXCEPT !.pc = "reconcile", !.row = NoPhone, !.size = NoPhone]
    /\ \/ /\ phone' = IF phone[poll.row] = NoPhone THEN phone
                      ELSE [phone EXCEPT ![poll.row].display = poll.size]
          /\ UNCHANGED <<excused, faults>>
       \/ Fails /\ UNCHANGED phone /\ excused' = excused \cup {poll.row}
    /\ UNCHANGED <<link, transport, size, reg, since, changes>>

EndPoll ==
    /\ poll.pc = "reconcile" /\ poll.todo = {}
    /\ poll' = Idle
    /\ UNCHANGED <<link, transport, size, phone, reg, since, excused, changes, faults>>

PollStep ==
    \/ BeginPoll \/ FirstListing \/ ConnectOne \/ SecondListing
    \/ \E r \in PhoneRows : ReconcilePhone(r)
    \/ ReadSize \/ WriteDisplay \/ EndPoll

-----------------------------------------------------------------------------
(* What happens to the handsets, the adb server and the API process.       *)

Change == changes < MaxChanges /\ changes' = changes + 1

Relink(h, l) ==
    /\ Change /\ link[h] # l
    /\ link' = [link EXCEPT ![h] = l]
    /\ transport' = IF l = "absent" /\ transport[h] = "live"
                    THEN [transport EXCEPT ![h] = "dead"] ELSE transport
    /\ Noted
    /\ UNCHANGED <<size, phone, reg, poll, excused, faults>>

AdbRestarts ==
    /\ Change
    /\ transport' = [h \in Handsets |-> "none"]
    /\ UNCHANGED <<link, size, phone, reg, poll, excused, faults>>
    /\ Noted

Resize(h, s) ==
    /\ Change /\ size[h] # s
    /\ size' = [size EXCEPT ![h] = s]
    /\ excused' = excused \cup {r \in Registered : phone[r].target = h}
    /\ UNCHANGED <<link, transport, phone, reg, poll, since, faults>>

ApiRestarts ==
    /\ Change
    /\ poll' = Idle
    /\ reg' = [r \in PhoneRows |-> IF reg[r].pc = "checked" THEN [reg[r] EXCEPT !.pc = "done"] ELSE reg[r]]
    /\ excused' = IF poll.row = NoPhone THEN excused ELSE excused \cup {poll.row}
    /\ UNCHANGED <<link, transport, size, phone, since, faults>>

WatchNext ==
    \/ PollStep
    \/ \E r \in PhoneRows : CheckTarget(r) \/ InsertPhone(r) \/ DeletePhone(r)
    \/ \E h \in Handsets : (\E l \in Links : Relink(h, l)) \/ (\E s \in Sizes : Resize(h, s))
    \/ AdbRestarts \/ ApiRestarts

WatchFairness == WF_watchVars(PollStep)
WatchSpec == WatchInit /\ [][WatchNext]_watchVars /\ WatchFairness

-----------------------------------------------------------------------------

Agrees(r) ==
    LET h == phone[r].target
    IN  /\ phone[r].state = WantState(Listed(h))
        /\ phone[r].message = Message(Listed(h))
        /\ phone[r].state = "online" => phone[r].display = size[h] \/ r \in excused
        \* a handset that is there over TCP is connected to
        /\ h \in Tcp /\ link[h] # "absent" => Listed(h) = link[h]

\* Once handsets, servers and commands stop misbehaving, every registered
\* handset's row settles on what its handset is: a transport that was lost is
\* connected again, a failed listing is made good by a later poll, and a row
\* that comes online gets the display size, unless that changed or could not be
\* read after it came online.
RowsFollowHandsets == <>[](\A r \in Registered : Agrees(r))

\* What a poll writes of a handset is something adb had to say of it during
\* that poll, or that it is not visible, if the listing failed: never an answer
\* of an earlier poll, of a lost transport or of another handset.
WritesWereSeen ==
    [][\A r \in Registered :
        LET seen(s) == phone'[r].state = WantState(s) /\ phone'[r].message = Message(s)
        IN  \/ phone'[r] = NoPhone
            \/ phone'[r].state = phone[r].state /\ phone'[r].message = phone[r].message
            \/ \E s \in since[phone[r].target] : seen(s)
            \/ poll.flawed /\ seen("unknown")]_watchVars

=============================================================================
