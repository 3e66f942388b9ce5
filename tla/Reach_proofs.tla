-------------------------- MODULE Reach_proofs -----------------------------
(***************************************************************************)
(* Proofs about DeviceWatch, for any handsets, registrations and number of *)
(* changes and faults: a poll writes only what it was told while it ran.   *)
(* With those of RunnerHub they carry over to MCReach, which composes the  *)
(* two.                                                                    *)
(***************************************************************************)
EXTENDS MCReach, RunnerHub_proofs

Polls == [pc : PollPcs, got : [PhoneRows -> PhoneRow \cup {NoPhone}], todo : SUBSET PhoneRows,
          dial : SUBSET Tcp, seen : [Handsets -> Statuses], row : PhoneRows \cup {NoPhone},
          size : Sizes \cup {NoPhone}, flawed : BOOLEAN]

\* A TCP handset that went away has no live transport, so adb never lists it as absent
HandsetsOK ==
    /\ link \in [Handsets -> Links] /\ size \in [Handsets -> Sizes]
    /\ transport \in [Handsets -> {"none", "live", "dead"}]
    /\ \A h \in Tcp : link[h] = "absent" => transport[h] # "live"

PollOK ==
    /\ poll \in Polls
    /\ \A r \in poll.todo : poll.got[r] # NoPhone
    /\ poll.pc \in {"size", "display"} => poll.row \in PhoneRows /\ poll.got[poll.row] # NoPhone
    /\ poll.pc = "display" => poll.size \in Sizes

RowsOK ==
    /\ phone \in [PhoneRows -> PhoneRow \cup {NoPhone}]
    /\ reg \in [PhoneRows -> [pc : {"new", "checked", "done"}, target : Handsets \cup {NoPhone}]]
    /\ \A r \in PhoneRows : reg[r].pc = "checked" => reg[r].target \in Handsets

CountsOK ==
    /\ since \in [Handsets -> SUBSET Statuses] /\ excused \subseteq PhoneRows
    /\ changes \in 0..MaxChanges /\ faults \in 0..MaxFaults

WatchTypes == HandsetsOK /\ PollOK /\ RowsOK /\ CountsOK

\* What adb lists is always one of its states.
LEMMA ListedIsStatus ==
    ASSUME NEW h \in Handsets, NEW l \in Links, NEW t \in {"none", "live", "dead"},
           h \in Tcp /\ l = "absent" => t # "live"
    PROVE  ListedAs(h, l, t) \in Statuses
BY DEF ListedAs, Links, Statuses

LEMMA ListingIsTyped == HandsetsOK => \A h \in Handsets : Listed(h) \in Statuses
BY ListedIsStatus DEF HandsetsOK, Listed

\* A row that is written has its type.
LEMMA MessageTyped ==
    ASSUME NEW s \in Statuses
    PROVE  /\ WantState(s) \in {"online", "offline"}
           /\ Message(s) \in {"", "offline", "unauthorized", "no permissions", "unknown"}
BY DEF WantState, Message, Statuses

LEMMA IdleTyped == Idle \in Polls
BY DEF Idle, Polls, PollPcs, Statuses

LEMMA WatchTypesInit == WatchInit => WatchTypes
<1> SUFFICES ASSUME WatchInit PROVE WatchTypes
    OBVIOUS
<1>1. HandsetsOK
    BY WatchAssumption DEF WatchInit, HandsetsOK, Links
<1>2. PollOK
    BY IdleTyped DEF WatchInit, PollOK, Idle
<1>3. RowsOK
    BY DEF WatchInit, RowsOK
<1>4. CountsOK
    BY <1>1, ListingIsTyped, WatchAssumption DEF WatchInit, CountsOK
<1> QED  BY <1>1, <1>2, <1>3, <1>4 DEF WatchTypes

\* One step per component of the state, and in it one per action that writes it.
LEMMA WatchTypesStep == WatchTypes /\ [WatchNext]_watchVars => WatchTypes'
<1> SUFFICES ASSUME WatchTypes, [WatchNext]_watchVars PROVE WatchTypes'
    OBVIOUS
<1> USE DEF WatchTypes
<1>s. ASSUME UNCHANGED watchVars PROVE WatchTypes'
    BY <1>s DEF watchVars, HandsetsOK, PollOK, RowsOK, CountsOK, Polls
<1>h. ASSUME WatchNext PROVE HandsetsOK'
    <2>1. CASE ConnectOne
        BY <2>1, WatchAssumption DEF ConnectOne, HandsetsOK, PollOK, Polls
    <2>2. CASE (\E h \in Handsets, l \in Links : Relink(h, l)) \/ AdbRestarts
        BY <2>2, WatchAssumption DEF Relink, AdbRestarts, HandsetsOK, Links
    <2>3. CASE \E h \in Handsets, s \in Sizes : Resize(h, s)
        BY <2>3 DEF Resize, HandsetsOK
    <2>4. CASE UNCHANGED <<link, transport, size>>
        BY <2>4 DEF HandsetsOK
    <2> QED
        BY <1>h, <2>1, <2>2, <2>3, <2>4 DEF WatchNext, PollStep, BeginPoll, FirstListing,
           SecondListing, ReconcilePhone, ReadSize, WriteDisplay, EndPoll, CheckTarget, InsertPhone,
           DeletePhone, ApiRestarts
<1>p. ASSUME WatchNext PROVE PollOK'
    <2>1. CASE BeginPoll
        BY <2>1, IdleTyped DEF BeginPoll, PollOK, RowsOK, Idle, Polls, PollPcs
    <2>2. CASE FirstListing
        <3>1. Listing \in [Handsets -> Statuses] /\ EmptyListing \in [Handsets -> Statuses]
            BY ListingIsTyped DEF Listing, EmptyListing, Statuses
        <3>2. \A seen : Dial(seen) \subseteq Tcp
            BY DEF Dial
        <3>3. PICK seen \in {Listing, EmptyListing} :
                  poll' = [poll EXCEPT !.pc = "connect", !.seen = seen, !.dial = Dial(seen)]
            BY <2>2 DEF FirstListing
        <3>4. seen \in [Handsets -> Statuses] /\ Dial(seen) \in SUBSET Tcp
            BY <3>1, <3>2
        <3>5. poll' \in Polls
            BY <3>3, <3>4 DEF PollOK, Polls, PollPcs
        <3> QED  BY <3>3, <3>5 DEF PollOK, Polls
    <2>3. CASE ConnectOne
        BY <2>3 DEF ConnectOne, PollOK, Polls
    <2>4. CASE SecondListing
        <3>1. Listing \in [Handsets -> Statuses] /\ EmptyListing \in [Handsets -> Statuses]
            BY ListingIsTyped DEF Listing, EmptyListing, Statuses
        <3>2. PICK seen \in {Listing, EmptyListing} :
                  poll' = [poll EXCEPT !.pc = "reconcile", !.seen = seen, !.todo = Polled,
                                       !.flawed = (faults' # faults)]
            BY <2>4 DEF SecondListing
        <3>3. seen \in [Handsets -> Statuses] /\ Polled \in SUBSET PhoneRows
            BY <3>1 DEF Polled
        <3>4. poll' \in Polls
            BY <3>2, <3>3 DEF PollOK, Polls, PollPcs
        <3> QED  BY <3>2, <3>4 DEF PollOK, Polls, Polled
    <2>5. ASSUME NEW r \in PhoneRows, ReconcilePhone(r) PROVE PollOK'
        BY <2>5 DEF ReconcilePhone, PollOK, Polls, PollPcs
    <2>6. CASE ReadSize
        <3>1. poll.got[poll.row].target \in Handsets
            BY <2>6 DEF ReadSize, PollOK, Polls, PhoneRow
        <3> QED  BY <2>6, <3>1 DEF ReadSize, PollOK, Polls, PollPcs, HandsetsOK
    <2>7. CASE WriteDisplay
        BY <2>7 DEF WriteDisplay, PollOK, Polls, PollPcs
    <2>8. CASE EndPoll \/ ApiRestarts
        <3>1. Idle.todo = {} /\ Idle.pc = "idle"
            BY DEF Idle
        <3>2. poll' = Idle
            BY <2>8 DEF EndPoll, ApiRestarts
        <3> QED  BY <3>1, <3>2, IdleTyped DEF PollOK
    <2>9. CASE UNCHANGED poll
        BY <2>9 DEF PollOK
    <2> QED
        BY <1>p, <2>1, <2>2, <2>3, <2>4, <2>5, <2>6, <2>7, <2>8, <2>9 DEF WatchNext, PollStep,
           CheckTarget, InsertPhone, DeletePhone, Relink, AdbRestarts, Resize
<1>r. ASSUME WatchNext PROVE RowsOK'
    <2>1. ASSUME NEW r \in PhoneRows, CheckTarget(r) \/ InsertPhone(r) \/ DeletePhone(r)
          PROVE  RowsOK'
        <3>1. CASE CheckTarget(r)
            BY <3>1 DEF CheckTarget, RowsOK
        <3>2. CASE InsertPhone(r)
            <4>1. [target |-> reg[r].target, state |-> "offline", message |-> "", display |-> NoPhone]
                      \in PhoneRow
                BY <3>2 DEF InsertPhone, RowsOK, PhoneRow
            <4> QED  BY <3>2, <4>1 DEF InsertPhone, RowsOK
        <3>3. CASE DeletePhone(r)
            BY <3>3 DEF DeletePhone, RowsOK
        <3> QED  BY <2>1, <3>1, <3>2, <3>3
    <2>2. ASSUME NEW r \in PhoneRows, ReconcilePhone(r) PROVE RowsOK'
        <3> DEFINE status == poll.seen[poll.got[r].target]
        <3>1. status \in Statuses
            BY <2>2 DEF ReconcilePhone, PollOK, Polls, PhoneRow
        <3>2. \/ phone' = phone
              \/ /\ phone[r] # NoPhone
                 /\ phone' = [phone EXCEPT ![r].state = WantState(status),
                                           ![r].message = Message(status)]
            BY <2>2 DEF ReconcilePhone
        <3>3. ASSUME phone[r] # NoPhone
              PROVE  [phone[r] EXCEPT !.state = WantState(status), !.message = Message(status)] \in PhoneRow
            BY <3>1, <3>3, MessageTyped DEF RowsOK, PhoneRow
        <3>4. phone' \in [PhoneRows -> PhoneRow \cup {NoPhone}]
            BY <3>2, <3>3 DEF RowsOK
        <3> QED  BY <2>2, <3>4 DEF ReconcilePhone, RowsOK
    <2>3. CASE WriteDisplay
        <3>1. ASSUME phone[poll.row] # NoPhone
              PROVE  [phone[poll.row] EXCEPT !.display = poll.size] \in PhoneRow
            <4>1. phone[poll.row] \in PhoneRow /\ poll.size \in Sizes
                BY <2>3, <3>1 DEF WriteDisplay, PollOK, RowsOK
            <4> QED  BY <4>1 DEF PhoneRow
        <3>2. phone' \in [PhoneRows -> PhoneRow \cup {NoPhone}]
            BY <2>3, <3>1 DEF WriteDisplay, PollOK, RowsOK
        <3> QED  BY <2>3, <3>2 DEF WriteDisplay, RowsOK
    <2>4. CASE ApiRestarts
        BY <2>4 DEF ApiRestarts, RowsOK
    <2>5. CASE UNCHANGED <<phone, reg>>
        BY <2>5 DEF RowsOK
    <2> QED
        BY <1>r, <2>1, <2>2, <2>3, <2>4, <2>5 DEF WatchNext, PollStep, BeginPoll, FirstListing,
           ConnectOne, SecondListing, ReadSize, EndPoll, Relink, AdbRestarts, Resize
<1>c. ASSUME WatchNext, HandsetsOK' PROVE CountsOK'
    <2> USE WatchAssumption
    <2>1. \A h \in Handsets : ListedAs(h, link'[h], transport'[h]) \in Statuses
        BY <1>c, ListedIsStatus DEF HandsetsOK
    <2>2. Noted => since' \in [Handsets -> SUBSET Statuses]
        BY <2>1 DEF Noted, CountsOK
    <2>3. CASE BeginPoll
        BY <2>3, ListingIsTyped DEF BeginPoll, CountsOK
    <2>4. CASE FirstListing \/ SecondListing
        BY <2>4 DEF FirstListing, SecondListing, adbDevices, Fails, CountsOK
    <2>5. CASE ConnectOne
        BY <2>2, <2>5 DEF ConnectOne, Fails, CountsOK
    <2>6. CASE ReadSize \/ WriteDisplay \/ EndPoll
        BY <2>6 DEF ReadSize, WriteDisplay, EndPoll, Fails, CountsOK, PollOK
    <2>7. ASSUME NEW r \in PhoneRows,
                 ReconcilePhone(r) \/ CheckTarget(r) \/ InsertPhone(r) \/ DeletePhone(r)
          PROVE  CountsOK'
        <3>1. CASE ReconcilePhone(r)
            <4>1. UNCHANGED <<since, changes>> /\ (UNCHANGED faults \/ Fails)
                BY <3>1 DEF ReconcilePhone
            <4>2. excused' \subseteq excused
                BY <3>1 DEF ReconcilePhone
            <4> QED  BY <4>1, <4>2 DEF Fails, CountsOK
        <3>2. CASE CheckTarget(r) \/ InsertPhone(r) \/ DeletePhone(r)
            BY <3>2 DEF CheckTarget, InsertPhone, DeletePhone, CountsOK
        <3> QED  BY <2>7, <3>1, <3>2
    <2>8. CASE (\E h \in Handsets, l \in Links : Relink(h, l)) \/ AdbRestarts
        BY <2>2, <2>8 DEF Relink, AdbRestarts, Change, CountsOK
    <2>9. CASE (\E h \in Handsets, s \in Sizes : Resize(h, s)) \/ ApiRestarts
        BY <2>9 DEF Resize, ApiRestarts, Change, Registered, CountsOK, PollOK, Polls
    <2> QED
        BY <1>c, <2>3, <2>4, <2>5, <2>6, <2>7, <2>8, <2>9 DEF WatchNext, PollStep
<1> QED  BY <1>s, <1>h, <1>p, <1>r, <1>c

\* The type invariant of rows, registrations and the poller.
THEOREM WatchTypeCorrect == WatchSpec => []WatchTypeOK
<1>1. WatchTypes => WatchTypeOK
    BY DEF WatchTypes, HandsetsOK, PollOK, RowsOK, CountsOK, Polls, WatchTypeOK
<1> QED  BY <1>1, WatchTypesInit, WatchTypesStep, PTL DEF WatchSpec

-----------------------------------------------------------------------------
(* What a poll writes.                                                     *)

\* A row id is inserted once, so a row the poll read is still that handset's
TargetInv ==
    \A r \in PhoneRows :
        /\ phone[r] # NoPhone \/ poll.got[r] # NoPhone => reg[r].pc = "done"
        /\ phone[r] # NoPhone /\ poll.got[r] # NoPhone => phone[r].target = poll.got[r].target

\* Every listing a poll still goes by was made while it ran
SeenInv ==
    /\ \A h \in Handsets : Listed(h) \in since[h]
    /\ poll.pc \in {"reconcile", "size", "display"} =>
        \A h \in Handsets : \/ poll.seen[h] \in since[h]
                            \/ poll.flawed /\ poll.seen[h] = "unknown"

WatchInv == WatchTypes /\ TargetInv /\ SeenInv

LEMMA WatchInvInit == WatchInit => WatchInv
BY WatchTypesInit DEF WatchInit, WatchInv, TargetInv, SeenInv, Idle

\* UpdateInstanceDisplay leaves the other columns alone.
LEMMA DisplayOnly ==
    ASSUME WatchTypes, WriteDisplay, NEW r \in PhoneRows
    PROVE  /\ phone[r] = NoPhone => phone'[r] = NoPhone
           /\ phone[r] # NoPhone => /\ phone'[r].target = phone[r].target
                                    /\ phone'[r].state = phone[r].state
                                    /\ phone'[r].message = phone[r].message
<1> USE DEF WatchTypes
<1> DEFINE q == poll.row
<1>1. \/ phone' = phone
      \/ phone[q] # NoPhone /\ \E a : phone' = [phone EXCEPT ![q].display = a]
    BY DEF WriteDisplay
<1>2. ASSUME phone[q] # NoPhone, NEW a
      PROVE  LET row == [phone[q] EXCEPT !.display = a]
             IN  row.target = phone[q].target /\ row.state = phone[q].state
                                             /\ row.message = phone[q].message
    <2>1. phone[q] \in PhoneRow
        BY <1>2 DEF WriteDisplay, PollOK, RowsOK
    <2> QED  BY <2>1 DEF PhoneRow
<1>3. ASSUME NEW a, phone' = [phone EXCEPT ![q].display = a], r # q
      PROVE  phone'[r] = phone[r]
    BY <1>3 DEF RowsOK
<1>4. ASSUME NEW a, phone' = [phone EXCEPT ![q].display = a], r = q
      PROVE  phone'[r] = [phone[q] EXCEPT !.display = a]
    BY <1>4 DEF RowsOK
<1>5. CASE phone' = phone
    BY <1>5
<1>6. CASE phone' # phone
    <2>1. PICK a : phone' = [phone EXCEPT ![q].display = a]
        BY <1>1, <1>6
    <2>2. phone[q] # NoPhone
        BY <1>1, <1>6
    <2>3. CASE r = q
        BY <1>2, <1>4, <2>1, <2>2, <2>3
    <2>4. CASE r # q
        BY <1>3, <2>1, <2>4
    <2> QED  BY <2>3, <2>4
<1> QED  BY <1>5, <1>6

LEMMA TargetStep == WatchTypes /\ TargetInv /\ [WatchNext]_watchVars => TargetInv'
<1> SUFFICES ASSUME WatchTypes, TargetInv, [WatchNext]_watchVars PROVE TargetInv'
    OBVIOUS
<1> USE DEF WatchTypes
<1>1. CASE BeginPoll
    <2>1. poll'.got = phone /\ UNCHANGED <<phone, reg>>
        BY <1>1 DEF BeginPoll, Idle
    <2> QED  BY <2>1 DEF TargetInv
<1>2. CASE EndPoll \/ ApiRestarts
    <2>1. \A r \in PhoneRows : poll'.got[r] = NoPhone
        BY <1>2 DEF EndPoll, ApiRestarts, Idle
    <2>2. UNCHANGED phone /\ \A r \in PhoneRows : reg[r].pc = "done" => reg'[r].pc = "done"
        BY <1>2 DEF EndPoll, ApiRestarts
    <2> QED  BY <2>1, <2>2 DEF TargetInv
<1>3. ASSUME NEW q \in PhoneRows, CheckTarget(q) \/ InsertPhone(q) \/ DeletePhone(q)
      PROVE  TargetInv'
    BY <1>3 DEF CheckTarget, InsertPhone, DeletePhone, TargetInv, RowsOK
<1>4. ASSUME NEW q \in PhoneRows, ReconcilePhone(q) PROVE TargetInv'
    <2>1. poll'.got = poll.got /\ UNCHANGED reg
        BY <1>4 DEF ReconcilePhone, PollOK, Polls
    <2>2. \A r \in PhoneRows : /\ phone[r] = NoPhone => phone'[r] = NoPhone
                               /\ phone[r] # NoPhone => phone'[r].target = phone[r].target
        <3>1. \/ phone' = phone
              \/ /\ phone[q] # NoPhone
                 /\ \E a, b : phone' = [phone EXCEPT ![q].state = a, ![q].message = b]
            BY <1>4 DEF ReconcilePhone
        <3>2. ASSUME phone[q] # NoPhone, NEW a, NEW b
              PROVE  [phone[q] EXCEPT !.state = a, !.message = b].target = phone[q].target
            BY <3>2 DEF RowsOK, PhoneRow
        <3>3. ASSUME NEW r \in PhoneRows, NEW a, NEW b, phone[q] # NoPhone,
                     phone' = [phone EXCEPT ![q].state = a, ![q].message = b]
              PROVE  /\ r # q => phone'[r] = phone[r]
                     /\ r = q => phone'[r].target = phone[r].target
            BY <3>2, <3>3 DEF RowsOK
        <3>4. CASE phone' = phone
            BY <3>4
        <3>5. CASE phone' # phone
            <4>1. PICK a, b : phone' = [phone EXCEPT ![q].state = a, ![q].message = b]
                BY <3>1, <3>5
            <4> QED  BY <3>1, <3>3, <3>5, <4>1
        <3> QED  BY <3>4, <3>5
    <2> QED  BY <2>1, <2>2 DEF TargetInv
<1>5. CASE WriteDisplay
    <2>1. poll'.got = poll.got /\ UNCHANGED reg
        BY <1>5 DEF WriteDisplay, PollOK, Polls
    <2>2. \A r \in PhoneRows : /\ phone[r] = NoPhone => phone'[r] = NoPhone
                               /\ phone[r] # NoPhone => phone'[r].target = phone[r].target
        BY <1>5, DisplayOnly
    <2> QED  BY <2>1, <2>2 DEF TargetInv
<1>6. CASE UNCHANGED <<phone, reg>> /\ poll'.got = poll.got
    BY <1>6 DEF TargetInv
<1>7. CASE FirstListing \/ ConnectOne \/ SecondListing \/ ReadSize
    <2>1. UNCHANGED <<phone, reg>> /\ poll'.got = poll.got
        BY <1>7 DEF FirstListing, ConnectOne, SecondListing, ReadSize, PollOK, Polls
    <2> QED  BY <1>6, <2>1
<1>8. CASE UNCHANGED <<phone, reg, poll>>
    BY <1>6, <1>8
<1> QED
    BY <1>1, <1>2, <1>3, <1>4, <1>5, <1>7, <1>8 DEF WatchNext, PollStep, Relink, AdbRestarts, Resize,
       watchVars

\* since only grows, until the next poll begins
LEMMA SeenStep == WatchTypes /\ SeenInv /\ [WatchNext]_watchVars => SeenInv'
<1> SUFFICES ASSUME WatchTypes, SeenInv, [WatchNext]_watchVars PROVE SeenInv'
    OBVIOUS
<1> USE DEF WatchTypes
<1>n. ASSUME Noted
      PROVE  \A h \in Handsets : since[h] \subseteq since'[h] /\ Listed(h)' \in since'[h]
    BY <1>n DEF Noted, Listed
<1>1. CASE BeginPoll
    <2>1. poll'.pc = "list"
        BY <1>1 DEF BeginPoll, Idle
    <2>2. \A h \in Handsets : Listed(h)' \in since'[h]
        BY <1>1 DEF BeginPoll, Listed
    <2> QED  BY <2>1, <2>2 DEF SeenInv
<1>2. CASE FirstListing
    <2>1. poll'.pc = "connect" /\ UNCHANGED <<link, transport, since>>
        BY <1>2 DEF FirstListing, PollOK, Polls
    <2> QED  BY <2>1 DEF SeenInv, Listed
<1>3. CASE ConnectOne
    <2>1. poll'.pc = "connect" /\ Noted
        BY <1>3 DEF ConnectOne, PollOK, Polls
    <2> QED  BY <1>n, <2>1 DEF SeenInv
<1>4. CASE SecondListing
    <2>1. UNCHANGED <<link, transport, since>>
        BY <1>4 DEF SecondListing
    <2>2. PICK seen \in {Listing, EmptyListing} :
              /\ adbDevices(seen)
              /\ poll' = [poll EXCEPT !.pc = "reconcile", !.seen = seen, !.todo = Polled,
                                      !.flawed = (faults' # faults)]
        BY <1>4 DEF SecondListing
    <2>3. poll'.seen = seen /\ poll'.flawed = (faults' # faults)
        BY <2>2 DEF PollOK, Polls
    <2>4. CASE seen = Listing
        BY <2>1, <2>3, <2>4 DEF SeenInv, Listing, Listed
    <2>5. CASE seen # Listing
        <3>1. seen = EmptyListing /\ faults' # faults
            BY <2>2, <2>5 DEF adbDevices, Fails, CountsOK
        <3> QED  BY <2>1, <2>3, <3>1 DEF SeenInv, EmptyListing, Listed
    <2> QED  BY <2>4, <2>5
<1>5. ASSUME poll'.seen = poll.seen, poll'.flawed = poll.flawed,
             UNCHANGED <<link, transport, since>>,
             poll'.pc \in {"reconcile", "size", "display"} =>
                 poll.pc \in {"reconcile", "size", "display"}
      PROVE  SeenInv'
    BY <1>5 DEF SeenInv, Listed
<1>6. ASSUME NEW r \in PhoneRows, ReconcilePhone(r) PROVE SeenInv'
    <2>1. /\ poll'.seen = poll.seen /\ poll'.flawed = poll.flawed
          /\ UNCHANGED <<link, transport, since>> /\ poll.pc = "reconcile"
        BY <1>6 DEF ReconcilePhone, PollOK, Polls
    <2> QED  BY <1>5, <2>1
<1>7. CASE ReadSize \/ WriteDisplay
    <2>1. /\ poll'.seen = poll.seen /\ poll'.flawed = poll.flawed
          /\ UNCHANGED <<link, transport, since>> /\ poll.pc \in {"size", "display"}
        BY <1>7 DEF ReadSize, WriteDisplay, PollOK, Polls
    <2> QED  BY <1>5, <2>1
<1>8. CASE EndPoll \/ ApiRestarts
    <2>1. poll'.pc = "idle" /\ UNCHANGED <<link, transport, since>>
        BY <1>8 DEF EndPoll, ApiRestarts, Idle
    <2> QED  BY <2>1 DEF SeenInv, Listed
<1>9. CASE (\E h \in Handsets, l \in Links : Relink(h, l)) \/ AdbRestarts
    <2>1. Noted /\ UNCHANGED poll
        BY <1>9 DEF Relink, AdbRestarts
    <2> QED  BY <1>n, <2>1 DEF SeenInv
<1>10. CASE UNCHANGED <<poll, link, transport, since>>
    BY <1>5, <1>10
<1> QED
    BY <1>1, <1>2, <1>3, <1>4, <1>6, <1>7, <1>8, <1>9, <1>10 DEF WatchNext, PollStep, CheckTarget,
       InsertPhone, DeletePhone, Resize, watchVars

LEMMA WatchInvStep == WatchInv /\ [WatchNext]_watchVars => WatchInv'
BY WatchTypesStep, TargetStep, SeenStep DEF WatchInv

\* Whatever fails, and however rows, handsets and the adb server change under a
\* poll, the state it writes of a handset is one adb had for it during that poll,
\* or that it is not visible, if the second listing failed.
THEOREM WrittenWasSeen == WatchSpec => WritesWereSeen
<1> DEFINE Written(r) ==
        LET seen(s) == phone'[r].state = WantState(s) /\ phone'[r].message = Message(s)
        IN  \/ phone'[r] = NoPhone
            \/ phone'[r].state = phone[r].state /\ phone'[r].message = phone[r].message
            \/ \E s \in since[phone[r].target] : seen(s)
            \/ poll.flawed /\ seen("unknown")
<1>1. ASSUME WatchInv, [WatchNext]_watchVars
      PROVE  [\A r \in Registered : Written(r)]_watchVars
    <2> USE <1>1 DEF WatchInv, WatchTypes
    <2>1. ASSUME NEW q \in PhoneRows, ReconcilePhone(q), NEW r \in Registered PROVE Written(r)
        <3> DEFINE status == poll.seen[poll.got[q].target]
        <3>1. \/ phone' = phone
              \/ /\ phone[q] # NoPhone
                 /\ phone' = [phone EXCEPT ![q].state = WantState(status),
                                           ![q].message = Message(status)]
            BY <2>1 DEF ReconcilePhone
        <3>2. r \in PhoneRows /\ phone[r] \in PhoneRow
            BY DEF Registered, RowsOK
        <3>3. CASE phone' = phone \/ r # q
            BY <3>1, <3>2, <3>3 DEF RowsOK
        <3>4. CASE phone' # phone /\ r = q
            <4>1. phone'[r].state = WantState(status) /\ phone'[r].message = Message(status)
                BY <3>1, <3>2, <3>4 DEF RowsOK, PhoneRow
            <4>2. /\ poll.got[q] # NoPhone /\ poll.pc = "reconcile"
                BY <2>1 DEF ReconcilePhone, PollOK
            <4>3. phone[r].target = poll.got[q].target /\ phone[r].target \in Handsets
                BY <3>2, <3>4, <4>2 DEF TargetInv, Registered, PhoneRow
            <4>4. status \in since[phone[r].target] \/ (poll.flawed /\ status = "unknown")
                BY <4>2, <4>3 DEF SeenInv
            <4> QED  BY <4>1, <4>4
        <3> QED  BY <3>3, <3>4
    <2>2. CASE WriteDisplay
        <3>1. \A r \in Registered : phone'[r].state = phone[r].state /\ phone'[r].message = phone[r].message
            BY <2>2, DisplayOnly DEF Registered
        <3> QED  BY <3>1
    <2>3. ASSUME NEW q \in PhoneRows, InsertPhone(q) \/ DeletePhone(q) \/ CheckTarget(q),
                 NEW r \in Registered
          PROVE  Written(r)
        <3>1. r \in PhoneRows /\ phone[r] # NoPhone /\ reg[r].pc = "done"
            BY DEF Registered, TargetInv
        <3>2. phone'[r] = NoPhone \/ phone'[r] = phone[r]
            BY <2>3, <3>1 DEF InsertPhone, DeletePhone, CheckTarget, RowsOK
        <3> QED  BY <3>2
    <2>4. CASE UNCHANGED phone
        BY <2>4
    <2> QED
        BY <2>1, <2>2, <2>3, <2>4 DEF WatchNext, PollStep, BeginPoll, FirstListing, ConnectOne,
           SecondListing, ReadSize, EndPoll, Relink, AdbRestarts, Resize, ApiRestarts, watchVars
<1> QED  BY <1>1, WatchInvInit, WatchInvStep, PTL DEF WatchSpec, WritesWereSeen

-----------------------------------------------------------------------------
(* The composition.                                                        *)

\* Composed, the tunnel and the watch are each what they are alone, with the
\* fairness each has alone.
THEOREM ReachImplementsParts == ReachSpec => Spec /\ WatchSpec
<1>1. ReachInit => Init /\ WatchInit
    BY DEF ReachInit
<1>2. [ReachNext]_reachVars => [Next]_vars /\ [WatchNext]_watchVars
    <2> SUFFICES ASSUME [ReachNext]_reachVars PROVE [Next]_vars /\ [WatchNext]_watchVars
        OBVIOUS
    <2>1. CASE ReachNext
        BY <2>1 DEF ReachNext
    <2>2. CASE UNCHANGED reachVars
        BY <2>2 DEF reachVars
    <2> QED  BY <2>1, <2>2
<1> QED  BY <1>1, <1>2, PTL DEF ReachSpec, Spec, WatchSpec

\* The state of the tunnel and of the watch always has its type.
THEOREM ReachTypeCorrect == ReachSpec => []ReachTypeOK
<1>1. TypeOK /\ WatchTypeOK => ReachTypeOK
    BY DEF ReachTypeOK
<1> QED  BY <1>1, ReachImplementsParts, TypeCorrect, WatchTypeCorrect, PTL

\* Whatever the tunnel does meanwhile, the watch writes what it has seen and the
\* sessions answer their own calls.
THEOREM ReachIsSafe ==
    ReachSpec => WritesWereSeen /\ [](SessionAnswersOwn /\ OnlineHasSession)
BY ReachImplementsParts, WrittenWasSeen, SessionsAnswerTheirOwn, OnlineIsBacked, PTL

================================================================================
