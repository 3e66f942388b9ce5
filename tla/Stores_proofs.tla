----------------------------- MODULE Stores_proofs -----------------------------
(***************************************************************************)
(* Proofs about what the appliance keeps for its users: builds and their   *)
(* installation, accounts and sessions, and the images deployments share.  *)
(* The three share no state; each is proved for any number of builds and   *)
(* runs, clients, names and tokens, image rows and deployments, and for    *)
(* any limit, window and duration.                                         *)
(***************************************************************************)
EXTENDS BuildInstall, Access, ImageStore, FiniteSetTheorems, WellFoundedInduction, TLAPS

(* Builds and their installation.                                          *)

\* A run that has begun knows its build
InstallTypes ==
    /\ InstallTypeOK
    /\ \A r \in InstallRuns : progress[r] # "new" => want[r] \in Wants

\* A row gets its path once its file is complete, and a complete file only rots
UploadInv ==
    \A b \in Builds :
        /\ upload[b] = "file" => file[b] = "whole"
        /\ b \in located => upload[b] = "over" /\ file[b] \in {"whole", "rotten"}

\* What the runner fetched, and what it ran
RunnerInv ==
    \A b \in Builds :
        /\ worker[b] \notin {"none", "fetch"} \/ ran[b] # {} => b \in located
        /\ worker[b] # "partial" /\ "partial" \notin ran[b]
        /\ worker[b] = "rotten" \/ "rotten" \in ran[b] => b \notin hashed
        /\ installs[b] = "done" => ran[b] # {}

AnswerInv ==
    \A r \in InstallRuns :
        progress[r] = "ok" /\ want[r].on = "desktop" => ran[want[r].build] # {}

InstallInv == InstallTypes /\ UploadInv /\ RunnerInv /\ AnswerInv

\* The inductive invariant holds before anything has been uploaded by this
\* process, whatever was there already.
LEMMA InstallInvInit == InstallInit => InstallInv
<1> SUFFICES ASSUME InstallInit PROVE InstallInv
    OBVIOUS
<1>1. InstallTypes
    BY InstallAssumption DEF InstallInit, InstallTypes, InstallTypeOK
<1>2. UploadInv /\ RunnerInv /\ AnswerInv
    BY DEF InstallInit, UploadInv, RunnerInv, AnswerInv
<1> QED  BY <1>1, <1>2 DEF InstallInv

\* Every step keeps the state within its type.
LEMMA InstallTypeStep == InstallTypes /\ [InstallNext]_installVars => InstallTypes'
<1> SUFFICES ASSUME InstallTypes, [InstallNext]_installVars PROVE InstallTypes'
    OBVIOUS
<1> USE InstallAssumption DEF InstallTypes, InstallTypeOK
<1>0. CASE UNCHANGED installVars
    BY <1>0 DEF installVars
<1>1. ASSUME NEW b \in Builds, CreateBuild(b) \/ UploadFails(b) \/ Stream(b) \/ SetBuildLocation(b)
      PROVE  InstallTypes'
    BY <1>1 DEF CreateBuild, UploadFails, Stream, SetBuildLocation, Trouble
<1>2. ASSUME NEW r \in InstallRuns,
             \/ BeginInstall(r) \/ InstallAPK(r) \/ install_app(r) \/ install_status(r) \/ GiveUp(r)
      PROVE  InstallTypes'
    <2>1. CASE BeginInstall(r)
        BY <2>1 DEF BeginInstall
    <2>2. CASE InstallAPK(r) \/ install_status(r) \/ GiveUp(r)
        BY <2>2 DEF InstallAPK, install_status, GiveUp, Trouble
    <2>3. CASE install_app(r)
        BY <2>3 DEF install_app, Wants
    <2> QED  BY <1>2, <2>1, <2>2, <2>3
<1>3. ASSUME NEW b \in Builds, fetchBuild(b) \/ RunInstaller(b) \/ Rots(b)
      PROVE  InstallTypes'
    BY <1>3 DEF fetchBuild, RunInstaller, Rots, Trouble, Served
<1>4. CASE RunnerRestarts \/ ApplianceRestarts
    BY <1>4 DEF RunnerRestarts, ApplianceRestarts, Trouble
<1> QED  BY <1>0, <1>1, <1>2, <1>3, <1>4 DEF InstallNext

\* ... and the invariant with it. The upload touches only builds nobody has
\* fetched, the runner fetches only what has a path.
LEMMA InstallInvStep == InstallInv /\ [InstallNext]_installVars => InstallInv'
<1> SUFFICES ASSUME InstallInv, [InstallNext]_installVars PROVE InstallInv'
    OBVIOUS
<1>t. InstallTypes'
    BY InstallTypeStep DEF InstallInv
<1> USE DEF InstallInv, InstallTypes, InstallTypeOK
<1>0. CASE UNCHANGED installVars
    BY <1>0, <1>t DEF installVars, UploadInv, RunnerInv, AnswerInv
<1>1. ASSUME NEW b \in Builds, CreateBuild(b) \/ UploadFails(b) \/ Stream(b) \/ SetBuildLocation(b)
      PROVE  InstallInv'
    <2>1. UploadInv'
        BY <1>1 DEF CreateBuild, UploadFails, Stream, SetBuildLocation, UploadInv
    <2>2. RunnerInv' /\ AnswerInv'
        BY <1>1 DEF CreateBuild, UploadFails, Stream, SetBuildLocation, UploadInv, RunnerInv, AnswerInv
    <2> QED  BY <1>t, <2>1, <2>2
<1>2. ASSUME NEW r \in InstallRuns,
             \/ BeginInstall(r) \/ InstallAPK(r) \/ install_app(r) \/ install_status(r) \/ GiveUp(r)
      PROVE  InstallInv'
    <2>1. UploadInv'
        BY <1>2 DEF BeginInstall, InstallAPK, install_app, install_status, GiveUp, UploadInv
    <2>2. RunnerInv'
        BY <1>2 DEF BeginInstall, InstallAPK, install_app, install_status, GiveUp, RunnerInv
    <2>3. AnswerInv'
        BY <1>2 DEF BeginInstall, InstallAPK, install_app, install_status, GiveUp, AnswerInv,
           RunnerInv, Wants
    <2> QED  BY <1>t, <2>1, <2>2, <2>3
<1>3. ASSUME NEW b \in Builds, fetchBuild(b) \/ RunInstaller(b) \/ Rots(b)
      PROVE  InstallInv'
    <2>1. UploadInv'
        BY <1>3 DEF fetchBuild, RunInstaller, Rots, UploadInv
    <2>2. RunnerInv'
        BY <1>3 DEF fetchBuild, RunInstaller, Rots, Served, Matches, UploadInv, RunnerInv
    <2>3. AnswerInv'
        BY <1>3 DEF fetchBuild, RunInstaller, Rots, AnswerInv, Wants
    <2> QED  BY <1>t, <2>1, <2>2, <2>3
<1>4. CASE RunnerRestarts
    <2>1. UploadInv' /\ AnswerInv'
        BY <1>4 DEF RunnerRestarts, UploadInv, AnswerInv
    <2>2. RunnerInv'
        BY <1>4 DEF RunnerRestarts, RunnerInv
    <2> QED  BY <1>t, <2>1, <2>2
<1>5. CASE ApplianceRestarts
    <2>1. UploadInv'
        BY <1>5 DEF ApplianceRestarts, UploadInv
    <2>2. RunnerInv'
        BY <1>5 DEF ApplianceRestarts, RunnerInv
    <2>3. AnswerInv'
        BY <1>5 DEF ApplianceRestarts, AnswerInv
    <2> QED  BY <1>t, <2>1, <2>2, <2>3
<1> QED  BY <1>0, <1>1, <1>2, <1>3, <1>4, <1>5 DEF InstallNext

\* The type invariant of uploads, runners and cycle runs.
THEOREM InstallTypeCorrect == InstallSpec => []InstallTypeOK
<1>1. InstallInv => InstallTypeOK
    BY DEF InstallInv, InstallTypes
<1> QED  BY <1>1, InstallInvInit, InstallInvStep, PTL DEF InstallSpec

\* However uploads, cycles, the runner and restarts interleave, a cycle that
\* goes on past its installation finds a build that an installer accepted, and
\* no installer was given a broken-off upload or an artifact that does not match
\* the checksum of its row.
THEOREM InstallsVerified == InstallSpec => []InstallsAreVerified
<1>1. InstallInv => InstallsAreVerified
    BY DEF InstallInv, RunnerInv, AnswerInv, InstallsAreVerified
<1> QED  BY <1>1, InstallInvInit, InstallInvStep, PTL DEF InstallSpec

-----------------------------------------------------------------------------
(* Accounts, sessions and the limiter.                                     *)

\* A session belongs to an account and was not closed; a token is given once.
SessionInv ==
    /\ \A t \in sessions : owner[t] \in users /\ t \notin ended
    /\ \A t \in ended : owner[t] # NoOne
    /\ SessionsEnd /\ ServiceTokenServes

\* The attempts let through in the window that begins at a tick
Admitted(k, begin) == {i \in DOMAIN admitted[k] : admitted[k][i] \in begin..(begin + Window - 1)}

\* The limiter has kept every admitted attempt that is younger than a window.
\* Without that, counting the kept ones would say nothing of the admitted ones.
LimiterInv ==
    \A k \in LimiterKeys :
        /\ \A i \in DOMAIN admitted[k] : /\ admitted[k][i] <= clock
                                         /\ admitted[k][i] + Window > clock => i \in attempts[k]
        /\ \A begin \in Nat : Cardinality(Admitted(k, begin)) <= Limit

AccessInv == AccessTypeOK /\ SessionInv /\ LimiterInv

\* There are finitely many attempts, kept or admitted.
LEMMA AttemptsFinite ==
    ASSUME AccessTypeOK, NEW k \in LimiterKeys
    PROVE  /\ IsFiniteSet(DOMAIN admitted[k]) /\ IsFiniteSet(attempts[k])
           /\ admitted[k] \in Seq(0..MaxTime) /\ DOMAIN admitted[k] = 1..Len(admitted[k])
<1>1. admitted[k] \in Seq(0..MaxTime)
  BY DEF AccessTypeOK
<1>2. DOMAIN admitted[k] = 1..Len(admitted[k]) /\ Len(admitted[k]) \in Int
  BY <1>1
<1>3. IsFiniteSet(DOMAIN admitted[k])
  BY <1>2, FS_Interval
<1> QED
  BY <1>1, <1>2, <1>3, FS_Subset DEF AccessTypeOK

LEMMA ElementOf ==
    ASSUME NEW S, NEW s \in Seq(S)
    PROVE  \A i \in DOMAIN s : s[i] \in S
OBVIOUS

LEMMA AccessInvInit == AccessInit => AccessInv
<1> SUFFICES ASSUME AccessInit PROVE AccessInv
    OBVIOUS
<1>1. AccessTypeOK
  <2>1. <<>> \in Seq(0..MaxTime) /\ 0 \in 0..MaxTime /\ 0 \in 0..MaxRestarts
    BY AccessAssumption
  <2> QED
    BY <2>1 DEF AccessInit, AccessTypeOK, NobodyIn, Guards
<1>2. SessionInv
  BY AccessAssumption DEF AccessInit, SessionInv, SessionsEnd, ServiceTokenServes, NobodyIn
<1>3. LimiterInv
  <2> SUFFICES ASSUME NEW k \in LimiterKeys
               PROVE  /\ DOMAIN admitted[k] = {}
                      /\ \A begin \in Nat : Cardinality(Admitted(k, begin)) <= Limit
    BY DEF LimiterInv
  <2>1. DOMAIN admitted[k] = {}
    BY DEF AccessInit
  <2>2. \A begin \in Nat : Admitted(k, begin) = {}
    BY <2>1 DEF Admitted
  <2> QED
    BY <2>1, <2>2, FS_EmptySet, AccessAssumption
<1> QED
  BY <1>1, <1>2, <1>3 DEF AccessInv

\* allow is the heart of it: an attempt that opens a window of its own or falls
\* into one that has room.
LEMMA AllowStep ==
    ASSUME AccessTypeOK, LimiterInv, NEW key \in LimiterKeys, NEW yes \in BOOLEAN,
           allow(key, yes), UNCHANGED clock
    PROVE  /\ LimiterInv'
           /\ admitted' \in [LimiterKeys -> Seq(0..MaxTime)] /\ attempts' \in [LimiterKeys -> SUBSET Nat]
           /\ \A k \in LimiterKeys : attempts'[k] \subseteq DOMAIN admitted'[k]
<1> DEFINE old == admitted[key]
           kept == Recent(key)
           next == Len(old) + 1
<1>0. /\ admitted \in [LimiterKeys -> Seq(0..MaxTime)] /\ attempts \in [LimiterKeys -> SUBSET Nat]
      /\ clock \in Nat /\ clock \in 0..MaxTime /\ Window \in Nat \ {0} /\ Limit \in Nat \ {0}
  BY AccessAssumption DEF AccessTypeOK
<1>1. /\ old \in Seq(0..MaxTime) /\ DOMAIN old = 1..Len(old) /\ IsFiniteSet(DOMAIN old)
      /\ Len(old) \in Nat /\ IsFiniteSet(attempts[key]) /\ attempts[key] \subseteq DOMAIN old
  BY <1>0, AttemptsFinite DEF AccessTypeOK
<1>2. /\ kept \subseteq attempts[key]
      /\ \A i \in DOMAIN old : old[i] + Window > clock => i \in kept
  BY DEF Recent, LimiterInv
<1>3. IsFiniteSet(kept) /\ Cardinality(kept) \in Nat
  BY <1>1, <1>2, FS_Subset, FS_CardinalityType
<1>4. /\ yes = (Cardinality(kept) < Limit)
      /\ admitted' = [admitted EXCEPT ![key] = IF yes THEN Append(old, clock) ELSE old]
      /\ attempts' = [attempts EXCEPT ![key] = kept \cup IF yes THEN {next} ELSE {}]
  BY DEF allow, Admit
<1>5. \A k \in LimiterKeys \ {key} : admitted'[k] = admitted[k] /\ attempts'[k] = attempts[k]
  BY <1>4, <1>0
<1>6. /\ admitted'[key] = IF yes THEN Append(old, clock) ELSE old
      /\ attempts'[key] = kept \cup IF yes THEN {next} ELSE {}
  BY <1>4, <1>0
<1>7. /\ Append(old, clock) \in Seq(0..MaxTime)
      /\ DOMAIN Append(old, clock) = DOMAIN old \cup {next} /\ next \notin DOMAIN old
      /\ Append(old, clock)[next] = clock
      /\ \A i \in DOMAIN old : Append(old, clock)[i] = old[i]
  BY <1>0, <1>1
<1>8. \A i \in DOMAIN old : old[i] \in Nat /\ old[i] <= clock
  <2>1. \A i \in DOMAIN old : old[i] \in 0..MaxTime
    BY <1>1, ElementOf
  <2>2. \A i \in DOMAIN old : old[i] <= clock
    BY DEF LimiterInv
  <2> HIDE DEF old
  <2> QED
    BY <2>1, <2>2
<1> HIDE DEF old, kept, next
<1>9. /\ \A i \in DOMAIN admitted'[key] :
             /\ admitted'[key][i] <= clock
             /\ admitted'[key][i] + Window > clock => i \in attempts'[key]
  BY <1>0, <1>2, <1>6, <1>7, <1>8
<1>10. ASSUME NEW begin \in Nat PROVE Cardinality(Admitted(key, begin)') <= Limit
  <2> DEFINE before == Admitted(key, begin)
  <2>1. before = {i \in DOMAIN old : old[i] \in begin..(begin + Window - 1)} /\ Cardinality(before) <= Limit
    BY DEF Admitted, old, LimiterInv
  <2>2. Admitted(key, begin)' = {i \in DOMAIN admitted'[key] : admitted'[key][i] \in begin..(begin + Window - 1)}
    BY DEF Admitted
  <2> HIDE DEF before
  <2>3. IsFiniteSet(before) /\ Cardinality(before) \in Nat
    BY <1>1, <2>1, FS_Subset, FS_CardinalityType
  <2>4. CASE ~yes
    BY <2>1, <2>2, <2>4, <1>6
  <2>5. CASE yes /\ clock \notin begin..(begin + Window - 1)
    <3>1. Admitted(key, begin)' = before
      BY <2>1, <2>2, <2>5, <1>6, <1>7
    <3> QED
      BY <2>1, <3>1
  <2>6. CASE yes /\ clock \in begin..(begin + Window - 1)
    <3>1. Admitted(key, begin)' = before \cup {next}
      BY <2>1, <2>2, <2>6, <1>6, <1>7
    <3>2. before \subseteq kept
      BY <2>1, <2>6, <1>0, <1>2, <1>8
    <3>3. Cardinality(before) <= Cardinality(kept)
      BY <3>2, <1>3, FS_Subset
    <3>4. Cardinality(before) + 1 <= Limit
      <4>1. Cardinality(kept) < Limit
        BY <2>6, <1>4
      <4> QED
        BY <4>1, <3>3, <2>3, <1>0, <1>3
    <3>5. next \notin before
      BY <2>1, <1>7
    <3>6. Cardinality(before \cup {next}) = Cardinality(before) + 1
      BY <2>3, <3>5, FS_AddElement
    <3> QED
      BY <3>1, <3>4, <3>6
  <2> QED
    BY <2>4, <2>5, <2>6
<1>11. LimiterInv'
  <2> SUFFICES ASSUME NEW k \in LimiterKeys
               PROVE  /\ \A i \in DOMAIN admitted'[k] :
                            /\ admitted'[k][i] <= clock
                            /\ admitted'[k][i] + Window > clock => i \in attempts'[k]
                      /\ \A begin \in Nat : Cardinality(Admitted(k, begin)') <= Limit
    BY DEF LimiterInv
  <2>1. CASE k = key
    BY <2>1, <1>9, <1>10
  <2>2. CASE k # key
    <3>1. \A begin \in Nat : Admitted(k, begin)' = Admitted(k, begin)
      BY <2>2, <1>5 DEF Admitted
    <3> QED
      BY <3>1, <2>2, <1>5 DEF LimiterInv
  <2> QED
    BY <2>1, <2>2
<1>12. admitted' \in [LimiterKeys -> Seq(0..MaxTime)]
  <2>1. old \in Seq(0..MaxTime) /\ Append(old, clock) \in Seq(0..MaxTime)
    BY <1>1, <1>7
  <2> QED
    BY <2>1, <1>0, <1>4
<1>13. /\ attempts' \in [LimiterKeys -> SUBSET Nat]
       /\ \A k \in LimiterKeys : attempts'[k] \subseteq DOMAIN admitted'[k]
  <2>1. kept \subseteq DOMAIN old /\ DOMAIN old \subseteq Nat /\ next \in Nat
    BY <1>1, <1>2 DEF next
  <2>2. attempts' \in [LimiterKeys -> SUBSET Nat]
    BY <2>1, <1>0, <1>4
  <2>3. attempts'[key] \subseteq DOMAIN admitted'[key]
    BY <2>1, <1>6, <1>7
  <2> QED
    BY <2>2, <2>3, <1>5 DEF AccessTypeOK
<1> QED
  BY <1>11, <1>12, <1>13

\* A step that lets no attempt through.
LEMMA LimiterKept ==
    ASSUME AccessTypeOK, LimiterInv, UNCHANGED <<attempts, admitted>>, clock' \in Nat, clock' >= clock
    PROVE  LimiterInv'
<1> SUFFICES ASSUME NEW k \in LimiterKeys
             PROVE  /\ \A i \in DOMAIN admitted[k] :
                          /\ admitted[k][i] <= clock'
                          /\ admitted[k][i] + Window > clock' => i \in attempts[k]
                    /\ \A begin \in Nat : Cardinality(Admitted(k, begin)') <= Limit
  BY DEF LimiterInv
<1>1. admitted[k] \in Seq(0..MaxTime) /\ clock \in Nat /\ Window \in Nat /\ MaxTime \in Nat
  BY AccessAssumption DEF AccessTypeOK
<1>2. \A i \in DOMAIN admitted[k] : admitted[k][i] \in 0..MaxTime
  BY <1>1, ElementOf
<1>3. \A i \in DOMAIN admitted[k] : /\ admitted[k][i] \in Nat /\ admitted[k][i] <= clock
                                    /\ admitted[k][i] + Window > clock => i \in attempts[k]
  BY <1>2 DEF LimiterInv
<1>4. \A begin \in Nat : Admitted(k, begin)' = Admitted(k, begin)
  BY DEF Admitted
<1> QED
  BY <1>1, <1>3, <1>4 DEF LimiterInv

\* A step that closes no session keeps what the last request was let in on.
LEMMA SessionsKept ==
    ASSUME AccessTypeOK, SessionInv, users \subseteq users', UNCHANGED <<owner, born, ended>>,
           UNCHANGED <<mcpToken, letIn>> \/ letIn' = NobodyIn,
           sessions' \subseteq sessions, clock' \in Nat, clock' >= clock,
           \A t \in sessions \ sessions' : clock' >= born[t] + Duration
    PROVE  SessionInv'
<1>1. clock \in Nat /\ Duration \in Nat /\ \A t \in Tokens : born[t] \in Nat
  BY AccessAssumption DEF AccessTypeOK
<1>2. /\ \A t \in sessions' : owner'[t] \in users' /\ t \notin ended'
      /\ \A t \in ended' : owner'[t] # NoOne
  BY DEF SessionInv
<1>3. CASE UNCHANGED <<mcpToken, letIn>>
  <2>1. SessionsEnd'
    BY <1>1, <1>3 DEF SessionInv, SessionsEnd, AccessTypeOK
  <2> QED
    BY <1>2, <1>3, <2>1 DEF SessionInv, ServiceTokenServes
<1>4. CASE letIn' = NobodyIn
  BY <1>2, <1>4, AccessAssumption DEF SessionInv, SessionsEnd, ServiceTokenServes, NobodyIn
<1> QED
  BY <1>3, <1>4

LEMMA AccessInvStep == AccessInv /\ [AccessNext]_accessVars => AccessInv'
<1> SUFFICES ASSUME AccessInv, [AccessNext]_accessVars PROVE AccessInv'
    OBVIOUS
<1> USE DEF AccessInv
<1>0. /\ clock \in Nat /\ clock \in 0..MaxTime /\ Duration \in Nat /\ MaxTime \in Nat
      /\ NoOne \notin Names /\ NoOne \notin Tokens
      /\ users \subseteq Names /\ sessions \subseteq Tokens /\ ended \subseteq Tokens
      /\ owner \in [Tokens -> Names \cup {NoOne}] /\ born \in [Tokens -> 0..MaxTime]
      /\ letIn \in [guard : Guards, token : Tokens \cup ServiceTokens \cup {NoOne}, at : 0..MaxTime]
      /\ mcpToken \in ServiceTokens \cup {NoOne} /\ Tokens \cap ServiceTokens = {}
      /\ NoOne \notin ServiceTokens
  BY AccessAssumption DEF AccessTypeOK
<1>1. ASSUME NEW c \in Clients, Bootstrap(c) PROVE AccessInv'
  <2>1. PICK yes \in BOOLEAN, valid \in BOOLEAN, name \in Names :
           /\ allow(<<"bootstrap", c>>, yes)
           /\ claim' = IF yes /\ valid THEN [claim EXCEPT ![c] = name] ELSE claim
    BY <1>1 DEF Bootstrap
  <2>2. UNCHANGED <<clock, users, sessions, owner, born, ended, cookie, mcpToken, letIn, restarts>>
    BY <1>1 DEF Bootstrap
  <2>3. <<"bootstrap", c>> \in LimiterKeys
    BY DEF LimiterKeys
  <2>4. /\ LimiterInv'
        /\ admitted' \in [LimiterKeys -> Seq(0..MaxTime)] /\ attempts' \in [LimiterKeys -> SUBSET Nat]
        /\ \A k \in LimiterKeys : attempts'[k] \subseteq DOMAIN admitted'[k]
    BY <2>1, <2>2, <2>3, AllowStep
  <2>5. claim' \in [Clients -> Names \cup {NoOne}]
    BY <2>1 DEF AccessTypeOK
  <2>6. AccessTypeOK'
    BY <2>2, <2>4, <2>5 DEF AccessTypeOK
  <2>7. SessionInv'
    BY <2>2, <1>0, SessionsKept
  <2> QED
    BY <2>4, <2>6, <2>7
<1>2. ASSUME NEW c \in Clients, InsertAdmin(c) PROVE AccessInv'
  <2>1. /\ claim[c] \in Names /\ users' = users \cup {claim[c]} /\ claim' = [claim EXCEPT ![c] = NoOne]
        /\ UNCHANGED <<clock, sessions, owner, born, ended, cookie, attempts, admitted, mcpToken, letIn, restarts>>
    BY <1>2 DEF InsertAdmin, CreateUser, AccessTypeOK
  <2>2. AccessTypeOK'
    BY <2>1 DEF AccessTypeOK
  <2>3. SessionInv'
    BY <2>1, <1>0, SessionsKept
  <2>4. LimiterInv'
    BY <2>1, <1>0, LimiterKept
  <2> QED
    BY <2>2, <2>3, <2>4
<1>3. ASSUME NEW c \in Clients, Login(c) PROVE AccessInv'
  <2>1. PICK yes \in BOOLEAN, right \in BOOLEAN, name \in Names :
           /\ allow(<<"login", c>>, yes)
           /\ \/ /\ yes /\ right /\ name \in users
                 /\ \E t \in Tokens : CreateSession(t, name) /\ cookie' = [cookie EXCEPT ![c] = t]
              \/ /\ ~(yes /\ right /\ name \in users)
                 /\ UNCHANGED <<owner, born, sessions, cookie>>
           /\ UNCHANGED <<clock, users, claim, ended, mcpToken, letIn, restarts>>
    BY <1>3 DEF Login
  <2>2. <<"login", c>> \in LimiterKeys
    BY DEF LimiterKeys
  <2>3. /\ LimiterInv'
        /\ admitted' \in [LimiterKeys -> Seq(0..MaxTime)] /\ attempts' \in [LimiterKeys -> SUBSET Nat]
        /\ \A k \in LimiterKeys : attempts'[k] \subseteq DOMAIN admitted'[k]
    BY <2>1, <2>2, AllowStep
  <2>4. CASE UNCHANGED <<owner, born, sessions, cookie>>
    <3>1. AccessTypeOK'
      BY <2>1, <2>3, <2>4 DEF AccessTypeOK
    <3>2. SessionInv'
      BY <2>1, <2>4, <1>0, SessionsKept
    <3> QED
      BY <2>3, <3>1, <3>2
  <2>5. ASSUME name \in users, NEW t \in Tokens, CreateSession(t, name), cookie' = [cookie EXCEPT ![c] = t]
        PROVE  AccessInv'
    <3>1. /\ owner[t] = NoOne /\ owner' = [owner EXCEPT ![t] = name]
          /\ born' = [born EXCEPT ![t] = clock] /\ sessions' = sessions \cup {t}
      BY <2>5 DEF CreateSession
    <3>2. /\ owner' \in [Tokens -> Names \cup {NoOne}] /\ born' \in [Tokens -> 0..MaxTime]
          /\ cookie' \in [Clients -> Tokens \cup {NoOne}]
      BY <2>5, <3>1, <1>0 DEF AccessTypeOK
    <3>3. AccessTypeOK'
      BY <2>1, <2>3, <3>1, <3>2 DEF AccessTypeOK
    <3>4. t \notin ended /\ t \notin sessions /\ (letIn.token \in Tokens => letIn.token # t)
      BY <3>1, <1>0 DEF SessionInv, SessionsEnd
    <3>5. \A u \in Tokens \ {t} : owner'[u] = owner[u] /\ born'[u] = born[u]
      BY <3>1, <1>0
    <3>6. owner'[t] \in users /\ owner'[t] # NoOne /\ clock' = clock /\ users' = users /\ ended' = ended /\ letIn' = letIn
          /\ mcpToken' = mcpToken
      BY <2>1, <2>5, <3>1, <1>0
    <3>7. /\ \A u \in sessions' : owner'[u] \in users' /\ u \notin ended'
          /\ \A u \in ended' : owner'[u] # NoOne
      BY <3>1, <3>4, <3>5, <3>6, <1>0 DEF SessionInv
    <3>8. SessionsEnd'
      <4> SUFFICES ASSUME letIn.token \in Tokens
                   PROVE  /\ owner'[letIn.token] \in users
                          /\ letIn.at < born'[letIn.token] + Duration
                          /\ letIn.token \in sessions' \cup {u \in Tokens : clock >= born'[u] + Duration}
                          /\ letIn.token \notin ended /\ letIn.guard # "serviceTokenOnly"
        BY <3>6 DEF SessionsEnd
      <4>1. letIn.token \in Tokens \ {t}
        BY <3>4, <1>0
      <4>2. owner'[letIn.token] = owner[letIn.token] /\ born'[letIn.token] = born[letIn.token]
        BY <4>1, <3>5
      <4> QED
        BY <4>1, <4>2, <3>1 DEF SessionInv, SessionsEnd
    <3>9. ServiceTokenServes'
      BY <3>6 DEF SessionInv, ServiceTokenServes
    <3> QED
      BY <2>3, <3>3, <3>7, <3>8, <3>9 DEF SessionInv
  <2> QED
    BY <2>1, <2>4, <2>5
<1>4. ASSUME NEW c \in Clients, Request(c) PROVE AccessInv'
  <2>1. UNCHANGED <<clock, users, claim, sessions, owner, born, ended, cookie, attempts,
                    admitted, mcpToken, restarts>>
    BY <1>4 DEF Request
  <2>2. PICK guard \in Guards, token \in Tokens \cup ServiceTokens :
            /\ letIn' = [guard |-> guard, token |-> token, at |-> clock]
            /\ \/ token = mcpToken /\ token \in ServiceTokens /\ guard # "require"
               \/ /\ token \in sessions /\ clock < born[token] + Duration
                  /\ guard # "serviceTokenOnly"
    BY <1>4, <1>0 DEF Request, HasServiceToken, AuthenticateRequest, GetSessionUser, AccessTypeOK
  <2>3. AccessTypeOK'
    BY <2>1, <2>2, <1>0 DEF AccessTypeOK
  <2>4. SessionsEnd'
    <3> SUFFICES ASSUME token \in Tokens PROVE SessionsEnd'
      BY <2>2 DEF SessionsEnd
    <3>1. token \in sessions /\ clock < born[token] + Duration /\ guard # "serviceTokenOnly"
      BY <2>2, <1>0
    <3> QED
      BY <3>1, <2>1, <2>2 DEF SessionInv, SessionsEnd
  <2>5. ServiceTokenServes'
    BY <2>1, <2>2, <1>0 DEF ServiceTokenServes
  <2>6. LimiterInv'
    BY <2>1, <1>0, LimiterKept
  <2> QED
    BY <2>1, <2>3, <2>4, <2>5, <2>6 DEF SessionInv
<1>5. ASSUME NEW c \in Clients, Logout(c) PROVE AccessInv'
  <2>1. /\ cookie[c] \in Tokens /\ cookie[c] \in sessions
        /\ sessions' = sessions \ {cookie[c]} /\ ended' = ended \cup {cookie[c]}
        /\ letIn' = IF letIn.token = cookie[c] THEN NobodyIn ELSE letIn
        /\ cookie' = [cookie EXCEPT ![c] = NoOne]
        /\ UNCHANGED <<clock, users, claim, owner, born, attempts, admitted, mcpToken, restarts>>
    BY <1>5 DEF Logout, AuthenticateRequest, GetSessionUser, AccessTypeOK
  <2>2. /\ letIn' \in [guard : Guards, token : Tokens \cup ServiceTokens \cup {NoOne}, at : 0..MaxTime]
        /\ letIn'.token # NoOne => letIn' = letIn /\ letIn.token # cookie[c]
    BY <2>1, <1>0 DEF NobodyIn, Guards
  <2>3. AccessTypeOK'
    BY <2>1, <2>2, <1>0 DEF AccessTypeOK
  <2>4. owner[cookie[c]] # NoOne
    BY <2>1, <1>0 DEF SessionInv
  <2>5. /\ \A t \in sessions' : owner'[t] \in users' /\ t \notin ended'
        /\ \A t \in ended' : owner'[t] # NoOne
    BY <2>1, <2>4 DEF SessionInv
  <2>6. SessionsEnd' /\ ServiceTokenServes'
    BY <2>1, <2>2, <1>0 DEF SessionInv, SessionsEnd, ServiceTokenServes
  <2>7. LimiterInv'
    BY <2>1, <1>0, LimiterKept
  <2> QED
    BY <2>3, <2>5, <2>6, <2>7 DEF SessionInv
<1>6. ASSUME NEW c \in Clients, NEW d \in Clients, Copy(c, d) PROVE AccessInv'
  <2>1. /\ cookie' = [cookie EXCEPT ![d] = cookie[c]]
        /\ UNCHANGED <<clock, users, claim, sessions, owner, born, ended, attempts, admitted,
                       mcpToken, letIn, restarts>>
    BY <1>6 DEF Copy
  <2>2. AccessTypeOK'
    BY <2>1 DEF AccessTypeOK
  <2> QED
    BY <2>1, <2>2, <1>0, SessionsKept, LimiterKept
<1>7. CASE Restart
  <2>1. /\ restarts < MaxRestarts /\ restarts' = restarts + 1
        /\ sessions' = {t \in sessions : clock < born[t] + Duration}
        /\ claim' = [c \in Clients |-> NoOne]
        /\ attempts' = [k \in LimiterKeys |-> {}] /\ admitted' = [k \in LimiterKeys |-> <<>>]
        /\ mcpToken' \in ServiceTokens \cup {NoOne} /\ letIn' = NobodyIn
        /\ UNCHANGED <<clock, users, owner, born, ended, cookie>>
    BY <1>7 DEF Restart, PruneExpiredSessions
  <2>2. restarts' \in 0..MaxRestarts /\ <<>> \in Seq(0..MaxTime)
    BY <2>1, AccessAssumption DEF AccessTypeOK
  <2>3. AccessTypeOK'
    <3>1. letIn' \in [guard : Guards, token : Tokens \cup ServiceTokens \cup {NoOne}, at : 0..MaxTime]
      BY <2>1, AccessAssumption DEF NobodyIn, Guards
    <3> QED
      BY <2>1, <2>2, <3>1 DEF AccessTypeOK
  <2>4. \A t \in sessions \ sessions' : clock' >= born[t] + Duration
    BY <2>1, <1>0
  <2>5. SessionInv'
    BY <2>1, <2>4, <1>0, SessionsKept
  <2>6. LimiterInv'
    <3> SUFFICES ASSUME NEW k \in LimiterKeys
                 PROVE  /\ DOMAIN admitted'[k] = {}
                        /\ \A begin \in Nat : Cardinality(Admitted(k, begin)') <= Limit
      BY DEF LimiterInv
    <3>1. DOMAIN admitted'[k] = {}
      BY <2>1
    <3>2. \A begin \in Nat : Admitted(k, begin)' = {}
      BY <3>1 DEF Admitted
    <3> QED
      BY <3>1, <3>2, FS_EmptySet, AccessAssumption
  <2> QED
    BY <2>3, <2>5, <2>6
<1>8. CASE Tick
  <2>1. /\ clock < MaxTime /\ clock' = clock + 1
        /\ UNCHANGED <<users, claim, sessions, owner, born, ended, cookie, attempts, admitted,
                       mcpToken, letIn, restarts>>
    BY <1>8 DEF Tick
  <2>2. clock' \in 0..MaxTime /\ clock' \in Nat /\ clock' >= clock
    BY <2>1, <1>0
  <2>3. AccessTypeOK'
    BY <2>1, <2>2 DEF AccessTypeOK
  <2> QED
    BY <2>1, <2>2, <2>3, SessionsKept, LimiterKept
<1>9. CASE UNCHANGED accessVars
  BY <1>9, <1>0, SessionsKept, LimiterKept DEF accessVars, AccessTypeOK
<1> QED
  BY <1>1, <1>2, <1>3, <1>4, <1>5, <1>6, <1>7, <1>8, <1>9 DEF AccessNext

\* The type invariant of accounts, sessions and the limiter.
THEOREM AccessTypeCorrect == AccessSpec => []AccessTypeOK
<1>1. AccessInv => AccessTypeOK
  BY DEF AccessInv
<1> QED
  BY <1>1, AccessInvInit, AccessInvStep, PTL DEF AccessSpec

\* A request is let in only on a live session of an account, or on the service
\* token this process was configured with, neither where only the other one is
\* accepted; and no window of five minutes, wherever it begins, sees more attempts
\* of a client let through than the limit: refused attempts are not counted, but an
\* admitted one is kept for as long as any window it falls into can take another.
THEOREM AccessEarned == AccessSpec => []AccessIsEarned
<1>1. AccessInv => AccessIsEarned
  BY AccessAssumption DEF AccessInv, AccessTypeOK, SessionInv, LimiterInv, Admitted, AccessIsEarned, AttemptsAreFew
<1> QED
  BY <1>1, AccessInvInit, AccessInvStep, PTL DEF AccessSpec

-----------------------------------------------------------------------------
(* Images. Whether a row that reads ready can be trusted depends on who    *)
(* else works on the directory; while nobody has muddled it, there is one  *)
(* row for it, and that row reads ready only over complete files.          *)

AtWork == Fetching \cup {"ensure", "fetch", "launch"}
Complete(target) == [files |-> "whole", of |-> target]

\* An instance refers to a row that is there, and a deployment has read one; only
\* in real execution, and never for a hand-registered image, is anything fetched.
UseInv ==
    \A d \in Deploys :
        /\ d \in Inserted => uses[d] \in ImageRows
        /\ stage[d] \in AtWork => snap[d] \in ImageRow
        /\ stage[d] \in Fetching \cup {"fetch"} => execReal /\ snap[d].target # Custom

OneRow == \A i, j \in Versioned : i = j
RowsTrue ==
    \A i \in Versioned :
        image[i].status = "ready" /\ imagePopulated => dir = Complete(image[i].target)

\* What a deployment read is still so; it trusts, has fetched or launches on
\* complete files; and nobody is beside one that fetches.
DeployClean(d) ==
    /\ stage[d] \in AtWork => snap[d].target = image[uses[d]].target
    /\ stage[d] = "ensure" /\ snap[d].target # Custom /\ Trusted(d) => dir = Complete(snap[d].target)
    /\ stage[d] \in Fetching \cup {"fetch"} => image[uses[d]].status = "fetching"
    /\ stage[d] = "mark" => dir = Complete(snap[d].target)
    /\ stage[d] = "launch" /\ execReal /\ snap[d].target # Custom => dir = Complete(snap[d].target)
    /\ stage[d] \in Fetching => \A e \in Deploys : e # d => stage[e] \notin AtWork

Clean == OneRow /\ RowsTrue /\ \A d \in Deploys : DeployClean(d)
ImageInv == ImageTypeOK /\ UseInv /\ (~muddled => Clean) /\ LaunchesAreWhole

\* The natural numbers of a set have a least one.
LEMMA LeastNatural ==
    ASSUME NEW S, S \subseteq Nat, S # {}
    PROVE  \E i \in S : \A j \in S : i <= j
<1> DEFINE R == OpToRel(<, Nat)
<1>1. IsWellFoundedOn(R, Nat)
  BY NatLessThanWellFounded, Zenon
<1>2. \A i, j \in Nat : j < i => <<j, i>> \in R
  BY Zenon DEF OpToRel
<1> HIDE DEF R
<1>3. PICK i \in S : \A j \in S : <<j, i>> \notin R
  BY <1>1, WFMin, Zenon
<1>4. \A j \in S : ~ (j < i)
  BY <1>2, <1>3
<1> QED
  BY <1>4

LEMMA OldestIsThere == ASSUME Versioned # {} PROVE Oldest(Versioned) \in Versioned
<1>1. Versioned \subseteq Nat
  BY ImageAssumption DEF Versioned, ImageRows
<1>2. \E i \in Versioned : \A j \in Versioned : i <= j
  BY <1>1, LeastNatural
<1> QED
  BY <1>2 DEF Oldest

LEMMA ImageInvInit == ImageInit => ImageInv
<1> SUFFICES ASSUME ImageInit PROVE ImageInv
    OBVIOUS
<1>1. ImageTypeOK
  <2>1. image \in [ImageIds -> ImageRow \cup {NoImage}]
    BY DEF ImageInit
  <2>2. dir \in [files : {"none", "partial", "whole"}, of : BuildTargets \cup {Custom}]
    BY DEF ImageInit, Absent
  <2>3. stage \in [Deploys -> Stages] /\ uses \in [Deploys -> ImageIds \cup {NoImage}]
    BY DEF ImageInit, Stages
  <2>4. snap \in [Deploys -> ImageRow \cup {NoImage}] /\ sound \in [Deploys -> BOOLEAN]
    BY DEF ImageInit
  <2>5. catalog \in BuildTargets /\ upsets \in 0..MaxUpsets
    BY ImageAssumption DEF ImageInit, BuildTargets
  <2>6. removing \subseteq ImageIds /\ execReal \in BOOLEAN /\ muddled \in BOOLEAN
    BY DEF ImageInit
  <2> QED
    BY <2>1, <2>2, <2>3, <2>4, <2>5, <2>6 DEF ImageTypeOK
<1>2. UseInv /\ LaunchesAreWhole
  BY DEF ImageInit, UseInv, Inserted, AtWork, Fetching, LaunchesAreWhole
<1>3. Versioned = {}
  BY DEF ImageInit, Versioned, ImageRows
<1>4. Clean
  BY <1>3 DEF ImageInit, Clean, OneRow, RowsTrue, DeployClean, AtWork, Fetching
<1> QED
  BY <1>1, <1>2, <1>4 DEF ImageInv

\* UPDATE images SET status: a row keeps its target, and none appears or goes.
LEMMA StatusType ==
    ASSUME ImageTypeOK, NEW i \in ImageIds, NEW s \in {"pending", "fetching", "ready", "error"},
           SetStatus(i, s)
    PROVE  /\ image' \in [ImageIds -> ImageRow \cup {NoImage}]
           /\ \A j \in ImageIds \ {i} : image'[j] = image[j]
           /\ image[i] = NoImage => image'[i] = NoImage
           /\ image[i] # NoImage => /\ image[i] \in ImageRow /\ image'[i] \in ImageRow
                                    /\ image'[i].status = s /\ image'[i].target = image[i].target
           /\ ImageRows' = ImageRows /\ Versioned' = Versioned
<1>1. image \in [ImageIds -> ImageRow \cup {NoImage}]
  BY DEF ImageTypeOK
<1>2. CASE image[i] = NoImage
  BY <1>1, <1>2 DEF SetStatus, ImageRows, Versioned
<1>3. CASE image[i] # NoImage
  <2>1. image' = [image EXCEPT ![i] = [image[i] EXCEPT !.status = s]] /\ image[i] \in ImageRow
    BY <1>1, <1>3 DEF SetStatus
  <2>2. /\ [image[i] EXCEPT !.status = s] \in ImageRow
        /\ [image[i] EXCEPT !.status = s].status = s
        /\ [image[i] EXCEPT !.status = s].target = image[i].target
    BY <2>1 DEF ImageRow
  <2> DEFINE row == [image[i] EXCEPT !.status = s]
  <2>3. row \in ImageRow /\ row.status = s /\ row.target = image[i].target /\ row # NoImage
    BY <2>2, ImageAssumption
  <2>4. image' = [image EXCEPT ![i] = row]
    BY <2>1
  <2> HIDE DEF row
  <2>5. /\ image' \in [ImageIds -> ImageRow \cup {NoImage}] /\ image'[i] = row
        /\ \A j \in ImageIds \ {i} : image'[j] = image[j]
    BY <2>3, <2>4, <1>1
  <2>6. ImageRows' = ImageRows
    BY <2>3, <2>5, <1>3 DEF ImageRows
  <2>7. Versioned' = Versioned
    BY <2>3, <2>5, <2>6 DEF Versioned, ImageRows
  <2> QED
    BY <2>1, <2>3, <2>5, <2>6, <2>7, <1>3
<1> QED
  BY <1>2, <1>3

\* What the types give a proof about one deployment.
LEMMA ImageTypes ==
    ASSUME ImageTypeOK
    PROVE  /\ image \in [ImageIds -> ImageRow \cup {NoImage}] /\ NoImage \notin ImageRow
           /\ NoImage \notin ImageIds
           /\ stage \in [Deploys -> Stages] /\ uses \in [Deploys -> ImageIds \cup {NoImage}]
           /\ snap \in [Deploys -> ImageRow \cup {NoImage}] /\ sound \in [Deploys -> BOOLEAN]
           /\ ImageRows \subseteq ImageIds /\ Versioned \subseteq ImageRows
           /\ \A i \in ImageRows : image[i] \in ImageRow
           /\ catalog \in BuildTargets /\ Custom \notin BuildTargets
BY ImageAssumption DEF ImageTypeOK, ImageRows, Versioned, BuildTargets

\* A step that leaves the rows, the files and the mode alone, in which one
\* deployment moves on without coming to work on the directory.
LEMMA StageMoves ==
    ASSUME ImageInv, NEW d \in Deploys, NEW to \in Stages \ AtWork, Goto(d, to),
           UNCHANGED <<image, dir, sound, removing, catalog, execReal, muddled>>,
           uses' \in [Deploys -> ImageIds \cup {NoImage}], snap' \in [Deploys -> ImageRow \cup {NoImage}],
           \A e \in Deploys \ {d} : uses'[e] = uses[e] /\ snap'[e] = snap[e],
           to \notin {"new", "create", "insert", "gone"} => uses'[d] \in ImageRows,
           upsets' \in 0..MaxUpsets
    PROVE  ImageInv'
<1> USE DEF ImageInv
<1>1. /\ stage' = [stage EXCEPT ![d] = to] /\ stage \in [Deploys -> Stages]
  BY ImageTypes DEF Goto
<1>2. stage'[d] = to /\ \A e \in Deploys \ {d} : stage'[e] = stage[e]
  BY <1>1
<1>3. ImageTypeOK'
  BY <1>1 DEF ImageTypeOK
<1>4. UseInv'
  BY <1>2 DEF UseInv, Inserted, ImageRows, AtWork, Fetching, Stages
<1>5. ~muddled => Clean'
  <2> SUFFICES ASSUME ~muddled PROVE \A e \in Deploys : DeployClean(e)'
    BY DEF Clean, OneRow, RowsTrue, Versioned, ImageRows, imagePopulated
  <2> SUFFICES ASSUME NEW e \in Deploys PROVE DeployClean(e)'
    OBVIOUS
  <2>1. CASE e = d
    BY <2>1, <1>2 DEF DeployClean, AtWork, Fetching
  <2>2. CASE e # d
    BY <2>2, <1>2 DEF Clean, DeployClean, Trusted, imagePopulated
  <2> QED
    BY <2>1, <2>2
<1>6. LaunchesAreWhole'
  BY DEF LaunchesAreWhole
<1> QED
  BY <1>3, <1>4, <1>5, <1>6

\* createInstance: a version's row is made, found or put back to pending. A row
\* changed under a deployment, or a second one, muddles the directory.
LEMMA ImageRequests ==
    ASSUME ImageInv, NEW d \in Deploys,
           \/ GetVersionImage(d) \/ CreateVersionImage(d) \/ InsertInstance(d)
           \/ \E i \in ImageIds : NameImage(d, i)
    PROVE  ImageInv'
<1> USE DEF ImageInv
<1>0. /\ image \in [ImageIds -> ImageRow \cup {NoImage}] /\ stage \in [Deploys -> Stages]
      /\ uses \in [Deploys -> ImageIds \cup {NoImage}] /\ NoImage \notin ImageRow
      /\ upsets \in 0..MaxUpsets /\ snap \in [Deploys -> ImageRow \cup {NoImage}]
      /\ catalog \in BuildTargets /\ Custom \notin BuildTargets
  BY ImageTypes DEF ImageTypeOK
<1>1. ASSUME NEW i \in ImageIds, NameImage(d, i) PROVE ImageInv'
  <2>1. /\ Goto(d, "insert") /\ uses' = [uses EXCEPT ![d] = i]
        /\ UNCHANGED <<image, dir, snap, sound, removing, catalog, execReal, muddled, upsets>>
    BY <1>1 DEF NameImage
  <2>2. "insert" \in Stages \ AtWork
    BY DEF Stages, AtWork, Fetching
  <2> QED
    BY <2>1, <2>2, <1>0, StageMoves
<1>2. CASE InsertInstance(d)
  <2>1. /\ UNCHANGED <<image, dir, snap, sound, removing, catalog, execReal, muddled, upsets>>
        /\ \/ uses[d] \in ImageRows /\ Goto(d, "read") /\ uses' = uses
           \/ Goto(d, "gone") /\ uses' = [uses EXCEPT ![d] = NoImage]
    BY <1>2 DEF InsertInstance, Vanish
  <2>2. {"read", "gone"} \subseteq Stages \ AtWork
    BY DEF Stages, AtWork, Fetching
  <2> QED
    BY <2>1, <2>2, <1>0, StageMoves
<1>3. ASSUME NEW i \in ImageIds, NEW row \in ImageRow, row.status = "pending", row.target = catalog,
             image' = [image EXCEPT ![i] = row], uses' = [uses EXCEPT ![d] = i], Goto(d, "insert"),
             stage[d] \in {"new", "create"},
             UNCHANGED <<dir, snap, sound, removing, catalog, execReal, upsets>>,
             muddled' \in BOOLEAN, ~muddled' => ~muddled,
             ~muddled' => \/ image' = image
                          \/ i \notin ImageRows /\ Versioned = {}
                          \/ i \in Versioned /\ At(Fetching \cup {"ensure", "fetch", "launch"}) = {}
      PROVE  ImageInv'
  <2>1. /\ stage' = [stage EXCEPT ![d] = "insert"] /\ stage'[d] = "insert"
        /\ \A e \in Deploys \ {d} : stage'[e] = stage[e] /\ uses'[e] = uses[e]
        /\ image'[i] = row /\ \A j \in ImageIds \ {i} : image'[j] = image[j]
    BY <1>3, <1>0 DEF Goto
  <2>2. ImageTypeOK'
    <3>1. stage' \in [Deploys -> Stages] /\ uses' \in [Deploys -> ImageIds \cup {NoImage}]
          /\ image' \in [ImageIds -> ImageRow \cup {NoImage}]
      BY <2>1, <1>3, <1>0 DEF Stages
    <3> QED
      BY <3>1, <1>3 DEF ImageTypeOK
  <2>3. ImageRows \subseteq ImageRows'
    BY <2>1, <1>0 DEF ImageRows
  <2>4. UseInv'
    BY <2>1, <2>3, <1>3 DEF UseInv, Inserted, AtWork, Fetching
  <2>5. ASSUME ~muddled' PROVE Clean'
    <3>1. Clean
      BY <2>5, <1>3
    <3>2. OneRow'
      <4>1. CASE image' = image
        BY <4>1, <3>1 DEF Clean, OneRow, Versioned, ImageRows
      <4>2. CASE Versioned = {}
        BY <4>2, <2>1, <1>0 DEF OneRow, Versioned, ImageRows
      <4>3. CASE i \in Versioned
        BY <4>3, <2>1, <1>0, <3>1 DEF Clean, OneRow, Versioned, ImageRows
      <4> QED
        BY <2>5, <1>3, <4>1, <4>2, <4>3
    <3>3. RowsTrue'
      BY <2>1, <1>0, <1>3, <3>1 DEF Clean, RowsTrue, Versioned, ImageRows, imagePopulated
    <3>4. ASSUME NEW e \in Deploys PROVE DeployClean(e)'
      <4>1. CASE stage[e] \notin AtWork \/ e = d
        BY <4>1, <2>1 DEF DeployClean, AtWork, Fetching
      <4>2. CASE stage[e] \in AtWork /\ e # d
        <5>1. uses[e] \in ImageRows
          BY <4>2 DEF UseInv, Inserted, AtWork, Fetching
        <5>2. image'[uses[e]] = image[uses[e]]
          <6>1. e \in At(Fetching \cup {"ensure", "fetch", "launch"})
            BY <4>2 DEF At, AtWork
          <6>2. image' = image \/ i \notin ImageRows
            BY <6>1, <2>5, <1>3
          <6> QED
            BY <6>2, <5>1, <2>1, <1>0 DEF ImageRows
        <5> QED
          BY <3>1, <4>2, <5>2, <2>1, <1>3 DEF Clean, DeployClean, Trusted, imagePopulated, AtWork, Fetching
      <4> QED
        BY <4>1, <4>2
    <3> QED
      BY <3>2, <3>3, <3>4 DEF Clean
  <2>6. LaunchesAreWhole'
    BY <1>3 DEF LaunchesAreWhole
  <2> QED
    BY <2>2, <2>4, <2>5, <2>6
<1>4. CASE CreateVersionImage(d)
  <2> DEFINE row == [status |-> "pending", target |-> catalog]
  <2>1. PICK i \in Fresh : image' = [image EXCEPT ![i] = row] /\ uses' = [uses EXCEPT ![d] = i]
    BY <1>4 DEF CreateVersionImage
  <2>2. i \in ImageIds /\ i \notin ImageRows
    BY DEF Fresh, ImageRows
  <2>3. row \in ImageRow /\ row.status = "pending" /\ row.target = catalog
    BY <1>0 DEF ImageRow
  <2>4. /\ stage[d] = "create" /\ Goto(d, "insert") /\ muddled' = (muddled \/ Versioned # {})
        /\ UNCHANGED <<dir, snap, sound, removing, catalog, execReal, upsets>>
    BY <1>4 DEF CreateVersionImage
  <2> HIDE DEF row
  <2>5. muddled' \in BOOLEAN /\ (~muddled' => ~muddled /\ Versioned = {})
    BY <2>4
  <2> QED
    BY <2>1, <2>2, <2>3, <2>4, <2>5, <1>3
<1>5. CASE GetVersionImage(d)
  <2>1. /\ stage[d] = "new"
        /\ muddled' = (muddled \/ (image' # image /\ At(Fetching \cup {"ensure", "fetch", "launch"}) # {}))
        /\ UNCHANGED <<dir, snap, sound, removing, catalog, execReal, upsets>>
    BY <1>5 DEF GetVersionImage
  <2>2. CASE Versioned = {}
    <3>1. Goto(d, "create") /\ UNCHANGED <<image, uses>>
      BY <1>5, <2>2 DEF GetVersionImage
    <3>2. "create" \in Stages \ AtWork /\ muddled' = muddled
      BY <3>1, <2>1, <1>0 DEF Stages, AtWork, Fetching, ImageTypeOK
    <3> QED
      BY <3>1, <3>2, <2>1, <1>0, StageMoves
  <2>3. CASE Versioned # {}
    <3> DEFINE i == Oldest(Versioned)
               row == [status |-> "pending", target |-> catalog]
    <3>1. /\ Goto(d, "insert") /\ uses' = [uses EXCEPT ![d] = i]
          /\ image' = IF image[i].target = catalog THEN image ELSE [image EXCEPT ![i] = row]
      BY <1>5, <2>3 DEF GetVersionImage
    <3>2. i \in Versioned
      BY <2>3, OldestIsThere
    <3>3. i \in ImageRows /\ i \in ImageIds /\ row \in ImageRow /\ row.status = "pending" /\ row.target = catalog
      BY <3>2, <1>0 DEF Versioned, ImageRows, ImageRow
    <3> HIDE DEF i, row
    <3>4. CASE image[i].target = catalog
      <4>1. UNCHANGED image
        BY <3>1, <3>4
      <4>2. muddled' = muddled
        BY <4>1, <2>1, <1>0 DEF ImageTypeOK
      <4>3. "insert" \in Stages \ AtWork
        BY DEF Stages, AtWork, Fetching
      <4>4. uses' \in [Deploys -> ImageIds \cup {NoImage}]
        BY <3>1, <3>3, <1>0
      <4>5. \A e \in Deploys \ {d} : uses'[e] = uses[e] /\ snap'[e] = snap[e]
        BY <3>1, <2>1, <1>0
      <4> QED
        BY <3>1, <2>1, <4>1, <4>2, <4>3, <4>4, <4>5, <1>0, StageMoves
    <3>5. CASE image[i].target # catalog
      <4>1. image' = [image EXCEPT ![i] = row]
        BY <3>1, <3>5
      <4>2. muddled' \in BOOLEAN /\ (~muddled' => ~muddled)
        BY <2>1
      <4>3. ~muddled' => image' = image \/ (i \in Versioned /\ At(Fetching \cup {"ensure", "fetch", "launch"}) = {})
        BY <2>1, <3>2
      <4> QED
        BY <3>1, <3>3, <2>1, <4>1, <4>2, <4>3, <1>3
    <3> QED
      BY <3>4, <3>5
  <2> QED
    BY <2>2, <2>3
<1> QED
  BY <1>1, <1>2, <1>4, <1>5

\* A step of one deployment at work: rows keep their targets, no row appears or
\* goes, and what the others rely on stays as long as nothing is muddled.
LEMMA WorkMoves ==
    ASSUME ImageInv, NEW d \in Deploys, NEW to \in Stages, Goto(d, to),
           stage[d] \in AtWork \cup {"read"}, to # "new", to # "create", to # "insert", to # "gone",
           UNCHANGED <<uses, removing, catalog, execReal>>,
           image' \in [ImageIds -> ImageRow \cup {NoImage}], ImageRows' = ImageRows,
           \A i \in ImageRows : image'[i].target = image[i].target,
           dir' \in [files : {"none", "partial", "whole"}, of : BuildTargets \cup {Custom}],
           snap' \in [Deploys -> ImageRow \cup {NoImage}], sound' \in [Deploys -> BOOLEAN],
           upsets' \in 0..MaxUpsets, muddled' \in BOOLEAN,
           \A e \in Deploys \ {d} : snap'[e] = snap[e],
           \A e \in Deploys : sound'[e],
           to \in AtWork => snap'[d] \in ImageRow,
           to \in Fetching \cup {"fetch"} => execReal /\ snap'[d].target # Custom,
           ~muddled' =>
              /\ ~muddled /\ RowsTrue' /\ DeployClean(d)'
              /\ \/ \A e \in Deploys \ {d} : stage[e] \notin AtWork
                 \/ /\ dir' = dir
                    /\ to \in AtWork => \A e \in Deploys \ {d} : stage[e] \notin Fetching
                    /\ \A e \in Deploys \ {d} : stage[e] \in Fetching \cup {"fetch"} =>
                          image'[uses[e]].status = image[uses[e]].status
    PROVE  ImageInv'
<1> USE DEF ImageInv
<1>0. stage' = [stage EXCEPT ![d] = to] /\ stage \in [Deploys -> Stages]
  BY ImageTypes DEF Goto
<1>1. stage'[d] = to /\ \A e \in Deploys \ {d} : stage'[e] = stage[e]
  BY <1>0
<1>2. ImageTypeOK'
  BY <1>0 DEF ImageTypeOK
<1>3. UseInv'
  <2>1. d \in Inserted
    BY DEF Inserted, AtWork, Fetching
  <2>2. \A e \in Deploys : e \in Inserted' => e \in Inserted
    BY <2>1, <1>1 DEF Inserted
  <2> QED
    BY <2>2, <1>1 DEF UseInv
<1>4. ASSUME ~muddled' PROVE Clean'
  <2>1. Clean
    BY <1>4
  <2>2. Versioned' = Versioned
    BY DEF Versioned
  <2>3. OneRow'
    BY <2>1, <2>2 DEF Clean, OneRow
  <2>4. ASSUME NEW e \in Deploys \ {d} PROVE DeployClean(e)'
    <3>1. CASE stage[e] \notin AtWork
      BY <3>1, <1>1 DEF DeployClean, AtWork, Fetching
    <3>2. CASE stage[e] \in AtWork
      <4>1. /\ dir' = dir /\ uses'[e] = uses[e] /\ snap'[e] = snap[e] /\ stage'[e] = stage[e]
            /\ to \in AtWork => stage[e] \notin Fetching
            /\ stage[e] \in Fetching \cup {"fetch"} => image'[uses[e]].status = image[uses[e]].status
        BY <3>2, <1>4, <1>1
      <4>2. uses[e] \in ImageRows
        BY <3>2 DEF UseInv, Inserted, AtWork, Fetching
      <4>3. image'[uses[e]].target = image[uses[e]].target
        BY <4>2
      <4>4. stage[e] \in Fetching => \A o \in Deploys : o # e => stage'[o] \notin AtWork
        <5>1. stage[e] \in Fetching => \A o \in Deploys : o # e => stage[o] \notin AtWork
          BY <2>1 DEF Clean, DeployClean
        <5> QED
          BY <5>1, <4>1, <1>1
      <4>5. DeployClean(e)
        BY <2>1 DEF Clean
      <4> QED
        BY <4>1, <4>3, <4>4, <4>5 DEF DeployClean, Trusted, imagePopulated
    <3> QED
      BY <3>1, <3>2
  <2> QED
    BY <2>3, <2>4, <1>4 DEF Clean
<1>5. LaunchesAreWhole'
  BY DEF LaunchesAreWhole
<1> QED
  BY <1>2, <1>3, <1>4, <1>5

\* runDeploy: what a deployment read, what it found and what it fetched hold
\* until it launches, or two have worked on the directory.
LEMMA ImageReads ==
    ASSUME ImageInv, NEW d \in Deploys, ReadImage(d) \/ EnsureUnseen(d) \/ EnsureImage(d)
    PROVE  ImageInv'
<1> USE DEF ImageInv
<1>0. /\ image \in [ImageIds -> ImageRow \cup {NoImage}] /\ NoImage \notin ImageRow
      /\ dir \in [files : {"none", "partial", "whole"}, of : BuildTargets \cup {Custom}]
      /\ snap \in [Deploys -> ImageRow \cup {NoImage}] /\ sound \in [Deploys -> BOOLEAN]
      /\ upsets \in 0..MaxUpsets /\ muddled \in BOOLEAN
      /\ \A e \in Deploys : sound[e]
      /\ {"ensure", "launch", "fetch"} \subseteq Stages \cap AtWork
  BY ImageTypes DEF ImageTypeOK, LaunchesAreWhole, Stages, AtWork, Fetching
<1>1. /\ uses[d] \in ImageRows /\ uses[d] \in ImageIds /\ image[uses[d]] \in ImageRow
      /\ stage[d] \in AtWork \cup {"read"} /\ stage \in [Deploys -> Stages]
  <2>1. stage[d] \in {"read", "ensure"}
    BY DEF ReadImage, EnsureUnseen, EnsureImage
  <2>2. uses[d] \in ImageRows
    BY <2>1 DEF UseInv, Inserted
  <2> QED
    BY <2>1, <2>2, ImageTypes DEF AtWork
<1>2. stage[d] \in AtWork => snap[d] \in ImageRow
  BY DEF UseInv
<1>3. CASE ReadImage(d)
  <2>1. /\ stage[d] = "read" /\ snap' = [snap EXCEPT ![d] = image[uses[d]]]
        /\ Goto(d, "ensure") /\ muddled' = (muddled \/ At(Fetching) # {})
        /\ UNCHANGED <<image, dir, uses, sound, removing, catalog, execReal, upsets>>
    BY <1>3 DEF ReadImage
  <2>2. /\ snap' \in [Deploys -> ImageRow \cup {NoImage}] /\ snap'[d] = image[uses[d]]
        /\ \A e \in Deploys \ {d} : snap'[e] = snap[e]
        /\ stage'[d] = "ensure" /\ muddled' \in BOOLEAN
    BY <2>1, <1>0, <1>1 DEF Goto
  <2>3. ~muddled' => ~muddled /\ \A e \in Deploys : stage[e] \notin Fetching
    BY <2>1 DEF At
  <2>4. ~muddled' => RowsTrue'
    BY <2>1, <2>3 DEF Clean, RowsTrue, Versioned, ImageRows, imagePopulated
  <2>5. ~muddled' => DeployClean(d)'
    <3> SUFFICES ASSUME ~muddled' PROVE DeployClean(d)'
      OBVIOUS
    <3>1. snap'[d] = image'[uses'[d]] /\ image'[uses'[d]] = image[uses[d]] /\ dir' = dir
      BY <2>1, <2>2
    <3>2. snap[d]'.target # Custom /\ Trusted(d)' => dir' = Complete(snap[d]'.target)
      BY <3>1, <2>3, <1>1 DEF Clean, RowsTrue, Trusted, imagePopulated, Versioned
    <3> QED
      BY <3>1, <3>2, <2>2 DEF DeployClean, AtWork, Fetching
  <2>6. "ensure" \notin Fetching \cup {"fetch", "new", "create", "insert", "gone"}
    BY DEF Fetching
  <2>7. ~muddled' => \A e \in Deploys \ {d} : stage[e] \in Fetching \cup {"fetch"} =>
                        image'[uses[e]].status = image[uses[e]].status
    BY <2>1
  <2> QED
    BY <2>1, <2>2, <2>3, <2>4, <2>5, <2>6, <2>7, <1>0, <1>1, WorkMoves DEF ImageRows
<1>4. CASE EnsureUnseen(d)
  <2>1. /\ stage[d] = "ensure" /\ (~execReal \/ snap[d].target = Custom)
        /\ image' = image \/ SetStatus(uses[d], "ready")
        /\ muddled' = (muddled \/ (~execReal /\ imagePopulated)) /\ Goto(d, "launch")
        /\ UNCHANGED <<dir, uses, snap, sound, removing, catalog, execReal, upsets>>
    BY <1>4 DEF EnsureUnseen
  <2>2. /\ image' \in [ImageIds -> ImageRow \cup {NoImage}] /\ ImageRows' = ImageRows
        /\ Versioned' = Versioned
        /\ \A i \in ImageRows : image'[i].target = image[i].target
        /\ \A i \in ImageRows \ {uses[d]} : image'[i] = image[i]
    BY <2>1, <1>0, <1>1, StatusType DEF ImageRows, Versioned
  <2>3. muddled' \in BOOLEAN /\ stage'[d] = "launch" /\ "launch" \notin Fetching \cup {"fetch"}
    BY <2>1, <1>0, <1>1 DEF Goto, Fetching
  <2>4. ASSUME ~muddled' PROVE /\ ~muddled /\ RowsTrue' /\ DeployClean(d)'
                               /\ \A e \in Deploys \ {d} : stage[e] \notin Fetching
                               /\ \A e \in Deploys \ {d} : stage[e] \in Fetching \cup {"fetch"} =>
                                     image'[uses[e]].status = image[uses[e]].status
    <3>1. ~muddled /\ Clean /\ (execReal \/ ~imagePopulated)
      BY <2>4, <2>1
    <3>2. snap[d].target = image[uses[d]].target
      BY <3>1, <2>1 DEF Clean, DeployClean, AtWork
    <3>3. RowsTrue'
      <4>1. CASE ~imagePopulated
        BY <4>1, <2>1 DEF RowsTrue, imagePopulated
      <4>2. CASE execReal
        <5>1. uses[d] \notin Versioned
          BY <4>2, <3>2, <2>1 DEF Versioned
        <5>2. \A i \in Versioned : image'[i] = image[i]
          BY <5>1, <2>2 DEF Versioned
        <5> QED
          BY <5>2, <2>1, <2>2, <3>1 DEF Clean, RowsTrue, imagePopulated
      <4> QED
        BY <4>1, <4>2, <3>1
    <3>4. DeployClean(d)'
      BY <3>2, <2>1, <2>2, <2>3, <1>1 DEF DeployClean, AtWork, Fetching
    <3>5. \A e \in Deploys \ {d} : stage[e] \notin Fetching
      BY <3>1, <2>1 DEF Clean, DeployClean, AtWork
    <3>6. ASSUME NEW e \in Deploys \ {d}, stage[e] \in Fetching \cup {"fetch"}
          PROVE  image'[uses[e]].status = image[uses[e]].status
      <4>1. execReal /\ snap[e].target # Custom /\ uses[e] \in ImageRows
        BY <3>6 DEF UseInv, Inserted, Fetching
      <4>2. snap[e].target = image[uses[e]].target
        BY <3>1, <3>6 DEF Clean, DeployClean, AtWork
      <4>3. uses[e] # uses[d]
        BY <4>1, <4>2, <3>2, <2>1
      <4> QED
        BY <4>1, <4>3, <2>2
    <3> QED
      BY <3>1, <3>3, <3>4, <3>5, <3>6
  <2> QED
    BY <2>1, <2>2, <2>3, <2>4, <1>0, <1>1, <1>2, WorkMoves
<1>5. CASE EnsureImage(d)
  <2>1. /\ stage[d] = "ensure" /\ execReal /\ snap[d].target # Custom
        /\ UNCHANGED <<dir, uses, snap, sound, removing, catalog, execReal, muddled, upsets>>
        /\ \/ Trusted(d) /\ Goto(d, "launch") /\ image' = image
           \/ ~Trusted(d) /\ Goto(d, "fetch") /\ SetStatus(uses[d], "fetching")
    BY <1>5 DEF EnsureImage
  <2>2. ASSUME NEW to \in {"launch", "fetch"}, Goto(d, to),
               /\ image' \in [ImageIds -> ImageRow \cup {NoImage}] /\ ImageRows' = ImageRows
               /\ Versioned' = Versioned
               /\ \A i \in ImageRows : image'[i].target = image[i].target
               /\ \A i \in ImageRows : image'[i] = image[i] \/ image'[i].status = "fetching",
               to = "launch" => Trusted(d),
               to = "fetch" => image'[uses[d]].status = "fetching"
        PROVE  ImageInv'
    <3>1. stage'[d] = to /\ to \notin Fetching /\ to \in Stages \cap AtWork
      BY <2>2, <1>0, <1>1 DEF Goto, Fetching
    <3>2. ASSUME ~muddled' PROVE /\ ~muddled /\ RowsTrue' /\ DeployClean(d)'
                                 /\ \A e \in Deploys \ {d} : stage[e] \notin Fetching
                                 /\ \A e \in Deploys \ {d} : stage[e] \in Fetching \cup {"fetch"} =>
                                       image'[uses[e]].status = image[uses[e]].status
      <4>1. ~muddled /\ Clean
        BY <3>2, <2>1
      <4>2. snap[d].target = image[uses[d]].target /\ (Trusted(d) => dir = Complete(snap[d].target))
        BY <4>1, <2>1 DEF Clean, DeployClean, AtWork
      <4>3. RowsTrue'
        BY <4>1, <2>1, <2>2 DEF Clean, RowsTrue, imagePopulated, Versioned
      <4>4. DeployClean(d)'
        BY <4>2, <3>1, <2>1, <2>2, <1>1 DEF DeployClean, Fetching
      <4>5. \A e \in Deploys \ {d} : stage[e] \notin Fetching
        BY <4>1, <2>1 DEF Clean, DeployClean, AtWork
      <4>6. ASSUME NEW e \in Deploys \ {d}, stage[e] \in Fetching \cup {"fetch"}
            PROVE  image'[uses[e]].status = image[uses[e]].status
        <5>1. uses[e] \in ImageRows
          BY <4>6 DEF UseInv, Inserted, Fetching
        <5>2. image[uses[e]].status = "fetching"
          BY <4>1, <4>6 DEF Clean, DeployClean
        <5> QED
          BY <5>1, <5>2, <2>2
      <4> QED
        BY <4>1, <4>3, <4>4, <4>5, <4>6
    <3> QED
      BY <3>1, <3>2, <2>1, <2>2, <1>0, <1>1, <1>2, WorkMoves
  <2>3. CASE Trusted(d) /\ Goto(d, "launch") /\ image' = image
    BY <2>3, <2>2, <1>0 DEF ImageRows, Versioned
  <2>4. CASE ~Trusted(d) /\ Goto(d, "fetch") /\ SetStatus(uses[d], "fetching")
    <3>1. /\ image' \in [ImageIds -> ImageRow \cup {NoImage}] /\ ImageRows' = ImageRows
          /\ Versioned' = Versioned
          /\ \A i \in ImageIds \ {uses[d]} : image'[i] = image[i]
          /\ image'[uses[d]].status = "fetching"
          /\ image'[uses[d]].target = image[uses[d]].target
      BY <2>4, <1>0, <1>1, StatusType
    <3>2. \A i \in ImageRows : image'[i].target = image[i].target
      BY <3>1 DEF ImageRows
    <3>3. \A i \in ImageRows : image'[i] = image[i] \/ image'[i].status = "fetching"
      BY <3>1 DEF ImageRows
    <3> QED
      BY <3>1, <3>2, <3>3, <2>4, <2>2
  <2> QED
    BY <2>1, <2>3, <2>4
<1> QED
  BY <1>3, <1>4, <1>5

\* ... and its fetch, which nobody else was beside unless it muddled the directory.
LEMMA ImageFetches ==
    ASSUME ImageInv, NEW d \in Deploys,
           BeginFetch(d) \/ EndFetch(d) \/ MarkImage(d)
    PROVE  ImageInv'
<1> USE DEF ImageInv
<1>0. /\ image \in [ImageIds -> ImageRow \cup {NoImage}] /\ NoImage \notin ImageRow
      /\ dir \in [files : {"none", "partial", "whole"}, of : BuildTargets \cup {Custom}]
      /\ snap \in [Deploys -> ImageRow \cup {NoImage}] /\ sound \in [Deploys -> BOOLEAN]
      /\ upsets \in 0..MaxUpsets /\ muddled \in BOOLEAN
      /\ \A e \in Deploys : sound[e]
      /\ {"fetching", "mark", "markError", "launch", "up", "error"} \subseteq Stages
      /\ Fetching \cup {"launch"} \subseteq AtWork /\ Fetching = {"fetching", "mark", "markError"}
  BY ImageTypes DEF ImageTypeOK, LaunchesAreWhole, Stages, AtWork, Fetching
<1>1. /\ uses[d] \in ImageRows /\ uses[d] \in ImageIds /\ image[uses[d]] \in ImageRow
      /\ stage[d] \in AtWork /\ stage \in [Deploys -> Stages] /\ snap[d] \in ImageRow
  <2>1. stage[d] \in Fetching \cup {"fetch", "launch"}
    BY DEF BeginFetch, EndFetch, MarkImage, Fetching
  <2>2. uses[d] \in ImageRows /\ snap[d] \in ImageRow
    BY <2>1 DEF UseInv, Inserted, AtWork, Fetching
  <2> QED
    BY <2>1, <2>2, ImageTypes DEF AtWork
<1>2. snap[d].target \in BuildTargets \cup {Custom}
  BY <1>1 DEF ImageRow
<1>3. ASSUME stage[d] \in Fetching \cup {"fetch"}, ~muddled
      PROVE  /\ Clean /\ snap[d].target # Custom /\ snap[d].target = image[uses[d]].target
             /\ image[uses[d]].status = "fetching"
             /\ \A i \in Versioned : i = uses[d]
             /\ stage[d] \in Fetching => \A e \in Deploys \ {d} : stage[e] \notin AtWork
  <2>1. Clean /\ snap[d].target # Custom
    BY <1>3 DEF UseInv
  <2>2. /\ snap[d].target = image[uses[d]].target /\ image[uses[d]].status = "fetching"
        /\ stage[d] \in Fetching => \A e \in Deploys \ {d} : stage[e] \notin AtWork
    BY <2>1, <1>3, <1>1 DEF Clean, DeployClean
  <2>3. uses[d] \in Versioned
    BY <2>1, <2>2, <1>1 DEF Versioned
  <2> QED
    BY <2>1, <2>2, <2>3 DEF Clean, OneRow
<1>4. CASE BeginFetch(d)
  <2>1. /\ stage[d] = "fetch" /\ dir' = [files |-> "partial", of |-> snap[d].target]
        /\ muddled' = (muddled \/ At(Fetching \cup {"ensure", "fetch", "launch"}) # {d})
        /\ Goto(d, "fetching")
        /\ UNCHANGED <<image, uses, snap, sound, removing, catalog, execReal, upsets>>
    BY <1>4 DEF BeginFetch
  <2>2. /\ dir' \in [files : {"none", "partial", "whole"}, of : BuildTargets \cup {Custom}]
        /\ stage'[d] = "fetching" /\ muddled' \in BOOLEAN /\ ImageRows' = ImageRows
    BY <2>1, <1>0, <1>1, <1>2 DEF Goto, ImageRows
  <2>3. execReal /\ snap[d].target # Custom
    BY <2>1 DEF UseInv
  <2>4. ASSUME ~muddled' PROVE /\ ~muddled /\ RowsTrue' /\ DeployClean(d)'
                               /\ \A e \in Deploys \ {d} : stage[e] \notin AtWork
    <3>1. ~muddled /\ At(AtWork) = {d}
      BY <2>4, <2>1 DEF AtWork
    <3>2. \A e \in Deploys \ {d} : stage[e] \notin AtWork
      BY <3>1 DEF At
    <3>3. image[uses[d]].status = "fetching" /\ snap[d].target = image[uses[d]].target
          /\ \A i \in Versioned : i = uses[d]
      BY <3>1, <2>1, <1>3
    <3>4. RowsTrue'
      BY <3>3, <2>1 DEF RowsTrue, Versioned, ImageRows
    <3>5. \A e \in Deploys \ {d} : stage'[e] = stage[e]
      BY <2>1, <1>1 DEF Goto
    <3>6. DeployClean(d)'
      BY <3>2, <3>3, <3>5, <2>1, <2>2, <1>1 DEF DeployClean
    <3> QED
      BY <3>1, <3>2, <3>4, <3>6
  <2> QED
    BY <2>1, <2>2, <2>3, <2>4, <1>0, <1>1, WorkMoves
<1>5. CASE EndFetch(d)
  <2>1. /\ stage[d] = "fetching"
        /\ UNCHANGED <<image, uses, snap, sound, removing, catalog, execReal, muddled>>
        /\ \/ /\ Goto(d, "mark") /\ upsets' = upsets
              /\ \/ dir' = Complete(snap[d].target)
                 \/ muddled /\ dir' = [files |-> "partial", of |-> snap[d].target]
           \/ Goto(d, "markError") /\ upsets' \in 0..MaxUpsets /\ dir' = dir
    BY <1>5, <1>0, ImageAssumption DEF EndFetch, Upset, Complete
  <2>2. dir' \in [files : {"none", "partial", "whole"}, of : BuildTargets \cup {Custom}]
    <3>1. CASE dir' = dir
      BY <3>1, <1>0
    <3>2. CASE dir' = Complete(snap[d].target)
      BY <3>2, <1>2 DEF Complete
    <3>3. CASE dir' = [files |-> "partial", of |-> snap[d].target]
      BY <3>3, <1>2
    <3> QED
      BY <2>1, <3>1, <3>2, <3>3
  <2>3. execReal /\ snap[d].target # Custom /\ upsets' \in 0..MaxUpsets
    BY <2>1, <1>0 DEF UseInv
  <2>4. ASSUME NEW to \in {"mark", "markError"}, Goto(d, to),
               to = "mark" => muddled \/ dir' = Complete(snap[d].target)
        PROVE  ImageInv'
    <3>1. ImageRows' = ImageRows /\ stage'[d] = to /\ to \in Fetching
      BY <2>1, <2>4, <1>0, <1>1 DEF Goto, ImageRows
    <3>2. ASSUME ~muddled' PROVE /\ ~muddled /\ RowsTrue' /\ DeployClean(d)'
                                 /\ \A e \in Deploys \ {d} : stage[e] \notin AtWork
      <4>1. /\ ~muddled /\ image[uses[d]].status = "fetching"
            /\ snap[d].target = image[uses[d]].target
            /\ \A i \in Versioned : i = uses[d]
            /\ \A e \in Deploys \ {d} : stage[e] \notin AtWork
        BY <3>2, <2>1, <1>0, <1>3
      <4>2. RowsTrue'
        BY <4>1, <2>1 DEF RowsTrue, Versioned, ImageRows
      <4>3. \A e \in Deploys \ {d} : stage'[e] = stage[e]
        BY <2>4, <1>1 DEF Goto
      <4>4. DeployClean(d)'
        BY <4>1, <4>3, <3>1, <2>1, <2>4, <1>1 DEF DeployClean
      <4> QED
        BY <4>1, <4>2, <4>4
    <3> QED
      BY <3>1, <3>2, <2>1, <2>2, <2>3, <2>4, <1>0, <1>1, WorkMoves
  <2> QED
    BY <2>1, <2>4
<1>6. CASE MarkImage(d)
  <2> DEFINE status == IF stage[d] = "mark" THEN "ready" ELSE "error"
             to == IF stage[d] = "mark" THEN "launch" ELSE "error"
  <2>1. /\ stage[d] \in {"mark", "markError"} /\ SetStatus(uses[d], status) /\ Goto(d, to)
        /\ snap' = IF stage[d] = "mark" THEN snap ELSE Forget(d)
        /\ UNCHANGED <<dir, uses, sound, removing, catalog, execReal, muddled, upsets>>
    BY <1>6 DEF MarkImage
  <2>2. /\ status \in {"pending", "fetching", "ready", "error"}
        /\ to \in Stages /\ to \notin Fetching \cup {"fetch", "ensure", "new", "create", "insert", "gone"}
        /\ to \in AtWork => stage[d] = "mark" /\ to = "launch"
        /\ status = "ready" => stage[d] = "mark"
    BY <1>0 DEF Fetching, AtWork
  <2> HIDE DEF status, to
  <2>3. /\ image' \in [ImageIds -> ImageRow \cup {NoImage}] /\ ImageRows' = ImageRows
        /\ Versioned' = Versioned
        /\ \A i \in ImageIds \ {uses[d]} : image'[i] = image[i]
        /\ image'[uses[d]].status = status /\ image'[uses[d]].target = image[uses[d]].target
    BY <2>1, <2>2, <1>0, <1>1, StatusType
  <2>4. /\ snap' \in [Deploys -> ImageRow \cup {NoImage}]
        /\ \A e \in Deploys \ {d} : snap'[e] = snap[e]
        /\ stage[d] = "mark" => snap' = snap
        /\ stage'[d] = to /\ muddled' \in BOOLEAN
    BY <2>1, <1>0, <1>1 DEF Forget, Goto
  <2>5. ASSUME ~muddled' PROVE /\ ~muddled /\ RowsTrue' /\ DeployClean(d)'
                               /\ \A e \in Deploys \ {d} : stage[e] \notin AtWork
    <3>1. /\ ~muddled /\ snap[d].target = image[uses[d]].target
          /\ \A i \in Versioned : i = uses[d]
          /\ \A e \in Deploys \ {d} : stage[e] \notin AtWork
      BY <2>5, <2>1, <1>0, <1>3
    <3>2. stage[d] = "mark" => dir = Complete(snap[d].target)
      BY <3>1 DEF Clean, DeployClean
    <3>3. RowsTrue'
      BY <3>1, <3>2, <2>1, <2>2, <2>3 DEF RowsTrue
    <3>4. DeployClean(d)'
      <4>1. CASE to \notin AtWork
        BY <4>1, <2>2, <2>4 DEF DeployClean, AtWork, Fetching
      <4>2. CASE to \in AtWork
        <5>1. /\ to = "launch" /\ snap'[d] = snap[d] /\ dir' = Complete(snap'[d].target)
              /\ snap'[d].target = image'[uses'[d]].target
          BY <4>2, <3>1, <3>2, <2>1, <2>2, <2>3, <2>4
        <5> QED
          BY <5>1, <2>4, <2>2 DEF DeployClean
      <4> QED
        BY <4>1, <4>2
    <3> QED
      BY <3>1, <3>3, <3>4
  <2>6. \A i \in ImageRows : image'[i].target = image[i].target
    BY <2>3 DEF ImageRows
  <2> QED
    BY <2>1, <2>2, <2>3, <2>4, <2>5, <2>6, <1>0, <1>1, WorkMoves
<1> QED
  BY <1>4, <1>5, <1>6

\* A launch: a deployment's is on what it saw to, a start's on what the row tells.
LEMMA ImageLaunches ==
    ASSUME ImageInv, NEW d \in Deploys, Launch(d)
    PROVE  ImageInv'
<1> USE DEF ImageInv
<1>0. /\ snap \in [Deploys -> ImageRow \cup {NoImage}] /\ sound \in [Deploys -> BOOLEAN]
      /\ \A e \in Deploys : sound[e] /\ muddled \in BOOLEAN /\ upsets \in 0..MaxUpsets
      /\ image \in [ImageIds -> ImageRow \cup {NoImage}] /\ uses \in [Deploys -> ImageIds \cup {NoImage}]
  BY ImageTypes DEF ImageTypeOK, LaunchesAreWhole
<1>1. /\ stage[d] \in {"launch", "start"} /\ snap' = Forget(d)
      /\ UNCHANGED <<image, dir, uses, removing, catalog, execReal, muddled, upsets>>
  BY DEF Launch
<1>2. uses[d] \in ImageRows /\ (stage[d] = "launch" => snap[d] \in ImageRow)
  BY <1>1 DEF UseInv, Inserted, AtWork, Fetching
<1>3. /\ snap' \in [Deploys -> ImageRow \cup {NoImage}]
      /\ \A e \in Deploys \ {d} : snap'[e] = snap[e] /\ ImageRows' = ImageRows
  BY <1>0, <1>1 DEF Forget, ImageRows
<1>4. PICK to \in {"up", "error"} : Goto(d, to) /\ (to = "error" => sound' = sound)
  BY DEF Launch
<1>5. \/ sound' = sound
      \/ /\ execReal /\ Asked(d) # Custom => imagePopulated
         /\ sound' = [sound EXCEPT ![d] =
                \/ ~execReal \/ Asked(d) = Custom \/ muddled \/ Warned(d)
                \/ dir = Complete(Asked(d))]
  BY DEF Launch, Complete
<1>6. ASSUME execReal, Asked(d) # Custom, ~muddled, ~Warned(d), imagePopulated
      PROVE  dir = Complete(Asked(d))
  <2>1. CASE stage[d] = "launch"
    BY <2>1, <1>6 DEF Asked, Clean, DeployClean
  <2>2. CASE stage[d] = "start"
    <3>1. /\ Asked(d) = image[uses[d]].target /\ image[uses[d]].status = "ready"
          /\ uses[d] \in Versioned
      BY <2>2, <1>2, <1>6 DEF Asked, Warned, Versioned
    <3> QED
      BY <3>1, <1>6 DEF Clean, RowsTrue
  <2> QED
    BY <2>1, <2>2, <1>1
<1>7. sound' = sound \/ sound' = [sound EXCEPT ![d] = TRUE]
  <2> SUFFICES ASSUME sound' # sound PROVE sound' = [sound EXCEPT ![d] = TRUE]
    OBVIOUS
  <2> DEFINE good == \/ ~execReal \/ Asked(d) = Custom \/ muddled \/ Warned(d)
                     \/ dir = Complete(Asked(d))
  <2>1. sound' = [sound EXCEPT ![d] = good]
    BY <1>5
  <2>2. execReal /\ Asked(d) # Custom => imagePopulated
    BY <1>5
  <2>3. good
    BY <2>2, <1>6
  <2>4. good = TRUE
    BY <2>3
  <2> HIDE DEF good
  <2> QED
    BY <2>1, <2>4
<1>8. sound' = sound
  BY <1>0, <1>7
<1>9. to \in Stages \ AtWork
  BY DEF Stages, AtWork, Fetching
<1> QED
  BY <1>0, <1>1, <1>2, <1>3, <1>4, <1>8, <1>9, StageMoves

\* Instances are started and stopped; images, their files and the daemon go.
LEMMA ImageEnds ==
    ASSUME ImageInv,
           \/ \E d \in Deploys : StartInstance(d) \/ StopInstance(d) \/ DeleteInstance(d)
           \/ CreateImage \/ RestartStore
           \/ \E i \in ImageIds : DeleteImage(i) \/ RemoveFiles(i)
    PROVE  ImageInv'
<1> USE DEF ImageInv
<1>0. /\ image \in [ImageIds -> ImageRow \cup {NoImage}] /\ NoImage \notin ImageRow
      /\ dir \in [files : {"none", "partial", "whole"}, of : BuildTargets \cup {Custom}]
      /\ stage \in [Deploys -> Stages] /\ uses \in [Deploys -> ImageIds \cup {NoImage}]
      /\ snap \in [Deploys -> ImageRow \cup {NoImage}] /\ sound \in [Deploys -> BOOLEAN]
      /\ removing \subseteq ImageIds /\ catalog \in BuildTargets /\ execReal \in BOOLEAN
      /\ upsets \in 0..MaxUpsets /\ muddled \in BOOLEAN /\ \A d \in Deploys : sound[d]
      /\ ImageRows \subseteq ImageIds /\ NoImage \notin ImageIds
  BY ImageTypes DEF ImageTypeOK, LaunchesAreWhole
<1>1. ASSUME NEW d \in Deploys, StartInstance(d) \/ StopInstance(d) PROVE ImageInv'
  <2>1. /\ stage[d] \in {"up", "error", "stopped"}
        /\ \E to \in {"start", "stopped", "error"} : Goto(d, to)
        /\ UNCHANGED <<image, dir, uses, snap, sound, removing, catalog, execReal, muddled, upsets>>
    BY <1>1 DEF StartInstance, StopInstance
  <2>2. PICK to \in {"start", "stopped", "error"} : Goto(d, to)
    BY <2>1
  <2>3. uses[d] \in ImageRows
    BY <2>1 DEF UseInv, Inserted
  <2>4. to \in Stages \ AtWork
    BY DEF Stages, AtWork, Fetching
  <2> QED
    BY <2>1, <2>2, <2>3, <2>4, <1>0, StageMoves
<1>2. ASSUME NEW d \in Deploys, DeleteInstance(d) PROVE ImageInv'
  <2>1. /\ Goto(d, "gone") /\ uses' = [uses EXCEPT ![d] = NoImage]
        /\ UNCHANGED <<image, dir, snap, sound, removing, catalog, execReal, muddled, upsets>>
    BY <1>2 DEF DeleteInstance, Vanish
  <2>2. "gone" \in Stages \ AtWork
    BY DEF Stages, AtWork, Fetching
  <2> QED
    BY <2>1, <2>2, <1>0, StageMoves
<1>3. CASE CreateImage
  <2> DEFINE row == [status |-> "ready", target |-> Custom]
  <2>1. PICK i \in Fresh : image' = [image EXCEPT ![i] = row]
    BY <1>3 DEF CreateImage
  <2>2. UNCHANGED <<dir, stage, uses, snap, sound, removing, catalog, execReal, muddled, upsets>>
    BY <1>3 DEF CreateImage
  <2>3. i \in ImageIds /\ i \notin ImageRows /\ row \in ImageRow /\ row.target = Custom
    BY DEF Fresh, ImageRows, ImageRow
  <2> HIDE DEF row
  <2>4. /\ image' \in [ImageIds -> ImageRow \cup {NoImage}] /\ image'[i] = row
        /\ \A j \in ImageIds \ {i} : image'[j] = image[j]
    BY <2>1, <2>3, <1>0
  <2>5. ImageTypeOK'
    BY <2>2, <2>4 DEF ImageTypeOK
  <2>6. ImageRows' = ImageRows \cup {i} /\ \A j \in ImageRows : image'[j] = image[j]
    BY <2>3, <2>4, <1>0 DEF ImageRows
  <2>7. Versioned' = Versioned
    BY <2>3, <2>4, <2>6 DEF Versioned
  <2>8. UseInv'
    BY <2>2, <2>6 DEF UseInv, Inserted
  <2>9. ASSUME ~muddled' PROVE Clean'
    <3>1. Clean
      BY <2>9, <2>2
    <3>2. OneRow' /\ RowsTrue'
      BY <3>1, <2>2, <2>6, <2>7 DEF Clean, OneRow, RowsTrue, Versioned, imagePopulated
    <3>3. ASSUME NEW d \in Deploys PROVE DeployClean(d)'
      <4>1. stage[d] \in AtWork => uses[d] \in ImageRows /\ image'[uses[d]] = image[uses[d]]
        BY <2>6 DEF UseInv, Inserted, AtWork, Fetching
      <4> QED
        BY <4>1, <3>1, <2>2 DEF Clean, DeployClean, Trusted, imagePopulated, AtWork, Fetching
    <3> QED
      BY <3>2, <3>3 DEF Clean
  <2>10. LaunchesAreWhole'
    BY <2>2 DEF LaunchesAreWhole
  <2> QED
    BY <2>5, <2>8, <2>9, <2>10
<1>4. ASSUME NEW i \in ImageIds, DeleteImage(i) PROVE ImageInv'
  <2>1. /\ i \in ImageRows /\ \A d \in Inserted : uses[d] # i
        /\ image' = [image EXCEPT ![i] = NoImage] /\ removing' = removing \cup {i}
        /\ UNCHANGED <<dir, stage, uses, snap, sound, catalog, execReal, muddled, upsets>>
    BY <1>4 DEF DeleteImage
  <2>2. /\ image' \in [ImageIds -> ImageRow \cup {NoImage}] /\ image'[i] = NoImage
        /\ \A j \in ImageIds \ {i} : image'[j] = image[j]
    BY <2>1, <1>0
  <2>3. ImageTypeOK'
    <3>1. removing' \subseteq ImageIds
      BY <2>1, <1>0
    <3> QED
      BY <3>1, <2>1, <2>2 DEF ImageTypeOK
  <2>4. ImageRows' = ImageRows \ {i} /\ Versioned' \subseteq Versioned
    BY <2>2 DEF ImageRows, Versioned
  <2>5. UseInv'
    <3>1. \A d \in Deploys : d \in Inserted => uses[d] \in ImageRows'
      BY <2>1, <2>4 DEF UseInv
    <3> QED
      BY <3>1, <2>1 DEF UseInv, Inserted
  <2>6. ASSUME ~muddled' PROVE Clean'
    <3>1. Clean
      BY <2>6, <2>1
    <3>2. \A j \in Versioned' : j \in Versioned /\ image'[j] = image[j]
      BY <2>2, <2>4 DEF Versioned, ImageRows
    <3>3. OneRow' /\ RowsTrue'
      BY <3>1, <3>2, <2>1 DEF Clean, OneRow, RowsTrue, imagePopulated
    <3>4. ASSUME NEW d \in Deploys PROVE DeployClean(d)'
      <4>1. stage[d] \in AtWork => image'[uses[d]] = image[uses[d]]
        <5>1. stage[d] \in AtWork => d \in Inserted /\ uses[d] \in ImageIds
          BY <1>0 DEF UseInv, Inserted, AtWork, Fetching
        <5> QED
          BY <5>1, <2>1, <2>2
      <4> QED
        BY <4>1, <3>1, <2>1 DEF Clean, DeployClean, Trusted, imagePopulated, AtWork, Fetching
    <3> QED
      BY <3>3, <3>4 DEF Clean
  <2>7. LaunchesAreWhole'
    BY <2>1 DEF LaunchesAreWhole
  <2> QED
    BY <2>3, <2>5, <2>6, <2>7
<1>5. ASSUME NEW i \in ImageIds, RemoveFiles(i) PROVE ImageInv'
  <2>1. /\ removing' = removing \ {i}
        /\ UNCHANGED <<image, stage, uses, snap, sound, catalog, execReal>>
        /\ \/ /\ dir' = Absent /\ upsets' = upsets
              /\ muddled' = (muddled \/ At(Fetching \cup {"launch"}) # {})
           \/ upsets' \in 0..MaxUpsets /\ dir' = dir /\ muddled' = muddled
    <3>1. Upset => upsets' \in 0..MaxUpsets
      BY <1>0, ImageAssumption DEF Upset
    <3> QED
      BY <1>5, <3>1 DEF RemoveFiles
  <2>2. ImageTypeOK'
    <3>1. Absent \in [files : {"none", "partial", "whole"}, of : BuildTargets \cup {Custom}]
      BY DEF Absent
    <3>2. muddled' \in BOOLEAN
      BY <2>1, <1>0
    <3>3. /\ dir' \in [files : {"none", "partial", "whole"}, of : BuildTargets \cup {Custom}]
          /\ removing' \subseteq ImageIds /\ upsets' \in 0..MaxUpsets
      BY <2>1, <3>1, <1>0
    <3> QED
      BY <3>2, <3>3, <2>1 DEF ImageTypeOK
  <2>3. UseInv'
    BY <2>1 DEF UseInv, Inserted, ImageRows
  <2>4. ASSUME ~muddled' PROVE Clean'
    <3>1. muddled' = (muddled \/ At(Fetching \cup {"launch"}) # {}) => ~muddled
      BY <2>4
    <3>2. ~muddled /\ Clean
      <4>1. muddled' = muddled => ~muddled
        BY <2>4
      <4> QED
        BY <4>1, <3>1, <2>1
    <3>3. OneRow'
      BY <3>2, <2>1 DEF Clean, OneRow, Versioned, ImageRows
    <3>4. CASE dir' = dir
      BY <3>2, <3>3, <3>4, <2>1
         DEF Clean, RowsTrue, DeployClean, Trusted, imagePopulated, Versioned, ImageRows
    <3>5. CASE dir' = Absent /\ muddled' = (muddled \/ At(Fetching \cup {"launch"}) # {})
      <4>1. ~imagePopulated'
        BY <3>5 DEF imagePopulated, Absent
      <4>2. At(Fetching \cup {"launch"}) = {}
        BY <3>5, <2>4
      <4>3. \A d \in Deploys : stage[d] \notin Fetching \cup {"launch"}
        BY <4>2 DEF At
      <4>4. RowsTrue'
        BY <4>1 DEF RowsTrue
      <4>5. ASSUME NEW d \in Deploys PROVE DeployClean(d)'
        <5>1. DeployClean(d) /\ ~Trusted(d)'
          BY <4>1, <3>2 DEF Clean, Trusted
        <5> QED
          BY <5>1, <4>3, <2>1 DEF DeployClean, Fetching
      <4> QED
        BY <3>3, <4>4, <4>5 DEF Clean
    <3> QED
      BY <3>4, <3>5, <2>1
  <2>5. LaunchesAreWhole'
    BY <2>1 DEF LaunchesAreWhole
  <2> QED
    BY <2>2, <2>3, <2>4, <2>5
<1>6. CASE RestartStore
  <2> DEFINE after(d) == CASE stage[d] \in {"create", "insert"} -> "gone"
                           [] stage[d] \in {"launch", "start"} -> "error"
                           [] stage[d] \in AtRest -> stage[d]
                           [] OTHER -> "stuck"
  <2>1. /\ stage' = [d \in Deploys |-> after(d)]
        /\ uses' = [d \in Deploys |-> IF stage'[d] = "gone" THEN NoImage ELSE uses[d]]
        /\ snap' = [d \in Deploys |-> NoImage] /\ removing' = {}
        /\ UNCHANGED <<image, dir, sound, muddled>> /\ execReal' \in BOOLEAN
    BY <1>6 DEF RestartStore
  <2>2. catalog' \in BuildTargets /\ upsets' \in 0..MaxUpsets
    BY <1>6, <1>0, ImageAssumption DEF RestartStore, Upset, BuildTargets
  <2>3. \A d \in Deploys : /\ after(d) \in AtRest
                           /\ after(d) \in AtRest \ {"new", "gone"} => d \in Inserted
                           /\ after(d) \notin {"gone"} => uses'[d] = uses[d]
    BY <2>1 DEF Inserted, AtRest
  <2> HIDE DEF after
  <2>4. \A d \in Deploys : stage'[d] = after(d)
    BY <2>1
  <2>5. ImageTypeOK'
    <3>1. AtRest \subseteq Stages
      BY DEF Stages, AtRest
    <3>2. stage' \in [Deploys -> Stages]
      BY <3>1, <2>1, <2>3
    <3>3. /\ uses' \in [Deploys -> ImageIds \cup {NoImage}]
          /\ snap' \in [Deploys -> ImageRow \cup {NoImage}]
      BY <2>1, <1>0
    <3> QED
      BY <3>2, <3>3, <2>1, <2>2 DEF ImageTypeOK
  <2>6. \A d \in Deploys : stage'[d] \notin AtWork /\ stage'[d] \notin Fetching \cup {"fetch"}
    BY <2>3, <2>4 DEF AtWork, Fetching, AtRest
  <2>7. UseInv'
    <3> SUFFICES ASSUME NEW d \in Deploys, d \in Inserted' PROVE uses'[d] \in ImageRows'
      BY <2>6 DEF UseInv
    <3>1. stage'[d] \in AtRest \ {"new", "gone"}
      BY <2>3, <2>4 DEF Inserted
    <3> QED
      BY <3>1, <2>1, <2>3, <2>4 DEF UseInv, ImageRows
  <2>8. ~muddled' => Clean'
    BY <2>1, <2>6 DEF Clean, OneRow, RowsTrue, DeployClean, imagePopulated, Versioned, ImageRows,
                      AtWork, Fetching
  <2>9. LaunchesAreWhole'
    BY <2>1 DEF LaunchesAreWhole
  <2> QED
    BY <2>5, <2>7, <2>8, <2>9
<1> QED
  BY <1>1, <1>2, <1>3, <1>4, <1>5, <1>6

LEMMA ImageInvStep == ImageInv /\ [ImageNext]_imageVars => ImageInv'
<1> SUFFICES ASSUME ImageInv, [ImageNext]_imageVars PROVE ImageInv'
    OBVIOUS
<1>1. CASE UNCHANGED imageVars
  BY <1>1 DEF imageVars, ImageInv, ImageTypeOK, UseInv, Clean, OneRow, RowsTrue, DeployClean,
              Trusted, imagePopulated, Versioned, ImageRows, Inserted, LaunchesAreWhole
<1>2. CASE ImageNext
  BY <1>2, ImageRequests, ImageReads, ImageFetches, ImageLaunches, ImageEnds DEF ImageNext
<1> QED
  BY <1>1, <1>2

\* The type invariant of image rows, their files and the deployments that use them.
THEOREM ImageTypeCorrect == ImageSpec => []ImageTypeOK
<1>1. ImageInv => ImageTypeOK
  BY DEF ImageInv
<1> QED
  BY <1>1, ImageInvInit, ImageInvStep, PTL DEF ImageSpec

\* A deployment launches on the complete files of the build its image names,
\* after any fetches that failed or were cut off, images deleted and new builds
\* in the catalog, as long as the directory was never muddled; and so does a
\* start, which ensures nothing, of an image whose row reads ready. An incomplete
\* directory belongs to a row that does not read ready, and to nobody else.
THEOREM LaunchesWhole == ImageSpec => []LaunchesAreWhole
<1>1. ImageInv => LaunchesAreWhole
  BY DEF ImageInv
<1> QED
  BY <1>1, ImageInvInit, ImageInvStep, PTL DEF ImageSpec

=============================================================================
