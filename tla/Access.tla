-------------------------------- MODULE Access --------------------------------
(***************************************************************************)
(* Who may use the appliance: the first account, logins, sessions, the     *)
(* limiter in front of both, and the token of the agent's service.         *)
(*                                                                         *)
(* A bootstrap counts the accounts and inserts one later; a session's row  *)
(* outlives its twelve hours until the next start of the process prunes    *)
(* it, and it is the lookup that has to refuse it; the limiter keeps the   *)
(* attempts of five minutes in memory. Times are stored as text and        *)
(* compared as text, which is right but for less than a second: a tick of  *)
(* the clock stands for more. The only role the program gives is admin,    *)
(* which has every permission, so that routes differ by their guard only:  *)
(* a session, the service token where one is configured, or either.        *)
(***************************************************************************)
EXTENDS Naturals, Sequences, FiniteSets

CONSTANTS
    Clients,      \* browsers, each at an address of its own
    Names,        \* user names
    Tokens,       \* bound: session tokens handed out
    ServiceTokens, \* values of OPENCUTTLES_MCP_TOKEN
    NoOne,
    Limit,        \* attempts let through in a window (10)
    Window,       \* ticks of a window (5 minutes)
    Duration,     \* ticks of a session (12 hours)
    MaxTime,      \* bound on the clock
    MaxRestarts

ASSUME AccessAssumption ==
    /\ NoOne \notin Names \cup Tokens \cup ServiceTokens /\ Tokens \cap ServiceTokens = {}
    /\ Limit \in Nat \ {0} /\ Window \in Nat \ {0} /\ Duration \in Nat \ {0}
    /\ MaxTime \in Nat /\ MaxRestarts \in Nat

VARIABLES
    clock,
    users,      \* names in the users table, all admins
    claim,      \* bootstraps that found no account: the name each will insert
    sessions,   \* tokens with a row in the sessions table
    owner,      \* of a token that was handed out
    born,       \* when it was
    ended,      \* tokens that were logged out
    cookie,
    attempts,   \* rateLimiter.attempts: which of the admitted ones it still keeps
    admitted,   \* when the limiter let an attempt through, since the process started
    mcpToken,   \* the service token of this process, if it has one
    letIn,      \* the last request that was let in: its route's guard, its token, when
    restarts

accessVars == <<clock, users, claim, sessions, owner, born, ended, cookie, attempts,
                admitted, mcpToken, letIn, restarts>>

LimiterKeys == {"bootstrap", "login"} \X Clients

Guards == {"require", "mcpAuth", "serviceTokenOnly"}
NobodyIn == [guard |-> "require", token |-> NoOne, at |-> 0]

AccessTypeOK ==
    /\ clock \in 0..MaxTime /\ users \subseteq Names
    /\ claim \in [Clients -> Names \cup {NoOne}]
    /\ sessions \subseteq Tokens /\ ended \subseteq Tokens
    /\ owner \in [Tokens -> Names \cup {NoOne}] /\ born \in [Tokens -> 0..MaxTime]
    /\ cookie \in [Clients -> Tokens \cup {NoOne}]
    /\ admitted \in [LimiterKeys -> Seq(0..MaxTime)]
    /\ attempts \in [LimiterKeys -> SUBSET Nat]
    /\ \A k \in LimiterKeys : attempts[k] \subseteq DOMAIN admitted[k]
    /\ mcpToken \in ServiceTokens \cup {NoOne}
    /\ letIn \in [guard : Guards, token : Tokens \cup ServiceTokens \cup {NoOne}, at : 0..MaxTime]
    /\ restarts \in 0..MaxRestarts

AccessInit ==
    /\ clock = 0 /\ users = {} /\ claim = [c \in Clients |-> NoOne]
    /\ sessions = {} /\ ended = {}
    /\ owner = [t \in Tokens |-> NoOne] /\ born = [t \in Tokens |-> 0]
    /\ cookie = [c \in Clients |-> NoOne]
    /\ attempts = [k \in LimiterKeys |-> {}] /\ admitted = [k \in LimiterKeys |-> <<>>]
    /\ mcpToken \in ServiceTokens \cup {NoOne} /\ letIn = NobodyIn /\ restarts = 0

-----------------------------------------------------------------------------

Recent(key) == {i \in attempts[key] : admitted[key][i] + Window > clock}

Admit(key, yes) ==
    /\ admitted' = [admitted EXCEPT ![key] = IF yes THEN Append(@, clock) ELSE @]
    /\ attempts' = [attempts EXCEPT ![key] =
            Recent(key) \cup IF yes THEN {Len(admitted[key]) + 1} ELSE {}]

\* Fault: one attempt too many
AllowOneMore(key, yes) == yes = (Cardinality(Recent(key)) <= Limit) /\ Admit(key, yes)

\* rateLimiter.allow, under its lock: what left the window is dropped, and an
\* attempt is counted when it is let through
allow(key, yes) == yes = (Cardinality(Recent(key)) < Limit) /\ Admit(key, yes)

\* bootstrapAdmin up to the count: the limiter, the bootstrap token, the count.
\* Once there is an account it does nothing but fill a key of its own.
Bootstrap(c) ==
    /\ claim[c] = NoOne /\ users = {}
    /\ \E yes, valid \in BOOLEAN, name \in Names :
        /\ allow(<<"bootstrap", c>>, yes)
        /\ claim' = IF yes /\ valid THEN [claim EXCEPT ![c] = name] ELSE claim
    /\ UNCHANGED <<clock, users, sessions, owner, born, ended, cookie, mcpToken, letIn,
                   restarts>>

\* A name that is taken is refused
CreateUser(name) == users' = users \cup {name}

\* The rest of BootstrapAdmin, after the password was hashed
InsertAdmin(c) ==
    /\ claim[c] # NoOne /\ CreateUser(claim[c])
    /\ claim' = [claim EXCEPT ![c] = NoOne]
    /\ UNCHANGED <<clock, sessions, owner, born, ended, cookie, attempts, admitted,
                   mcpToken, letIn, restarts>>

CreateSession(t, name) ==
    /\ owner[t] = NoOne /\ owner' = [owner EXCEPT ![t] = name]
    /\ born' = [born EXCEPT ![t] = clock] /\ sessions' = sessions \cup {t}

\* login: a known name with its password gets a token of its own
Login(c) ==
    \E yes, right \in BOOLEAN, name \in Names :
        /\ allow(<<"login", c>>, yes)
        /\ \/ /\ yes /\ right /\ name \in users
              /\ \E t \in Tokens : CreateSession(t, name) /\ cookie' = [cookie EXCEPT ![c] = t]
           \/ /\ ~(yes /\ right /\ name \in users)
              /\ UNCHANGED <<owner, born, sessions, cookie>>
        /\ UNCHANGED <<clock, users, claim, ended, mcpToken, letIn, restarts>>

\* Fault: a session is good for as long as it has a row
HasRow(t) == t \in sessions

\* GetSessionUser: the row has to be there, and not to have expired
GetSessionUser(t) == t \in sessions /\ clock < born[t] + Duration

AuthenticateRequest(c) == cookie[c] # NoOne /\ GetSessionUser(cookie[c])

HasServiceToken(sent) == mcpToken # NoOne /\ sent = mcpToken

\* require, which takes a session, serviceTokenOnly, which takes the service token,
\* and mcpAuth, which takes either, the token first. Any client may send any token.
Request(c) ==
    /\ \E guard \in Guards, sent \in ServiceTokens \cup {NoOne} :
        \/ /\ guard # "require" /\ HasServiceToken(sent)
           /\ letIn' = [guard |-> guard, token |-> sent, at |-> clock]
        \/ /\ guard # "serviceTokenOnly" /\ ~ (guard = "mcpAuth" /\ HasServiceToken(sent))
           /\ AuthenticateRequest(c)
           /\ letIn' = [guard |-> guard, token |-> cookie[c], at |-> clock]
    /\ UNCHANGED <<clock, users, claim, sessions, owner, born, ended, cookie, attempts,
                   admitted, mcpToken, restarts>>

\* logout, itself behind require
Logout(c) ==
    /\ AuthenticateRequest(c)
    /\ sessions' = sessions \ {cookie[c]} /\ ended' = ended \cup {cookie[c]}
    /\ letIn' = IF letIn.token = cookie[c] THEN NobodyIn ELSE letIn
    /\ cookie' = [cookie EXCEPT ![c] = NoOne]
    /\ UNCHANGED <<clock, users, claim, owner, born, attempts, admitted, mcpToken, restarts>>

\* A copy of the cookie in another browser keeps being sent
Copy(c, d) ==
    /\ cookie[c] # NoOne /\ cookie[d] = NoOne
    /\ cookie' = [cookie EXCEPT ![d] = cookie[c]]
    /\ UNCHANGED <<clock, users, claim, sessions, owner, born, ended, attempts, admitted,
                   mcpToken, letIn, restarts>>

PruneExpiredSessions == sessions' = {t \in sessions : clock < born[t] + Duration}

\* The process starts again, perhaps with another service token, with an empty
\* limiter and no request under way
Restart ==
    /\ restarts < MaxRestarts /\ restarts' = restarts + 1
    /\ PruneExpiredSessions
    /\ claim' = [c \in Clients |-> NoOne]
    /\ attempts' = [k \in LimiterKeys |-> {}] /\ admitted' = [k \in LimiterKeys |-> <<>>]
    /\ mcpToken' \in ServiceTokens \cup {NoOne} /\ letIn' = NobodyIn
    /\ UNCHANGED <<clock, users, owner, born, ended, cookie>>

Tick ==
    /\ clock < MaxTime /\ clock' = clock + 1
    /\ UNCHANGED <<users, claim, sessions, owner, born, ended, cookie, attempts, admitted,
                   mcpToken, letIn, restarts>>

AccessNext ==
    \/ \E c \in Clients : Bootstrap(c) \/ InsertAdmin(c) \/ Login(c) \/ Request(c) \/ Logout(c)
    \/ \E c, d \in Clients : Copy(c, d)
    \/ Restart \/ Tick

AccessSpec == AccessInit /\ [][AccessNext]_accessVars

-----------------------------------------------------------------------------

\* A request that is let in on a session is so on one that somebody with an
\* account opened less than its duration ago and nobody has closed, whether or not
\* the row of an expired one is still there, and whichever browser sends it.
SessionsEnd ==
    letIn.token \in Tokens => /\ owner[letIn.token] \in users
                              /\ letIn.at < born[letIn.token] + Duration
                              /\ letIn.token \in sessions \cup {t \in Tokens : clock >= born[t] + Duration}
                              /\ letIn.token \notin ended
                              /\ letIn.guard # "serviceTokenOnly"

\* The agent's service gets in on the token this process was configured with, not
\* on that of an earlier one, and only where a session alone is not asked for.
ServiceTokenServes ==
    letIn.token \in ServiceTokens => letIn.token = mcpToken /\ letIn.guard # "require"

\* In no five minutes does the process let more than ten attempts of a client
\* through, wherever the five minutes begin.
AttemptsAreFew ==
    \A k \in LimiterKeys : \A begin \in 0..clock :
        Cardinality({i \in DOMAIN admitted[k] : admitted[k][i] \in begin..(begin + Window - 1)})
            <= Limit

\* Access takes a live session, or the service token where that is accepted, and
\* getting a session takes few attempts.
AccessIsEarned == SessionsEnd /\ ServiceTokenServes /\ AttemptsAreFew

=============================================================================
