------------------------------ MODULE Sessions ------------------------------
(***************************************************************************)
(* Users, their refresh tokens and the requests of AuthService on them:    *)
(* login, refresh and logout.  It is also the ground StaffInvites and      *)
(* OneTimeCodes build on: requests that run statement by statement and     *)
(* interleave between any two of them.  At READ COMMITTED an UPDATE or a   *)
(* DELETE chooses its rows when it starts, waits for the locks on them and *)
(* looks at them again; nobody sees the writes of a transaction before it  *)
(* commits; PostgreSQL aborts a transaction of a ring that waits.          *)
(***************************************************************************)
EXTENDS Naturals, FiniteSets, Relation

CONSTANTS
    Users,         \* e-mail addresses, each with at most one user
    Roles,         \* INVITABLE_ROLES
    Requests,      \* calls of the routes, those of the same
                   \* operation numbered as they arrive
    Starts,        \* the rows there are to start with, and the operation each
                   \* request calls, Null for none
    MaxClock,      \* bound on time
    Null

\* A request issues at most one token and sets at most one password, which
\* have its number; a user may bring a token and a password from earlier.
Tokens == Users \cup Requests
Passwords == Users \cup Requests

AccountRow ==
    [exists : BOOLEAN, verified : BOOLEAN, password : Passwords \cup {Null},
     role : Roles \cup {"USER"}]

NoAccount == [exists |-> FALSE, verified |-> FALSE, password |-> Null, role |-> "USER"]

\* from is the token it was refreshed from, no column of the table.
SessionRow ==
    [state : {"ABSENT", "LIVE", "REVOKED"}, user : Users \cup {Null},
     from : Tokens \cup {Null}]

ASSUME SessionsAssumption ==
    /\ Requests = 1..Cardinality(Requests)
    /\ MaxClock \in Nat
    /\ \A start \in Starts :
          /\ start.account \in [Users -> AccountRow]
          /\ \A u \in Users : LET row == start.account[u] IN
                /\ ~row.exists => row = NoAccount
                /\ row.password \notin Requests /\ row.role = "USER"
    /\ Null \notin Users \cup Requests
    /\ Users \cap Requests = {}
    /\ Roles \cap {"USER", Null} = {}

VARIABLES
    clock,    \* the time, from 1
    account,  \* rows of the User table
    session,  \* rows of the RefreshToken table
    pc,       \* the last statement of each request
    call,     \* its operation and arguments, and the time it took as now
    wanted,   \* the rows it waits for
    held      \* the rows it has locked, which are those it has written

flow == <<clock, pc, call, wanted, held>>
sessionVars == <<flow, account, session>>

NoCall ==
    [op |-> Null, user |-> Null, row |-> Null, given |-> Null, now |-> 0]

SessionsInit(start) ==
    /\ clock = 1
    /\ account = start.account
    /\ session = [t \in Tokens |->
                     IF t \in Users /\ account[t].verified
                     THEN [state |-> "LIVE", user |-> t, from |-> Null]
                     ELSE [state |-> "ABSENT", user |-> Null, from |-> Null]]
    /\ pc = [q \in Requests |-> "idle"]
    /\ call = [q \in Requests |-> [NoCall EXCEPT !.op = start.load[q]]]
    /\ wanted = [q \in Requests |-> {}]
    /\ held = [q \in Requests |-> {}]

-----------------------------------------------------------------------------
(***************************************************************************)
(* Requests and their transactions.                                        *)
(***************************************************************************)
At(q, stage) == pc[q] = stage

Op(q) == call[q].op

Goto(q, stage) == pc' = [pc EXCEPT ![q] = stage]

Arrive(q, op, user, row, given) ==
    /\ At(q, "idle")
    /\ Op(q) = op
    /\ \A p \in 1..(q - 1) : At(p, "idle") => Op(p) # op
    /\ call' = [call EXCEPT ![q] = [op |-> op, user |-> user, row |-> row,
                                    given |-> given, now |-> clock]]
    /\ Goto(q, op)
    /\ UNCHANGED <<clock, account, session, wanted, held>>

\* Goes on without a write or a lock.
Continue(q, stage) == Goto(q, stage) /\ UNCHANGED <<clock, call, wanted, held>>

Blocked(q, rows) == \E p \in Requests \ {q} : held[p] \cap rows # {}

\* An UPDATE or a DELETE of the rows that qualify finds one locked, and waits.
Wait(q, rows) ==
    /\ wanted[q] = {}
    /\ Blocked(q, rows)
    /\ wanted' = [wanted EXCEPT ![q] = rows]
    /\ UNCHANGED <<clock, pc, call, held>>

\* The rows it chose when it started that qualify now.
Hit(q, rows) == IF wanted[q] = {} THEN rows ELSE wanted[q] \cap rows

Ready(q, rows) == ~Blocked(q, IF wanted[q] = {} THEN rows ELSE wanted[q])

Lock(q, rows, stage) ==
    /\ held' = [held EXCEPT ![q] = held[q] \cup rows]
    /\ wanted' = [wanted EXCEPT ![q] = {}]
    /\ Goto(q, stage)
    /\ UNCHANGED <<clock, call>>

\* An UPDATE or a DELETE that does not mind how many rows it finds ...
Write(q, rows, stage) ==
    \/ Wait(q, rows)
    \/ Ready(q, rows) /\ Lock(q, Hit(q, rows), stage)

\* Mutant: the transaction is left open.
Finish_KeepLocks(q) ==
    /\ Goto(q, "done")
    /\ call' = [call EXCEPT ![q] = NoCall]
    /\ wanted' = [wanted EXCEPT ![q] = {}]
    /\ UNCHANGED <<clock, held>>

\* The request is answered; if it ran a transaction, that ends.
Finish(q) ==
    /\ Goto(q, "done")
    /\ call' = [call EXCEPT ![q] = NoCall]
    /\ wanted' = [wanted EXCEPT ![q] = {}]
    /\ held' = [held EXCEPT ![q] = {}]
    /\ UNCHANGED clock

\* ... and one that gives up when it finds none.
Claim(q, rows, stage) ==
    \/ Wait(q, rows)
    \/ /\ Ready(q, rows)
       /\ IF Hit(q, rows) = {} THEN Finish(q) ELSE Lock(q, Hit(q, rows), stage)

WaitsFor == [e \in Requests \X Requests |-> e[1] # e[2] /\ wanted[e[1]] \cap held[e[2]] # {}]

InDeadlock(q) == wanted[q] # {} /\ TransitiveClosure(WaitsFor, Requests)[q, q]

\* PostgreSQL notices after deadlock_timeout.
BreakDeadlock(q) == InDeadlock(q) /\ Finish(q)

\* Stages in which nothing is lost when the request ends: it runs no statement,
\* or a single one.
Unstarted == {"idle", "revokeInvite", "logout", "done"}

\* A transaction runs out of time, its connection or the process is lost.
Abort(q) == pc[q] \notin Unstarted /\ Finish(q)

Tick ==
    /\ clock < MaxClock
    /\ clock' = clock + 1
    /\ UNCHANGED <<account, session, pc, call, wanted, held>>

-----------------------------------------------------------------------------
(***************************************************************************)
(* What the transactions on a user share.                                  *)
(***************************************************************************)
UserRow(u) == <<"user", u>>
TokenRow(t) == <<"token", t>>

Live(t) == session[t].state = "LIVE"

\* Mutant: the filter on revokedAt is inverted.
LiveTokens_Ended(u) == {TokenRow(t) : t \in {s \in Tokens : ~Live(s) /\ session[s].user = u}}

LiveTokens(u) == {TokenRow(t) : t \in {s \in Tokens : Live(s) /\ session[s].user = u}}

\* updateRole, updatePasswordHash, or the verification of the e-mail address.
UpdateUser(q) ==
    /\ At(q, "claimed")
    /\ Write(q, {UserRow(call[q].user)}, "userUpdated")
    /\ UNCHANGED <<account, session>>

\* The UPDATE of the live refresh tokens.
RevokeSessions(q) ==
    /\ At(q, "userUpdated")
    /\ Op(q) # "verifyEmail"
    /\ Write(q, LiveTokens(call[q].user), "sessionsRevoked")
    /\ UNCHANGED <<account, session>>

\* The tokens when q commits, those it has revoked ended ...
Revoked(q) ==
    [t \in Tokens |-> IF TokenRow(t) \in held[q] THEN [session[t] EXCEPT !.state = "REVOKED"]
                      ELSE session[t]]

\* ... and, by issueTokens, its own inserted.
Issued(q, from) ==
    [Revoked(q) EXCEPT ![q] = [state |-> "LIVE", user |-> call[q].user, from |-> from]]

-----------------------------------------------------------------------------
(***************************************************************************)
(* login and adminLogin.                                                   *)
(***************************************************************************)
\* Who signs in knows the password there is.
CallLogin(q) ==
    \E u \in Users, op \in {"login", "adminLogin"} :
        account[u].exists /\ Arrive(q, op, u, Null, account[u].password)

\* Mutant: whether the address is verified is not looked at.
Authentic_Unverified(u, password) ==
    account[u].exists /\ password # Null /\ account[u].password = password

Authentic(u, password) ==
    account[u].exists /\ password # Null /\ account[u].password = password /\ account[u].verified

\* findByEmail and the checks of its result.
Authenticate(q) ==
    LET u == call[q].user IN
    /\ pc[q] \in {"login", "adminLogin"}
    /\ IF Authentic(u, call[q].given) /\ (Op(q) = "adminLogin" => account[u].role # "USER")
       THEN Continue(q, "authenticated")
       ELSE Finish(q)
    /\ UNCHANGED <<account, session>>

IssueLogin(q) ==
    /\ At(q, "authenticated")
    /\ session' = Issued(q, Null)
    /\ Finish(q)
    /\ UNCHANGED account

-----------------------------------------------------------------------------
(***************************************************************************)
(* logout and refresh: whoever calls them was given the token.             *)
(***************************************************************************)
CallWithToken(q) ==
    \E t \in Tokens, op \in {"logout", "refresh"} :
        session[t].state # "ABSENT" /\ Arrive(q, op, session[t].user, t, Null)

\* A single conditional UPDATE.
Logout(q) ==
    LET t == call[q].row IN
    /\ At(q, "logout")
    /\ ~Blocked(q, {TokenRow(t)})
    /\ session' = IF Live(t) THEN [session EXCEPT ![t].state = "REVOKED"] ELSE session
    /\ Finish(q)
    /\ UNCHANGED account

\* Mutant: the update does not look at revokedAt.
Rotatable_Any(t) == {TokenRow(t)}

Rotatable(t) == {TokenRow(s) : s \in {t} \cap {x \in Tokens : Live(x)}}

\* The conditional UPDATE of the token.
RotateToken(q) ==
    /\ At(q, "refresh")
    /\ Claim(q, Rotatable(call[q].row), "rotated")
    /\ UNCHANGED <<account, session>>

CommitRefresh(q) ==
    /\ At(q, "rotated")
    /\ session' = Issued(q, call[q].row)
    /\ Finish(q)
    /\ UNCHANGED account

-----------------------------------------------------------------------------
SessionCall(q) == CallLogin(q) \/ CallWithToken(q)

SessionStep(q) ==
    \/ UpdateUser(q) \/ RevokeSessions(q)
    \/ Authenticate(q) \/ IssueLogin(q)
    \/ Logout(q) \/ RotateToken(q) \/ CommitRefresh(q)

-----------------------------------------------------------------------------
(***************************************************************************)
(* Properties.                                                             *)
(***************************************************************************)
SessionsTypeOK ==
    /\ account \in [Users -> AccountRow]
    /\ session \in [Tokens -> SessionRow]
    /\ \A p, q \in Requests : p # q => held[p] \cap held[q] = {}
    /\ \A q \in Requests : held[q] # {} => ~At(q, "idle") /\ ~At(q, "done")

\* A refresh token is exchanged once, however often a refresh is sent: it has at
\* most one successor, and is revoked when it has one.
RotatedOnce ==
    \A t \in Tokens :
        LET successors == {s \in Tokens : session[s].from = t} IN
        /\ Cardinality(successors) <= 1
        /\ successors # {} => ~Live(t)

\* Whichever way a session was opened, the e-mail address of its user has been
\* proven by then: by a code, a link, or Google.
OnlyVerifiedSignedIn ==
    \A t \in Tokens : Live(t) => account[session[t].user].verified

\* The session a user had before does not outlive a change of the password or of the
\* role, whatever requests come between.
EarlierSessionsEnd ==
    \A u \in Users :
        account[u].password \in Requests \/ account[u].role # "USER" => ~Live(u)

\* Requests never wait for each other for ever, though they lock the same rows in
\* different orders: again and again no request is left running.
EveryCallAnswered ==
    []<>(\A q \in Requests : At(q, "idle") \/ At(q, "done"))

=============================================================================
