------------------------- MODULE AccountsUsersProofs -------------------------
(***************************************************************************)
(* Proofs about the users themselves: whose sessions there are, what has   *)
(* been proven of their addresses, which roles and passwords they have,    *)
(* and what becomes of the codes sent to them.                             *)
(***************************************************************************)
EXTENDS AccountsProofs

-----------------------------------------------------------------------------
(***************************************************************************)
(* The inductive invariant.                                                *)
(***************************************************************************)
\* Nothing has been proven of a user who does not exist.
AccountsSound ==
    \A u \in Users : ~account[u].exists => ~account[u].verified /\ account[u].role = "USER"

\* Tokens belong to users, the one a user had before to that user.
TokensOwned ==
    \A t \in Tokens : session[t].state # "ABSENT" =>
        session[t].user \in Users /\ (t \in Users => session[t].user = t)

\* Codes were sent to users, and there is nothing to know of one that was not sent.
CodesOwned ==
    \A c \in Codes :
        IF code[c].state = "ABSENT" THEN code[c].kind = Null
        ELSE code[c].user \in Users /\ account[code[c].user].exists

AcceptedSound == \A i \in Invites : invite[i].acceptedAt # 0 => invite[i].state # "ABSENT"

IdentitiesSound == \A u \in Users : identity[u] => account[u].verified

UsersSound ==
    /\ clock >= 1
    /\ AccountsSound /\ IdentitiesSound
    /\ TokensOwned /\ OnlyVerifiedSignedIn /\ EarlierSessionsEnd
    /\ CodesOwned
    /\ AcceptedSound /\ AcceptedIsPromoted

\* Whom a request is about, and what it has been told of them.
Serves(q) ==
    /\ pc[q] \notin {"idle", "done", "revokeInvite"} => call[q].user \in Users
    /\ pc[q] \in {"issue", "retired"} => account[call[q].user].exists
    /\ At(q, "authenticated") => account[call[q].user].verified
    /\ pc[q] \in {"refresh", "rotated"} =>
          /\ session[call[q].row].state # "ABSENT"
          /\ session[call[q].row].user = call[q].user
    /\ Op(q) = "acceptInvite" /\ pc[q] \in Late \cup {"acceptInvite", "inviteRead"} =>
          account[call[q].user].verified
    /\ Op(q) = "acceptInvite" /\ pc[q] \in Late \cup {"inviteRead"} =>
          /\ invite[call[q].row].email = call[q].user
          /\ invite[call[q].row].role = call[q].given
          /\ call[q].now >= 1

\* What a request waits for covers what it goes on to write.
Waits(q) ==
    LET u == call[q].user IN
    /\ pc[q] \in {"idle", "googleLogin", "unlinked"} => wanted[q] = {} /\ held[q] = {}
    /\ At(q, "claimed") /\ wanted[q] # {} => UserRow(u) \in wanted[q]
    /\ At(q, "userUpdated") /\ wanted[q] # {} /\ Live(u) => TokenRow(u) \in wanted[q]
    /\ At(q, "newAccount") /\ wanted[q] # {} => {UserRow(u), IdentityRow(u)} \subseteq wanted[q]

\* What a request has locked covers what it writes when it commits.
Holds(q) ==
    LET u == call[q].user IN
    /\ pc[q] \in {"userUpdated", "sessionsRevoked", "linksDeleted"} => UserRow(u) \in held[q]
    /\ At(q, "sessionsRevoked") => ~Live(u) \/ TokenRow(u) \in held[q]
    /\ pc[q] \in {"taken", "linked"} => UserRow(u) \in held[q] \/ account[u].verified
    /\ At(q, "linked") =>
          IF identity[u] THEN \A c \in Codes : CodeId(c) \notin held[q]
          ELSE IdentityRow(u) \in held[q]

\* The codes of a request are those of its user and, but for a sign-in with Google, of
\* the kind its operation is about.
HoldsCodes(q) ==
    LET Suits(c) == code[c].user = call[q].user /\ code[c].kind = KindOf(Op(q)) IN
    /\ \A c \in Codes : CodeId(c) \in held[q] =>
          code[c].user = call[q].user /\ (Op(q) # "googleLogin" => code[c].kind = KindOf(Op(q)))
    /\ pc[q] \in {"codeFound", "confirmLink", "linkFound"} =>
          code[call[q].row].user = call[q].user /\ code[call[q].row].kind = KindOf(Op(q))

\* The password of a request is set when it commits, or by register while it goes on.
OwnPassword(q) ==
    \A u \in Users : account[u].password = q => pc[q] \in {"issue", "retired", "done"}

Knows(q) == Serves(q) /\ Waits(q) /\ Holds(q) /\ HoldsCodes(q) /\ OwnPassword(q)

UsersInv ==
    /\ AccountsInv
    /\ UsersSound
    /\ \A q \in Requests : Knows(q)

-----------------------------------------------------------------------------
(***************************************************************************)
(* What a step of one request leaves to the others.                        *)
(***************************************************************************)
\* What has been proven stays proven, rows stay with their users, and a password or an
\* identity that another request is about to set is left alone.
UsersKept(q) ==
    /\ \A u \in Users :
          /\ account[u].exists => account'[u].exists
          /\ account[u].verified => account'[u].verified
          /\ identity[u] => identity'[u]
          /\ (\E p \in Requests \ {q} : IdentityRow(u) \in held[p]) => identity'[u] = identity[u]
          /\ \A p \in Requests \ {q} : account'[u].password = p => account[u].password = p
          /\ session'[u].state = "LIVE" => session[u].state = "LIVE"
    /\ \A t \in Tokens : session[t].state # "ABSENT" =>
          session'[t].state # "ABSENT" /\ session'[t].user = session[t].user
    /\ \A i \in Invites : invite[i].state # "ABSENT" =>
          invite'[i].email = invite[i].email /\ invite'[i].role = invite[i].role
    /\ \A c \in Codes : code[c].state # "ABSENT" =>
          code'[c].user = code[c].user /\ code'[c].kind = code[c].kind

OthersWait(q) == \A p \in Requests \ {q} : wanted'[p] = wanted[p]

\* If it does, what they know stays true.
LEMMA OthersKnow ==
    ASSUME UsersInv, NEW q \in Requests, Others(q), OthersWait(q), UsersKept(q),
           NEW p \in Requests \ {q}
    PROVE  Knows(p)'
<1> p \in Requests /\ p # q
    OBVIOUS
<1>1. /\ pc'[p] = pc[p] /\ call'[p] = call[p] /\ held'[p] = held[p] /\ wanted'[p] = wanted[p]
      /\ Knows(p) /\ Mine(p) /\ UsersSound
    BY DEF Others, OthersWait, UsersInv, AccountsInv
<1>2. call[p].user \in Users \/ pc[p] \in {"idle", "done", "revokeInvite"}
    BY <1>1 DEF Knows, Serves
<1>3. Serves(p)'
  <2>1. pc[p] \in {"refresh", "rotated"} =>
            call[p].row \in Tokens /\ session[call[p].row].state # "ABSENT"
      BY <1>1 DEF Knows, Serves, Mine, RowClaims
  <2>2. Op(p) = "acceptInvite" /\ pc[p] \in Late \cup {"acceptInvite", "inviteRead"} =>
            call[p].row \in Invites /\ invite[call[p].row].state # "ABSENT"
      BY <1>1 DEF Mine, RowClaims
  <2> QED
      BY <1>1, <1>2, <2>1, <2>2 DEF Knows, Serves, UsersKept, At, Op, Late
<1>4. Waits(p)'
    BY <1>1, <1>2 DEF Knows, Waits, UsersKept, At, Live
<1>5. Holds(p)'
  <2>1. call[p].user \in Users =>
            /\ identity[call[p].user] => identity'[call[p].user]
            /\ IdentityRow(call[p].user) \in held[p] =>
                  identity'[call[p].user] = identity[call[p].user]
      BY DEF UsersKept
  <2> QED
      BY <1>1, <1>2, <2>1 DEF Knows, Holds, UsersKept, At, Live
<1>6. HoldsCodes(p)'
  <2>1. \A c \in Codes : CodeId(c) \in held[p] => code[c].state # "ABSENT"
      BY <1>1 DEF Mine, HeldRows
  <2>2. pc[p] \in {"codeFound", "confirmLink", "linkFound"} =>
            call[p].row \in Codes /\ code[call[p].row].state # "ABSENT"
    <3>1. CASE pc[p] = "codeFound"
        BY <1>1, <3>1 DEF Mine, CodeClaims
    <3>2. CASE pc[p] \in {"confirmLink", "linkFound"}
      <4>1. call[p].row \in Codes /\ Op(p) = "confirmLink"
          BY <1>1, <3>2 DEF Mine, CodeClaims
      <4>2. code[call[p].row].kind = "link"
          BY <1>1, <3>2, <4>1 DEF Knows, HoldsCodes, KindOf
      <4> QED
          BY <1>1, <4>1, <4>2, CodesAssumption DEF UsersSound, CodesOwned
    <3> QED
        BY <3>1, <3>2
  <2> QED
      BY <1>1, <2>1, <2>2 DEF Knows, HoldsCodes, UsersKept, Op
<1>7. OwnPassword(p)'
    BY <1>1 DEF Knows, OwnPassword, UsersKept
<1> QED
    BY <1>3, <1>4, <1>5, <1>6, <1>7 DEF Knows

\* So a step of q has to be looked at where q stands only.
LEMMA UsersStepOfOne ==
    ASSUME UsersInv, AccountsInv', NEW q \in Requests, Others(q), OthersWait(q), UsersKept(q),
           UsersSound', Knows(q)'
    PROVE  UsersInv'
BY OthersKnow DEF UsersInv

-----------------------------------------------------------------------------
(***************************************************************************)
(* The ways a request goes on.                                             *)
(***************************************************************************)
\* Steps that write no table leave the users as they are.
LEMMA TablesAsTheyAre ==
    ASSUME UsersInv, NEW q \in Requests, UNCHANGED tables, UNCHANGED clock
    PROVE  UsersKept(q) /\ UsersSound'
<1>1. UsersKept(q)
    BY DEF UsersKept, tables, codeVars
<1>2. UsersSound'
    BY DEF UsersInv, UsersSound, AccountsSound, IdentitiesSound, TokensOwned, OnlyVerifiedSignedIn,
           EarlierSessionsEnd, CodesOwned, AcceptedSound, AcceptedIsPromoted, Live, tables, codeVars
<1> QED
    BY <1>1, <1>2

LEMMA UsersQuiet ==
    ASSUME UsersInv, AccountsInv', NEW q \in Requests, UNCHANGED tables, UNCHANGED clock,
           Others(q), OthersWait(q), Knows(q)'
    PROVE  UsersInv'
BY TablesAsTheyAre, UsersStepOfOne

\* A request that ends knows nothing any more.
LEMMA UsersFinish ==
    ASSUME UsersInv, AccountsInv', NEW q \in Requests, Finish(q), UsersKept(q), UsersSound'
    PROVE  UsersInv'
<1>1. pc'[q] = "done" /\ held'[q] = {} /\ wanted'[q] = {} /\ Others(q) /\ OthersWait(q)
      /\ call'[q] = NoCall
    BY DEF UsersInv, AccountsInv, FlowTypes, Finish, Goto, Others, OthersWait
<1>2. Knows(q)'
  <2>1. Serves(q)'
      BY <1>1 DEF Serves, At, Late
  <2>2. Waits(q)' /\ Holds(q)'
      BY <1>1 DEF Waits, Holds, At
  <2>3. HoldsCodes(q)' /\ OwnPassword(q)'
      BY <1>1 DEF HoldsCodes, OwnPassword
  <2> QED
      BY <2>1, <2>2, <2>3 DEF Knows
<1> QED
    BY <1>1, <1>2, UsersStepOfOne

LEMMA UsersQuietFinish ==
    ASSUME UsersInv, AccountsInv', NEW q \in Requests, Finish(q), UNCHANGED tables
    PROVE  UsersInv'
BY TablesAsTheyAre, UsersFinish DEF Finish

\* A request that goes on without a lock.
LEMMA UsersContinue ==
    ASSUME UsersInv, AccountsInv', NEW q \in Requests, NEW stage, Continue(q, stage),
           UNCHANGED tables,
           pc[q] \notin {"idle", "done", "revokeInvite"},
           pc[q] \in {"issue", "retired"} => stage \in {"issue", "retired"},
           stage \in {"googleLogin", "unlinked"} => pc[q] \in {"googleLogin", "unlinked"},
           stage \notin {"idle", "userUpdated"},
           stage \in {"claimed", "newAccount"} => wanted[q] = {},
           At(q, stage)' => Serves(q)' /\ Holds(q)' /\ HoldsCodes(q)'
    PROVE  UsersInv'
<1>1. /\ pc'[q] = stage /\ call' = call /\ held' = held /\ wanted' = wanted
      /\ Others(q) /\ OthersWait(q) /\ UNCHANGED clock
    BY DEF UsersInv, AccountsInv, FlowTypes, Continue, Goto, Others, OthersWait
<1>2. Waits(q)'
    BY <1>1 DEF UsersInv, Knows, Waits, At, tables
<1>3. OwnPassword(q)'
    BY <1>1 DEF UsersInv, Knows, OwnPassword, tables
<1>4. Serves(q)' /\ Holds(q)' /\ HoldsCodes(q)'
    BY <1>1 DEF At
<1> QED
    BY <1>1, <1>2, <1>3, <1>4, UsersQuiet DEF Knows

\* A request that waits, or locks what it has found.
LEMMA UsersLock ==
    ASSUME UsersInv, AccountsInv', NEW q \in Requests, NEW STATE rows, NEW stage,
           UNCHANGED tables, Write(q, rows, stage) \/ Claim(q, rows, stage),
           pc[q] \notin {"idle", "done", "googleLogin", "unlinked"},
           stage \notin {"idle", "googleLogin", "unlinked"},
           pc[q] \in {"issue", "retired"} => stage \in {"issue", "retired"},
           At(q, "claimed") => UserRow(call[q].user) \in rows,
           At(q, "userUpdated") /\ Live(call[q].user) => TokenRow(call[q].user) \in rows,
           At(q, "newAccount") => {UserRow(call[q].user), IdentityRow(call[q].user)} \subseteq rows,
           /\ Locked(q, Hit(q, rows), stage)
           /\ Write(q, rows, stage) \/ Hit(q, rows) # {}
           => Serves(q)' /\ Holds(q)' /\ HoldsCodes(q)'
    PROVE  UsersInv'
<1>0. FlowTypes /\ Knows(q)
    BY DEF UsersInv, AccountsInv
<1>1. CASE Wait(q, rows)
  <2>1. /\ pc' = pc /\ call' = call /\ held' = held /\ wanted'[q] = rows
        /\ Others(q) /\ OthersWait(q) /\ UNCHANGED clock
      BY <1>0, <1>1 DEF FlowTypes, Wait, Others, OthersWait
  <2>2. Waits(q)'
      BY <2>1 DEF Waits, At, Live, tables
  <2>3. Serves(q)' /\ Holds(q)' /\ HoldsCodes(q)' /\ OwnPassword(q)'
      BY <1>0, <2>1 DEF Knows, Serves, Holds, HoldsCodes, OwnPassword, At, Op, Live, tables, codeVars
  <2> QED
      BY <2>1, <2>2, <2>3, UsersQuiet DEF Knows
<1>2. CASE Finish(q)
    BY <1>2, UsersQuietFinish
<1>3. CASE Lock(q, Hit(q, rows), stage) /\ (Write(q, rows, stage) \/ Hit(q, rows) # {})
  <2>1. /\ Locked(q, Hit(q, rows), stage) /\ wanted'[q] = {}
        /\ Others(q) /\ OthersWait(q) /\ UNCHANGED clock
      BY <1>0, <1>3 DEF FlowTypes, Lock, Goto, Locked, Others, OthersWait
  <2>2. Waits(q)'
      BY <2>1 DEF Waits, At, Locked
  <2>3. OwnPassword(q)'
      BY <1>0, <2>1 DEF Knows, OwnPassword, Locked, tables
  <2>4. Serves(q)' /\ Holds(q)' /\ HoldsCodes(q)'
      BY <1>3, <2>1
  <2> QED
      BY <2>1, <2>2, <2>3, <2>4, UsersQuiet DEF Knows
<1> QED
    BY <1>1, <1>2, <1>3 DEF Write, Claim

-----------------------------------------------------------------------------
(***************************************************************************)
(* Sessions.                                                               *)
(***************************************************************************)
\* Tokens that are there stay with their users, and those from before do not come back.
TokensKept ==
    /\ \A t \in Tokens : session[t].state # "ABSENT" =>
          session'[t].state # "ABSENT" /\ session'[t].user = session[t].user
    /\ \A u \in Users : session'[u].state = "LIVE" => session[u].state = "LIVE"

\* A transaction that commits revokes what it has locked, and signs in whom it has proven.
LEMMA TokensCommit ==
    ASSUME UsersInv, NEW q \in Requests, pc[q] # "done", call[q].user \in Users, NEW STATE from,
           session' = Issued(q, from) \/ session' = Revoked(q),
           \A u \in Users : account[u].verified => account'[u].verified,
           session' = Revoked(q) \/ account'[call[q].user].verified
    PROVE  /\ TokensOwned' /\ OnlyVerifiedSignedIn' /\ TokensKept
           /\ \A u \in Users : session'[u].state = "LIVE" => TokenRow(u) \notin held[q]
<1> q \in Tokens /\ q \notin Users
    BY SessionsAssumption DEF Tokens
<1>1. /\ session \in [Tokens -> SessionRow] /\ session[q].state = "ABSENT"
      /\ \A t \in Tokens : TokenRow(t) \in held[q] => session[t].state = "LIVE"
      /\ TokensOwned /\ OnlyVerifiedSignedIn
    BY DEF UsersInv, AccountsInv, RowTypes, Mine, HeldRows, Fresh, UsersSound, Live
<1>2. \A t \in Tokens : /\ Revoked(q)[t].user = session[t].user
                        /\ Revoked(q)[t].state = IF TokenRow(t) \in held[q] THEN "REVOKED"
                                                 ELSE session[t].state
    BY <1>1 DEF Revoked, SessionRow
<1>3. \A t \in Tokens \ {q} : session'[t] = Revoked(q)[t]
    BY DEF Issued, Revoked
<1>4. \/ session'[q].user = session[q].user /\ session'[q].state = session[q].state
      \/ /\ session'[q].user = call[q].user
         /\ account'[call[q].user].verified
  <2>1. CASE session' = Revoked(q)
      BY <1>1, <1>2, <2>1
  <2>2. CASE session' # Revoked(q)
      BY <2>2 DEF Issued, Revoked
  <2> QED
      BY <2>1, <2>2
<1>5. TokensKept
    BY <1>1, <1>2, <1>3 DEF TokensKept, Tokens
<1>6. TokensOwned'
    BY <1>1, <1>2, <1>3, <1>4 DEF TokensOwned
<1>7. OnlyVerifiedSignedIn'
    BY <1>1, <1>2, <1>3, <1>4 DEF OnlyVerifiedSignedIn, TokensOwned, Live
<1>8. \A u \in Users : session'[u].state = "LIVE" => TokenRow(u) \notin held[q]
    BY <1>1, <1>2, <1>3 DEF Tokens
<1> QED
    BY <1>5, <1>6, <1>7, <1>8

\* A request that ends with a change of the tokens only.
LEMMA UsersFinishTokens ==
    ASSUME UsersInv, AccountsInv', NEW q \in Requests, Finish(q),
           UNCHANGED <<account, invite, codeVars>>,
           TokensOwned', OnlyVerifiedSignedIn', TokensKept
    PROVE  UsersInv'
<1>1. UsersKept(q)
    BY DEF UsersKept, TokensKept, codeVars
<1>2. UNCHANGED clock
    BY DEF Finish
<1>3. EarlierSessionsEnd'
    BY DEF UsersInv, UsersSound, EarlierSessionsEnd, TokensKept, Live
<1>4. UsersSound'
    BY <1>2, <1>3 DEF UsersInv, UsersSound, AccountsSound, IdentitiesSound, CodesOwned, AcceptedSound,
           AcceptedIsPromoted, codeVars
<1> QED
    BY <1>1, <1>4, UsersFinish

\* login, refresh, logout, and what all transactions on a user do, preserve the invariant.
LEMMA UsersSessionSteps ==
    ASSUME UsersInv, AccountsInv', NEW q \in Requests, SessionStep(q),
           UNCHANGED <<invite, codeVars>>
    PROVE  UsersInv'
<1> DEFINE u == call[q].user
<1>0. /\ Mine(q) /\ Knows(q) /\ FlowTypes /\ RowTypes
      /\ \A t \in Tokens : TokenRow(t) \in held[q] => Live(t)
    BY DEF UsersInv, AccountsInv, Mine, HeldRows
<1>00. UsersSound
    BY DEF UsersInv
<1>1. CASE UpdateUser(q)
  <2> DEFINE rows == {UserRow(u)}
  <2>1. At(q, "claimed") /\ UNCHANGED tables /\ Write(q, rows, "userUpdated")
      BY <1>1 DEF UpdateUser, tables
  <2>2. Hit(q, rows) = rows
      BY <1>0, <2>1 DEF Hit, Knows, Waits
  <2>3. Locked(q, rows, "userUpdated") => Serves(q)' /\ Holds(q)' /\ HoldsCodes(q)'
    <3>1. \A c \in Codes : CodeId(c) \notin rows
        BY DEF CodeId, UserRow
    <3>2. ASSUME Locked(q, rows, "userUpdated") PROVE Serves(q)'
        BY <1>0, <2>1, <3>2 DEF Locked, Knows, Serves, At, Op, Late, tables
    <3>3. ASSUME Locked(q, rows, "userUpdated") PROVE Holds(q)'
        BY <3>3 DEF Locked, Holds, At
    <3>4. ASSUME Locked(q, rows, "userUpdated") PROVE HoldsCodes(q)'
        BY <1>0, <3>1, <3>4 DEF Locked, Knows, HoldsCodes, Op, codeVars
    <3> QED
        BY <3>2, <3>3, <3>4
  <2> QED
      BY <2>1, <2>2, <2>3, UsersLock DEF At
<1>2. CASE RevokeSessions(q)
  <2> DEFINE rows == LiveTokens(u)
             hit == Hit(q, rows)
  <2>1. At(q, "userUpdated") /\ UNCHANGED tables /\ Write(q, rows, "sessionsRevoked") /\ u \in Users
      BY <1>0, <1>2 DEF RevokeSessions, tables, Knows, Serves, At
  <2>2. Live(u) => TokenRow(u) \in rows
    <3>1. u \in Tokens /\ (Live(u) => session[u].user = u)
        BY <1>00, <2>1 DEF Tokens, UsersSound, TokensOwned, Live
    <3> QED
        BY <3>1 DEF LiveTokens
  <2>3. Live(u) => TokenRow(u) \in hit
      BY <1>0, <2>1, <2>2 DEF Hit, Knows, Waits
  <2>4. \A c \in Codes : CodeId(c) \notin hit
      BY DEF Hit, LiveTokens, CodeId, TokenRow
  <2>5. ASSUME Locked(q, hit, "sessionsRevoked") PROVE Serves(q)' /\ Holds(q)' /\ HoldsCodes(q)'
    <3>1. Serves(q)'
        BY <1>0, <2>1, <2>5 DEF Locked, Knows, Serves, At, Op, Late, tables
    <3>2. Holds(q)'
        BY <1>0, <2>1, <2>3, <2>5 DEF Locked, Knows, Holds, At, Live, tables
    <3>3. HoldsCodes(q)'
        BY <1>0, <2>4, <2>5 DEF Locked, Knows, HoldsCodes, Op, codeVars
    <3> QED
        BY <3>1, <3>2, <3>3
  <2> HIDE DEF rows, hit
  <2>6. Locked(q, Hit(q, rows), "sessionsRevoked") => Serves(q)' /\ Holds(q)' /\ HoldsCodes(q)'
      BY <2>5 DEF hit
  <2> QED
      BY <2>1, <2>2, <2>6, UsersLock DEF At
<1>3. CASE Authenticate(q)
  <2>1. UNCHANGED tables /\ pc[q] \in {"login", "adminLogin"}
      BY <1>3 DEF Authenticate, tables
  <2>2. CASE Continue(q, "authenticated") /\ Authentic(u, call[q].given)
    <3>1. pc'[q] = "authenticated" /\ call' = call /\ held' = held
        BY <1>0, <2>2 DEF FlowTypes, Continue, Goto
    <3>2. account[u].verified
        BY <2>2 DEF Authentic
    <3>3. Serves(q)'
        BY <1>0, <2>1, <3>1, <3>2 DEF Knows, Serves, At, Late, tables
    <3>4. Holds(q)' /\ HoldsCodes(q)'
        BY <1>0, <2>1, <3>1 DEF Knows, Holds, HoldsCodes, At, Op, tables, codeVars
    <3> QED
        BY <2>1, <2>2, <3>3, <3>4, UsersContinue
  <2>3. CASE Finish(q)
      BY <2>1, <2>3, UsersQuietFinish
  <2> QED
      BY <1>3, <2>2, <2>3 DEF Authenticate
<1>4. CASE IssueLogin(q)
  <2>1. At(q, "authenticated") /\ session' = Issued(q, Null) /\ Finish(q) /\ UNCHANGED <<account, invite, codeVars>>
      BY <1>4 DEF IssueLogin
  <2>2. u \in Users /\ account[u].verified
      BY <1>0, <2>1 DEF Knows, Serves, At
  <2> QED
      BY <2>1, <2>2, TokensCommit, UsersFinishTokens DEF At
<1>5. CASE Logout(q)
  <2> DEFINE t == call[q].row
  <2>1. /\ Finish(q) /\ UNCHANGED <<account, invite, codeVars>>
        /\ session' = IF Live(t) THEN [session EXCEPT ![t].state = "REVOKED"] ELSE session
      BY <1>5 DEF Logout
  <2>2. \A s \in Tokens : /\ session'[s].user = session[s].user
                          /\ \/ session'[s].state = session[s].state
                             \/ session'[s].state = "REVOKED" /\ session[s].state = "LIVE"
    <3> TAKE s \in Tokens
    <3>1. CASE session'[s] = session[s]
        BY <3>1
    <3>2. CASE session'[s] # session[s]
      <4>1. s = t /\ session[s].state = "LIVE" /\ session'[s] = [session[s] EXCEPT !.state = "REVOKED"]
          BY <1>0, <2>1, <3>2 DEF RowTypes, Live
      <4>2. session[s] \in SessionRow
          BY <1>0 DEF RowTypes
      <4> QED
          BY <4>1, <4>2 DEF SessionRow
    <3> QED
        BY <3>1, <3>2
  <2>3. TokensKept
      BY <2>2 DEF TokensKept, Tokens
  <2>4. TokensOwned'
      BY <1>00, <2>2 DEF UsersSound, TokensOwned
  <2>5. OnlyVerifiedSignedIn'
      BY <1>00, <2>1, <2>2 DEF UsersSound, OnlyVerifiedSignedIn, Live
  <2> QED
      BY <2>1, <2>3, <2>4, <2>5, UsersFinishTokens
<1>6. CASE RotateToken(q)
  <2> DEFINE rows == Rotatable(call[q].row)
             hit == Hit(q, rows)
  <2>1. At(q, "refresh") /\ UNCHANGED tables /\ Claim(q, rows, "rotated")
      BY <1>6 DEF RotateToken, tables
  <2>2. \A c \in Codes : CodeId(c) \notin hit
      BY DEF Hit, Rotatable, CodeId, TokenRow
  <2>3. ASSUME Locked(q, hit, "rotated") PROVE Serves(q)' /\ Holds(q)' /\ HoldsCodes(q)'
    <3>1. Serves(q)'
        BY <1>0, <2>1, <2>3 DEF Locked, Knows, Serves, At, Late, tables
    <3>2. Holds(q)'
        BY <2>3 DEF Locked, Holds, At
    <3>3. HoldsCodes(q)'
        BY <1>0, <2>2, <2>3 DEF Locked, Knows, HoldsCodes, Op, codeVars
    <3> QED
        BY <3>1, <3>2, <3>3
  <2> HIDE DEF rows, hit
  <2>4. Locked(q, Hit(q, rows), "rotated") => Serves(q)' /\ Holds(q)' /\ HoldsCodes(q)'
      BY <2>3 DEF hit
  <2> QED
      BY <2>1, <2>4, UsersLock DEF At
<1>7. CASE CommitRefresh(q)
  <2> DEFINE t == call[q].row
  <2>1. At(q, "rotated") /\ session' = Issued(q, t) /\ Finish(q) /\ UNCHANGED <<account, invite, codeVars>>
      BY <1>7 DEF CommitRefresh
  <2>2. t \in Tokens /\ TokenRow(t) \in held[q] /\ session[t].user = u /\ u \in Users
      BY <1>0, <2>1 DEF Mine, RowClaims, Knows, Serves, At
  <2>3. account[u].verified
      BY <1>0, <1>00, <2>2 DEF UsersSound, OnlyVerifiedSignedIn
  <2> QED
      BY <2>1, <2>2, <2>3, TokensCommit, UsersFinishTokens DEF At
<1> QED
    BY <1>1, <1>2, <1>3, <1>4, <1>5, <1>6, <1>7 DEF SessionStep

\* A request that arrives: what the caller gives is all there is to know.
LEMMA UsersArrival ==
    ASSUME UsersInv, AccountsInv', NEW q \in Requests, NEW op, NEW user, NEW row, NEW given,
           Arrive(q, op, user, row, given), UNCHANGED tables,
           op \in {"login", "adminLogin", "logout", "refresh",
                   "createInvite", "revokeInvite", "acceptInvite",
                   "register", "resendVerification", "requestLink", "requestOtp",
                   "verifyEmail", "confirmOtp", "confirmLink", "googleLogin"},
           op # "revokeInvite" => user \in Users,
           op = "refresh" => session[row].state # "ABSENT" /\ session[row].user = user,
           op = "acceptInvite" => account[user].verified,
           op = "confirmLink" => code[row].user = user /\ code[row].kind = "link"
    PROVE  UsersInv'
<1>0. FlowTypes /\ Knows(q) /\ Mine(q)
    BY DEF UsersInv, AccountsInv
<1>1. /\ pc[q] = "idle" /\ pc'[q] = op /\ held'[q] = {} /\ wanted'[q] = {}
      /\ call'[q] = [op |-> op, user |-> user, row |-> row, given |-> given, now |-> clock]
      /\ Others(q) /\ OthersWait(q) /\ UNCHANGED clock
    BY <1>0 DEF FlowTypes, Arrive, At, Goto, Others, OthersWait, Knows, Waits
<1>2. Serves(q)'
    BY <1>1 DEF Serves, At, Op, Late, tables
<1>3. Waits(q)' /\ Holds(q)'
    BY <1>1 DEF Waits, Holds, At
<1>4. HoldsCodes(q)'
    BY <1>1 DEF HoldsCodes, Op, KindOf, tables, codeVars
<1>5. OwnPassword(q)'
    BY <1>0, <1>1 DEF Knows, OwnPassword, tables
<1> QED
    BY <1>1, <1>2, <1>3, <1>4, <1>5, UsersQuiet DEF Knows

\* Calls of login, refresh and logout preserve the invariant.
LEMMA UsersSessionCalls ==
    ASSUME UsersInv, AccountsInv', NEW q \in Requests, SessionCall(q), UNCHANGED <<invite, codeVars>>
    PROVE  UsersInv'
<1>1. CASE CallLogin(q)
  <2>1. PICK u \in Users, op \in {"login", "adminLogin"} : Arrive(q, op, u, Null, account[u].password)
      BY <1>1 DEF CallLogin
  <2>2. UNCHANGED tables
      BY <2>1 DEF Arrive, tables
  <2> QED
      BY <2>1, <2>2, UsersArrival
<1>2. CASE CallWithToken(q)
  <2>1. PICK t \in Tokens, op \in {"logout", "refresh"} :
            session[t].state # "ABSENT" /\ Arrive(q, op, session[t].user, t, Null)
      BY <1>2 DEF CallWithToken
  <2>2. UNCHANGED tables
      BY <2>1 DEF Arrive, tables
  <2>3. session[t].user \in Users
      BY <2>1 DEF UsersInv, UsersSound, TokensOwned
  <2> QED
      BY <2>1, <2>2, <2>3, UsersArrival
<1> QED
    BY <1>1, <1>2 DEF SessionCall

-----------------------------------------------------------------------------
(***************************************************************************)
(* Invites.                                                                *)
(***************************************************************************)
\* Who was invited keeps the role, as long as the same invites are accepted.
LEMMA PromotedAsBefore ==
    ASSUME AcceptedIsPromoted, \A u \in Users : account'[u].role = account[u].role,
           \A i \in Invites : /\ invite'[i].acceptedAt = 0 <=> invite[i].acceptedAt = 0
                              /\ invite[i].acceptedAt # 0 =>
                                    invite'[i].email = invite[i].email /\ invite'[i].role = invite[i].role
    PROVE  AcceptedIsPromoted'
<1> SUFFICES ASSUME NEW u \in Users
             PROVE  LET accepted == {i \in Invites : invite'[i].email = u /\ invite'[i].acceptedAt # 0} IN
                    IF accepted = {} THEN account'[u].role = "USER"
                    ELSE account'[u].role \in {invite'[i].role : i \in accepted}
    BY DEF AcceptedIsPromoted
<1> DEFINE now == {i \in Invites : invite'[i].email = u /\ invite'[i].acceptedAt # 0}
           before == {i \in Invites : invite[i].email = u /\ invite[i].acceptedAt # 0}
<1>1. now = before
    OBVIOUS
<1>2. {invite'[i].role : i \in now} = {invite[i].role : i \in before}
    OBVIOUS
<1>3. IF before = {} THEN account[u].role = "USER" ELSE account[u].role \in {invite[i].role : i \in before}
    BY DEF AcceptedIsPromoted
<1> QED
    BY <1>1, <1>2, <1>3

\* A request that ends with a change of the invites only, and accepts none.
LEMMA UsersFinishInvites ==
    ASSUME UsersInv, AccountsInv', NEW q \in Requests, Finish(q),
           UNCHANGED <<account, session, codeVars>>,
           \A i \in Invites :
              /\ invite'[i].acceptedAt = invite[i].acceptedAt
              /\ invite[i].state # "ABSENT" =>
                    /\ invite'[i].state # "ABSENT"
                    /\ invite'[i].email = invite[i].email /\ invite'[i].role = invite[i].role
    PROVE  UsersInv'
<1>0. UsersSound
    BY DEF UsersInv
<1>1. UsersKept(q)
    BY DEF UsersKept, codeVars
<1>2. AcceptedSound'
    BY <1>0 DEF UsersSound, AcceptedSound
<1>3. AcceptedIsPromoted'
    BY <1>0, PromotedAsBefore DEF UsersSound, AcceptedSound
<1>4. UNCHANGED clock
    BY DEF Finish
<1>5. UsersSound'
    BY <1>0, <1>2, <1>3, <1>4 DEF UsersSound, AccountsSound, IdentitiesSound, TokensOwned,
           OnlyVerifiedSignedIn, EarlierSessionsEnd, CodesOwned, Live, codeVars
<1> QED
    BY <1>1, <1>5, UsersFinish

\* createInvite, revokeInvite and acceptStaffInvite preserve the invariant.
LEMMA UsersInviteSteps ==
    ASSUME UsersInv, AccountsInv', NEW q \in Requests, InviteStep(q), UNCHANGED codeVars
    PROVE  UsersInv'
<1> q \in Invites
    BY DEF Invites
<1> DEFINE u == call[q].user
           i == call[q].row
<1>0. /\ Mine(q) /\ Knows(q) /\ FlowTypes /\ RowTypes
      /\ \A j \in Invites : InviteId(j) \in held[q] => Open(j)
      /\ UsersSound /\ Addressed
    BY DEF UsersInv, AccountsInv, Mine, HeldRows, RowsSound
<1>1. CASE DeletePending(q)
  <2> DEFINE rows == Rows(Replaced(u, call[q].now))
             hit == Hit(q, rows)
  <2>1. At(q, "createInvite") /\ UNCHANGED tables /\ Write(q, rows, "pendingDeleted")
      BY <1>1 DEF DeletePending, tables
  <2>2. \A c \in Codes : CodeId(c) \notin hit
      BY DEF Hit, Rows, CodeId
  <2>3. ASSUME Locked(q, hit, "pendingDeleted") PROVE Serves(q)' /\ Holds(q)' /\ HoldsCodes(q)'
    <3>1. Serves(q)'
        BY <1>0, <2>1, <2>3 DEF Locked, Knows, Serves, At, Late
    <3>2. Holds(q)'
        BY <2>3 DEF Locked, Holds, At
    <3>3. HoldsCodes(q)'
        BY <1>0, <2>2, <2>3 DEF Locked, Knows, HoldsCodes, Op, codeVars
    <3> QED
        BY <3>1, <3>2, <3>3
  <2> HIDE DEF rows, hit
  <2>4. Locked(q, Hit(q, rows), "pendingDeleted") => Serves(q)' /\ Holds(q)' /\ HoldsCodes(q)'
      BY <2>3 DEF hit
  <2> QED
      BY <2>1, <2>4, UsersLock DEF At
<1>2. CASE InsertInvite(q)
  <2> DEFINE new == [NoInvite EXCEPT !.state = "ROW", !.email = u, !.role = call[q].given,
                                     !.expiresAt = call[q].now + InviteTtl]
  <2>1. /\ At(q, "pendingDeleted") /\ Finish(q) /\ UNCHANGED <<account, session, codeVars>>
        /\ invite' = [j \in Invites |->
                        IF j = q THEN new
                        ELSE IF InviteId(j) \in held[q] THEN [invite[j] EXCEPT !.state = "DELETED"]
                        ELSE invite[j]]
      BY <1>2 DEF InsertInvite, InviteId
  <2>2. invite[q] = NoInvite /\ new.acceptedAt = 0 /\ NoInvite.acceptedAt = 0 /\ NoInvite.state = "ABSENT"
      BY <1>0, <2>1 DEF Mine, Fresh, At, NoInvite
  <2>3. \A j \in Invites \ {q} :
           /\ invite'[j].acceptedAt = invite[j].acceptedAt
           /\ invite'[j].email = invite[j].email /\ invite'[j].role = invite[j].role
           /\ invite[j].state # "ABSENT" => invite'[j].state # "ABSENT"
      BY <1>0, <2>1 DEF RowTypes, InviteRow
  <2>4. invite'[q] = new
      BY <2>1
  <2> HIDE DEF new
  <2> QED
      BY <2>1, <2>2, <2>3, <2>4, UsersFinishInvites
<1>3. CASE RevokeInvite(q)
  <2>1. /\ Finish(q) /\ UNCHANGED <<account, session, codeVars>>
        /\ invite' = invite \/ invite' = [invite EXCEPT ![i].revokedAt = call[q].now]
      BY <1>3 DEF RevokeInvite
  <2>2. \A j \in Invites :
           /\ invite'[j].acceptedAt = invite[j].acceptedAt /\ invite'[j].state = invite[j].state
           /\ invite'[j].email = invite[j].email /\ invite'[j].role = invite[j].role
      BY <1>0, <2>1 DEF RowTypes, InviteRow
  <2> QED
      BY <2>1, <2>2, UsersFinishInvites
<1>4. CASE ReadInvite(q)
  <2>1. At(q, "acceptInvite") /\ UNCHANGED tables
      BY <1>4 DEF ReadInvite, tables
  <2>2. CASE Finish(q)
      BY <2>1, <2>2, UsersQuietFinish
  <2>3. CASE ~Finish(q)
    <3>1. /\ call' = [call EXCEPT ![q].now = clock, ![q].given = invite[i].role]
          /\ Goto(q, "inviteRead") /\ UNCHANGED <<clock, wanted, held>>
          /\ invite[i].email = u
        BY <1>4, <2>3 DEF ReadInvite
    <3>2. Op(q) = "acceptInvite" /\ call[q] \in CallRow
        BY <1>0, <2>1 DEF Mine, RowClaims, At, FlowTypes
    <3>3. /\ pc'[q] = "inviteRead" /\ held' = held /\ wanted' = wanted /\ Others(q) /\ OthersWait(q)
          /\ call'[q] = [call[q] EXCEPT !.now = clock, !.given = invite[i].role]
        BY <1>0, <3>1 DEF FlowTypes, Goto, Others, OthersWait
    <3>4. /\ call'[q].op = call[q].op /\ call'[q].row = i /\ call'[q].user = u
          /\ call'[q].now = clock /\ call'[q].given = invite[i].role
        BY <3>2, <3>3 DEF CallRow
    <3>5. u \in Users /\ account[u].verified /\ clock >= 1
        BY <1>0, <2>1, <3>2 DEF Knows, Serves, At, UsersSound
    <3>6. Serves(q)'
        BY <2>1, <3>1, <3>3, <3>4, <3>5 DEF Serves, At, Op, Late, tables
    <3>7. Waits(q)' /\ Holds(q)'
        BY <3>3 DEF Waits, Holds, At
    <3>8. HoldsCodes(q)' /\ OwnPassword(q)'
        BY <1>0, <2>1, <3>3, <3>4 DEF Knows, HoldsCodes, OwnPassword, At, Op, tables, codeVars
    <3> QED
        BY <2>1, <3>1, <3>3, <3>6, <3>7, <3>8, UsersQuiet DEF Knows
  <2> QED
      BY <2>2, <2>3
<1>5. CASE ClaimInvite(q)
  <2> DEFINE rows == Rows({j \in {i} : Claimable(j)})
             hit == Hit(q, rows)
  <2>1. At(q, "inviteRead") /\ Op(q) = "acceptInvite" /\ UNCHANGED tables /\ Claim(q, rows, "claimed")
      BY <1>0, <1>5 DEF ClaimInvite, tables, Mine, RowClaims, At
  <2>2. \A c \in Codes : CodeId(c) \notin hit
      BY DEF Hit, Rows, CodeId
  <2>3. ASSUME Locked(q, hit, "claimed") PROVE Serves(q)' /\ Holds(q)' /\ HoldsCodes(q)'
    <3>1. Serves(q)'
        BY <1>0, <2>1, <2>3 DEF Locked, Knows, Serves, At, Op, Late, tables
    <3>2. Holds(q)'
        BY <2>3 DEF Locked, Holds, At
    <3>3. HoldsCodes(q)'
        BY <1>0, <2>2, <2>3 DEF Locked, Knows, HoldsCodes, Op, codeVars
    <3> QED
        BY <3>1, <3>2, <3>3
  <2> HIDE DEF rows, hit
  <2>4. Locked(q, Hit(q, rows), "claimed") => Serves(q)' /\ Holds(q)' /\ HoldsCodes(q)'
      BY <2>3 DEF hit
  <2> QED
      BY <2>1, <2>4, UsersLock DEF At
<1>6. CASE CommitAccept(q)
  <2>1. /\ At(q, "sessionsRevoked") /\ Op(q) = "acceptInvite" /\ Finish(q) /\ UNCHANGED codeVars
        /\ invite' = [invite EXCEPT ![i].acceptedAt = call[q].now]
        /\ account' = [account EXCEPT ![u].role = call[q].given]
        /\ session' = Issued(q, Null)
      BY <1>6 DEF CommitAccept
  <2>2. /\ i \in Invites /\ Open(i) /\ call[q].now \in Nat /\ call[q].now >= 1
        /\ invite[i].email = u /\ invite[i].role = call[q].given
        /\ u \in Users /\ account[u].verified
        /\ TokenRow(u) \in held[q] \/ ~Live(u)
      BY <1>0, <2>1 DEF Mine, RowClaims, Knows, Serves, Holds, At, Late, FlowTypes, CallRow
  <2>3. \A j \in Invites :
           /\ invite'[j].email = invite[j].email /\ invite'[j].role = invite[j].role
           /\ invite'[j].state = invite[j].state
           /\ invite'[j].acceptedAt = IF j = i THEN call[q].now ELSE invite[j].acceptedAt
      BY <1>0, <2>1 DEF RowTypes, InviteRow
  <2>4. \A v \in Users :
           /\ account'[v].exists = account[v].exists
           /\ account'[v].verified = account[v].verified
           /\ account'[v].password = account[v].password
           /\ account'[v].role = IF v = u THEN call[q].given ELSE account[v].role
      BY <1>0, <2>1 DEF RowTypes, AccountRow
  <2>5. /\ TokensOwned' /\ OnlyVerifiedSignedIn' /\ TokensKept
        /\ \A v \in Users : session'[v].state = "LIVE" => TokenRow(v) \notin held[q]
      BY <2>1, <2>2, <2>4, TokensCommit DEF At
  <2>6. UsersKept(q)
      BY <2>1, <2>3, <2>4, <2>5 DEF UsersKept, TokensKept, codeVars
  <2>7. AccountsSound' /\ IdentitiesSound' /\ CodesOwned' /\ clock' >= 1
      BY <1>0, <2>1, <2>2, <2>4 DEF UsersSound, AccountsSound, IdentitiesSound, CodesOwned, Finish, codeVars
  <2>8. EarlierSessionsEnd'
      BY <1>0, <2>2, <2>4, <2>5 DEF UsersSound, EarlierSessionsEnd, TokensKept, Live
  <2>9. AcceptedSound'
      BY <1>0, <2>2, <2>3 DEF UsersSound, AcceptedSound, Open
  <2>10. AcceptedIsPromoted'
    <3> SUFFICES ASSUME NEW v \in Users
                 PROVE  LET accepted == {j \in Invites : invite'[j].email = v /\ invite'[j].acceptedAt # 0} IN
                        IF accepted = {} THEN account'[v].role = "USER"
                        ELSE account'[v].role \in {invite'[j].role : j \in accepted}
        BY DEF AcceptedIsPromoted
    <3> DEFINE now == {j \in Invites : invite'[j].email = v /\ invite'[j].acceptedAt # 0}
               before == {j \in Invites : invite[j].email = v /\ invite[j].acceptedAt # 0}
    <3>1. CASE v = u
      <4>1. i \in now /\ account'[v].role = invite'[i].role
          BY <2>2, <2>3, <2>4, <3>1
      <4> QED
          BY <4>1
    <3>2. CASE v # u
      <4>1. now = before
          BY <2>2, <2>3, <3>2
      <4>2. {invite'[j].role : j \in now} = {invite[j].role : j \in before}
          BY <2>3, <4>1
      <4>3. IF before = {} THEN account[v].role = "USER"
            ELSE account[v].role \in {invite[j].role : j \in before}
          BY <1>0 DEF UsersSound, AcceptedIsPromoted
      <4> QED
          BY <2>4, <3>2, <4>1, <4>2, <4>3
    <3> QED
        BY <3>1, <3>2
  <2>11. UsersSound'
      BY <2>5, <2>7, <2>8, <2>9, <2>10 DEF UsersSound
  <2> QED
      BY <2>1, <2>6, <2>11, UsersFinish
<1> QED
    BY <1>1, <1>2, <1>3, <1>4, <1>5, <1>6 DEF InviteStep

\* Calls on invites preserve the invariant: who accepts one is signed in.
LEMMA UsersInviteCalls ==
    ASSUME UsersInv, AccountsInv', NEW q \in Requests, InviteCall(q), UNCHANGED codeVars
    PROVE  UsersInv'
<1>1. CASE CallCreate(q)
  <2>1. PICK u \in Users, given \in Roles : Arrive(q, "createInvite", u, Null, given)
      BY <1>1 DEF CallCreate
  <2>2. UNCHANGED tables
      BY <1>1, <2>1 DEF CallCreate, Arrive, tables
  <2> QED
      BY <2>1, <2>2, UsersArrival
<1>2. CASE CallRevoke(q)
  <2>1. PICK i \in Invites : Arrive(q, "revokeInvite", Null, i, Null)
      BY <1>2 DEF CallRevoke
  <2>2. UNCHANGED tables
      BY <1>2, <2>1 DEF CallRevoke, Arrive, tables
  <2> QED
      BY <2>1, <2>2, UsersArrival
<1>3. CASE CallAccept(q)
  <2>1. PICK u \in Users, i \in Invites :
            account[u].verified /\ Arrive(q, "acceptInvite", u, i, Null)
      BY <1>3 DEF CallAccept
  <2>2. UNCHANGED tables
      BY <1>3, <2>1 DEF CallAccept, Arrive, tables
  <2> QED
      BY <2>1, <2>2, UsersArrival
<1> QED
    BY <1>1, <1>2, <1>3 DEF InviteCall

-----------------------------------------------------------------------------
(***************************************************************************)
(* Codes and links.                                                        *)
(***************************************************************************)
\* Codes that are there stay with their users.
CodesKept ==
    \A c \in Codes : code[c].state # "ABSENT" =>
        /\ code'[c].state # "ABSENT"
        /\ code'[c].user = code[c].user /\ code'[c].kind = code[c].kind

\* The unconsumed codes a statement hits are those of the user and of the kind.
LEMMA HitsUnspent ==
    ASSUME NEW q, NEW STATE u, NEW STATE kind, NEW c \in Codes,
           CodeId(c) \in Hit(q, CodeRows(Unspent(u, kind)))
    PROVE  code[c].user = u /\ code[c].kind = kind
BY DEF Hit, CodeRows, Unspent, CodeId

\* A request that locks codes of its user and kind holds no others.
LEMMA LocksItsCodes ==
    ASSUME UsersInv, NEW q \in Requests, NEW STATE hit, NEW stage, UNCHANGED tables,
           Locked(q, hit, stage),
           \A c \in Codes : CodeId(c) \in hit =>
              code[c].user = call[q].user /\ (Op(q) # "googleLogin" => code[c].kind = KindOf(Op(q))),
           stage \notin {"codeFound", "confirmLink", "linkFound"}
    PROVE  HoldsCodes(q)'
<1>1. call'[q] = call[q] /\ pc'[q] = stage /\ held'[q] = held[q] \cup hit /\ HoldsCodes(q)
    BY DEF Locked, UsersInv, Knows
<1> QED
    BY <1>1 DEF HoldsCodes, Op, tables, codeVars

\* A request that ends with a change of the codes only.
LEMMA UsersFinishCodes ==
    ASSUME UsersInv, AccountsInv', NEW q \in Requests, Finish(q),
           UNCHANGED <<account, session, invite, identity>>, CodesKept, CodesOwned'
    PROVE  UsersInv'
<1>1. UsersKept(q)
    BY DEF UsersKept, CodesKept
<1>2. UsersSound'
    BY DEF UsersInv, UsersSound, AccountsSound, IdentitiesSound, TokensOwned, OnlyVerifiedSignedIn,
           EarlierSessionsEnd, AcceptedSound, AcceptedIsPromoted, Live, Finish
<1> QED
    BY <1>1, <1>2, UsersFinish

\* The codes a request has locked keep their users and kinds when it writes them.
LEMMA WrittenKept ==
    ASSUME UsersInv, NEW q \in Requests, NEW state \in {"SPENT", "DELETED"}
    PROVE  /\ Written(q, state) \in [Codes -> CodeRow]
           /\ \A c \in Codes :
                 LET row == Written(q, state)[c] IN
                 /\ row.user = code[c].user /\ row.kind = code[c].kind
                 /\ row.state = IF CodeId(c) \in held[q] THEN state ELSE code[c].state
           /\ \A c \in Codes : CodeId(c) \in held[q] => code[c].state # "ABSENT"
<1>1. code \in [Codes -> CodeRow] /\ \A c \in Codes : CodeId(c) \in held[q] => code[c].state # "ABSENT"
    BY DEF UsersInv, AccountsInv, RowTypes, Mine, HeldRows
<1>2. \A c \in Codes : /\ [code[c] EXCEPT !.state = state] \in CodeRow
                       /\ [code[c] EXCEPT !.state = state].user = code[c].user
                       /\ [code[c] EXCEPT !.state = state].kind = code[c].kind
                       /\ [code[c] EXCEPT !.state = state].state = state
    BY <1>1 DEF CodeRow
<1> QED
    BY <1>1, <1>2 DEF Written, CodeId

\* register, resendVerificationEmail and the two requests for a reset.
LEMMA UsersRequestSteps ==
    ASSUME UsersInv, AccountsInv', NEW q \in Requests, UNCHANGED invite,
           FindForRequest(q) \/ CreateUser(q) \/ RetireCodes(q) \/ InsertCode(q)
    PROVE  UsersInv'
<1> q \in Codes
    BY DEF Codes
<1> DEFINE u == call[q].user
           sends == {"register", "resendVerification", "requestLink", "requestOtp"}
<1>0. /\ Mine(q) /\ Knows(q) /\ FlowTypes /\ RowTypes /\ UsersSound
      /\ Addressed /\ q # Null
    BY SessionsAssumption DEF UsersInv, AccountsInv, RowsSound
<1>1. CASE FindForRequest(q)
  <2>1. pc[q] \in sends /\ Op(q) \in sends /\ UNCHANGED tables
      BY <1>0, <1>1 DEF FindForRequest, tables, Mine, CodeClaims
  <2>2. CASE Finish(q)
      BY <2>1, <2>2, UsersQuietFinish
  <2>3. ASSUME NEW stage \in {"addressFree", "issue"}, Continue(q, stage),
               stage = "issue" => account[u].exists
        PROVE  UsersInv'
    <3>1. pc'[q] = stage /\ call' = call /\ held' = held
        BY <1>0, <2>3 DEF FlowTypes, Continue, Goto
    <3>2. Serves(q)'
        BY <1>0, <2>1, <2>3, <3>1 DEF Knows, Serves, At, Op, Late, tables
    <3>3. Holds(q)'
        BY <3>1 DEF Holds, At
    <3>4. HoldsCodes(q)'
      <4>1. call'[q] = call[q] /\ held'[q] = held[q] /\ code' = code /\ pc'[q] = stage
          BY <2>1, <3>1 DEF tables, codeVars
      <4> QED
          BY <1>0, <4>1 DEF Knows, HoldsCodes, Op
    <3>5. stage \notin {"googleLogin", "unlinked", "idle", "userUpdated", "claimed", "newAccount"}
        OBVIOUS
    <3>6. pc[q] \notin {"idle", "done", "revokeInvite", "issue", "retired"}
        BY <2>1
    <3> QED
        BY <2>1, <2>3, <3>2, <3>3, <3>4, <3>5, <3>6, UsersContinue
  <2> QED
      BY <1>1, <2>2, <2>3 DEF FindForRequest, Admitted
<1>2. CASE CreateUser(q)
  <2>1. At(q, "addressFree") /\ Op(q) \in sends /\ UNCHANGED <<session, invite, codeVars>> /\ u \in Users
      BY <1>0, <1>2 DEF CreateUser, Mine, CodeClaims, Knows, Serves, At
  <2>2. CASE account[u].exists
      BY <1>2, <2>1, <2>2, UsersQuietFinish DEF CreateUser, tables
  <2>3. CASE ~account[u].exists
    <3> DEFINE new == [NoAccount EXCEPT !.exists = TRUE, !.password = q]
    <3>1. account' = [account EXCEPT ![u] = new] /\ Continue(q, "issue")
        BY <1>2, <2>3 DEF CreateUser
    <3>2. new.exists /\ ~new.verified /\ new.password = q /\ new.role = "USER"
        BY DEF NoAccount
    <3>3. /\ pc'[q] = "issue" /\ held' = held /\ call' = call /\ wanted' = wanted
          /\ Others(q) /\ OthersWait(q) /\ UNCHANGED clock
        BY <1>0, <3>1 DEF FlowTypes, Continue, Goto, Others, OthersWait
    <3>4. ~account[u].verified /\ account[u].role = "USER"
        BY <1>0, <2>1, <2>3 DEF UsersSound, AccountsSound
    <3> HIDE DEF new
    <3>5. /\ account'[u] = new
          /\ \A v \in Users \ {u} : account'[v] = account[v]
        BY <1>0, <2>1, <3>1 DEF RowTypes
    <3>6. UsersKept(q)
        BY <2>1, <3>2, <3>4, <3>5 DEF UsersKept, codeVars
    <3>7. AccountsSound' /\ IdentitiesSound' /\ CodesOwned' /\ clock' >= 1 /\ TokensOwned' /\ AcceptedSound'
        BY <1>0, <2>1, <3>2, <3>3, <3>4, <3>5
           DEF UsersSound, AccountsSound, IdentitiesSound, CodesOwned, TokensOwned, AcceptedSound, codeVars
    <3>8. \A t \in Tokens : Live(t) => session[t].user # u
        BY <1>0, <3>4 DEF UsersSound, OnlyVerifiedSignedIn
    <3>9. OnlyVerifiedSignedIn'
        BY <1>0, <2>1, <3>5, <3>8 DEF UsersSound, OnlyVerifiedSignedIn, TokensOwned, Live
    <3>10. EarlierSessionsEnd'
      <4>1. ~Live(u)
          BY <1>0, <2>1, <3>8 DEF UsersSound, TokensOwned, Live, Tokens
      <4> QED
          BY <1>0, <2>1, <3>5, <4>1 DEF UsersSound, EarlierSessionsEnd, Live
    <3>11. AcceptedIsPromoted'
      <4>1. \A v \in Users : account'[v].role = account[v].role
          BY <3>2, <3>4, <3>5
      <4> QED
          BY <1>0, <4>1, PromotedAsBefore DEF UsersSound
    <3>12. UsersSound'
        BY <3>7, <3>9, <3>10, <3>11 DEF UsersSound
    <3>13. Serves(q)' /\ Waits(q)' /\ Holds(q)'
        BY <1>0, <2>1, <3>2, <3>3, <3>5 DEF Knows, Serves, Waits, Holds, At, Op, Late
    <3>14. HoldsCodes(q)'
      <4>1. call'[q] = call[q] /\ held'[q] = held[q] /\ code' = code /\ pc'[q] = "issue"
          BY <2>1, <3>3 DEF codeVars
      <4> QED
          BY <1>0, <4>1 DEF Knows, HoldsCodes, Op
    <3>15. OwnPassword(q)'
        BY <3>3 DEF OwnPassword
    <3> QED
        BY <3>3, <3>6, <3>12, <3>13, <3>14, <3>15, UsersStepOfOne DEF Knows
  <2> QED
      BY <2>2, <2>3
<1>3. CASE RetireCodes(q)
  <2> DEFINE rows == CodeRows(Unspent(u, KindOf(Op(q))))
  <2>1. At(q, "issue") /\ UNCHANGED tables /\ Write(q, rows, "retired")
      BY <1>3 DEF RetireCodes, tables
  <2>2. \A c \in Codes : CodeId(c) \in Hit(q, rows) => code[c].user = u /\ code[c].kind = KindOf(Op(q))
      BY HitsUnspent
  <2> HIDE DEF rows
  <2>3. ASSUME Locked(q, Hit(q, rows), "retired") PROVE Serves(q)' /\ Holds(q)' /\ HoldsCodes(q)'
    <3>1. Serves(q)' /\ Holds(q)'
        BY <1>0, <2>1, <2>3 DEF Locked, Knows, Serves, Holds, At, Late, tables
    <3>2. HoldsCodes(q)'
        BY <2>1, <2>2, <2>3, LocksItsCodes
    <3> QED
        BY <3>1, <3>2
  <2> QED
      BY <2>1, <2>3, UsersLock DEF At
<1>4. CASE InsertCode(q)
  <2> DEFINE kind == KindOf(Op(q))
             state == IF kind = "link" THEN "DELETED" ELSE "SPENT"
             written == Written(q, state)
             new == [state |-> "LIVE", kind |-> kind, user |-> u,
                     attempts |-> 0, expiresAt |-> clock + CodeTtl]
  <2>1. /\ At(q, "retired") /\ Finish(q) /\ UNCHANGED <<account, session, invite, identity>>
        /\ code' = [written EXCEPT ![q] = new]
      BY <1>4 DEF InsertCode
  <2>2. code[q].state = "ABSENT" /\ u \in Users /\ account[u].exists
      BY <1>0, <2>1 DEF Mine, Fresh, Knows, Serves, At
  <2>3. /\ written \in [Codes -> CodeRow]
        /\ \A d \in Codes : /\ written[d].user = code[d].user /\ written[d].kind = code[d].kind
                            /\ code[d].state # "ABSENT" <=> written[d].state # "ABSENT"
    <3>1. state \in {"SPENT", "DELETED"}
        OBVIOUS
    <3> QED
        BY <3>1, WrittenKept
  <2>4. new.state = "LIVE" /\ new.user = u
      OBVIOUS
  <2> HIDE DEF written, new
  <2>5. code'[q] = new /\ \A d \in Codes \ {q} : code'[d] = written[d]
      BY <2>1, <2>3
  <2>6. CodesKept
      BY <2>2, <2>3, <2>5 DEF CodesKept
  <2>7. CodesOwned'
      BY <1>0, <2>1, <2>2, <2>3, <2>4, <2>5 DEF CodesOwned, UsersSound
  <2> QED
      BY <2>1, <2>6, <2>7, UsersFinishCodes
<1> QED
    BY <1>1, <1>2, <1>3, <1>4

\* The codes when a proof of the address commits: the attempt is counted on one of them.
LEMMA SpentKept ==
    ASSUME UsersInv, NEW q \in Requests, NEW STATE c, NEW STATE n, CodeId(c) \in held[q],
           code' = [Written(q, "SPENT") EXCEPT ![c].attempts = n]
    PROVE  CodesKept /\ \A d \in Codes : code[d].state = "ABSENT" => code'[d] = code[d]
<1> DEFINE written == Written(q, "SPENT")
<1>1. /\ written \in [Codes -> CodeRow]
      /\ \A d \in Codes : /\ written[d].user = code[d].user /\ written[d].kind = code[d].kind
                          /\ code[d].state # "ABSENT" => written[d].state # "ABSENT"
                          /\ CodeId(d) \notin held[q] => written[d] = code[d]
                          /\ CodeId(d) \in held[q] => code[d].state # "ABSENT"
    BY WrittenKept DEF Written, CodeId
<1>2. code' = [written EXCEPT ![c].attempts = n]
    OBVIOUS
<1> HIDE DEF written
<1>3. \A d \in Codes : /\ code'[d].user = written[d].user /\ code'[d].kind = written[d].kind
                       /\ code'[d].state = written[d].state
                       /\ d # c => code'[d] = written[d]
  <2> TAKE d \in Codes
  <2>1. code'[d] = written[d] \/ code'[d] = [written[d] EXCEPT !.attempts = n]
      BY <1>1, <1>2
  <2>2. written[d] \in CodeRow
      BY <1>1
  <2>3. d # c => code'[d] = written[d]
      BY <1>1, <1>2
  <2> QED
      BY <2>1, <2>2, <2>3 DEF CodeRow
<1>4. CodesKept
    BY <1>1, <1>3 DEF CodesKept
<1>5. \A d \in Codes : code[d].state = "ABSENT" => code'[d] = code[d]
    BY <1>1, <1>3
<1> QED
    BY <1>4, <1>5

\* A request that ends with a proof of its user's address: it gives no role.
LEMMA UsersFinishProof ==
    ASSUME UsersInv, AccountsInv', NEW q \in Requests, Finish(q), UNCHANGED invite,
           \A v \in Users :
              /\ account[v].exists => account'[v].exists
              /\ account[v].verified => account'[v].verified
              /\ account'[v].exists \/ (~account'[v].verified /\ account'[v].role = "USER")
              /\ account'[v].role = account[v].role
              /\ account'[v].password \in {account[v].password, Null, q}
              /\ \/ identity'[v] = identity[v]
                 \/ /\ v = call[q].user /\ account'[v].verified /\ identity'[v]
                    /\ \A p \in Requests \ {q} : IdentityRow(v) \notin held[p],
           TokensOwned', OnlyVerifiedSignedIn', TokensKept, EarlierSessionsEnd', CodesKept,
           \A c \in Codes : code[c].state = "ABSENT" => code'[c] = code[c]
    PROVE  UsersInv'
<1>0. UsersSound /\ Null \notin Requests
    BY SessionsAssumption DEF UsersInv
<1>1. UsersKept(q)
    BY <1>0 DEF UsersKept, TokensKept, CodesKept
<1>2. AccountsSound' /\ AcceptedSound' /\ clock' >= 1
    BY <1>0 DEF AccountsSound, UsersSound, AcceptedSound, Finish
<1>3. IdentitiesSound'
    BY <1>0 DEF UsersSound, IdentitiesSound
<1>4. AcceptedIsPromoted'
  <2>1. \A v \in Users : account'[v].role = account[v].role
      OBVIOUS
  <2>2. \A i \in Invites : invite'[i] = invite[i]
      OBVIOUS
  <2> QED
      BY <1>0, <2>1, <2>2, PromotedAsBefore DEF UsersSound
<1>5. CodesOwned'
    BY <1>0 DEF UsersSound, CodesOwned, CodesKept
<1>6. UsersSound'
    BY <1>2, <1>3, <1>4, <1>5 DEF UsersSound
<1> QED
    BY <1>1, <1>6, UsersFinish

\* verifyEmail and confirmPasswordResetOtp.
LEMMA UsersCodeSteps ==
    ASSUME UsersInv, AccountsInv', NEW q \in Requests, UNCHANGED invite,
           FindForCode(q) \/ FindCode(q) \/ CountAttempt(q) \/ ConsumeCodes(q) \/ CommitVerification(q)
    PROVE  UsersInv'
<1> DEFINE u == call[q].user
           uses == {"verifyEmail", "confirmOtp"}
<1>0. Mine(q) /\ Knows(q) /\ FlowTypes /\ RowTypes /\ UsersSound /\ call[q] \in CallRow
    BY DEF UsersInv, AccountsInv, FlowTypes
<1>1. CASE FindForCode(q)
  <2>1. pc[q] \in uses /\ Op(q) \in uses /\ UNCHANGED tables
      BY <1>0, <1>1 DEF FindForCode, tables, Mine, CodeClaims
  <2>2. CASE Finish(q)
      BY <2>1, <2>2, UsersQuietFinish
  <2>3. CASE ~Finish(q)
    <3>1. call' = [call EXCEPT ![q].now = clock] /\ Goto(q, "admitted") /\ UNCHANGED <<clock, wanted, held>>
        BY <1>1, <2>3 DEF FindForCode
    <3>2. /\ pc'[q] = "admitted" /\ held' = held /\ Others(q) /\ OthersWait(q)
          /\ call'[q] = [call[q] EXCEPT !.now = clock]
        BY <1>0, <3>1 DEF FlowTypes, Goto, Others, OthersWait
    <3>3. call'[q].op = call[q].op /\ call'[q].user = u
        BY <1>0, <3>2 DEF CallRow
    <3>4. Serves(q)' /\ Waits(q)' /\ Holds(q)'
        BY <1>0, <2>1, <3>2, <3>3 DEF Knows, Serves, Waits, Holds, At, Op, Late
    <3>5. HoldsCodes(q)'
        BY <1>0, <2>1, <3>2, <3>3 DEF Knows, HoldsCodes, Op, tables, codeVars
    <3>6. OwnPassword(q)'
        BY <1>0, <2>1, <3>2 DEF Knows, OwnPassword, tables
    <3> QED
        BY <2>1, <3>1, <3>2, <3>4, <3>5, <3>6, UsersQuiet DEF Knows
  <2> QED
      BY <2>2, <2>3
<1>2. CASE FindCode(q)
  <2>1. At(q, "admitted") /\ Op(q) \in uses /\ UNCHANGED tables
      BY <1>0, <1>2 DEF FindCode, tables, Mine, CodeClaims, At
  <2>2. CASE Finish(q)
      BY <2>1, <2>2, UsersQuietFinish
  <2>3. CASE ~Finish(q)
    <3>1. PICK c \in Unspent(u, KindOf(Op(q))) :
              call' = [call EXCEPT ![q].row = c] /\ Goto(q, "codeFound") /\ UNCHANGED <<clock, wanted, held>>
        BY <1>2, <2>3 DEF FindCode
    <3>2. code[c].user = u /\ code[c].kind = KindOf(Op(q))
        BY DEF Unspent
    <3>3. /\ pc'[q] = "codeFound" /\ held' = held /\ Others(q) /\ OthersWait(q)
          /\ call'[q] = [call[q] EXCEPT !.row = c]
        BY <1>0, <3>1 DEF FlowTypes, Goto, Others, OthersWait
    <3>4. call'[q].op = call[q].op /\ call'[q].user = u /\ call'[q].row = c
        BY <1>0, <3>3 DEF CallRow
    <3>5. Serves(q)' /\ Waits(q)' /\ Holds(q)'
        BY <1>0, <2>1, <3>3, <3>4 DEF Knows, Serves, Waits, Holds, At, Op, Late
    <3>6. HoldsCodes(q)'
        BY <1>0, <2>1, <3>2, <3>3, <3>4 DEF Knows, HoldsCodes, Op, tables, codeVars
    <3>7. OwnPassword(q)'
        BY <1>0, <2>1, <3>3 DEF Knows, OwnPassword, At, tables
    <3> QED
        BY <2>1, <3>1, <3>3, <3>5, <3>6, <3>7, UsersQuiet DEF Knows
  <2> QED
      BY <2>2, <2>3
<1>3. CASE CountAttempt(q)
  <2> DEFINE c == call[q].row
             rows == CodeRows(Attemptable(c))
  <2>1. At(q, "codeFound") /\ UNCHANGED <<account, session, invite, identity>>
      BY <1>3 DEF CountAttempt
  <2>2. Op(q) \in uses /\ c \in Codes /\ code[c].user = u /\ code[c].kind = KindOf(Op(q)) /\ u \in Users
      BY <1>0, <2>1 DEF Mine, CodeClaims, Knows, Serves, HoldsCodes, At
  <2>3. CASE Ready(q, rows) /\ Hit(q, rows) # {} /\ call[q].given # c
    <3>1. code' = [code EXCEPT ![c].attempts = code[c].attempts + 1] /\ Finish(q)
        BY <1>3, <2>3 DEF CountAttempt
    <3>2. \A d \in Codes : /\ code'[d].user = code[d].user /\ code'[d].kind = code[d].kind
                           /\ code'[d].state = code[d].state
      <4> TAKE d \in Codes
      <4>1. code'[d] = code[d] \/ code'[d] = [code[d] EXCEPT !.attempts = code[c].attempts + 1]
          BY <1>0, <3>1 DEF RowTypes
      <4>2. code[d] \in CodeRow
          BY <1>0 DEF RowTypes
      <4> QED
          BY <4>1, <4>2 DEF CodeRow
    <3>3. CodesKept
        BY <3>2 DEF CodesKept
    <3>4. CodesOwned'
        BY <1>0, <2>1, <3>2 DEF UsersSound, CodesOwned
    <3> QED
        BY <2>1, <3>1, <3>3, <3>4, UsersFinishCodes
  <2>4. CASE ~(Ready(q, rows) /\ Hit(q, rows) # {} /\ call[q].given # c)
    <3> DEFINE hit == Hit(q, rows)
    <3>1. Claim(q, rows, "counted") /\ UNCHANGED tables
        BY <1>3, <2>1, <2>4 DEF CountAttempt, tables, codeVars
    <3>2. \A d \in Codes : CodeId(d) \in hit => d = c
        BY DEF Hit, CodeRows, Attemptable, CodeId
    <3> HIDE DEF hit, rows
    <3>3. ASSUME Locked(q, hit, "counted") PROVE Serves(q)' /\ Holds(q)' /\ HoldsCodes(q)'
      <4>1. Serves(q)' /\ Holds(q)'
          BY <2>2, <3>3 DEF Locked, Serves, Holds, At, Op, Late
      <4>2. \A d \in Codes : CodeId(d) \in hit =>
                code[d].user = u /\ (Op(q) # "googleLogin" => code[d].kind = KindOf(Op(q)))
          BY <2>2, <3>2
      <4>3. HoldsCodes(q)'
          BY <3>1, <3>3, <4>2, LocksItsCodes
      <4> QED
          BY <4>1, <4>3
    <3>4. Locked(q, Hit(q, rows), "counted") => Serves(q)' /\ Holds(q)' /\ HoldsCodes(q)'
        BY <3>3 DEF hit
    <3> QED
        BY <2>1, <3>1, <3>4, UsersLock DEF At
  <2> QED
      BY <2>3, <2>4
<1>4. CASE ConsumeCodes(q)
  <2> DEFINE rows == CodeRows(Unspent(u, KindOf(Op(q))))
  <2>1. At(q, "counted") /\ UNCHANGED tables /\ Write(q, rows, "claimed") /\ Op(q) \in uses
      BY <1>0, <1>4 DEF ConsumeCodes, tables, Mine, CodeClaims, At
  <2>2. \A c \in Codes : CodeId(c) \in Hit(q, rows) => code[c].user = u /\ code[c].kind = KindOf(Op(q))
      BY HitsUnspent
  <2> HIDE DEF rows
  <2>3. ASSUME Locked(q, Hit(q, rows), "claimed") PROVE Serves(q)' /\ Holds(q)' /\ HoldsCodes(q)'
    <3>1. Serves(q)' /\ Holds(q)'
        BY <1>0, <2>1, <2>3 DEF Locked, Knows, Serves, Holds, At, Op, Late
    <3>2. HoldsCodes(q)'
        BY <2>1, <2>2, <2>3, LocksItsCodes
    <3> QED
        BY <3>1, <3>2
  <2> QED
      BY <2>1, <2>3, UsersLock DEF At
<1>5. CASE CommitVerification(q)
  <2> DEFINE c == call[q].row
  <2>1. /\ At(q, "userUpdated") /\ Op(q) = "verifyEmail" /\ Finish(q) /\ UNCHANGED <<invite, identity>>
        /\ code' = [Written(q, "SPENT") EXCEPT ![c].attempts = @ + 1]
        /\ account' = [account EXCEPT ![u].verified = TRUE]
        /\ session' = Issued(q, Null)
      BY <1>5 DEF CommitVerification
  <2>2. /\ u \in Users /\ c \in Codes /\ CodeId(c) \in held[q]
        /\ code[c].user = u /\ code[c].state # "ABSENT"
      BY <1>0, <2>1 DEF Knows, Serves, HoldsCodes, Mine, HeldRows, CodeClaims, At, Late
  <2>3. account[u].exists
      BY <1>0, <2>2 DEF UsersSound, CodesOwned
  <2>4. CodesKept /\ \A d \in Codes : code[d].state = "ABSENT" => code'[d] = code[d]
      BY <2>1, <2>2, SpentKept
  <2>5. \A v \in Users :
           /\ account'[v].exists = account[v].exists
           /\ account'[v].role = account[v].role /\ account'[v].password = account[v].password
           /\ v = u => account'[v].verified
           /\ v # u => account'[v].verified = account[v].verified
      BY <1>0, <2>1 DEF RowTypes, AccountRow
  <2>6. /\ TokensOwned' /\ OnlyVerifiedSignedIn' /\ TokensKept
        /\ \A v \in Users : session'[v].state = "LIVE" => TokenRow(v) \notin held[q]
      BY <2>1, <2>2, <2>5, TokensCommit DEF At
  <2>7. EarlierSessionsEnd'
      BY <1>0, <2>5, <2>6 DEF UsersSound, EarlierSessionsEnd, TokensKept, Live
  <2>8. \A v \in Users :
           /\ account[v].verified => account'[v].verified
           /\ account'[v].exists \/ (~account'[v].verified /\ account'[v].role = "USER")
    <3> TAKE v \in Users
    <3>1. CASE v = u
        BY <2>3, <2>5, <3>1
    <3>2. CASE v # u
        BY <1>0, <2>5, <3>2 DEF UsersSound, AccountsSound
    <3> QED
        BY <3>1, <3>2
  <2> QED
      BY <2>1, <2>4, <2>5, <2>6, <2>7, <2>8, UsersFinishProof
<1> QED
    BY <1>1, <1>2, <1>3, <1>4, <1>5

\* confirmPasswordReset, and how either reset ends.
LEMMA UsersResetSteps ==
    ASSUME UsersInv, AccountsInv', NEW q \in Requests, UNCHANGED invite,
           FindLink(q) \/ ClaimLink(q) \/ CommitReset(q)
    PROVE  UsersInv'
<1> DEFINE u == call[q].user
           c == call[q].row
<1>0. Mine(q) /\ Knows(q) /\ FlowTypes /\ RowTypes /\ UsersSound
    BY DEF UsersInv, AccountsInv
<1>1. CASE FindLink(q)
  <2>1. At(q, "confirmLink") /\ UNCHANGED tables
      BY <1>1 DEF FindLink, tables
  <2>2. CASE Finish(q)
      BY <2>1, <2>2, UsersQuietFinish
  <2>3. CASE Continue(q, "linkFound")
    <3>1. pc'[q] = "linkFound" /\ call' = call /\ held' = held
        BY <1>0, <2>3 DEF FlowTypes, Continue, Goto
    <3>2. Serves(q)' /\ Holds(q)'
        BY <1>0, <2>1, <3>1 DEF Knows, Serves, Holds, At, Op, Late
    <3>3. HoldsCodes(q)'
      <4>1. call'[q] = call[q] /\ held'[q] = held[q] /\ code' = code /\ pc[q] = "confirmLink"
          BY <2>1, <3>1 DEF At, tables, codeVars
      <4> QED
          BY <1>0, <4>1 DEF Knows, HoldsCodes, Op
    <3> QED
        BY <2>1, <2>3, <3>2, <3>3, UsersContinue DEF At
  <2> QED
      BY <1>1, <2>2, <2>3 DEF FindLink
<1>2. CASE ClaimLink(q)
  <2> DEFINE rows == CodeRows(Usable(c))
             hit == Hit(q, rows)
  <2>1. At(q, "linkFound") /\ Op(q) = "confirmLink" /\ UNCHANGED tables /\ Claim(q, rows, "claimed")
      BY <1>0, <1>2 DEF ClaimLink, tables, Mine, CodeClaims, At
  <2>2. \A d \in Codes : CodeId(d) \in hit => d = c
      BY DEF Hit, CodeRows, Usable, CodeId
  <2>3. code[c].user = u /\ code[c].kind = KindOf(Op(q))
      BY <1>0, <2>1 DEF Knows, HoldsCodes, At
  <2> HIDE DEF rows, hit
  <2>4. ASSUME Locked(q, hit, "claimed") PROVE Serves(q)' /\ Holds(q)' /\ HoldsCodes(q)'
    <3>1. Serves(q)' /\ Holds(q)'
        BY <1>0, <2>1, <2>4 DEF Locked, Knows, Serves, Holds, At, Op, Late
    <3>2. \A d \in Codes : CodeId(d) \in hit =>
              code[d].user = u /\ (Op(q) # "googleLogin" => code[d].kind = KindOf(Op(q)))
        BY <2>2, <2>3
    <3>3. HoldsCodes(q)'
        BY <2>1, <2>4, <3>2, LocksItsCodes
    <3> QED
        BY <3>1, <3>3
  <2>5. Locked(q, Hit(q, rows), "claimed") => Serves(q)' /\ Holds(q)' /\ HoldsCodes(q)'
      BY <2>4 DEF hit
  <2> QED
      BY <2>1, <2>5, UsersLock DEF At
<1>3. CASE CommitReset(q)
  <2> DEFINE n == IF Op(q) = "confirmOtp" THEN code[c].attempts + 1 ELSE code[c].attempts
  <2>1. /\ At(q, "sessionsRevoked") /\ Op(q) \in {"confirmOtp", "confirmLink"}
        /\ Finish(q) /\ UNCHANGED <<invite, identity>>
        /\ code' = [Written(q, "SPENT") EXCEPT
                       ![c].attempts = IF Op(q) = "confirmOtp" THEN @ + 1 ELSE @]
        /\ account' = [account EXCEPT ![u].password = q, ![u].verified = TRUE]
        /\ session' = Revoked(q)
      BY <1>3 DEF CommitReset
  <2>2. /\ u \in Users /\ c \in Codes /\ CodeId(c) \in held[q]
        /\ code[c].user = u /\ code[c].state # "ABSENT"
        /\ TokenRow(u) \in held[q] \/ ~Live(u)
      BY <1>0, <2>1 DEF Knows, Serves, Holds, HoldsCodes, Mine, HeldRows, CodeClaims, At, Late
  <2>3. account[u].exists
      BY <1>0, <2>2 DEF UsersSound, CodesOwned
  <2>4. CodesKept /\ \A d \in Codes : code[d].state = "ABSENT" => code'[d] = code[d]
    <3>1. code' = [Written(q, "SPENT") EXCEPT ![c].attempts = n]
        BY <2>1, <2>2, WrittenCodes DEF UsersInv
    <3> HIDE DEF n
    <3> QED
        BY <2>2, <3>1, SpentKept
  <2>5. \A v \in Users :
           /\ account'[v].exists = account[v].exists
           /\ account'[v].role = account[v].role
           /\ v = u => account'[v].verified /\ account'[v].password = q
           /\ v # u => account'[v].verified = account[v].verified
                       /\ account'[v].password = account[v].password
      BY <1>0, <2>1 DEF RowTypes, AccountRow
  <2>6. /\ TokensOwned' /\ OnlyVerifiedSignedIn' /\ TokensKept
        /\ \A v \in Users : session'[v].state = "LIVE" => TokenRow(v) \notin held[q]
    <3>1. \A v \in Users : account[v].verified => account'[v].verified
        BY <2>5
    <3>2. pc[q] # "done" /\ Null \in Tokens \cup {Null}
        BY <2>1 DEF At
    <3> QED
        BY <2>1, <2>2, <3>1, <3>2, TokensCommit
  <2>7. EarlierSessionsEnd'
      BY <1>0, <2>2, <2>5, <2>6 DEF UsersSound, EarlierSessionsEnd, TokensKept, Live
  <2>8. \A v \in Users :
           /\ account[v].verified => account'[v].verified
           /\ account'[v].exists \/ (~account'[v].verified /\ account'[v].role = "USER")
    <3> TAKE v \in Users
    <3>1. CASE v = u
        BY <2>3, <2>5, <3>1
    <3>2. CASE v # u
        BY <1>0, <2>5, <3>2 DEF UsersSound, AccountsSound
    <3> QED
        BY <3>1, <3>2
  <2>9. \A v \in Users : account'[v].password \in {account[v].password, Null, q}
      BY <2>5
  <2> QED
      BY <2>1, <2>4, <2>5, <2>6, <2>7, <2>8, <2>9, UsersFinishProof
<1> QED
    BY <1>1, <1>2, <1>3

\* googleLogin preserves the invariant.
LEMMA UsersGoogleSteps ==
    ASSUME UsersInv, AccountsInv', NEW q \in Requests, UNCHANGED invite,
           FindIdentity(q) \/ FindGoogleUser(q) \/ DeleteLinks(q) \/ DeleteCodes(q)
           \/ InsertGoogle(q) \/ CommitGoogle(q)
    PROVE  UsersInv'
<1> DEFINE u == call[q].user
<1>0. Mine(q) /\ Knows(q) /\ FlowTypes /\ RowTypes /\ UsersSound
    BY DEF UsersInv, AccountsInv
<1>1. CASE FindIdentity(q) \/ FindGoogleUser(q)
  <2>1. /\ pc[q] \in {"googleLogin", "unlinked"} /\ Op(q) = "googleLogin" /\ UNCHANGED tables
        /\ wanted[q] = {} /\ held[q] = {} /\ u \in Users
      BY <1>0, <1>1 DEF FindIdentity, FindGoogleUser, tables, Mine, CodeClaims, Knows, Waits, Serves, At
  <2>2. PICK stage \in {"linked", "unlinked", "newAccount", "claimed", "taken"} :
           /\ Continue(q, stage)
           /\ stage \in {"linked", "taken"} => account[u].verified
           /\ stage = "linked" => identity[u]
    <3>1. CASE FindIdentity(q) /\ identity[u]
        BY <1>0, <2>1, <3>1 DEF FindIdentity, UsersSound, IdentitiesSound
    <3>2. CASE FindIdentity(q) /\ ~identity[u]
        BY <3>2 DEF FindIdentity
    <3>3. CASE FindGoogleUser(q)
      <4>1. CASE ~account[u].exists
          BY <3>3, <4>1 DEF FindGoogleUser
      <4>2. CASE account[u].exists /\ ~account[u].verified
          BY <3>3, <4>2 DEF FindGoogleUser
      <4>3. CASE account[u].exists /\ account[u].verified
          BY <3>3, <4>3 DEF FindGoogleUser
      <4> QED
          BY <4>1, <4>2, <4>3
    <3> QED
        BY <1>1, <3>1, <3>2, <3>3
  <2>3. pc'[q] = stage /\ call'[q] = call[q] /\ held'[q] = {} /\ wanted'[q] = {}
      BY <1>0, <2>1, <2>2 DEF FlowTypes, Continue, Goto
  <2>4. Serves(q)'
      BY <1>0, <2>1, <2>3 DEF Knows, Serves, At, Op, Late
  <2>5. Holds(q)'
      BY <2>1, <2>2, <2>3 DEF Holds, At, tables, codeVars
  <2>6. HoldsCodes(q)'
      BY <2>3 DEF HoldsCodes
  <2>7. stage \notin {"idle", "userUpdated", "googleLogin"} /\ pc[q] \notin {"idle", "done", "revokeInvite", "issue", "retired"}
      BY <2>1
  <2> QED
      BY <2>1, <2>2, <2>4, <2>5, <2>6, <2>7, UsersContinue
<1>2. CASE DeleteLinks(q)
  <2> DEFINE rows == CodeRows(Unspent(u, "link"))
  <2>1. At(q, "sessionsRevoked") /\ Op(q) = "googleLogin" /\ UNCHANGED tables /\ Write(q, rows, "linksDeleted")
      BY <1>2 DEF DeleteLinks, tables
  <2>2. \A c \in Codes : CodeId(c) \in Hit(q, rows) => code[c].user = u
      BY HitsUnspent
  <2> HIDE DEF rows
  <2>3. ASSUME Locked(q, Hit(q, rows), "linksDeleted") PROVE Serves(q)' /\ Holds(q)' /\ HoldsCodes(q)'
    <3>1. Serves(q)' /\ Holds(q)'
        BY <1>0, <2>1, <2>3 DEF Locked, Knows, Serves, Holds, At, Op, Late
    <3>2. HoldsCodes(q)'
        BY <2>1, <2>2, <2>3, LocksItsCodes
    <3> QED
        BY <3>1, <3>2
  <2> QED
      BY <2>1, <2>3, UsersLock DEF At
<1>3. CASE DeleteCodes(q)
  <2> DEFINE rows == CodeRows(Unspent(u, "verify"))
  <2>1. At(q, "linksDeleted") /\ Op(q) = "googleLogin" /\ UNCHANGED tables /\ Write(q, rows, "taken")
      BY <1>0, <1>3 DEF DeleteCodes, tables, Mine, CodeClaims, At
  <2>2. \A c \in Codes : CodeId(c) \in Hit(q, rows) => code[c].user = u
      BY HitsUnspent
  <2> HIDE DEF rows
  <2>3. ASSUME Locked(q, Hit(q, rows), "taken") PROVE Serves(q)' /\ Holds(q)' /\ HoldsCodes(q)'
    <3>1. Serves(q)' /\ Holds(q)'
        BY <1>0, <2>1, <2>3 DEF Locked, Knows, Serves, Holds, At, Op, Late
    <3>2. HoldsCodes(q)'
        BY <2>1, <2>2, <2>3, LocksItsCodes
    <3> QED
        BY <3>1, <3>2
  <2> QED
      BY <2>1, <2>3, UsersLock DEF At
<1>4. CASE InsertGoogle(q)
  <2> DEFINE rows == IF At(q, "newAccount") THEN {UserRow(u), IdentityRow(u)} ELSE {IdentityRow(u)}
             hit == Hit(q, rows)
  <2>1. pc[q] \in {"newAccount", "taken"} /\ UNCHANGED tables /\ u \in Users
      BY <1>0, <1>4 DEF InsertGoogle, tables, Knows, Serves
  <2>2. CASE Finish(q)
      BY <2>1, <2>2, UsersQuietFinish
  <2>3. CASE Claim(q, rows, "linked") /\ ~identity[u]
    <3>1. \A c \in Codes : CodeId(c) \notin hit
        BY DEF Hit, UserRow, IdentityRow, CodeId
    <3>2. ASSUME Locked(q, hit, "linked") PROVE hit # {}
      <4>1. pc'[q] = "linked" /\ pc' # pc
          BY <2>1, <3>2 DEF Locked
      <4>2. ~Finish(q)
          BY <1>0, <4>1 DEF FlowTypes, Finish, Goto
      <4> QED
          BY <2>3, <4>1, <4>2 DEF Claim, Wait
    <3>3. hit # {} => /\ IdentityRow(u) \in hit
                      /\ At(q, "newAccount") => UserRow(u) \in hit
      <4>1. CASE At(q, "newAccount")
          BY <1>0, <4>1 DEF Hit, Knows, Waits
      <4>2. CASE ~At(q, "newAccount")
          BY <4>2 DEF Hit
      <4> QED
          BY <4>1, <4>2
    <3>4. At(q, "newAccount") => {UserRow(u), IdentityRow(u)} \subseteq rows
        OBVIOUS
    <3> HIDE DEF hit, rows
    <3>5. ASSUME Locked(q, hit, "linked") PROVE Serves(q)' /\ Holds(q)' /\ HoldsCodes(q)'
      <4>1. Serves(q)'
          BY <2>1, <3>5 DEF Locked, Serves, At, Op, Late
      <4>2. Holds(q)'
          BY <1>0, <2>1, <2>3, <3>2, <3>3, <3>5 DEF Locked, Knows, Holds, At, tables, codeVars
      <4>3. HoldsCodes(q)'
          BY <2>1, <3>1, <3>5, LocksItsCodes
      <4> QED
          BY <4>1, <4>2, <4>3
    <3>6. Locked(q, Hit(q, rows), "linked") => Serves(q)' /\ Holds(q)' /\ HoldsCodes(q)'
        BY <3>5 DEF hit
    <3>7. ~At(q, "claimed") /\ ~At(q, "userUpdated")
        BY <2>1 DEF At
    <3> QED
        BY <2>1, <2>3, <3>4, <3>6, <3>7, UsersLock
  <2> QED
      BY <1>4, <2>2, <2>3 DEF InsertGoogle
<1>5. CASE CommitGoogle(q)
  <2>1. /\ At(q, "linked") /\ Finish(q)
        /\ account' = IF UserRow(u) \in held[q]
                      THEN [account EXCEPT ![u].exists = TRUE, ![u].verified = TRUE, ![u].password = Null]
                      ELSE account
        /\ code' = Written(q, "DELETED")
        /\ identity' = [identity EXCEPT ![u] = TRUE]
        /\ session' = Issued(q, Null)
      BY <1>5 DEF CommitGoogle
  <2>2. u \in Users /\ (UserRow(u) \in held[q] \/ account[u].verified) /\ (identity[u] \/ IdentityRow(u) \in held[q])
      BY <1>0, <2>1 DEF Knows, Serves, Holds, At
  <2>3. CodesKept /\ \A d \in Codes : code[d].state = "ABSENT" => code'[d] = code[d]
      BY <2>1, WrittenKept DEF CodesKept, Written, CodeId
  <2>4. \A v \in Users \ {u} : account'[v] = account[v]
      BY <1>0, <2>1 DEF RowTypes
  <2>5. /\ account'[u].role = account[u].role /\ account'[u].password \in {account[u].password, Null}
        /\ account'[u].verified
        /\ account[u].exists => account'[u].exists
        /\ account'[u].exists \/ account'[u] = account[u]
    <3>1. CASE UserRow(u) \in held[q]
      <4>1. account'[u] = [account[u] EXCEPT !.exists = TRUE, !.verified = TRUE, !.password = Null]
          BY <1>0, <2>1, <2>2, <3>1 DEF RowTypes
      <4>2. account[u] \in AccountRow
          BY <1>0, <2>2 DEF RowTypes
      <4> QED
          BY <4>1, <4>2 DEF AccountRow
    <3>2. CASE UserRow(u) \notin held[q]
        BY <2>1, <2>2, <3>2
    <3> QED
        BY <3>1, <3>2
  <2>6. /\ TokensOwned' /\ OnlyVerifiedSignedIn' /\ TokensKept
        /\ \A v \in Users : session'[v].state = "LIVE" => TokenRow(v) \notin held[q]
    <3>1. \A v \in Users : account[v].verified => account'[v].verified
        BY <2>4, <2>5
    <3> QED
        BY <2>1, <2>2, <2>5, <3>1, TokensCommit DEF At
  <2>7. EarlierSessionsEnd'
    <3>1. \A v \in Users : account'[v].role = account[v].role /\ account'[v].password \in {account[v].password, Null}
        BY <2>4, <2>5
    <3>2. Null \notin Requests
        BY SessionsAssumption
    <3> QED
        BY <1>0, <2>6, <3>1, <3>2 DEF UsersSound, EarlierSessionsEnd, TokensKept, Live
  <2>8. \A v \in Users :
           /\ account[v].exists => account'[v].exists
           /\ account[v].verified => account'[v].verified
           /\ account'[v].exists \/ (~account'[v].verified /\ account'[v].role = "USER")
    <3> TAKE v \in Users
    <3>1. CASE v = u
        BY <1>0, <2>5, <3>1 DEF UsersSound, AccountsSound
    <3>2. CASE v # u
        BY <1>0, <2>4, <3>2 DEF UsersSound, AccountsSound
    <3> QED
        BY <3>1, <3>2
  <2>9. \A v \in Users : /\ account'[v].role = account[v].role
                         /\ account'[v].password \in {account[v].password, Null, q}
      BY <2>4, <2>5
  <2>10. \A v \in Users :
            \/ identity'[v] = identity[v]
            \/ /\ v = u /\ account'[v].verified /\ identity'[v]
               /\ \A p \in Requests \ {q} : IdentityRow(v) \notin held[p]
    <3> TAKE v \in Users
    <3>1. CASE v # u \/ identity[u]
        BY <1>0, <2>1, <3>1 DEF RowTypes
    <3>2. CASE v = u /\ ~identity[u]
      <4>1. \A p \in Requests \ {q} : IdentityRow(v) \notin held[p]
          BY <2>2, <3>2 DEF UsersInv, AccountsInv, Exclusive
      <4>2. identity'[v]
          BY <1>0, <2>1, <2>2, <3>2 DEF RowTypes
      <4> QED
          BY <2>5, <3>2, <4>1, <4>2
    <3> QED
        BY <3>1, <3>2
  <2> QED
      BY <2>1, <2>3, <2>6, <2>7, <2>8, <2>9, <2>10, UsersFinishProof
<1> QED
    BY <1>1, <1>2, <1>3, <1>4, <1>5

\* Calls of registration, verification, resets and Google sign-in preserve the invariant.
LEMMA UsersCodeCalls ==
    ASSUME UsersInv, AccountsInv', NEW q \in Requests, CodeCall(q), UNCHANGED invite
    PROVE  UsersInv'
<1>1. CASE CallForEmail(q)
  <2>1. PICK u \in Users, op \in {"register", "resendVerification", "requestLink", "requestOtp"} :
            Arrive(q, op, u, Null, Null)
      BY <1>1 DEF CallForEmail
  <2>2. UNCHANGED tables
      BY <1>1, <2>1 DEF CallForEmail, Arrive, tables
  <2> QED
      BY <2>1, <2>2, UsersArrival
<1>2. CASE CallWithCode(q)
  <2>1. PICK u \in Users, op \in {"verifyEmail", "confirmOtp"}, given \in Codes \cup {Null} :
            Arrive(q, op, u, Null, given)
      BY <1>2 DEF CallWithCode
  <2>2. UNCHANGED tables
      BY <1>2, <2>1 DEF CallWithCode, Arrive, tables
  <2> QED
      BY <2>1, <2>2, UsersArrival
<1>3. CASE CallWithLink(q)
  <2>1. PICK c \in Codes : code[c].kind = "link" /\ Arrive(q, "confirmLink", code[c].user, c, Null)
      BY <1>3 DEF CallWithLink
  <2>2. UNCHANGED tables
      BY <1>3, <2>1 DEF CallWithLink, Arrive, tables
  <2>3. code[c].user \in Users
      BY <2>1, CodesAssumption DEF UsersInv, UsersSound, CodesOwned
  <2> QED
      BY <2>1, <2>2, <2>3, UsersArrival
<1>4. CASE CallGoogle(q)
  <2>1. PICK u \in Users : Arrive(q, "googleLogin", u, Null, Null)
      BY <1>4 DEF CallGoogle
  <2>2. UNCHANGED tables
      BY <1>4, <2>1 DEF CallGoogle, Arrive, tables
  <2> QED
      BY <2>1, <2>2, UsersArrival
<1> QED
    BY <1>1, <1>2, <1>3, <1>4 DEF CodeCall

-----------------------------------------------------------------------------
(***************************************************************************)
(* The invariant holds.                                                    *)
(***************************************************************************)
\* Neither a step that changes nothing nor the time disturbs the invariant.
LEMMA UsersIdleStep ==
    ASSUME UsersInv, AccountsInv', UNCHANGED <<tables, pc, call, held, wanted>>, clock' >= 1
    PROVE  UsersInv'
<1>1. UsersSound'
    BY DEF UsersInv, UsersSound, AccountsSound, IdentitiesSound, TokensOwned, OnlyVerifiedSignedIn,
           EarlierSessionsEnd, CodesOwned, AcceptedSound, AcceptedIsPromoted, Live, tables, codeVars
<1>2. ASSUME NEW q \in Requests PROVE Knows(q)'
  <2>1. Knows(q)
      BY DEF UsersInv
  <2>2. Serves(q)' /\ Waits(q)'
      BY <2>1 DEF Knows, Serves, Waits, At, Op, Live, tables
  <2>3. Holds(q)' /\ HoldsCodes(q)' /\ OwnPassword(q)'
      BY <2>1 DEF Knows, Holds, HoldsCodes, OwnPassword, At, Op, Live, tables, codeVars
  <2> QED
      BY <2>2, <2>3 DEF Knows
<1> QED
    BY <1>1, <1>2 DEF UsersInv

\* Every step of the service preserves the invariant.
LEMMA UsersStep ==
    ASSUME UsersInv, [Next]_vars
    PROVE  UsersInv'
<1>0. AccountsInv' /\ clock \in Nat /\ clock >= 1
    BY AccountsStep DEF UsersInv, UsersSound, AccountsInv, FlowTypes
<1>1. CASE Tick /\ UNCHANGED <<invite, codeVars>>
  <2>1. clock' >= 1 /\ UNCHANGED <<tables, pc, call, held, wanted>>
      BY <1>0, <1>1 DEF Tick, tables
  <2> QED
      BY <1>0, <2>1, UsersIdleStep
<1>2. ASSUME NEW q \in Requests, Call(q) PROVE UsersInv'
    BY <1>0, <1>2, UsersSessionCalls, UsersInviteCalls, UsersCodeCalls DEF Call
<1>3. ASSUME NEW q \in Requests, Serve(q) PROVE UsersInv'
  <2>1. CASE SessionStep(q) /\ UNCHANGED <<invite, codeVars>>
      BY <1>0, <2>1, UsersSessionSteps
  <2>2. CASE InviteStep(q) /\ UNCHANGED codeVars
      BY <1>0, <2>2, UsersInviteSteps
  <2>3. CASE CodeStep(q) /\ UNCHANGED invite
      BY <1>0, <2>3, UsersRequestSteps, UsersCodeSteps, UsersResetSteps, UsersGoogleSteps DEF CodeStep
  <2>4. CASE BreakDeadlock(q) /\ UNCHANGED tables
      BY <1>0, <2>4, UsersQuietFinish DEF BreakDeadlock
  <2> QED
      BY <1>3, <2>1, <2>2, <2>3, <2>4 DEF Serve
<1>4. ASSUME NEW q \in Requests, Abort(q), UNCHANGED tables PROVE UsersInv'
    BY <1>0, <1>4, UsersQuietFinish DEF Abort
<1>5. CASE UNCHANGED vars
  <2>1. clock' >= 1 /\ UNCHANGED <<tables, pc, call, held, wanted>>
      BY <1>0, <1>5 DEF vars, flow
  <2> QED
      BY <1>0, <2>1, UsersIdleStep
<1> QED
    BY <1>1, <1>2, <1>3, <1>4, <1>5 DEF Next

\* The service starts in the invariant: nobody has been promoted or has reset a password.
LEMMA InitUsersInv == Init => UsersInv
<1> SUFFICES ASSUME NEW start \in Starts, SessionsInit(start), InvitesInit(start), CodesInit(start), Init
             PROVE  UsersInv
    BY DEF Init
<1>1. AccountsInv
    BY InitAccountsInv
<1>2. \A u \in Users : /\ ~account[u].exists => ~account[u].verified
                       /\ account[u].role = "USER" /\ account[u].password \notin Requests
                       /\ ~identity[u]
    BY SessionsAssumption DEF SessionsInit, CodesInit, NoAccount
<1>3. \A t \in Tokens : session[t].state # "ABSENT" =>
          t \in Users /\ session[t].user = t /\ account[t].verified
    BY DEF SessionsInit
<1>4. \A i \in Invites : invite[i].acceptedAt = 0
    BY InvitesAssumption DEF InvitesInit, NoInvite
<1>5. CodesOwned
  <2> SUFFICES ASSUME NEW c \in Codes
               PROVE  IF code[c].state = "ABSENT" THEN code[c].kind = Null
                      ELSE code[c].user \in Users /\ account[code[c].user].exists
      BY DEF CodesOwned
  <2>1. CASE c \in SentCodes
    <3>1. /\ code[c] = start.codes[c]
          /\ IF code[c].state = "ABSENT" THEN code[c] = NoCode
             ELSE code[c].user \in Users /\ start.account[code[c].user].exists
        BY <2>1, CodesAssumption DEF CodesInit, Codes
    <3> QED
        BY <3>1 DEF NoCode, SessionsInit
  <2>2. CASE c \notin SentCodes
      BY <2>2 DEF CodesInit, NoCode
  <2> QED
      BY <2>1, <2>2
<1>6. UsersSound
  <2>1. AccountsSound /\ IdentitiesSound /\ clock >= 1
      BY <1>2 DEF AccountsSound, IdentitiesSound, SessionsInit
  <2>2. TokensOwned /\ OnlyVerifiedSignedIn /\ EarlierSessionsEnd
      BY <1>2, <1>3 DEF TokensOwned, OnlyVerifiedSignedIn, EarlierSessionsEnd, Live
  <2>3. AcceptedSound /\ AcceptedIsPromoted
      BY <1>2, <1>4 DEF AcceptedSound, AcceptedIsPromoted
  <2> QED
      BY <1>5, <2>1, <2>2, <2>3 DEF UsersSound
<1>7. ASSUME NEW q \in Requests PROVE Knows(q)
  <2>1. pc[q] = "idle" /\ held[q] = {} /\ wanted[q] = {}
      BY DEF SessionsInit
  <2>2. Serves(q) /\ Waits(q) /\ Holds(q) /\ HoldsCodes(q)
      BY <2>1 DEF Serves, Waits, Holds, HoldsCodes, At, Late
  <2>3. OwnPassword(q)
      BY <1>2 DEF OwnPassword
  <2> QED
      BY <2>2, <2>3 DEF Knows
<1> QED
    BY <1>1, <1>6, <1>7 DEF UsersInv

\* Tokens, codes and invites belong to the users they were made for, and what a request has
\* read of its user, waits for and has locked is what it writes when it commits.
THEOREM UsersInvHolds == Spec => []UsersInv
<1>1. UsersInv /\ [Next]_vars => UsersInv'
    BY UsersStep
<1> QED
    BY InitUsersInv, <1>1, PTL DEF Spec

-----------------------------------------------------------------------------
(***************************************************************************)
(* What follows for the users.                                             *)
(***************************************************************************)
\* However sign-ups, proofs and sign-ins race, whoever is signed in has proven the address:
\* by a code, a link, Google, or in a session that was opened so.
THEOREM SignedInAreVerified == Spec => []OnlyVerifiedSignedIn
<1>1. UsersInv => OnlyVerifiedSignedIn
    BY DEF UsersInv, UsersSound
<1> QED
    BY <1>1, UsersInvHolds, PTL

\* The session a user had before any of the requests has ended when a reset or an accepted invite
\* commits: its token is among those the transaction revokes, or was revoked before.
THEOREM SessionsBeforeEnd == Spec => []EarlierSessionsEnd
<1>1. UsersInv => EarlierSessionsEnd
    BY DEF UsersInv, UsersSound
<1> QED
    BY <1>1, UsersInvHolds, PTL

\* However many invites a user accepts at once, the role is one an accepted invite gave,
\* and there is no other way to a role.
THEOREM AcceptedArePromoted == Spec => []AcceptedIsPromoted
<1>1. UsersInv => AcceptedIsPromoted
    BY DEF UsersInv, UsersSound
<1> QED
    BY <1>1, UsersInvHolds, PTL

-----------------------------------------------------------------------------
(***************************************************************************)
(* What follows for the codes.                                             *)
(***************************************************************************)
\* Why a code stops being live in a step.
ReplacedOrUsed(c) ==
    LET u == code[c].user IN
    \/ \E d \in Codes : /\ code[d].state = "ABSENT"
                        /\ code'[d].state = "LIVE"
                        /\ code'[d].kind = code[c].kind
                        /\ code'[d].user = u
    \/ code[c].kind = "verify" /\ account'[u].verified
    \/ account'[u].password # account[u].password
    \/ ~identity[u] /\ identity'[u]

\* A request ends the codes it has locked, when it commits.
LEMMA CodeEnds ==
    ASSUME UsersInv, NEW q \in Requests, Serve(q), NEW c \in Codes,
           code[c].state = "LIVE", code'[c].state # "LIVE"
    PROVE  ReplacedOrUsed(c)
<1> q \in Codes
    BY DEF Codes
<1> DEFINE u == call[q].user
<1>0. /\ Mine(q) /\ Knows(q) /\ RowTypes
      /\ Written(q, "SPENT") \in [Codes -> CodeRow] /\ Written(q, "DELETED") \in [Codes -> CodeRow]
      /\ CodeId(c) \notin held[q] =>
            Written(q, "SPENT")[c] = code[c] /\ Written(q, "DELETED")[c] = code[c]
    BY WrittenCodes DEF UsersInv, AccountsInv
<1>1. CASE InsertCode(q)
  <2> DEFINE kind == KindOf(Op(q))
             written == Written(q, IF kind = "link" THEN "DELETED" ELSE "SPENT")
             new == [state |-> "LIVE", kind |-> kind, user |-> u,
                     attempts |-> 0, expiresAt |-> clock + CodeTtl]
  <2>1. /\ At(q, "retired") /\ code' = [written EXCEPT ![q] = new]
        /\ code[q].state = "ABSENT"
      BY <1>0, <1>1 DEF InsertCode, Mine, Fresh, At
  <2>2. /\ written \in [Codes -> CodeRow]
        /\ CodeId(c) \notin held[q] => written[c] = code[c]
      BY <1>0
  <2>3. new.state = "LIVE" /\ new.kind = kind /\ new.user = u
      OBVIOUS
  <2> HIDE DEF written, new, kind
  <2>4. code'[q] = new /\ CodeId(c) \in held[q]
      BY <2>1, <2>2
  <2>5. Op(q) # "googleLogin"
      BY <1>0, <2>1 DEF Mine, CodeClaims, At
  <2>6. code[c].user = u /\ code[c].kind = kind
      BY <1>0, <2>4, <2>5 DEF Knows, HoldsCodes, kind
  <2> QED
      BY <2>1, <2>3, <2>4, <2>6 DEF ReplacedOrUsed
<1>2. CASE CountAttempt(q)
  <2>1. code' = code \/ code' = [code EXCEPT ![call[q].row].attempts = code[call[q].row].attempts + 1]
      BY <1>2 DEF CountAttempt
  <2>2. code[c] \in CodeRow
      BY <1>0 DEF RowTypes
  <2>3. code'[c].state = code[c].state
      BY <1>0, <2>1, <2>2 DEF RowTypes, CodeRow
  <2> QED
      BY <2>3
<1>3. ASSUME NEW n, code' = [Written(q, "SPENT") EXCEPT ![call[q].row].attempts = n]
      PROVE  CodeId(c) \in held[q]
  <2> DEFINE written == Written(q, "SPENT")
  <2> HIDE DEF written
  <2>1. written[c] \in CodeRow /\ (code'[c] = written[c] \/ code'[c] = [written[c] EXCEPT !.attempts = n])
      BY <1>0, <1>3 DEF written
  <2>2. code'[c].state = written[c].state
      BY <2>1 DEF CodeRow
  <2> QED
      BY <1>0, <2>2 DEF written
<1>4. CASE CommitVerification(q)
  <2>1. /\ At(q, "userUpdated") /\ Op(q) = "verifyEmail"
        /\ code' = [Written(q, "SPENT") EXCEPT ![call[q].row].attempts = @ + 1]
        /\ account' = [account EXCEPT ![u].verified = TRUE]
      BY <1>4 DEF CommitVerification
  <2>2. CodeId(c) \in held[q]
      BY <1>3, <2>1
  <2>3. code[c].user = u /\ code[c].kind = "verify"
      BY <1>0, <2>1, <2>2 DEF Knows, HoldsCodes, KindOf
  <2>4. u \in Users /\ account'[u].verified
      BY <1>0, <2>1 DEF Knows, Serves, At, RowTypes, AccountRow
  <2> QED
      BY <2>3, <2>4 DEF ReplacedOrUsed
<1>5. CASE CommitReset(q)
  <2>1. /\ At(q, "sessionsRevoked")
        /\ code' = [Written(q, "SPENT") EXCEPT
                       ![call[q].row].attempts = IF Op(q) = "confirmOtp" THEN @ + 1 ELSE @]
        /\ account' = [account EXCEPT ![u].password = q, ![u].verified = TRUE]
      BY <1>5 DEF CommitReset
  <2>2. CodeId(c) \in held[q]
      BY <1>3, <2>1
  <2>3. code[c].user = u /\ u \in Users
      BY <1>0, <2>1, <2>2 DEF Knows, HoldsCodes, Serves, At
  <2>4. account[u].password # q
      BY <1>0, <2>1, <2>3 DEF Knows, OwnPassword, At
  <2>5. account'[u].password = q
      BY <1>0, <2>1, <2>3 DEF RowTypes, AccountRow
  <2> QED
      BY <2>3, <2>4, <2>5 DEF ReplacedOrUsed
<1>6. CASE CommitGoogle(q)
  <2>1. At(q, "linked") /\ code' = Written(q, "DELETED") /\ identity' = [identity EXCEPT ![u] = TRUE]
      BY <1>6 DEF CommitGoogle
  <2>2. CodeId(c) \in held[q]
      BY <1>0, <2>1
  <2>3. code[c].user = u /\ u \in Users /\ ~identity[u]
      BY <1>0, <2>1, <2>2 DEF Knows, HoldsCodes, Serves, Holds, At
  <2>4. identity'[u]
      BY <1>0, <2>1, <2>3 DEF RowTypes
  <2> QED
      BY <2>3, <2>4 DEF ReplacedOrUsed
<1>7. CASE UNCHANGED code
    BY <1>7
<1>8. CASE CodeStep(q)
    BY <1>1, <1>2, <1>4, <1>5, <1>6, <1>7, <1>8
       DEF CodeStep, FindForRequest, CreateUser, RetireCodes, FindForCode, FindCode, ConsumeCodes,
           FindLink, ClaimLink, FindIdentity, FindGoogleUser, DeleteLinks, DeleteCodes, InsertGoogle,
           codeVars
<1> QED
    BY <1>7, <1>8 DEF Serve, tables, codeVars

\* However requests race, no code is lost: it stays live until one of its kind is sent in its
\* stead, or until it, or another proof, has served its purpose, in the same transaction.
THEOREM CodesAreReplacedOrUsed == Spec => CodesReplacedOrUsed
<1> DEFINE Kept == \A c \in Codes : code[c].state = "LIVE" /\ code'[c].state # "LIVE" => ReplacedOrUsed(c)
<1>1. ASSUME UsersInv, [Next]_vars PROVE [Kept]_<<sessionVars, codeVars>>
  <2>1. CASE UNCHANGED code
      BY <2>1
  <2>2. ASSUME NEW q \in Requests, Serve(q) PROVE Kept
      BY <1>1, <2>2, CodeEnds
  <2>3. ASSUME NEW q \in Requests, Call(q) PROVE UNCHANGED code
      BY <2>3 DEF Call, SessionCall, InviteCall, CodeCall, CallForEmail, CallWithCode, CallWithLink,
             CallGoogle, codeVars
  <2> QED
      BY <1>1, <2>1, <2>2, <2>3 DEF Next, Tick, tables, vars, codeVars
<1>2. [Kept]_<<sessionVars, codeVars>> =>
          [\A c \in Codes :
              code[c].state = "LIVE" /\ code'[c].state # "LIVE" =>
                  LET u == code[c].user IN
                  \/ \E d \in Codes : /\ code[d].state = "ABSENT"
                                      /\ code'[d].state = "LIVE"
                                      /\ code'[d].kind = code[c].kind
                                      /\ code'[d].user = u
                  \/ code[c].kind = "verify" /\ account'[u].verified
                  \/ account'[u].password # account[u].password
                  \/ ~identity[u] /\ identity'[u]
          ]_<<sessionVars, codeVars>>
    BY DEF ReplacedOrUsed
<1> QED
    BY <1>1, <1>2, UsersInvHolds, PTL DEF Spec, CodesReplacedOrUsed

=============================================================================
