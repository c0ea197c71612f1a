--------------------------- MODULE AccountsProofs ---------------------------
(***************************************************************************)
(* Proofs about invites, sessions and codes, for every set of users and    *)
(* of concurrent requests.                                                 *)
(***************************************************************************)
EXTENDS Accounts, TLAPS, FiniteSetTheorems

-----------------------------------------------------------------------------
(***************************************************************************)
(* The inductive invariant.                                                *)
(***************************************************************************)
Ops == {start.load[q] : start \in Starts, q \in Requests} \cup {Null}

CallRow ==
    [op : Ops, user : Users \cup {Null}, row : Tokens \cup Invites \cup Codes \cup {Null},
     given : Roles \cup Passwords \cup Codes \cup {Null}, now : Nat]

FlowTypes ==
    /\ clock \in Nat
    /\ pc = [q \in Requests |-> pc[q]]
    /\ call \in [Requests -> CallRow]
    /\ wanted = [q \in Requests |-> wanted[q]]
    /\ held = [q \in Requests |-> held[q]]

RowTypes ==
    /\ account \in [Users -> AccountRow]
    /\ session \in [Tokens -> SessionRow]
    /\ invite \in [Invites -> InviteRow]
    /\ code \in [Codes -> CodeRow]
    /\ identity \in [Users -> BOOLEAN]

InviteId(i) == <<"invite", i>>
CodeId(c) == <<"code", c>>

\* What a request has locked is as it found it: sessions live, invites open, codes sent.
HeldRows(q) ==
    /\ pc[q] \in {"idle", "done"} => held[q] = {}
    /\ \A t \in Tokens : TokenRow(t) \in held[q] => Live(t)
    /\ \A i \in Invites : InviteId(i) \in held[q] => Open(i)
    /\ \A c \in Codes : CodeId(c) \in held[q] => code[c].state # "ABSENT"

\* What bears the number of a request is there when it is done, at the earliest.
Fresh(q) ==
    pc[q] # "done" =>
        session[q].state = "ABSENT" /\ invite[q] = NoInvite /\ code[q].state = "ABSENT"

Late == {"claimed", "userUpdated", "sessionsRevoked"}

\* What a request knows at each stage of an operation on tokens or invites ...
RowClaims(q) ==
    /\ pc[q] \in {"refresh", "rotated"} => call[q].row \in Tokens
    /\ At(q, "rotated") => TokenRow(call[q].row) \in held[q]
    /\ pc[q] \in {"createInvite", "pendingDeleted"} => call[q].user \in Users /\ call[q].given \in Roles
    /\ At(q, "revokeInvite") => call[q].row \in Invites
    /\ pc[q] \in {"acceptInvite", "inviteRead"} => Op(q) = "acceptInvite"
    /\ Op(q) = "acceptInvite" /\ pc[q] \in Late \cup {"acceptInvite", "inviteRead"} =>
          call[q].row \in Invites /\ invite[call[q].row].state # "ABSENT"
    /\ Op(q) = "acceptInvite" /\ pc[q] \in Late \cup {"inviteRead"} =>
          call[q].now <= invite[call[q].row].expiresAt /\ call[q].given \in Roles
    /\ Op(q) = "acceptInvite" /\ pc[q] \in Late => InviteId(call[q].row) \in held[q]

\* ... and on codes and links.
CodeClaims(q) ==
    /\ pc[q] \in {"register", "resendVerification", "requestLink", "requestOtp",
                  "addressFree", "issue", "retired"} =>
          Op(q) \in {"register", "resendVerification", "requestLink", "requestOtp"}
    /\ pc[q] \in {"verifyEmail", "confirmOtp", "admitted", "codeFound", "counted"} =>
          Op(q) \in {"verifyEmail", "confirmOtp"}
    /\ Op(q) \in {"verifyEmail", "confirmOtp"} /\ pc[q] \in Late \cup {"codeFound", "counted"} =>
          call[q].row \in Codes /\ code[call[q].row].state # "ABSENT"
    /\ Op(q) \in {"verifyEmail", "confirmOtp"} /\ pc[q] \in Late \cup {"counted"} =>
          CodeId(call[q].row) \in held[q] /\ code[call[q].row].attempts < MaxAttempts
    /\ pc[q] \in {"confirmLink", "linkFound"} => Op(q) = "confirmLink" /\ call[q].row \in Codes
    /\ Op(q) = "confirmLink" /\ pc[q] \in Late =>
          /\ call[q].row \in Codes
          /\ CodeId(call[q].row) \in held[q]
          /\ code[call[q].row].state = "LIVE"
    /\ pc[q] \in {"googleLogin", "unlinked", "linksDeleted"} => Op(q) = "googleLogin"

Mine(q) == HeldRows(q) /\ Fresh(q) /\ RowClaims(q) /\ CodeClaims(q)

Exclusive == \A p, q \in Requests : p # q => held[p] \cap held[q] = {}

\* A token that was exchanged is revoked, and was exchanged for one other.
Successors ==
    /\ \A s \in Tokens : session[s].from # Null => session[session[s].from].state = "REVOKED"
    /\ \A s, t \in Tokens : session[s].from # Null /\ session[s].from = session[t].from => s = t

Addressed ==
    \A i \in Invites :
        invite[i].state # "ABSENT" => invite[i].email \in Users /\ invite[i].role \in Roles

RowsSound == Successors /\ SettledOneWay /\ Addressed /\ AttemptsCapped

AccountsInv ==
    /\ FlowTypes
    /\ RowTypes
    /\ Exclusive
    /\ RowsSound
    /\ \A q \in Requests : Mine(q)

-----------------------------------------------------------------------------
(***************************************************************************)
(* What a step of one request leaves to the others.                        *)
(***************************************************************************)
Others(q) ==
    \A p \in Requests \ {q} : /\ pc'[p] = pc[p]
                              /\ call'[p] = call[p]
                              /\ held'[p] = held[p]

Apart(q) == \A p \in Requests \ {q} : held'[q] \cap held[p] = {}

\* Rows that others have locked or will insert stay as they are, and the rest keeps
\* what others have read of it.
TokensGuarded(q) ==
    \A t \in Tokens :
        (t # q /\ session[t].state = "ABSENT")
        \/ (\E p \in Requests \ {q} : TokenRow(t) \in held[p]) => session'[t] = session[t]

InvitesGuarded(q) ==
    \A i \in Invites :
        /\ (i # q /\ invite[i].state = "ABSENT")
           \/ (\E p \in Requests \ {q} : InviteId(i) \in held[p]) => invite'[i] = invite[i]
        /\ invite[i].state # "ABSENT" =>
              /\ invite'[i].state # "ABSENT"
              /\ invite'[i].expiresAt = invite[i].expiresAt

CodesGuarded(q) ==
    \A c \in Codes :
        /\ (c # q /\ code[c].state = "ABSENT")
           \/ (\E p \in Requests \ {q} : CodeId(c) \in held[p]) => code'[c] = code[c]
        /\ code[c].state # "ABSENT" => code'[c].state # "ABSENT"

Guarded(q) == TokensGuarded(q) /\ InvitesGuarded(q) /\ CodesGuarded(q)

\* If it does, what they hold and know stays true.
LEMMA OthersKeep ==
    ASSUME AccountsInv, NEW q \in Requests, Others(q), Guarded(q), NEW p \in Requests \ {q}
    PROVE  Mine(p)'
<1> p \in Requests /\ p # q /\ p \in Tokens /\ p \in Invites /\ p \in Codes
    BY DEF Tokens, Invites, Codes
<1>1. pc'[p] = pc[p] /\ call'[p] = call[p] /\ held'[p] = held[p] /\ Mine(p)
    BY DEF Others, AccountsInv
<1>2. HeldRows(p)'
    BY <1>1 DEF Mine, HeldRows, Guarded, TokensGuarded, InvitesGuarded, CodesGuarded, Live, Open
<1>3. Fresh(p)'
  <2> SUFFICES ASSUME pc[p] # "done"
               PROVE  session'[p].state = "ABSENT" /\ invite'[p] = NoInvite /\ code'[p].state = "ABSENT"
      BY <1>1 DEF Fresh
  <2>1. session[p].state = "ABSENT" /\ invite[p] = NoInvite /\ code[p].state = "ABSENT"
      BY <1>1 DEF Mine, Fresh
  <2>2. invite[p].state = "ABSENT"
      BY <2>1 DEF NoInvite
  <2> QED
      BY <2>1, <2>2 DEF Guarded, TokensGuarded, InvitesGuarded, CodesGuarded
<1>4. RowClaims(p)'
  <2> DEFINE i == call[p].row
  <2>1. i \in Invites /\ invite[i].state # "ABSENT" =>
            invite'[i].state # "ABSENT" /\ invite'[i].expiresAt = invite[i].expiresAt
      BY DEF Guarded, TokensGuarded, InvitesGuarded, CodesGuarded
  <2> QED
      BY <1>1, <2>1 DEF Mine, RowClaims, At, Op
<1>5. CodeClaims(p)'
  <2> DEFINE c == call[p].row
  <2>1. c \in Codes => /\ code[c].state # "ABSENT" => code'[c].state # "ABSENT"
                       /\ CodeId(c) \in held[p] => code'[c] = code[c]
      BY DEF Guarded, TokensGuarded, InvitesGuarded, CodesGuarded
  <2> QED
      BY <1>1, <2>1 DEF Mine, CodeClaims, At, Op
<1> QED
    BY <1>2, <1>3, <1>4, <1>5 DEF Mine

\* So a step of q has to be looked at where q stands only.
LEMMA StepOfOne ==
    ASSUME AccountsInv, NEW q \in Requests, FlowTypes', RowTypes', Others(q), Apart(q),
           Guarded(q), Mine(q)', RowsSound'
    PROVE  AccountsInv'
<1>1. Exclusive'
  <2> SUFFICES ASSUME NEW p \in Requests, NEW r \in Requests, p # r PROVE held'[p] \cap held'[r] = {}
      BY DEF Exclusive
  <2>1. CASE p = q
      BY <2>1 DEF Apart, Others
  <2>2. CASE r = q
      BY <2>2 DEF Apart, Others
  <2>3. CASE p # q /\ r # q
      BY <2>3 DEF Others, AccountsInv, Exclusive
  <2> QED
      BY <2>1, <2>2, <2>3
<1>2. \A p \in Requests : Mine(p)'
    BY OthersKeep
<1> QED
    BY <1>1, <1>2 DEF AccountsInv

-----------------------------------------------------------------------------
(***************************************************************************)
(* The ways a request goes on.                                             *)
(***************************************************************************)
\* Steps that write no table and hand q's own facts on.
LEMMA QuietStep ==
    ASSUME AccountsInv, NEW q \in Requests, UNCHANGED tables,
           FlowTypes', Others(q), Apart(q), Mine(q)'
    PROVE  AccountsInv'
<1>1. RowTypes' /\ RowsSound'
    BY DEF AccountsInv, RowTypes, RowsSound, Successors, SettledOneWay, Addressed, AttemptsCapped, tables, codeVars
<1>2. Guarded(q)
    BY DEF Guarded, TokensGuarded, InvitesGuarded, CodesGuarded, tables, codeVars
<1> QED
    BY <1>1, <1>2, StepOfOne

\* A request that ends holds nothing and needs to know nothing.
LEMMA Finished ==
    ASSUME FlowTypes, NEW q \in Requests, Finish(q)
    PROVE  FlowTypes' /\ Others(q) /\ Apart(q) /\ Mine(q)'
<1>1. /\ pc'[q] = "done" /\ held'[q] = {}
      /\ Others(q)
    BY DEF FlowTypes, Finish, Goto, Others
<1>2. NoCall \in CallRow
    BY DEF NoCall, CallRow, Ops
<1>3. FlowTypes'
  <2>1. clock' \in Nat /\ call' \in [Requests -> CallRow]
      BY <1>2 DEF FlowTypes, Finish
  <2>2. /\ pc' = [p \in Requests |-> pc'[p]]
        /\ wanted' = [p \in Requests |-> wanted'[p]]
        /\ held' = [p \in Requests |-> held'[p]]
      BY DEF FlowTypes, Finish, Goto
  <2> QED
      BY <2>1, <2>2 DEF FlowTypes
<1>4. Mine(q)'
    BY <1>1 DEF Mine, HeldRows, Fresh, RowClaims, CodeClaims, At, Late
<1> QED
    BY <1>1, <1>3, <1>4 DEF Apart

\* It leaves behind what it wrote in its last statement.
LEMMA FinishStep ==
    ASSUME AccountsInv, NEW q \in Requests, Finish(q), RowTypes', Guarded(q), RowsSound'
    PROVE  AccountsInv'
BY Finished, StepOfOne DEF AccountsInv

\* A request that ends without a write.
LEMMA QuietFinish ==
    ASSUME AccountsInv, NEW q \in Requests, Finish(q), UNCHANGED tables
    PROVE  AccountsInv'
BY Finished, QuietStep DEF AccountsInv

\* A request that goes on without a lock.
LEMMA QuietContinue ==
    ASSUME AccountsInv, NEW q \in Requests, NEW stage, UNCHANGED tables,
           Continue(q, stage), pc[q] # "done", stage \notin {"idle", "done"},
           RowClaims(q)', CodeClaims(q)'
    PROVE  AccountsInv'
<1>1. /\ pc'[q] = stage /\ held' = held /\ call' = call
      /\ Others(q) /\ FlowTypes'
    BY DEF AccountsInv, FlowTypes, Continue, Goto, Others
<1>2. Apart(q)
    BY <1>1 DEF Apart, AccountsInv, Exclusive
<1>3. Mine(q)'
    BY <1>1 DEF AccountsInv, Mine, HeldRows, Fresh, Live, Open, tables, codeVars
<1> QED
    BY <1>1, <1>2, <1>3, QuietStep

\* A request that arrives: what the caller gives is all there is to know.
LEMMA QuietArrival ==
    ASSUME AccountsInv, NEW q \in Requests, NEW op, NEW user, NEW row, NEW given,
           user \in Users \cup {Null},
           row \in Tokens \cup Invites \cup Codes \cup {Null},
           given \in Roles \cup Passwords \cup Codes \cup {Null},
           Arrive(q, op, user, row, given), UNCHANGED tables,
           op \notin {"idle", "done", "rotated", "pendingDeleted", "inviteRead", "addressFree",
                      "issue", "retired", "admitted", "codeFound", "counted", "linkFound",
                      "unlinked", "linksDeleted"} \cup Late,
           op = "refresh" => row \in Tokens,
           op = "createInvite" => user \in Users /\ given \in Roles,
           op = "revokeInvite" => row \in Invites,
           op = "acceptInvite" => row \in Invites /\ invite[row].state # "ABSENT",
           op = "confirmLink" => row \in Codes
    PROVE  AccountsInv'
<1>1. /\ pc[q] = "idle" /\ pc'[q] = op /\ Op(q) = op
      /\ call'[q] = [op |-> op, user |-> user, row |-> row, given |-> given, now |-> clock]
      /\ held' = held /\ Others(q)
    BY DEF AccountsInv, FlowTypes, Arrive, At, Goto, Others
<1>2. FlowTypes'
  <2>1. call'[q] \in CallRow
      BY <1>1 DEF AccountsInv, FlowTypes, CallRow, Op
  <2> QED
      BY <2>1 DEF AccountsInv, FlowTypes, Arrive, Goto
<1>3. Apart(q)
    BY <1>1 DEF Apart, AccountsInv, Exclusive
<1>4. HeldRows(q)' /\ Fresh(q)'
    BY <1>1 DEF AccountsInv, Mine, HeldRows, Fresh, Live, Open, tables, codeVars
<1>5. RowClaims(q)'
    BY <1>1 DEF RowClaims, At, Op, Late, tables
<1>6. CodeClaims(q)'
    BY <1>1 DEF CodeClaims, At, Op, Late
<1> QED
    BY <1>1, <1>2, <1>3, <1>4, <1>5, <1>6, QuietStep DEF Mine

-----------------------------------------------------------------------------
(***************************************************************************)
(* Statements that lock rows.                                              *)
(***************************************************************************)
\* Rows that are worth locking.
Sound(rows) ==
    /\ \A t \in Tokens : TokenRow(t) \in rows => Live(t)
    /\ \A i \in Invites : InviteId(i) \in rows => Open(i)
    /\ \A c \in Codes : CodeId(c) \in rows => code[c].state # "ABSENT"

Locked(q, hit, stage) ==
    pc'[q] = stage /\ call'[q] = call[q] /\ held'[q] = held[q] \cup hit

\* A request that locks the rows it has found, and does not find them changed.
LEMMA QuietLock ==
    ASSUME AccountsInv, NEW q \in Requests, NEW STATE rows, NEW stage,
           UNCHANGED tables, Sound(rows), pc[q] # "done", stage \notin {"idle", "done"},
           Ready(q, rows), Lock(q, Hit(q, rows), stage),
           Locked(q, Hit(q, rows), stage) => RowClaims(q)' /\ CodeClaims(q)'
    PROVE  AccountsInv'
<1> DEFINE hit == Hit(q, rows)
<1>1. /\ hit \subseteq rows
      /\ \A p \in Requests \ {q} : held[p] \cap hit = {}
    BY DEF Hit, Ready, Blocked
<1>2. Locked(q, hit, stage) /\ Others(q) /\ FlowTypes'
    BY DEF AccountsInv, FlowTypes, Lock, Goto, Locked, Others
<1>3. Apart(q)
    BY <1>1, <1>2 DEF Apart, AccountsInv, Exclusive, Locked
<1>4. HeldRows(q)' /\ Fresh(q)'
    BY <1>1, <1>2 DEF AccountsInv, Mine, HeldRows, Fresh, Live, Open, Sound, Locked, tables, codeVars
<1>5. RowClaims(q)' /\ CodeClaims(q)'
    BY <1>2
<1> QED
    BY <1>2, <1>3, <1>4, <1>5, QuietStep DEF Mine

\* A request that waits for a lock knows and holds what it did.
LEMMA QuietWait ==
    ASSUME AccountsInv, NEW q \in Requests, NEW STATE rows, UNCHANGED tables, Wait(q, rows)
    PROVE  AccountsInv'
<1>1. pc' = pc /\ call' = call /\ held' = held /\ FlowTypes'
    BY DEF AccountsInv, FlowTypes, Wait
<1>2. Others(q) /\ Apart(q)
    BY <1>1 DEF Others, Apart, AccountsInv, Exclusive
<1>3. Mine(q)'
    BY <1>1 DEF AccountsInv, Mine, HeldRows, Fresh, RowClaims, CodeClaims, At, Op, Live, Open, tables, codeVars
<1> QED
    BY <1>1, <1>2, <1>3, QuietStep

\* An UPDATE or a DELETE of any number of rows ...
LEMMA QuietWrite ==
    ASSUME AccountsInv, NEW q \in Requests, NEW STATE rows, NEW stage,
           UNCHANGED tables, Sound(rows), pc[q] # "done", stage \notin {"idle", "done"},
           Write(q, rows, stage),
           \A hit \in SUBSET rows : Locked(q, hit, stage) => RowClaims(q)' /\ CodeClaims(q)'
    PROVE  AccountsInv'
<1>1. Hit(q, rows) \in SUBSET rows
    BY DEF Hit
<1>2. CASE Wait(q, rows)
    BY <1>2, QuietWait
<1>3. CASE Ready(q, rows) /\ Lock(q, Hit(q, rows), stage)
    BY <1>1, <1>3, QuietLock
<1> QED
    BY <1>2, <1>3 DEF Write

\* ... and one of the only row that may qualify.
LEMMA QuietClaim ==
    ASSUME AccountsInv, NEW q \in Requests, NEW STATE rows, NEW stage,
           UNCHANGED tables, Sound(rows), pc[q] # "done", stage \notin {"idle", "done"},
           Claim(q, rows, stage),
           \A hit \in (SUBSET rows) \ {{}} : Locked(q, hit, stage) => RowClaims(q)' /\ CodeClaims(q)'
    PROVE  AccountsInv'
<1>1. Hit(q, rows) \in SUBSET rows
    BY DEF Hit
<1>2. CASE Wait(q, rows)
    BY <1>2, QuietWait
<1>3. CASE Hit(q, rows) = {} /\ Finish(q)
    BY <1>3, QuietFinish
<1>4. CASE Ready(q, rows) /\ Hit(q, rows) # {} /\ Lock(q, Hit(q, rows), stage)
    BY <1>1, <1>4, QuietLock
<1> QED
    BY <1>2, <1>3, <1>4 DEF Claim

-----------------------------------------------------------------------------
(***************************************************************************)
(* Sessions.                                                               *)
(***************************************************************************)
\* The live tokens of a user are worth locking.
LEMMA LiveTokensSound == \A u : Sound(LiveTokens(u))
BY DEF Sound, LiveTokens, TokenRow, InviteId, CodeId

\* When q commits, tokens change that it has locked, and the one it inserts.
LEMMA SessionsCommit ==
    ASSUME AccountsInv, NEW q \in Requests, pc[q] # "done", NEW STATE from,
           session' = Issued(q, from) \/ session' = Revoked(q),
           from \in Tokens \cup {Null},
           from # Null => TokenRow(from) \in held[q]
    PROVE  /\ session' \in [Tokens -> SessionRow]
           /\ Successors'
           /\ TokensGuarded(q)
<1> q \in Tokens
    BY DEF Tokens
<1>1. /\ session \in [Tokens -> SessionRow] /\ call[q] \in CallRow /\ Successors
      /\ session[q].state = "ABSENT"
      /\ \A p \in Requests, t \in Tokens : TokenRow(t) \in held[p] => Live(t)
      /\ \A p \in Requests \ {q} : held[p] \cap held[q] = {}
    BY DEF AccountsInv, RowTypes, FlowTypes, RowsSound, Exclusive, Mine, HeldRows, Fresh
<1>2. \A t \in Tokens : /\ TokenRow(t) \in held[q] => t # q
                        /\ Revoked(q)[t] \in SessionRow
                        /\ Revoked(q)[t].from = session[t].from
                        /\ Revoked(q)[t].state = IF TokenRow(t) \in held[q] THEN "REVOKED"
                                                 ELSE session[t].state
    BY <1>1 DEF Revoked, SessionRow, Live
<1>3. \A t \in Tokens \ {q} : session'[t] = Revoked(q)[t]
    BY DEF Issued, Revoked
<1>4. session'[q] = Revoked(q)[q] \/ session'[q] = [state |-> "LIVE", user |-> call[q].user, from |-> from]
    BY DEF Issued, Revoked
<1>5. session' \in [Tokens -> SessionRow]
  <2>1. Revoked(q) \in [Tokens -> SessionRow]
      BY <1>2 DEF Revoked
  <2>2. [state |-> "LIVE", user |-> call[q].user, from |-> from] \in SessionRow
      BY <1>1 DEF SessionRow, CallRow
  <2> QED
      BY <2>1, <2>2 DEF Issued
<1>6. TokensGuarded(q)
    BY <1>1, <1>2, <1>3 DEF TokensGuarded, Revoked, Live
<1>7. \A t \in Tokens : session[t].state = "REVOKED" => session'[t].state = "REVOKED"
    BY <1>1, <1>2, <1>3
<1>8. \A s \in Tokens : session'[s].from # Null =>
         \/ session'[s].from = session[s].from /\ session[s].from \in Tokens
         \/ s = q /\ session'[s].from = from /\ from \in Tokens
    BY <1>1, <1>2, <1>3, <1>4 DEF SessionRow
<1>9. from # Null => /\ session[from].state = "LIVE"
                     /\ session'[from].state = "REVOKED"
    BY <1>1, <1>2, <1>3 DEF Live
<1>10. \A s \in Tokens : session'[s].from # Null => session'[session'[s].from].state = "REVOKED"
    BY <1>1, <1>7, <1>8, <1>9 DEF Successors
<1>11. \A s, t \in Tokens : session'[s].from # Null /\ session'[s].from = session'[t].from => s = t
    BY <1>1, <1>8, <1>9 DEF Successors
<1> QED
    BY <1>5, <1>6, <1>10, <1>11 DEF Successors

\* A request that ends with a change of the tokens only.
LEMMA SessionsFinish ==
    ASSUME AccountsInv, NEW q \in Requests, Finish(q), UNCHANGED <<account, invite, codeVars>>,
           session' \in [Tokens -> SessionRow], Successors', TokensGuarded(q)
    PROVE  AccountsInv'
<1>1. RowTypes'
    BY DEF AccountsInv, RowTypes, codeVars
<1>2. Guarded(q)
    BY DEF Guarded, TokensGuarded, InvitesGuarded, CodesGuarded, codeVars
<1>3. RowsSound'
    BY DEF AccountsInv, RowsSound, SettledOneWay, Addressed, AttemptsCapped, codeVars
<1> QED
    BY <1>1, <1>2, <1>3, FinishStep

\* login, refresh, logout, and what all transactions on a user do, preserve the invariant.
LEMMA SessionSteps ==
    ASSUME AccountsInv, NEW q \in Requests, SessionStep(q), UNCHANGED <<invite, codeVars>>
    PROVE  AccountsInv'
<1> q \in Tokens
    BY DEF Tokens
<1> Mine(q) /\ call[q] \in CallRow
    BY DEF AccountsInv, FlowTypes
<1>1. CASE UpdateUser(q)
  <2> DEFINE rows == {UserRow(call[q].user)}
  <2>1. At(q, "claimed") /\ UNCHANGED tables /\ Write(q, rows, "userUpdated")
      BY <1>1 DEF UpdateUser, tables
  <2>2. Sound(rows)
      BY DEF Sound, UserRow, TokenRow, InviteId, CodeId
  <2>3. \A hit \in SUBSET rows : Locked(q, hit, "userUpdated") => RowClaims(q)' /\ CodeClaims(q)'
      BY <2>1 DEF Locked, Mine, RowClaims, CodeClaims, At, Op, Late, tables, codeVars
  <2> QED
      BY <2>1, <2>2, <2>3, QuietWrite DEF At
<1>2. CASE RevokeSessions(q)
  <2> DEFINE rows == LiveTokens(call[q].user)
  <2>1. At(q, "userUpdated") /\ UNCHANGED tables /\ Write(q, rows, "sessionsRevoked")
      BY <1>2 DEF RevokeSessions, tables
  <2>2. \A hit \in SUBSET rows : Locked(q, hit, "sessionsRevoked") => RowClaims(q)' /\ CodeClaims(q)'
      BY <2>1 DEF Locked, Mine, RowClaims, CodeClaims, At, Op, Late, tables, codeVars
  <2> QED
      BY <2>1, <2>2, LiveTokensSound, QuietWrite DEF At
<1>3. CASE Authenticate(q)
  <2>1. UNCHANGED tables /\ pc[q] # "done"
      BY <1>3 DEF Authenticate, tables
  <2>2. CASE Continue(q, "authenticated")
    <3>1. pc'[q] = "authenticated"
        BY <2>2 DEF AccountsInv, FlowTypes, Continue, Goto
    <3>2. RowClaims(q)' /\ CodeClaims(q)'
        BY <3>1 DEF RowClaims, CodeClaims, At, Late
    <3> QED
        BY <2>1, <2>2, <3>2, QuietContinue
  <2>3. CASE Finish(q)
      BY <2>1, <2>3, QuietFinish
  <2> QED
      BY <1>3, <2>2, <2>3 DEF Authenticate
<1>4. CASE IssueLogin(q)
  <2>1. pc[q] # "done" /\ session' = Issued(q, Null) /\ Finish(q) /\ UNCHANGED <<account, invite, codeVars>>
      BY <1>4 DEF IssueLogin, At
  <2> QED
      BY <2>1, SessionsCommit, SessionsFinish
<1>5. CASE Logout(q)
  <2> DEFINE t == call[q].row
  <2>1. /\ Finish(q) /\ UNCHANGED <<account, invite, codeVars>>
        /\ \A p \in Requests \ {q} : TokenRow(t) \notin held[p]
        /\ session' = IF Live(t) THEN [session EXCEPT ![t].state = "REVOKED"] ELSE session
      BY <1>5 DEF Logout, Blocked
  <2>2. /\ session \in [Tokens -> SessionRow] /\ Successors
      BY DEF AccountsInv, RowTypes, RowsSound
  <2>3. session' \in [Tokens -> SessionRow]
      BY <2>1, <2>2 DEF SessionRow
  <2>4. \A s \in Tokens : /\ s # t \/ ~Live(t) => session'[s] = session[s]
                          /\ session'[s].from = session[s].from
                          /\ session[s].state = "REVOKED" => session'[s].state = "REVOKED"
      BY <2>1, <2>2 DEF SessionRow, Live
  <2>5. Successors'
      BY <2>2, <2>4 DEF Successors, SessionRow
  <2>6. TokensGuarded(q)
      BY <2>1, <2>4 DEF TokensGuarded, Live
  <2> QED
      BY <2>1, <2>3, <2>5, <2>6, SessionsFinish
<1>6. CASE RotateToken(q)
  <2> DEFINE rows == Rotatable(call[q].row)
  <2>1. At(q, "refresh") /\ UNCHANGED tables /\ Claim(q, rows, "rotated")
      BY <1>6 DEF RotateToken, tables
  <2>2. Sound(rows)
      BY DEF Sound, Rotatable, TokenRow, InviteId, CodeId
  <2>3. \A hit \in (SUBSET rows) \ {{}} : Locked(q, hit, "rotated") => RowClaims(q)' /\ CodeClaims(q)'
    <3> SUFFICES ASSUME NEW hit \in (SUBSET rows) \ {{}}, Locked(q, hit, "rotated")
                 PROVE  RowClaims(q)' /\ CodeClaims(q)'
        OBVIOUS
    <3>1. TokenRow(call[q].row) \in hit
        BY DEF Rotatable
    <3> QED
        BY <2>1, <3>1 DEF Locked, Mine, RowClaims, CodeClaims, At, Op, Late
  <2> QED
      BY <2>1, <2>2, <2>3, QuietClaim DEF At
<1>7. CASE CommitRefresh(q)
  <2>1. /\ pc[q] # "done" /\ session' = Issued(q, call[q].row) /\ Finish(q)
        /\ UNCHANGED <<account, invite, codeVars>>
      BY <1>7 DEF CommitRefresh, At
  <2>2. call[q].row \in Tokens /\ TokenRow(call[q].row) \in held[q]
      BY <1>7 DEF CommitRefresh, Mine, RowClaims, At
  <2> QED
      BY <2>1, <2>2, SessionsCommit, SessionsFinish
<1> QED
    BY <1>1, <1>2, <1>3, <1>4, <1>5, <1>6, <1>7 DEF SessionStep

\* Calls of login, refresh and logout preserve the invariant.
LEMMA SessionCalls ==
    ASSUME AccountsInv, NEW q \in Requests, SessionCall(q), UNCHANGED <<invite, codeVars>>
    PROVE  AccountsInv'
<1>1. CASE CallLogin(q)
  <2>1. PICK u \in Users, op \in {"login", "adminLogin"} : Arrive(q, op, u, Null, account[u].password)
      BY <1>1 DEF CallLogin
  <2>2. account[u].password \in Passwords \cup {Null}
      BY DEF AccountsInv, RowTypes, AccountRow
  <2>3. UNCHANGED tables
      BY <2>1 DEF Arrive, tables
  <2> QED
      BY <2>1, <2>2, <2>3, QuietArrival DEF Late
<1>2. CASE CallWithToken(q)
  <2>1. PICK t \in Tokens, op \in {"logout", "refresh"} : Arrive(q, op, session[t].user, t, Null)
      BY <1>2 DEF CallWithToken
  <2>2. session[t].user \in Users \cup {Null}
      BY DEF AccountsInv, RowTypes, SessionRow
  <2>3. UNCHANGED tables
      BY <2>1 DEF Arrive, tables
  <2> QED
      BY <2>1, <2>2, <2>3, QuietArrival DEF Late
<1> QED
    BY <1>1, <1>2 DEF SessionCall

-----------------------------------------------------------------------------
(***************************************************************************)
(* Invites.                                                                *)
(***************************************************************************)
\* A request that ends with a change of the invites only.
LEMMA InvitesFinish ==
    ASSUME AccountsInv, NEW q \in Requests, Finish(q), UNCHANGED <<account, session, codeVars>>,
           invite' \in [Invites -> InviteRow], InvitesGuarded(q), SettledOneWay', Addressed'
    PROVE  AccountsInv'
<1>1. RowTypes'
    BY DEF AccountsInv, RowTypes, codeVars
<1>2. Guarded(q)
    BY DEF Guarded, TokensGuarded, CodesGuarded, codeVars
<1>3. RowsSound'
    BY DEF AccountsInv, RowsSound, Successors, AttemptsCapped, codeVars
<1> QED
    BY <1>1, <1>2, <1>3, FinishStep

\* createInvite, revokeInvite and acceptStaffInvite preserve the invariant.
LEMMA InviteSteps ==
    ASSUME AccountsInv, NEW q \in Requests, InviteStep(q), UNCHANGED codeVars
    PROVE  AccountsInv'
<1> q \in Invites
    BY DEF Invites
<1> Mine(q) /\ call[q] \in CallRow
    BY DEF AccountsInv, FlowTypes
<1>0. /\ invite \in [Invites -> InviteRow] /\ SettledOneWay /\ Addressed
      /\ \A p \in Requests \ {q}, i \in Invites : InviteId(i) \in held[q] => InviteId(i) \notin held[p]
      /\ \A p \in Requests, i \in Invites : InviteId(i) \in held[p] => Open(i)
    BY DEF AccountsInv, RowTypes, RowsSound, Exclusive, Mine, HeldRows
<1>1. CASE DeletePending(q)
  <2> DEFINE rows == Rows(Replaced(call[q].user, call[q].now))
  <2>1. At(q, "createInvite") /\ UNCHANGED tables /\ Write(q, rows, "pendingDeleted")
      BY <1>1 DEF DeletePending, tables
  <2>2. Sound(rows)
      BY DEF Sound, Rows, Replaced, Pending, TokenRow, InviteId, CodeId
  <2>3. \A hit \in SUBSET rows : Locked(q, hit, "pendingDeleted") => RowClaims(q)' /\ CodeClaims(q)'
      BY <2>1 DEF Locked, Mine, RowClaims, CodeClaims, At, Op, Late
  <2> QED
      BY <2>1, <2>2, <2>3, QuietWrite DEF At
<1>2. CASE InsertInvite(q)
  <2> DEFINE new == [NoInvite EXCEPT !.state = "ROW", !.email = call[q].user, !.role = call[q].given,
                                     !.expiresAt = call[q].now + InviteTtl]
  <2>1. /\ At(q, "pendingDeleted") /\ Finish(q) /\ UNCHANGED <<account, session, codeVars>>
        /\ invite' = [i \in Invites |->
                        IF i = q THEN new
                        ELSE IF InviteId(i) \in held[q] THEN [invite[i] EXCEPT !.state = "DELETED"]
                        ELSE invite[i]]
      BY <1>2 DEF InsertInvite, InviteId
  <2>2. /\ invite[q].state = "ABSENT" /\ ~Open(q)
        /\ call[q].user \in Users /\ call[q].given \in Roles /\ call[q].now \in Nat
      BY <2>1 DEF Mine, Fresh, RowClaims, At, Open, NoInvite, CallRow
  <2>3. /\ new.state = "ROW" /\ new.email = call[q].user /\ new.role = call[q].given
        /\ new.acceptedAt = 0 /\ new.revokedAt = 0 /\ new \in InviteRow
    <3>1. call[q].now + InviteTtl \in Nat
        BY <2>2, InvitesAssumption
    <3>2. NoInvite \in InviteRow
        BY DEF NoInvite, InviteRow
    <3>3. new \in InviteRow
        BY <2>2, <3>1, <3>2 DEF InviteRow
    <3> QED
        BY <3>3 DEF NoInvite
  <2>4. \A i \in Invites \ {q} :
           /\ invite'[i] \in InviteRow
           /\ invite'[i].email = invite[i].email /\ invite'[i].role = invite[i].role
           /\ invite'[i].acceptedAt = invite[i].acceptedAt /\ invite'[i].revokedAt = invite[i].revokedAt
           /\ invite'[i].expiresAt = invite[i].expiresAt
           /\ invite[i].state # "ABSENT" <=> invite'[i].state # "ABSENT"
           /\ InviteId(i) \notin held[q] => invite'[i] = invite[i]
      BY <1>0, <2>1 DEF InviteRow, Open
  <2> HIDE DEF new
  <2>5. invite' \in [Invites -> InviteRow]
    <3>1. \A i \in Invites : invite'[i] \in InviteRow
        BY <2>1, <2>3, <2>4
    <3> QED
        BY <2>1, <3>1
  <2>6. InvitesGuarded(q)
      BY <1>0, <2>2, <2>4 DEF InvitesGuarded, Open
  <2>7. SettledOneWay' /\ Addressed'
      BY <1>0, <2>1, <2>2, <2>3, <2>4 DEF SettledOneWay, Addressed
  <2> QED
      BY <2>1, <2>5, <2>6, <2>7, InvitesFinish
<1>3. CASE RevokeInvite(q)
  <2> DEFINE i == call[q].row
  <2>1. /\ At(q, "revokeInvite") /\ Finish(q) /\ UNCHANGED <<account, session, codeVars>>
        /\ \A p \in Requests \ {q} : InviteId(i) \notin held[p]
        /\ invite' = IF Pending(i, call[q].now) THEN [invite EXCEPT ![i].revokedAt = call[q].now] ELSE invite
      BY <1>3 DEF RevokeInvite, Blocked, Rows, InviteId
  <2>2. i \in Invites /\ call[q].now \in Nat
      BY <2>1 DEF Mine, RowClaims, At, CallRow
  <2>3. \A j \in Invites :
           /\ invite'[j] \in InviteRow
           /\ invite'[j].email = invite[j].email /\ invite'[j].role = invite[j].role
           /\ invite'[j].acceptedAt = invite[j].acceptedAt
           /\ invite'[j].expiresAt = invite[j].expiresAt /\ invite'[j].state = invite[j].state
           /\ j # i \/ ~Open(j) => invite'[j] = invite[j]
      BY <1>0, <2>1, <2>2 DEF InviteRow, Pending
  <2>4. invite' \in [Invites -> InviteRow]
      BY <1>0, <2>1, <2>2, <2>3
  <2>5. InvitesGuarded(q)
      BY <2>1, <2>3 DEF InvitesGuarded, Open
  <2>6. SettledOneWay' /\ Addressed'
      BY <1>0, <2>3 DEF SettledOneWay, Addressed, Open
  <2> QED
      BY <2>1, <2>4, <2>5, <2>6, InvitesFinish
<1>4. CASE ReadInvite(q)
  <2> DEFINE i == call[q].row
  <2>1. At(q, "acceptInvite") /\ UNCHANGED tables
      BY <1>4 DEF ReadInvite, tables
  <2>2. CASE Finish(q)
      BY <2>1, <2>2, QuietFinish
  <2>3. CASE ~Finish(q)
    <3>1. /\ call' = [call EXCEPT ![q].now = clock, ![q].given = invite[i].role]
          /\ Goto(q, "inviteRead") /\ UNCHANGED <<clock, wanted, held>>
          /\ Pending(i, clock)
        BY <1>4, <2>3 DEF ReadInvite
    <3>2. Op(q) = "acceptInvite" /\ i \in Invites
        BY <2>1 DEF Mine, RowClaims, At, Late
    <3>3. invite[i].role \in Roles /\ clock <= invite[i].expiresAt /\ clock \in Nat
        BY <1>0, <3>1, <3>2 DEF Pending, Open, Addressed, AccountsInv, FlowTypes, InviteRow
    <3>4. /\ pc'[q] = "inviteRead" /\ held' = held /\ Others(q)
          /\ call'[q] = [call[q] EXCEPT !.now = clock, !.given = invite[i].role]
        BY <3>1 DEF AccountsInv, FlowTypes, Goto, Others
    <3>5. /\ call'[q] \in CallRow /\ call'[q].op = call[q].op /\ call'[q].row = i
          /\ call'[q].now = clock /\ call'[q].given = invite[i].role
        BY <3>3, <3>4 DEF CallRow
    <3>6. FlowTypes'
        BY <3>1, <3>4, <3>5 DEF AccountsInv, FlowTypes, Goto
    <3>7. Apart(q)
        BY <3>4 DEF Apart, AccountsInv, Exclusive
    <3>8. HeldRows(q)' /\ Fresh(q)'
        BY <2>1, <3>4 DEF Mine, HeldRows, Fresh, At, Live, Open, tables, codeVars
    <3>9. RowClaims(q)' /\ CodeClaims(q)'
        BY <2>1, <3>1, <3>2, <3>3, <3>4, <3>5 DEF RowClaims, CodeClaims, At, Op, Late, Pending, Open, tables
    <3> QED
        BY <2>1, <3>4, <3>6, <3>7, <3>8, <3>9, QuietStep DEF Mine
  <2> QED
      BY <2>2, <2>3
<1>5. CASE ClaimInvite(q)
  <2> DEFINE rows == Rows({i \in {call[q].row} : Claimable(i)})
  <2>1. At(q, "inviteRead") /\ UNCHANGED tables /\ Claim(q, rows, "claimed")
      BY <1>5 DEF ClaimInvite, tables
  <2>2. Sound(rows)
      BY DEF Sound, Rows, Claimable, TokenRow, InviteId, CodeId
  <2>3. \A hit \in (SUBSET rows) \ {{}} : Locked(q, hit, "claimed") => RowClaims(q)' /\ CodeClaims(q)'
    <3> SUFFICES ASSUME NEW hit \in (SUBSET rows) \ {{}}, Locked(q, hit, "claimed")
                 PROVE  RowClaims(q)' /\ CodeClaims(q)'
        OBVIOUS
    <3>1. InviteId(call[q].row) \in hit
        BY DEF Rows, InviteId
    <3> QED
        BY <2>1, <3>1 DEF Locked, Mine, RowClaims, CodeClaims, At, Op, Late, tables
  <2> HIDE DEF rows
  <2> QED
      BY <2>1, <2>2, <2>3, QuietClaim DEF At
<1>6. CASE CommitAccept(q)
  <2> DEFINE i == call[q].row
             u == call[q].user
  <2>1. /\ At(q, "sessionsRevoked") /\ Op(q) = "acceptInvite" /\ Finish(q) /\ UNCHANGED codeVars
        /\ invite' = [invite EXCEPT ![i].acceptedAt = call[q].now]
        /\ account' = [account EXCEPT ![u].role = call[q].given]
        /\ session' = Issued(q, Null)
      BY <1>6 DEF CommitAccept
  <2>2. /\ i \in Invites /\ InviteId(i) \in held[q] /\ Open(i)
        /\ call[q].now \in Nat /\ call[q].now <= invite[i].expiresAt /\ call[q].given \in Roles
      BY <1>0, <2>1 DEF Mine, RowClaims, At, Late, CallRow
  <2>3. \A j \in Invites :
           /\ invite'[j] \in InviteRow
           /\ invite'[j].email = invite[j].email /\ invite'[j].role = invite[j].role
           /\ invite'[j].expiresAt = invite[j].expiresAt /\ invite'[j].state = invite[j].state
           /\ invite'[j].revokedAt = invite[j].revokedAt
           /\ j # i => invite'[j] = invite[j]
      BY <1>0, <2>1, <2>2 DEF InviteRow
  <2>4. invite'[i].acceptedAt = call[q].now
      BY <1>0, <2>1, <2>2 DEF InviteRow
  <2>5. SettledOneWay' /\ Addressed'
      BY <1>0, <2>2, <2>3, <2>4 DEF SettledOneWay, Addressed, Open
  <2>6. InvitesGuarded(q)
      BY <1>0, <2>2, <2>3 DEF InvitesGuarded, Open
  <2>7. account' \in [Users -> AccountRow]
    <3>1. account \in [Users -> AccountRow]
        BY DEF AccountsInv, RowTypes
    <3> QED
        BY <2>1, <2>2, <3>1 DEF AccountRow
  <2>8. session' \in [Tokens -> SessionRow] /\ Successors' /\ TokensGuarded(q)
      BY <2>1, SessionsCommit DEF At
  <2>9. RowTypes'
      BY <1>0, <2>1, <2>3, <2>7, <2>8 DEF AccountsInv, RowTypes, codeVars
  <2>10. Guarded(q)
      BY <2>1, <2>6, <2>8 DEF Guarded, CodesGuarded, codeVars
  <2>11. RowsSound'
      BY <2>1, <2>5, <2>8 DEF AccountsInv, RowsSound, AttemptsCapped, codeVars
  <2> QED
      BY <2>1, <2>9, <2>10, <2>11, FinishStep
<1> QED
    BY <1>1, <1>2, <1>3, <1>4, <1>5, <1>6 DEF InviteStep

\* Calls on invites preserve the invariant: who accepts or revokes one was given it.
LEMMA InviteCalls ==
    ASSUME AccountsInv, NEW q \in Requests, InviteCall(q), UNCHANGED codeVars
    PROVE  AccountsInv'
<1>1. CASE CallCreate(q)
  <2>1. PICK u \in Users, given \in Roles : Arrive(q, "createInvite", u, Null, given)
      BY <1>1 DEF CallCreate
  <2>2. UNCHANGED tables
      BY <1>1, <2>1 DEF CallCreate, Arrive, tables
  <2> QED
      BY <2>1, <2>2, QuietArrival DEF Late
<1>2. CASE CallRevoke(q)
  <2>1. PICK i \in Invites : Arrive(q, "revokeInvite", Null, i, Null)
      BY <1>2 DEF CallRevoke
  <2>2. UNCHANGED tables
      BY <1>2, <2>1 DEF CallRevoke, Arrive, tables
  <2> QED
      BY <2>1, <2>2, QuietArrival DEF Late
<1>3. CASE CallAccept(q)
  <2>1. PICK u \in Users, i \in Invites : Stored(i) /\ Arrive(q, "acceptInvite", u, i, Null)
      BY <1>3 DEF CallAccept
  <2>2. UNCHANGED tables
      BY <1>3, <2>1 DEF CallAccept, Arrive, tables
  <2>3. invite[i].state # "ABSENT"
      BY <2>1 DEF Stored
  <2> QED
      BY <2>1, <2>2, <2>3, QuietArrival DEF Late
<1> QED
    BY <1>1, <1>2, <1>3 DEF InviteCall

-----------------------------------------------------------------------------
(***************************************************************************)
(* Codes and links.                                                        *)
(***************************************************************************)
\* The codes of a user that are not consumed are worth locking.
LEMMA UnspentSound == \A u, kind : Sound(CodeRows(Unspent(u, kind)))
BY DEF Sound, CodeRows, Unspent, TokenRow, InviteId, CodeId

\* A request that ends with a change of users, tokens, codes and identities.
LEMMA CodesFinish ==
    ASSUME AccountsInv, NEW q \in Requests, Finish(q), UNCHANGED invite,
           account' \in [Users -> AccountRow], identity' \in [Users -> BOOLEAN],
           session' \in [Tokens -> SessionRow], Successors', TokensGuarded(q),
           code' \in [Codes -> CodeRow], AttemptsCapped', CodesGuarded(q)
    PROVE  AccountsInv'
<1>1. RowTypes'
    BY DEF AccountsInv, RowTypes
<1>2. Guarded(q)
    BY DEF Guarded, InvitesGuarded
<1>3. RowsSound'
    BY DEF AccountsInv, RowsSound, SettledOneWay, Addressed
<1> QED
    BY <1>1, <1>2, <1>3, FinishStep

\* A request that ends with a change of the codes only.
LEMMA CodesFinishAlone ==
    ASSUME AccountsInv, NEW q \in Requests, Finish(q), UNCHANGED <<account, session, invite, identity>>,
           code' \in [Codes -> CodeRow], AttemptsCapped', CodesGuarded(q)
    PROVE  AccountsInv'
<1>1. /\ account' \in [Users -> AccountRow] /\ identity' \in [Users -> BOOLEAN]
      /\ session' \in [Tokens -> SessionRow] /\ Successors'
    BY DEF AccountsInv, RowTypes, RowsSound, Successors
<1>2. TokensGuarded(q)
    BY DEF TokensGuarded
<1> QED
    BY <1>1, <1>2, CodesFinish

\* The codes a request has locked were sent, and change their state only.
LEMMA WrittenCodes ==
    ASSUME AccountsInv, NEW q \in Requests, NEW state \in {"SPENT", "DELETED"}
    PROVE  /\ Written(q, state) \in [Codes -> CodeRow]
           /\ \A c \in Codes :
                 LET row == Written(q, state)[c] IN
                 /\ row.attempts = code[c].attempts
                 /\ code[c].state # "ABSENT" => row.state # "ABSENT"
                 /\ CodeId(c) \notin held[q] => row = code[c]
           /\ \A c \in Codes, p \in Requests \ {q} : CodeId(c) \in held[p] => CodeId(c) \notin held[q]
           /\ \A c \in Codes, p \in Requests : CodeId(c) \in held[p] => code[c].state # "ABSENT"
<1>1. code \in [Codes -> CodeRow]
    BY DEF AccountsInv, RowTypes
<1>2. \A c \in Codes : /\ [code[c] EXCEPT !.state = state] \in CodeRow
                       /\ [code[c] EXCEPT !.state = state].attempts = code[c].attempts
                       /\ [code[c] EXCEPT !.state = state].state = state
    BY <1>1 DEF CodeRow
<1>3. /\ Written(q, state) \in [Codes -> CodeRow]
      /\ \A c \in Codes :
            LET row == Written(q, state)[c] IN
            /\ row.attempts = code[c].attempts
            /\ code[c].state # "ABSENT" => row.state # "ABSENT"
            /\ CodeId(c) \notin held[q] => row = code[c]
    BY <1>1, <1>2 DEF Written, CodeId
<1>4. /\ \A c \in Codes, p \in Requests \ {q} : CodeId(c) \in held[p] => CodeId(c) \notin held[q]
      /\ \A c \in Codes, p \in Requests : CodeId(c) \in held[p] => code[c].state # "ABSENT"
    BY DEF AccountsInv, Exclusive, Mine, HeldRows
<1> QED
    BY <1>3, <1>4

\* A proof of the address commits: what the request has locked is spent, and the attempt
\* on the code it found is counted, if there was one.
LEMMA CodesCommit ==
    ASSUME AccountsInv, NEW q \in Requests, NEW STATE c, c \in Codes, CodeId(c) \in held[q],
           NEW STATE n, n \in Nat, n <= MaxAttempts,
           code' = [Written(q, "SPENT") EXCEPT ![c].attempts = n]
    PROVE  code' \in [Codes -> CodeRow] /\ AttemptsCapped' /\ CodesGuarded(q)
<1> DEFINE written == Written(q, "SPENT")
<1>1. /\ written \in [Codes -> CodeRow]
      /\ \A d \in Codes : /\ written[d].attempts = code[d].attempts
                          /\ code[d].state # "ABSENT" => written[d].state # "ABSENT"
                          /\ CodeId(d) \notin held[q] => written[d] = code[d]
      /\ \A d \in Codes, p \in Requests \ {q} : CodeId(d) \in held[p] => CodeId(d) \notin held[q]
      /\ \A d \in Codes, p \in Requests : CodeId(d) \in held[p] => code[d].state # "ABSENT"
    BY WrittenCodes
<1> HIDE DEF written
<1>2. code' = [written EXCEPT ![c].attempts = n]
    BY DEF written
<1>3. \A d \in Codes : /\ code'[d] \in CodeRow
                       /\ code'[d].state = written[d].state
                       /\ d # c => code'[d] = written[d]
                       /\ d = c => code'[d].attempts = n
    BY <1>1, <1>2 DEF CodeRow
<1>4. code' \in [Codes -> CodeRow]
    BY <1>1, <1>2, <1>3
<1>5. AttemptsCapped'
    BY <1>1, <1>3 DEF AttemptsCapped, AccountsInv, RowsSound
<1>6. CodesGuarded(q)
    BY <1>1, <1>3 DEF CodesGuarded
<1> QED
    BY <1>4, <1>5, <1>6

\* register, resendVerificationEmail and the two requests for a reset.
LEMMA RequestSteps ==
    ASSUME AccountsInv, NEW q \in Requests, UNCHANGED invite,
           FindForRequest(q) \/ CreateUser(q) \/ RetireCodes(q) \/ InsertCode(q)
    PROVE  AccountsInv'
<1> q \in Codes /\ q \in Passwords
    BY DEF Codes, Passwords
<1> Mine(q) /\ call[q] \in CallRow
    BY DEF AccountsInv, FlowTypes
<1> DEFINE sends == {"register", "resendVerification", "requestLink", "requestOtp"}
<1>1. CASE FindForRequest(q)
  <2>1. pc[q] \in sends /\ Op(q) \in sends /\ UNCHANGED tables
      BY <1>1 DEF FindForRequest, tables, Mine, CodeClaims
  <2>2. CASE Finish(q)
      BY <2>1, <2>2, QuietFinish
  <2>3. ASSUME NEW stage \in {"addressFree", "issue"}, Continue(q, stage) PROVE AccountsInv'
    <3>1. pc'[q] = stage /\ call' = call
        BY <2>3 DEF AccountsInv, FlowTypes, Continue, Goto
    <3>2. RowClaims(q)' /\ CodeClaims(q)'
        BY <2>1, <3>1 DEF RowClaims, CodeClaims, At, Op, Late
    <3> QED
        BY <2>1, <2>3, <3>2, QuietContinue
  <2> QED
      BY <1>1, <2>2, <2>3 DEF FindForRequest
<1>2. CASE CreateUser(q)
  <2> DEFINE u == call[q].user
  <2>1. At(q, "addressFree") /\ Op(q) \in sends /\ UNCHANGED <<session, invite, codeVars>>
      BY <1>2 DEF CreateUser, Mine, CodeClaims, At
  <2>2. CASE account[u].exists
      BY <1>2, <2>1, <2>2, QuietFinish DEF CreateUser, tables
  <2>3. CASE ~account[u].exists
    <3>1. /\ account' = [account EXCEPT ![u] = [NoAccount EXCEPT !.exists = TRUE, !.password = q]]
          /\ Continue(q, "issue")
        BY <1>2, <2>3 DEF CreateUser
    <3>2. [NoAccount EXCEPT !.exists = TRUE, !.password = q] \in AccountRow
        BY DEF NoAccount, AccountRow
    <3>3. account' \in [Users -> AccountRow]
        BY <3>1, <3>2 DEF AccountsInv, RowTypes
    <3>4. pc'[q] = "issue" /\ held' = held /\ call' = call /\ Others(q) /\ FlowTypes'
        BY <3>1 DEF AccountsInv, FlowTypes, Continue, Goto, Others
    <3>5. Apart(q)
        BY <3>4 DEF Apart, AccountsInv, Exclusive
    <3>6. HeldRows(q)' /\ Fresh(q)'
        BY <2>1, <3>4 DEF Mine, HeldRows, Fresh, At, Live, Open, codeVars
    <3>7. RowClaims(q)' /\ CodeClaims(q)'
        BY <2>1, <3>4 DEF RowClaims, CodeClaims, At, Op, Late
    <3>8. RowTypes' /\ RowsSound'
        BY <2>1, <3>3 DEF AccountsInv, RowTypes, RowsSound, Successors, SettledOneWay, Addressed,
                          AttemptsCapped, codeVars
    <3>9. Guarded(q)
        BY <2>1 DEF Guarded, TokensGuarded, InvitesGuarded, CodesGuarded, codeVars
    <3> QED
        BY <3>4, <3>5, <3>6, <3>7, <3>8, <3>9, StepOfOne DEF Mine
  <2> QED
      BY <2>2, <2>3
<1>3. CASE RetireCodes(q)
  <2> DEFINE rows == CodeRows(Unspent(call[q].user, KindOf(Op(q))))
  <2>1. At(q, "issue") /\ UNCHANGED tables /\ Write(q, rows, "retired")
      BY <1>3 DEF RetireCodes, tables
  <2>2. Sound(rows)
      BY UnspentSound
  <2>3. \A hit \in SUBSET rows : Locked(q, hit, "retired") => RowClaims(q)' /\ CodeClaims(q)'
      BY <2>1 DEF Locked, Mine, RowClaims, CodeClaims, At, Op, Late
  <2> HIDE DEF rows
  <2> QED
      BY <2>1, <2>2, <2>3, QuietWrite DEF At
<1>4. CASE InsertCode(q)
  <2> DEFINE kind == KindOf(Op(q))
             state == IF kind = "link" THEN "DELETED" ELSE "SPENT"
             written == Written(q, state)
             new == [state |-> "LIVE", kind |-> kind, user |-> call[q].user,
                     attempts |-> 0, expiresAt |-> clock + CodeTtl]
  <2>1. /\ At(q, "retired") /\ Finish(q) /\ UNCHANGED <<account, session, invite, identity>>
        /\ code' = [written EXCEPT ![q] = new]
      BY <1>4 DEF InsertCode
  <2>2. new \in CodeRow
    <3>1. Op(q) \in sends
        BY <2>1 DEF Mine, CodeClaims, At
    <3>2. kind \in {"verify", "otp", "link"}
        BY <3>1 DEF KindOf
    <3>3. clock + CodeTtl \in Nat
        BY CodesAssumption DEF AccountsInv, FlowTypes
    <3> HIDE DEF kind
    <3> QED
        BY <3>2, <3>3 DEF CodeRow, CallRow
  <2>3. new.attempts = 0 /\ new.state = "LIVE" /\ 0 <= MaxAttempts
      BY CodesAssumption
  <2>4. code[q].state = "ABSENT"
      BY <2>1 DEF Mine, Fresh, At
  <2>5. /\ written \in [Codes -> CodeRow]
        /\ \A d \in Codes : /\ written[d].attempts = code[d].attempts
                            /\ code[d].state # "ABSENT" => written[d].state # "ABSENT"
                            /\ CodeId(d) \notin held[q] => written[d] = code[d]
        /\ \A d \in Codes, p \in Requests \ {q} : CodeId(d) \in held[p] => CodeId(d) \notin held[q]
        /\ \A d \in Codes, p \in Requests : CodeId(d) \in held[p] => code[d].state # "ABSENT"
      BY WrittenCodes
  <2> HIDE DEF written, new
  <2>6. code' \in [Codes -> CodeRow] /\ code'[q] = new /\ \A d \in Codes \ {q} : code'[d] = written[d]
      BY <2>1, <2>2, <2>5
  <2>7. AttemptsCapped'
      BY <2>3, <2>5, <2>6 DEF AttemptsCapped, AccountsInv, RowsSound
  <2>8. CodesGuarded(q)
      BY <2>4, <2>5, <2>6 DEF CodesGuarded
  <2> QED
      BY <2>1, <2>6, <2>7, <2>8, CodesFinishAlone
<1> QED
    BY <1>1, <1>2, <1>3, <1>4

\* verifyEmail and confirmPasswordResetOtp.
LEMMA CodeStepsOfCodes ==
    ASSUME AccountsInv, NEW q \in Requests, UNCHANGED invite,
           FindForCode(q) \/ FindCode(q) \/ CountAttempt(q) \/ ConsumeCodes(q) \/ CommitVerification(q)
    PROVE  AccountsInv'
<1> Mine(q) /\ call[q] \in CallRow
    BY DEF AccountsInv, FlowTypes
<1> DEFINE uses == {"verifyEmail", "confirmOtp"}
<1>1. CASE FindForCode(q)
  <2>1. pc[q] \in uses /\ Op(q) \in uses /\ UNCHANGED tables
      BY <1>1 DEF FindForCode, tables, Mine, CodeClaims
  <2>2. CASE Finish(q)
      BY <2>1, <2>2, QuietFinish
  <2>3. CASE ~Finish(q)
    <3>1. call' = [call EXCEPT ![q].now = clock] /\ Goto(q, "admitted") /\ UNCHANGED <<clock, wanted, held>>
        BY <1>1, <2>3 DEF FindForCode
    <3>2. clock \in Nat
        BY DEF AccountsInv, FlowTypes
    <3>3. /\ pc'[q] = "admitted" /\ held' = held /\ Others(q)
          /\ call'[q] = [call[q] EXCEPT !.now = clock]
        BY <3>1 DEF AccountsInv, FlowTypes, Goto, Others
    <3>4. call'[q] \in CallRow /\ call'[q].op = call[q].op
        BY <3>2, <3>3 DEF CallRow
    <3>5. FlowTypes'
        BY <3>1, <3>4 DEF AccountsInv, FlowTypes, Goto
    <3>6. Apart(q)
        BY <3>3 DEF Apart, AccountsInv, Exclusive
    <3>7. HeldRows(q)' /\ Fresh(q)'
        BY <2>1, <3>3 DEF Mine, HeldRows, Fresh, Live, Open, tables, codeVars
    <3>8. RowClaims(q)' /\ CodeClaims(q)'
        BY <2>1, <3>3, <3>4 DEF RowClaims, CodeClaims, At, Op, Late
    <3> QED
        BY <2>1, <3>3, <3>5, <3>6, <3>7, <3>8, QuietStep DEF Mine
  <2> QED
      BY <2>2, <2>3
<1>2. CASE FindCode(q)
  <2>1. At(q, "admitted") /\ Op(q) \in uses /\ UNCHANGED tables
      BY <1>2 DEF FindCode, tables, Mine, CodeClaims, At
  <2>2. CASE Finish(q)
      BY <2>1, <2>2, QuietFinish
  <2>3. CASE ~Finish(q)
    <3>1. PICK c \in Unspent(call[q].user, KindOf(Op(q))) :
              call' = [call EXCEPT ![q].row = c] /\ Goto(q, "codeFound") /\ UNCHANGED <<clock, wanted, held>>
        BY <1>2, <2>3 DEF FindCode
    <3>2. c \in Codes /\ code[c].state # "ABSENT"
        BY DEF Unspent
    <3>3. /\ pc'[q] = "codeFound" /\ held' = held /\ Others(q)
          /\ call'[q] = [call[q] EXCEPT !.row = c]
        BY <3>1 DEF AccountsInv, FlowTypes, Goto, Others
    <3>4. call'[q] \in CallRow /\ call'[q].op = call[q].op /\ call'[q].row = c
        BY <3>2, <3>3 DEF CallRow
    <3>5. FlowTypes'
        BY <3>1, <3>4 DEF AccountsInv, FlowTypes, Goto
    <3>6. Apart(q)
        BY <3>3 DEF Apart, AccountsInv, Exclusive
    <3>7. HeldRows(q)' /\ Fresh(q)'
        BY <2>1, <3>3 DEF Mine, HeldRows, Fresh, At, Live, Open, tables, codeVars
    <3>8. RowClaims(q)' /\ CodeClaims(q)'
        BY <2>1, <3>2, <3>3, <3>4 DEF RowClaims, CodeClaims, At, Op, Late, tables, codeVars
    <3> QED
        BY <2>1, <3>3, <3>5, <3>6, <3>7, <3>8, QuietStep DEF Mine
  <2> QED
      BY <2>2, <2>3
<1>3. CASE CountAttempt(q)
  <2> DEFINE c == call[q].row
             rows == CodeRows(Attemptable(c))
  <2>1. At(q, "codeFound") /\ UNCHANGED <<account, session, invite, identity>>
      BY <1>3 DEF CountAttempt
  <2>2. Op(q) \in uses /\ c \in Codes /\ code[c].state # "ABSENT" /\ code[c] \in CodeRow
      BY <2>1 DEF Mine, CodeClaims, At, AccountsInv, RowTypes
  <2>3. \A hit \in (SUBSET rows) \ {{}} :
           hit = {CodeId(c)} /\ code[c].attempts < MaxAttempts
      BY DEF CodeRows, Attemptable, CodeId
  <2>4. CASE Ready(q, rows) /\ Hit(q, rows) # {} /\ call[q].given # c
    <3>1. code' = [code EXCEPT ![c].attempts = code[c].attempts + 1] /\ Finish(q)
        BY <1>3, <2>4 DEF CountAttempt
    <3>2. Hit(q, rows) = {CodeId(c)} /\ code[c].attempts < MaxAttempts
        BY <2>3, <2>4 DEF Hit
    <3>3. \A p \in Requests \ {q} : CodeId(c) \notin held[p]
        BY <2>4, <3>2 DEF Ready, Blocked, Hit
    <3>4. \A d \in Codes : /\ code'[d] \in CodeRow /\ code'[d].state = code[d].state
                           /\ d # c => code'[d] = code[d]
        BY <2>2, <3>1 DEF AccountsInv, RowTypes, CodeRow
    <3>5. code' \in [Codes -> CodeRow] /\ code'[c].attempts = code[c].attempts + 1
        BY <2>2, <3>1, <3>4 DEF AccountsInv, RowTypes, CodeRow
    <3>6. AttemptsCapped'
        BY <2>2, <3>2, <3>4, <3>5, CodesAssumption DEF AttemptsCapped, AccountsInv, RowsSound, CodeRow
    <3>7. CodesGuarded(q)
        BY <2>2, <3>3, <3>4 DEF CodesGuarded
    <3> QED
        BY <2>1, <3>1, <3>5, <3>6, <3>7, CodesFinishAlone
  <2>5. CASE ~(Ready(q, rows) /\ Hit(q, rows) # {} /\ call[q].given # c)
    <3>1. Claim(q, rows, "counted") /\ UNCHANGED tables
        BY <1>3, <2>1, <2>5 DEF CountAttempt, tables, codeVars
    <3>2. Sound(rows)
        BY <2>2 DEF Sound, CodeRows, Attemptable, TokenRow, InviteId, CodeId
    <3>3. \A hit \in (SUBSET rows) \ {{}} : Locked(q, hit, "counted") => RowClaims(q)' /\ CodeClaims(q)'
      <4> SUFFICES ASSUME NEW hit \in (SUBSET rows) \ {{}}, Locked(q, hit, "counted")
                   PROVE  RowClaims(q)' /\ CodeClaims(q)'
          OBVIOUS
      <4>1. CodeId(c) \in hit /\ code[c].attempts < MaxAttempts
          BY <2>3
      <4> QED
          BY <2>2, <3>1, <4>1 DEF Locked, RowClaims, CodeClaims, At, Op, Late, tables, codeVars
    <3> HIDE DEF rows
    <3> QED
        BY <2>1, <3>1, <3>2, <3>3, QuietClaim DEF At
  <2> QED
      BY <2>4, <2>5
<1>4. CASE ConsumeCodes(q)
  <2> DEFINE rows == CodeRows(Unspent(call[q].user, KindOf(Op(q))))
  <2>1. At(q, "counted") /\ UNCHANGED tables /\ Write(q, rows, "claimed")
      BY <1>4 DEF ConsumeCodes, tables
  <2>2. Sound(rows)
      BY UnspentSound
  <2>3. \A hit \in SUBSET rows : Locked(q, hit, "claimed") => RowClaims(q)' /\ CodeClaims(q)'
      BY <2>1 DEF Locked, Mine, RowClaims, CodeClaims, At, Op, Late, tables, codeVars
  <2> HIDE DEF rows
  <2> QED
      BY <2>1, <2>2, <2>3, QuietWrite DEF At
<1>5. CASE CommitVerification(q)
  <2> DEFINE c == call[q].row
             n == code[c].attempts + 1
  <2>1. /\ At(q, "userUpdated") /\ Op(q) = "verifyEmail" /\ Finish(q) /\ UNCHANGED <<invite, identity>>
        /\ code' = [Written(q, "SPENT") EXCEPT ![c].attempts = @ + 1]
        /\ account' = [account EXCEPT ![call[q].user].verified = TRUE]
        /\ session' = Issued(q, Null)
      BY <1>5 DEF CommitVerification
  <2>2. /\ c \in Codes /\ CodeId(c) \in held[q] /\ code[c].attempts < MaxAttempts
        /\ code[c].attempts \in Nat
      BY <2>1 DEF Mine, CodeClaims, At, Late, AccountsInv, RowTypes, CodeRow
  <2>3. n \in Nat /\ n <= MaxAttempts
      BY <2>2, CodesAssumption
  <2>4. code' = [Written(q, "SPENT") EXCEPT ![c].attempts = n]
      BY <2>1, <2>2, WrittenCodes
  <2> HIDE DEF n
  <2>5. code' \in [Codes -> CodeRow] /\ AttemptsCapped' /\ CodesGuarded(q)
      BY <2>2, <2>3, <2>4, CodesCommit
  <2>6. session' \in [Tokens -> SessionRow] /\ Successors' /\ TokensGuarded(q)
      BY <2>1, SessionsCommit DEF At
  <2>7. account' \in [Users -> AccountRow] /\ identity' \in [Users -> BOOLEAN]
      BY <2>1 DEF AccountsInv, RowTypes, AccountRow
  <2> QED
      BY <2>1, <2>5, <2>6, <2>7, CodesFinish
<1> QED
    BY <1>1, <1>2, <1>3, <1>4, <1>5

\* confirmPasswordReset, and how either reset ends.
LEMMA ResetSteps ==
    ASSUME AccountsInv, NEW q \in Requests, UNCHANGED invite,
           FindLink(q) \/ ClaimLink(q) \/ CommitReset(q)
    PROVE  AccountsInv'
<1> Mine(q) /\ call[q] \in CallRow
    BY DEF AccountsInv, FlowTypes
<1>1. CASE FindLink(q)
  <2>1. At(q, "confirmLink") /\ UNCHANGED tables
      BY <1>1 DEF FindLink, tables
  <2>2. CASE Finish(q)
      BY <2>1, <2>2, QuietFinish
  <2>3. CASE Continue(q, "linkFound")
    <3>1. pc'[q] = "linkFound" /\ call' = call
        BY <2>3 DEF AccountsInv, FlowTypes, Continue, Goto
    <3>2. RowClaims(q)' /\ CodeClaims(q)'
        BY <2>1, <3>1 DEF Mine, RowClaims, CodeClaims, At, Op, Late
    <3> QED
        BY <2>1, <2>3, <3>2, QuietContinue DEF At
  <2> QED
      BY <1>1, <2>2, <2>3 DEF FindLink
<1>2. CASE ClaimLink(q)
  <2> DEFINE rows == CodeRows(Usable(call[q].row))
  <2>1. At(q, "linkFound") /\ UNCHANGED tables /\ Claim(q, rows, "claimed")
      BY <1>2 DEF ClaimLink, tables
  <2>2. Sound(rows)
      BY DEF Sound, CodeRows, Usable, TokenRow, InviteId, CodeId
  <2>3. \A hit \in (SUBSET rows) \ {{}} : Locked(q, hit, "claimed") => RowClaims(q)' /\ CodeClaims(q)'
    <3> SUFFICES ASSUME NEW hit \in (SUBSET rows) \ {{}}, Locked(q, hit, "claimed")
                 PROVE  RowClaims(q)' /\ CodeClaims(q)'
        OBVIOUS
    <3>1. CodeId(call[q].row) \in hit /\ code[call[q].row].state = "LIVE"
        BY DEF CodeRows, Usable, CodeId
    <3> QED
        BY <2>1, <3>1 DEF Locked, Mine, RowClaims, CodeClaims, At, Op, Late, tables, codeVars
  <2> HIDE DEF rows
  <2> QED
      BY <2>1, <2>2, <2>3, QuietClaim DEF At
<1>3. CASE CommitReset(q)
  <2> DEFINE c == call[q].row
             u == call[q].user
             n == IF Op(q) = "confirmOtp" THEN code[c].attempts + 1 ELSE code[c].attempts
  <2>1. /\ At(q, "sessionsRevoked") /\ Op(q) \in {"confirmOtp", "confirmLink"}
        /\ Finish(q) /\ UNCHANGED <<invite, identity>>
        /\ code' = [Written(q, "SPENT") EXCEPT
                       ![c].attempts = IF Op(q) = "confirmOtp" THEN @ + 1 ELSE @]
        /\ account' = [account EXCEPT ![u].password = q, ![u].verified = TRUE]
        /\ session' = Revoked(q)
      BY <1>3 DEF CommitReset
  <2>2. /\ c \in Codes /\ CodeId(c) \in held[q]
        /\ Op(q) = "confirmOtp" => code[c].attempts < MaxAttempts
      BY <2>1 DEF Mine, CodeClaims, At, Late
  <2>3. code[c].attempts \in Nat /\ code[c].attempts <= MaxAttempts
      BY <2>2 DEF AccountsInv, RowTypes, CodeRow, RowsSound, AttemptsCapped
  <2>4. n \in Nat /\ n <= MaxAttempts
      BY <2>2, <2>3, CodesAssumption
  <2>5. code' = [Written(q, "SPENT") EXCEPT ![c].attempts = n]
      BY <2>1, <2>2, WrittenCodes
  <2> HIDE DEF n
  <2>6. code' \in [Codes -> CodeRow] /\ AttemptsCapped' /\ CodesGuarded(q)
      BY <2>2, <2>4, <2>5, CodesCommit
  <2>7. session' \in [Tokens -> SessionRow] /\ Successors' /\ TokensGuarded(q)
      BY <2>1, SessionsCommit DEF At
  <2>8. account' \in [Users -> AccountRow] /\ identity' \in [Users -> BOOLEAN]
    <3>1. q \in Passwords /\ account \in [Users -> AccountRow] /\ identity \in [Users -> BOOLEAN]
        BY DEF Passwords, AccountsInv, RowTypes
    <3> QED
        BY <2>1, <3>1 DEF AccountRow
  <2> QED
      BY <2>1, <2>6, <2>7, <2>8, CodesFinish
<1> QED
    BY <1>1, <1>2, <1>3

\* googleLogin preserves the invariant.
LEMMA GoogleSteps ==
    ASSUME AccountsInv, NEW q \in Requests, UNCHANGED invite,
           FindIdentity(q) \/ FindGoogleUser(q) \/ DeleteLinks(q) \/ DeleteCodes(q)
           \/ InsertGoogle(q) \/ CommitGoogle(q)
    PROVE  AccountsInv'
<1> Mine(q) /\ call[q] \in CallRow
    BY DEF AccountsInv, FlowTypes
<1>1. CASE FindIdentity(q) \/ FindGoogleUser(q)
  <2>1. pc[q] \in {"googleLogin", "unlinked"} /\ Op(q) = "googleLogin" /\ UNCHANGED tables
      BY <1>1 DEF FindIdentity, FindGoogleUser, tables, Mine, CodeClaims, At
  <2>2. PICK stage \in {"linked", "unlinked", "newAccount", "claimed", "taken"} : Continue(q, stage)
    <3>1. CASE FindIdentity(q)
        BY <3>1 DEF FindIdentity
    <3>2. CASE FindGoogleUser(q)
      <4> DEFINE user == account[call[q].user]
      <4>1. CASE ~user.exists
          BY <3>2, <4>1 DEF FindGoogleUser
      <4>2. CASE user.exists /\ ~user.verified
          BY <3>2, <4>2 DEF FindGoogleUser
      <4>3. CASE user.exists /\ user.verified
          BY <3>2, <4>3 DEF FindGoogleUser
      <4> QED
          BY <4>1, <4>2, <4>3
    <3> QED
        BY <1>1, <3>1, <3>2
  <2>3. pc'[q] = stage /\ call' = call
      BY <2>2 DEF AccountsInv, FlowTypes, Continue, Goto
  <2>4. RowClaims(q)' /\ CodeClaims(q)'
      BY <2>1, <2>3 DEF RowClaims, CodeClaims, At, Op, Late
  <2> QED
      BY <2>1, <2>2, <2>4, QuietContinue
<1>2. CASE DeleteLinks(q)
  <2> DEFINE rows == CodeRows(Unspent(call[q].user, "link"))
  <2>1. At(q, "sessionsRevoked") /\ Op(q) = "googleLogin" /\ UNCHANGED tables /\ Write(q, rows, "linksDeleted")
      BY <1>2 DEF DeleteLinks, tables
  <2>2. Sound(rows)
      BY UnspentSound
  <2>3. \A hit \in SUBSET rows : Locked(q, hit, "linksDeleted") => RowClaims(q)' /\ CodeClaims(q)'
      BY <2>1 DEF Locked, RowClaims, CodeClaims, At, Op, Late
  <2> HIDE DEF rows
  <2> QED
      BY <2>1, <2>2, <2>3, QuietWrite DEF At
<1>3. CASE DeleteCodes(q)
  <2> DEFINE rows == CodeRows(Unspent(call[q].user, "verify"))
  <2>1. At(q, "linksDeleted") /\ UNCHANGED tables /\ Write(q, rows, "taken")
      BY <1>3 DEF DeleteCodes, tables
  <2>2. Sound(rows)
      BY UnspentSound
  <2>3. \A hit \in SUBSET rows : Locked(q, hit, "taken") => RowClaims(q)' /\ CodeClaims(q)'
      BY <2>1 DEF Locked, RowClaims, CodeClaims, At, Op, Late
  <2> HIDE DEF rows
  <2> QED
      BY <2>1, <2>2, <2>3, QuietWrite DEF At
<1>4. CASE InsertGoogle(q)
  <2> DEFINE u == call[q].user
             rows == IF At(q, "newAccount") THEN {UserRow(u), IdentityRow(u)} ELSE {IdentityRow(u)}
  <2>1. pc[q] \in {"newAccount", "taken"} /\ UNCHANGED tables
      BY <1>4 DEF InsertGoogle, tables
  <2>2. CASE Finish(q)
      BY <2>1, <2>2, QuietFinish
  <2>3. CASE Claim(q, rows, "linked")
    <3>1. Sound(rows)
        BY DEF Sound, UserRow, IdentityRow, TokenRow, InviteId, CodeId
    <3>2. \A hit \in (SUBSET rows) \ {{}} : Locked(q, hit, "linked") => RowClaims(q)' /\ CodeClaims(q)'
        BY <2>1 DEF Locked, RowClaims, CodeClaims, At, Op, Late
    <3> HIDE DEF rows
    <3> QED
        BY <2>1, <2>3, <3>1, <3>2, QuietClaim
  <2> QED
      BY <1>4, <2>2, <2>3 DEF InsertGoogle
<1>5. CASE CommitGoogle(q)
  <2> DEFINE u == call[q].user
  <2>1. /\ At(q, "linked") /\ Finish(q)
        /\ account' = IF UserRow(u) \in held[q]
                      THEN [account EXCEPT ![u].exists = TRUE, ![u].verified = TRUE, ![u].password = Null]
                      ELSE account
        /\ code' = Written(q, "DELETED")
        /\ identity' = [identity EXCEPT ![u] = TRUE]
        /\ session' = Issued(q, Null)
      BY <1>5 DEF CommitGoogle
  <2>2. code' \in [Codes -> CodeRow] /\ CodesGuarded(q) /\ \A c \in Codes : code'[c].attempts = code[c].attempts
      BY <2>1, WrittenCodes DEF CodesGuarded
  <2>3. AttemptsCapped'
      BY <2>2 DEF AttemptsCapped, AccountsInv, RowsSound
  <2>4. session' \in [Tokens -> SessionRow] /\ Successors' /\ TokensGuarded(q)
      BY <2>1, SessionsCommit DEF At
  <2>5. account' \in [Users -> AccountRow] /\ identity' \in [Users -> BOOLEAN]
    <3>1. account \in [Users -> AccountRow] /\ identity \in [Users -> BOOLEAN]
        BY DEF AccountsInv, RowTypes
    <3>2. account[u] \in AccountRow =>
              [account[u] EXCEPT !.exists = TRUE, !.verified = TRUE, !.password = Null] \in AccountRow
        BY DEF AccountRow
    <3>3. account' = account
          \/ account' = [account EXCEPT ![u] = [account[u] EXCEPT !.exists = TRUE,
                                                                !.verified = TRUE,
                                                                !.password = Null]]
        BY <2>1, <3>1
    <3>4. account' \in [Users -> AccountRow]
        BY <3>1, <3>2, <3>3
    <3> QED
        BY <2>1, <3>1, <3>4
  <2> QED
      BY <2>1, <2>2, <2>3, <2>4, <2>5, CodesFinish
<1> QED
    BY <1>1, <1>2, <1>3, <1>4, <1>5

\* Calls of registration, verification, resets and Google sign-in preserve the invariant.
LEMMA CodeCalls ==
    ASSUME AccountsInv, NEW q \in Requests, CodeCall(q), UNCHANGED invite
    PROVE  AccountsInv'
<1>1. CASE CallForEmail(q)
  <2>1. PICK u \in Users, op \in {"register", "resendVerification", "requestLink", "requestOtp"} :
            Arrive(q, op, u, Null, Null)
      BY <1>1 DEF CallForEmail
  <2>2. UNCHANGED tables
      BY <1>1, <2>1 DEF CallForEmail, Arrive, tables
  <2> QED
      BY <2>1, <2>2, QuietArrival DEF Late
<1>2. CASE CallWithCode(q)
  <2>1. PICK u \in Users, op \in {"verifyEmail", "confirmOtp"}, given \in Codes \cup {Null} :
            Arrive(q, op, u, Null, given)
      BY <1>2 DEF CallWithCode
  <2>2. UNCHANGED tables
      BY <1>2, <2>1 DEF CallWithCode, Arrive, tables
  <2> QED
      BY <2>1, <2>2, QuietArrival DEF Late
<1>3. CASE CallWithLink(q)
  <2>1. PICK c \in Codes : Arrive(q, "confirmLink", code[c].user, c, Null)
      BY <1>3 DEF CallWithLink
  <2>2. UNCHANGED tables /\ code[c].user \in Users \cup {Null}
      BY <1>3, <2>1 DEF CallWithLink, Arrive, tables, AccountsInv, RowTypes, CodeRow
  <2> QED
      BY <2>1, <2>2, QuietArrival DEF Late
<1>4. CASE CallGoogle(q)
  <2>1. PICK u \in Users : Arrive(q, "googleLogin", u, Null, Null)
      BY <1>4 DEF CallGoogle
  <2>2. UNCHANGED tables
      BY <1>4, <2>1 DEF CallGoogle, Arrive, tables
  <2> QED
      BY <2>1, <2>2, QuietArrival DEF Late
<1> QED
    BY <1>1, <1>2, <1>3, <1>4 DEF CodeCall

-----------------------------------------------------------------------------
(***************************************************************************)
(* The invariant holds.                                                    *)
(***************************************************************************)
\* Whatever a request does next, the invariant survives it.
LEMMA ServeStep ==
    ASSUME AccountsInv, NEW q \in Requests, Serve(q)
    PROVE  AccountsInv'
<1>1. CASE SessionStep(q) /\ UNCHANGED <<invite, codeVars>>
    BY <1>1, SessionSteps
<1>2. CASE InviteStep(q) /\ UNCHANGED codeVars
    BY <1>2, InviteSteps
<1>3. CASE CodeStep(q) /\ UNCHANGED invite
    BY <1>3, RequestSteps, CodeStepsOfCodes, ResetSteps, GoogleSteps DEF CodeStep
<1>4. CASE BreakDeadlock(q) /\ UNCHANGED tables
    BY <1>4, QuietFinish DEF BreakDeadlock
<1> QED
    BY <1>1, <1>2, <1>3, <1>4 DEF Serve

\* Neither a step that changes nothing nor the time disturbs the invariant.
LEMMA IdleStep ==
    ASSUME AccountsInv, UNCHANGED <<tables, pc, call, held, wanted>>, clock' \in Nat
    PROVE  AccountsInv'
<1>1. FlowTypes' /\ RowTypes' /\ Exclusive' /\ RowsSound'
    BY DEF AccountsInv, FlowTypes, RowTypes, Exclusive, RowsSound, Successors, SettledOneWay,
           Addressed, AttemptsCapped, tables, codeVars
<1>2. ASSUME NEW q \in Requests PROVE Mine(q)'
    BY DEF AccountsInv, Mine, HeldRows, Fresh, RowClaims, CodeClaims, At, Op, Live, Open,
           tables, codeVars
<1> QED
    BY <1>1, <1>2 DEF AccountsInv

\* Every step of the service preserves the invariant.
LEMMA AccountsStep ==
    ASSUME AccountsInv, [Next]_vars
    PROVE  AccountsInv'
<1>1. CASE Tick /\ UNCHANGED <<invite, codeVars>>
  <2>1. clock' \in Nat /\ UNCHANGED <<tables, pc, call, held, wanted>>
      BY <1>1 DEF Tick, tables, AccountsInv, FlowTypes
  <2> QED
      BY <2>1, IdleStep
<1>2. ASSUME NEW q \in Requests, Call(q) PROVE AccountsInv'
    BY <1>2, SessionCalls, InviteCalls, CodeCalls DEF Call
<1>3. ASSUME NEW q \in Requests, Serve(q) PROVE AccountsInv'
    BY <1>3, ServeStep
<1>4. ASSUME NEW q \in Requests, Abort(q), UNCHANGED tables PROVE AccountsInv'
    BY <1>4, QuietFinish DEF Abort
<1>5. CASE UNCHANGED vars
  <2>1. clock' \in Nat /\ UNCHANGED <<tables, pc, call, held, wanted>>
      BY <1>5 DEF vars, flow, AccountsInv, FlowTypes
  <2> QED
      BY <2>1, IdleStep
<1> QED
    BY <1>1, <1>2, <1>3, <1>4, <1>5 DEF Next

\* The service starts in the invariant, whatever rows it starts with.
LEMMA InitAccountsInv == Init => AccountsInv
<1> SUFFICES ASSUME NEW start \in Starts, SessionsInit(start), InvitesInit(start), CodesInit(start)
             PROVE  AccountsInv
    BY DEF Init
<1>1. FlowTypes
  <2>1. ASSUME NEW q \in Requests PROVE [NoCall EXCEPT !.op = start.load[q]] \in CallRow
      BY DEF NoCall, CallRow, Ops
  <2> QED
      BY <2>1 DEF FlowTypes, SessionsInit
<1>2. RowTypes
  <2>1. account \in [Users -> AccountRow] /\ session \in [Tokens -> SessionRow]
      BY SessionsAssumption DEF SessionsInit, SessionRow
  <2>2. invite \in [Invites -> InviteRow]
      BY InvitesAssumption DEF InvitesInit, Invites, InviteRow, NoInvite
  <2>3. code \in [Codes -> CodeRow] /\ identity \in [Users -> BOOLEAN]
      BY CodesAssumption DEF CodesInit, Codes, CodeRow, NoCode
  <2> QED
      BY <2>1, <2>2, <2>3 DEF RowTypes
<1>3. Exclusive
    BY DEF Exclusive, SessionsInit
<1>4. RowsSound
  <2>1. Successors
      BY DEF Successors, SessionsInit
  <2>2. ASSUME NEW i \in Invites, i \in SentInvites
        PROVE  /\ invite[i] \in InviteRow
               /\ invite[i].state # "ABSENT" => invite[i].email # Null /\ invite[i].role # Null
               /\ invite[i].acceptedAt # 0 =>
                     invite[i].revokedAt = 0 /\ invite[i].acceptedAt <= invite[i].expiresAt
      BY <2>2, InvitesAssumption DEF InvitesInit
  <2>3. ASSUME NEW i \in Invites, i \notin SentInvites PROVE invite[i] = NoInvite
      BY <2>3 DEF InvitesInit
  <2>4. SettledOneWay /\ Addressed
      BY <2>2, <2>3 DEF SettledOneWay, Addressed, InviteRow, NoInvite
  <2>5. AttemptsCapped
      BY CodesAssumption DEF AttemptsCapped, CodesInit, NoCode
  <2> QED
      BY <2>1, <2>4, <2>5 DEF RowsSound
<1>5. ASSUME NEW q \in Requests PROVE Mine(q)
  <2>1. pc[q] = "idle" /\ held[q] = {}
      BY DEF SessionsInit
  <2>2. HeldRows(q) /\ RowClaims(q) /\ CodeClaims(q)
      BY <2>1 DEF HeldRows, RowClaims, CodeClaims, At, Late
  <2>3. Fresh(q)
    <3>1. q \notin Users /\ q \notin SentInvites /\ q \notin SentCodes
        BY SessionsAssumption, InvitesAssumption, CodesAssumption
    <3>2. session[q].state = "ABSENT"
        BY <3>1 DEF SessionsInit, Tokens
    <3>3. invite[q] = NoInvite
        BY <3>1 DEF InvitesInit, Invites
    <3>4. code[q].state = "ABSENT"
        BY <3>1 DEF CodesInit, Codes, NoCode
    <3> QED
        BY <3>2, <3>3, <3>4 DEF Fresh
  <2> QED
      BY <2>2, <2>3 DEF Mine
<1> QED
    BY <1>1, <1>2, <1>3, <1>4, <1>5 DEF AccountsInv

\* Rows keep their types, locked rows stay as their request found them, and what a
\* request has read and claimed is still so at its next statement.
THEOREM AccountsInvHolds == Spec => []AccountsInv
<1>1. AccountsInv /\ [Next]_vars => AccountsInv'
    BY AccountsStep
<1> QED
    BY InitAccountsInv, <1>1, PTL DEF Spec

-----------------------------------------------------------------------------
(***************************************************************************)
(* What follows for the tables.                                            *)
(***************************************************************************)
\* Accounts, sessions, invites and codes keep their types, no two requests hold a lock
\* on one row, and only a running request holds any.
THEOREM AccountRowsAreSound == Spec => []TypeOK
<1>1. AccountsInv => TypeOK
    BY DEF AccountsInv, RowTypes, Exclusive, Mine, HeldRows, TypeOK, SessionsTypeOK,
           InvitesTypeOK, CodesTypeOK, At
<1> QED
    BY <1>1, AccountsInvHolds, PTL

\* However many requests accept and revoke an invite at once, it ends one way, and is
\* accepted in time: claimInvite and revokeInvite look at the row again when they lock it.
THEOREM InvitesSettledOneWay == Spec => []SettledOneWay
<1>1. AccountsInv => SettledOneWay
    BY DEF AccountsInv, RowsSound
<1> QED
    BY <1>1, AccountsInvHolds, PTL

\* However often a refresh token is sent, it is exchanged for one other and then revoked.
THEOREM TokensRotatedOnce == Spec => []RotatedOnce
<1>1. ASSUME AccountsInv PROVE RotatedOnce
  <2> SUFFICES ASSUME NEW t \in Tokens
               PROVE  /\ Cardinality({s \in Tokens : session[s].from = t}) <= 1
                      /\ {s \in Tokens : session[s].from = t} # {} => ~Live(t)
      BY DEF RotatedOnce
  <2> DEFINE successors == {s \in Tokens : session[s].from = t}
  <2>1. Successors /\ t # Null
      BY <1>1, SessionsAssumption, InvitesAssumption DEF AccountsInv, RowsSound, Tokens
  <2>2. successors = {} => Cardinality(successors) = 0
      BY FS_EmptySet
  <2>3. ASSUME NEW s \in successors PROVE Cardinality(successors) = 1 /\ ~Live(t)
    <3>1. successors = {s} /\ ~Live(t)
        BY <2>1 DEF Successors, Live
    <3> QED
        BY <3>1, FS_Singleton
  <2> HIDE DEF successors
  <2>4. Cardinality(successors) <= 1 /\ (successors # {} => ~Live(t))
      BY <2>2, <2>3
  <2> QED
      BY <2>4 DEF successors
<1> QED
    BY <1>1, AccountsInvHolds, PTL

\* However many guesses run at once, no code sees more than OTP_MAX_ATTEMPTS of them.
THEOREM AttemptsAreCapped == Spec => []AttemptsCapped
<1>1. AccountsInv => AttemptsCapped
    BY DEF AccountsInv, RowsSound
<1> QED
    BY <1>1, AccountsInvHolds, PTL

-----------------------------------------------------------------------------
(***************************************************************************)
(* What follows for the steps.                                             *)
(***************************************************************************)
\* An invite changes when its number is inserted or while it is open.
LEMMA InviteChanges ==
    ASSUME AccountsInv, NEW q \in Requests, Serve(q), NEW i \in Invites,
           invite[i].acceptedAt + invite[i].revokedAt > 0
    PROVE  invite'[i] = invite[i]
<1> q \in Invites /\ Mine(q) /\ invite \in [Invites -> InviteRow] /\ invite[i] \in InviteRow
    BY DEF AccountsInv, RowTypes, Invites
<1>0. ~Open(i)
    BY DEF Open
<1>1. CASE InsertInvite(q)
  <2>1. i # q
      BY <1>1 DEF Mine, Fresh, InsertInvite, At, NoInvite
  <2>2. InviteId(i) \notin held[q]
      BY <1>0 DEF Mine, HeldRows
  <2> QED
      BY <1>1, <2>1, <2>2 DEF InsertInvite, InviteId
<1>2. CASE RevokeInvite(q)
  <2>1. call[q].row = i => invite' = invite
      BY <1>0, <1>2 DEF RevokeInvite, Pending
  <2> QED
      BY <1>2, <2>1 DEF RevokeInvite
<1>3. CASE CommitAccept(q)
  <2>1. InviteId(call[q].row) \in held[q]
      BY <1>3 DEF CommitAccept, Mine, RowClaims, At, Late
  <2>2. call[q].row # i
      BY <1>0, <2>1 DEF Mine, HeldRows
  <2> QED
      BY <1>3, <2>2 DEF CommitAccept
<1>4. CASE UNCHANGED invite
    BY <1>4
<1> QED
    BY <1>1, <1>2, <1>3, <1>4
       DEF Serve, InviteStep, DeletePending, ReadInvite, ClaimInvite, tables

\* What was accepted or revoked stays as it is: an invite is locked while it is open, and
\* whoever waited for it looks at it again.
THEOREM InviteHistoryPreserved == Spec => HistoryPreserved
<1> DEFINE Kept == \A i \in Invites :
                       invite[i].acceptedAt + invite[i].revokedAt > 0 => invite'[i] = invite[i]
<1>1. ASSUME AccountsInv, [Next]_vars PROVE [Kept]_<<sessionVars, invite>>
  <2>1. CASE UNCHANGED invite
      BY <2>1
  <2>2. ASSUME NEW q \in Requests, Serve(q) PROVE Kept
      BY <1>1, <2>2, InviteChanges
  <2> QED
      BY <1>1, <2>1, <2>2 DEF Next, Tick, Call, SessionCall, InviteCall, CodeCall, CallCreate,
             CallRevoke, CallAccept, tables, vars
<1> QED
    BY <1>1, AccountsInvHolds, PTL DEF Spec, HistoryPreserved

\* A request sets no password but its own, and a reset by link that does has its link.
LEMMA PasswordChanges ==
    ASSUME AccountsInv, NEW p \in Requests, Serve(p), NEW q \in Requests, NEW u \in Users,
           Op(q) = "confirmLink", account[u].password # q, account'[u].password = q
    PROVE  code[call[q].row].state = "LIVE" /\ code'[call[q].row].state = "SPENT"
<1> Mine(p) /\ account \in [Users -> AccountRow] /\ q # Null
    BY SessionsAssumption DEF AccountsInv, RowTypes
<1>1. CASE CreateUser(p)
  <2>1. account'[u].password \in {account[u].password, p}
      BY <1>1 DEF CreateUser, NoAccount
  <2>2. Op(p) # "confirmLink"
      BY <1>1 DEF CreateUser, At, Mine, CodeClaims
  <2> QED
      BY <2>1, <2>2
<1>2. CASE CommitReset(p)
  <2>1. account'[u].password \in {account[u].password, p}
      BY <1>2 DEF CommitReset
  <2>2. p = q
      BY <2>1
  <2>3. call[q].row \in Codes /\ CodeId(call[q].row) \in held[q] /\ code[call[q].row].state = "LIVE"
      BY <1>2, <2>2 DEF CommitReset, Mine, CodeClaims, At, Late
  <2>4. code[call[q].row] \in CodeRow
      BY <2>3 DEF AccountsInv, RowTypes
  <2>5. code'[call[q].row].state = "SPENT"
      BY <1>2, <2>2, <2>3, <2>4 DEF CommitReset, Written, CodeId, CodeRow
  <2> QED
      BY <2>3, <2>5
<1>3. CASE CommitGoogle(p)
  <2>1. account'[u].password \in {account[u].password, Null}
      BY <1>3 DEF CommitGoogle
  <2> QED
      BY <2>1
<1>4. CASE CommitAccept(p) \/ CommitVerification(p)
  <2>1. account'[u].password = account[u].password
      BY <1>4 DEF CommitAccept, CommitVerification, AccountRow
  <2> QED
      BY <2>1
<1>5. CASE UNCHANGED account
    BY <1>5
<1>6. CASE SessionStep(p)
    BY <1>5, <1>6 DEF SessionStep, UpdateUser, RevokeSessions, Authenticate, IssueLogin, Logout,
           RotateToken, CommitRefresh
<1>7. CASE InviteStep(p)
    BY <1>4, <1>5, <1>7 DEF InviteStep, DeletePending, InsertInvite, RevokeInvite, ReadInvite,
           ClaimInvite
<1>8. CASE CodeStep(p)
    BY <1>1, <1>2, <1>3, <1>4, <1>5, <1>8 DEF CodeStep, FindForRequest, RetireCodes, InsertCode,
           FindForCode, FindCode, CountAttempt, ConsumeCodes, FindLink, ClaimLink, FindIdentity,
           FindGoogleUser, DeleteLinks, DeleteCodes, InsertGoogle
<1> QED
    BY <1>5, <1>6, <1>7, <1>8 DEF Serve, tables

\* Two resets with one link do not both set a password: the one that does has locked the
\* link while it was unused, and uses it.
THEOREM LinksUsedOnce == Spec => LinkUsedOnce
<1> DEFINE Used == \A q \in Requests, u \in Users :
                       Op(q) = "confirmLink" /\ account[u].password # q /\ account'[u].password = q =>
                           code[call[q].row].state = "LIVE" /\ code'[call[q].row].state = "SPENT"
<1>1. ASSUME AccountsInv, [Next]_vars PROVE [Used]_<<sessionVars, codeVars>>
  <2>1. CASE UNCHANGED account
      BY <2>1
  <2>2. ASSUME NEW p \in Requests, Serve(p) PROVE Used
      BY <1>1, <2>2, PasswordChanges
  <2>3. ASSUME NEW p \in Requests, Call(p) PROVE UNCHANGED account
      BY <2>3 DEF Call, SessionCall, InviteCall, CodeCall, CallLogin, CallWithToken, CallCreate,
             CallRevoke, CallAccept, CallForEmail, CallWithCode, CallWithLink, CallGoogle, Arrive
  <2> QED
      BY <1>1, <2>1, <2>2, <2>3 DEF Next, Tick, tables, vars
<1> QED
    BY <1>1, AccountsInvHolds, PTL DEF Spec, LinkUsedOnce

=============================================================================
