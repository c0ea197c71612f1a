----------------------------- MODULE StaffInvites -----------------------------
(***************************************************************************)
(* Staff invites and the role an invite gives: createInvite, revokeInvite  *)
(* and claimInvite of TeamsService, acceptStaffInvite of AuthService.      *)
(***************************************************************************)
EXTENDS Sessions

CONSTANTS
    SentInvites,  \* ids of the invites of earlier requests
    InviteTtl     \* INVITE_TTL_MS

\* A request creates at most one invite, which has its number.
Invites == SentInvites \cup Requests

\* An acceptedAt or revokedAt of 0 is null.
InviteRow ==
    [state : {"ABSENT", "ROW", "DELETED"}, email : Users \cup {Null},
     role : Roles \cup {Null}, expiresAt : Nat, acceptedAt : Nat, revokedAt : Nat]

NoInvite ==
    [state |-> "ABSENT", email |-> Null, role |-> Null,
     expiresAt |-> 0, acceptedAt |-> 0, revokedAt |-> 0]

ASSUME InvitesAssumption ==
    /\ InviteTtl \in Nat \ {0}
    /\ SentInvites \cap (Requests \cup {Null}) = {}
    /\ \A start \in Starts :
          /\ start.invites \in [SentInvites -> InviteRow]
          /\ \A i \in SentInvites : LET row == start.invites[i] IN
                /\ row.state # "ABSENT" => row.email # Null /\ row.role # Null
                /\ row.acceptedAt = 0

VARIABLE invite    \* rows of the StaffInvite table

InvitesInit(start) ==
    invite = [i \in Invites |-> IF i \in SentInvites THEN start.invites[i] ELSE NoInvite]

Open(i) == invite[i].state = "ROW" /\ invite[i].acceptedAt = 0 /\ invite[i].revokedAt = 0

Pending(i, now) == Open(i) /\ invite[i].expiresAt >= now

Rows(invites) == {<<"invite", i>> : i \in invites}

Stored(i) == invite[i].state = "ROW"

-----------------------------------------------------------------------------
(***************************************************************************)
(* createInvite: one transaction that deletes the pending invites of the   *)
(* address and inserts the new one.                                        *)
(***************************************************************************)
CallCreate(q) ==
    /\ \E u \in Users, given \in Roles : Arrive(q, "createInvite", u, Null, given)
    /\ UNCHANGED invite

\* Mutant: the rows are deleted whatever has become of them.
Replaced_Any(u, now) == {i \in Invites : Stored(i) /\ invite[i].email = u}

Replaced(u, now) == {i \in Invites : Pending(i, now) /\ invite[i].email = u}

DeletePending(q) ==
    /\ At(q, "createInvite")
    /\ Write(q, Rows(Replaced(call[q].user, call[q].now)), "pendingDeleted")
    /\ UNCHANGED <<account, session, invite>>

InsertInvite(q) ==
    /\ At(q, "pendingDeleted")
    /\ invite' = [i \in Invites |->
                     IF i = q
                     THEN [NoInvite EXCEPT !.state = "ROW", !.email = call[q].user,
                                           !.role = call[q].given,
                                           !.expiresAt = call[q].now + InviteTtl]
                     ELSE IF <<"invite", i>> \in held[q] THEN [invite[i] EXCEPT !.state = "DELETED"]
                     ELSE invite[i]]
    /\ Finish(q)
    /\ UNCHANGED <<account, session>>

-----------------------------------------------------------------------------
(***************************************************************************)
(* revokeInvite: a single conditional UPDATE.                              *)
(***************************************************************************)
CallRevoke(q) ==
    /\ \E i \in Invites : Stored(i) /\ Arrive(q, "revokeInvite", Null, i, Null)
    /\ UNCHANGED invite

RevokeInvite(q) ==
    LET i == call[q].row IN
    /\ At(q, "revokeInvite")
    /\ ~Blocked(q, Rows({i}))
    /\ invite' = IF Pending(i, call[q].now)
                 THEN [invite EXCEPT ![i].revokedAt = call[q].now] ELSE invite
    /\ Finish(q)
    /\ UNCHANGED <<account, session>>

-----------------------------------------------------------------------------
(***************************************************************************)
(* acceptStaffInvite: claimInvite, updateRole, the old sessions and a new  *)
(* one, in one transaction.                                                *)
(***************************************************************************)
\* The caller is signed in.
CallAccept(q) ==
    /\ \E u \in Users, i \in Invites :
           Stored(i) /\ account[u].verified /\ Arrive(q, "acceptInvite", u, i, Null)
    /\ UNCHANGED invite

\* claimInvite takes the time, reads the invite and checks it.
ReadInvite(q) ==
    LET i == call[q].row IN
    /\ At(q, "acceptInvite")
    /\ IF Pending(i, clock) /\ invite[i].email = call[q].user
       THEN /\ call' = [call EXCEPT ![q].now = clock, ![q].given = invite[i].role]
            /\ Goto(q, "inviteRead")
            /\ UNCHANGED <<clock, wanted, held>>
       ELSE Finish(q)
    /\ UNCHANGED <<account, session, invite>>

\* Mutant: only a second acceptance is refused.
Claimable_IfRevoked(i) == Stored(i) /\ invite[i].acceptedAt = 0

Claimable(i) == Open(i)

\* Mutant: the claim runs outside of the transaction.
ClaimInvite_Commits(q) ==
    LET i == call[q].row IN
    /\ At(q, "inviteRead")
    /\ ~Blocked(q, Rows({i}))
    /\ IF Claimable(i)
       THEN /\ invite' = [invite EXCEPT ![i].acceptedAt = call[q].now]
            /\ Continue(q, "claimed")
       ELSE Finish(q) /\ UNCHANGED invite
    /\ UNCHANGED <<account, session>>

\* The conditional UPDATE of the invite.
ClaimInvite(q) ==
    /\ At(q, "inviteRead")
    /\ Claim(q, Rows({i \in {call[q].row} : Claimable(i)}), "claimed")
    /\ UNCHANGED <<account, session, invite>>

\* issueTokens inserts the new token, and COMMIT.
CommitAccept(q) ==
    /\ At(q, "sessionsRevoked")
    /\ Op(q) = "acceptInvite"
    /\ invite' = [invite EXCEPT ![call[q].row].acceptedAt = call[q].now]
    /\ account' = [account EXCEPT ![call[q].user].role = call[q].given]
    /\ session' = Issued(q, Null)
    /\ Finish(q)

-----------------------------------------------------------------------------
InviteCall(q) == CallCreate(q) \/ CallRevoke(q) \/ CallAccept(q)

InviteStep(q) ==
    \/ DeletePending(q) \/ InsertInvite(q) \/ RevokeInvite(q)
    \/ ReadInvite(q) \/ ClaimInvite(q) \/ CommitAccept(q)

-----------------------------------------------------------------------------
(***************************************************************************)
(* Properties.                                                             *)
(***************************************************************************)
InvitesTypeOK == invite \in [Invites -> InviteRow]

\* However requests race, an invite is accepted or revoked, never both, and it is
\* accepted while it is valid.
SettledOneWay ==
    \A i \in Invites :
        invite[i].acceptedAt # 0 => /\ invite[i].revokedAt = 0
                                    /\ invite[i].acceptedAt <= invite[i].expiresAt

\* "Accepted / revoked / expired rows are untouched - history is preserved": what
\* was accepted or revoked stays as it is, however invites are replaced.
HistoryPreserved ==
    [][\A i \in Invites :
          invite[i].acceptedAt + invite[i].revokedAt > 0 => invite'[i] = invite[i]]_<<sessionVars, invite>>

\* A user's role is one an accepted invite gave, and an accepted invite has given
\* its role: acceptance and promotion happen together or not at all.
AcceptedIsPromoted ==
    \A u \in Users :
        LET accepted == {i \in Invites : invite[i].email = u /\ invite[i].acceptedAt # 0} IN
        IF accepted = {} THEN account[u].role = "USER"
        ELSE account[u].role \in {invite[i].role : i \in accepted}

\* "Replaces any pending invite for the same email."
OnePendingPerEmail ==
    \A u \in Users : Cardinality({i \in Invites : Pending(i, clock) /\ invite[i].email = u}) <= 1

=============================================================================
