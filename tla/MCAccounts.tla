----------------------------- MODULE MCAccounts -----------------------------
(* One user and up to three concurrent requests. *)
EXTENDS Accounts, TLC

CONSTANTS ann, j1, j2, v0, r0, l0

Verified == [exists |-> TRUE, verified |-> TRUE, password |-> ann, role |-> "USER"]

Unverified == [Verified EXCEPT !.verified = FALSE]

\* Sent before time 1, when it expires.
Sent(given) == [NoInvite EXCEPT !.state = "ROW", !.email = ann, !.role = given, !.expiresAt = 1]

\* A pending invite, or two that were created at the same time.
Inbox(second) == (j1 :> Sent("EDITOR")) @@ (j2 :> second)

\* Codes sent at time 1, with one attempt left.
Mailed(kinds) ==
    [c \in SentCodes |->
        LET kind == (v0 :> "verify" @@ r0 :> "otp" @@ l0 :> "link")[c] IN
        IF kind \in kinds
        THEN [state |-> "LIVE", kind |-> kind, user |-> ann, attempts |-> 0, expiresAt |-> 2]
        ELSE NoCode]

Start(row, second, codes, load) ==
    [account |-> (ann :> row), invites |-> second, codes |-> Mailed(codes), load |-> load]

NoInvites == (j1 :> NoInvite) @@ (j2 :> NoInvite)

\* Any three of the given operations, in one of their orders.
Loads(ops) ==
    {[q \in Requests |-> ops[nth[q]]] :
        nth \in {n \in [Requests -> DOMAIN ops] : \A p, q \in Requests : p < q => n[p] <= n[q]}}

\* On invites, one pending or two, and the sessions of a verified user.
InviteStarts ==
    {Start(Verified, Inbox(second), {}, load) :
        second \in {NoInvite, Sent("ADMIN")},
        load \in Loads(<<"createInvite", "revokeInvite", "acceptInvite",
                         "adminLogin", "refresh", "logout">>)}

\* On the codes of a user to be, of one whose address is not verified yet, and of a
\* verified one who is signed in and invited.
CodeStarts ==
    {Start(NoAccount, NoInvites, {}, load) :
        load \in Loads(<<"register", "verifyEmail", "resendVerification", "requestOtp",
                             "googleLogin", "login">>)}
    \cup {Start(Unverified, NoInvites, {"verify", "otp", "link"}, load) :
            load \in Loads(<<"resendVerification", "verifyEmail", "requestLink", "confirmLink",
                             "confirmOtp", "googleLogin">>)}
    \cup {Start(Verified, Inbox(NoInvite), {"otp", "link"}, load) :
            load \in Loads(<<"acceptInvite", "confirmLink", "confirmOtp", "googleLogin",
                             "login", "refresh">>)}

\* A reset and a refresh.
ResetStarts == {Start(Verified, NoInvites, {"link"}, <<"confirmLink", "refresh", Null>>)}

\* Two invitations of an invited user.
TwoInvites == {Start(Verified, Inbox(NoInvite), {}, <<"createInvite", "createInvite", Null>>)}

MCStarts == InviteStarts \cup CodeStarts

=============================================================================
