---------------------------- MODULE OneTimeCodes ----------------------------
(***************************************************************************)
(* Registration, the codes and links that prove an e-mail address, and     *)
(* sign-in with Google: register, verifyEmail, resendVerificationEmail,    *)
(* requestPasswordReset(Otp), confirmPasswordReset(Otp) and googleLogin of *)
(* AuthService.  An e-mail address stands for its user and for the Google  *)
(* account that has it.                                                    *)
(***************************************************************************)
EXTENDS Sessions

CONSTANTS
    SentCodes,    \* ids of the codes of earlier requests
    MaxAttempts,  \* OTP_MAX_ATTEMPTS
    CodeTtl       \* OTP_TTL_MINUTES, PASSWORD_RESET_TOKEN_TTL_MINUTES

\* A request sends at most one code, which has its number.
Codes == SentCodes \cup Requests

\* EmailVerificationOtp, PasswordResetOtp and PasswordResetToken.  A code is
\* SPENT when consumedAt, or usedAt, is set.
CodeRow ==
    [state : {"ABSENT", "LIVE", "SPENT", "DELETED"}, kind : {"verify", "otp", "link", Null},
     user : Users \cup {Null}, attempts : Nat, expiresAt : Nat]

NoCode == [state |-> "ABSENT", kind |-> Null, user |-> Null, attempts |-> 0, expiresAt |-> 0]

ASSUME CodesAssumption ==
    /\ MaxAttempts \in Nat
    /\ CodeTtl \in Nat \ {0}
    /\ SentCodes \cap (Requests \cup {Null}) = {}
    /\ Null \notin {"verify", "otp", "link"}
    /\ \A start \in Starts :
          /\ start.codes \in [SentCodes -> CodeRow]
          /\ \A c \in SentCodes : LET row == start.codes[c] IN
                /\ row.attempts <= MaxAttempts
                /\ IF row.state = "ABSENT" THEN row = NoCode
                   ELSE row.user \in Users /\ start.account[row.user].exists

VARIABLES
    code,      \* rows of the three tables of codes
    identity   \* whether an AuthIdentity row links the Google account to its user

codeVars == <<code, identity>>

CodesInit(start) ==
    /\ code = [c \in Codes |-> IF c \in SentCodes THEN start.codes[c] ELSE NoCode]
    /\ identity = [u \in Users |-> FALSE]

KindOf(op) ==
    CASE op \in {"register", "resendVerification", "verifyEmail"} -> "verify"
      [] op \in {"requestOtp", "confirmOtp"} -> "otp"
      [] op \in {"requestLink", "confirmLink"} -> "link"

CodeRows(codes) == {<<"code", c>> : c \in codes}

\* The codes of the user that are not consumed, expired ones as well.
Unspent(u, kind) ==
    {c \in Codes : code[c].state = "LIVE" /\ code[c].user = u /\ code[c].kind = kind}

-----------------------------------------------------------------------------
(***************************************************************************)
(* register, resendVerificationEmail and the two requests for a reset.     *)
(***************************************************************************)
CallForEmail(q) ==
    /\ \E u \in Users, op \in {"register", "resendVerification", "requestLink", "requestOtp"} :
           Arrive(q, op, u, Null, Null)
    /\ UNCHANGED codeVars

\* Requests whose user exists, for verification one who is not verified yet.
Admitted(q) ==
    LET user == account[call[q].user] IN
    /\ user.exists
    /\ Op(q) \in {"resendVerification", "verifyEmail"} => ~user.verified

\* findByEmail.
FindForRequest(q) ==
    /\ pc[q] \in {"register", "resendVerification", "requestLink", "requestOtp"}
    /\ IF Op(q) = "register"
       THEN IF account[call[q].user].exists THEN Finish(q) ELSE Continue(q, "addressFree")
       ELSE IF Admitted(q) THEN Continue(q, "issue") ELSE Finish(q)
    /\ UNCHANGED <<account, session, codeVars>>

\* UsersService.create, a transaction of its own; the unique index on the address
\* makes it wait for another one that inserts it.
CreateUser(q) ==
    LET u == call[q].user IN
    /\ At(q, "addressFree")
    /\ IF account[u].exists
       THEN Finish(q) /\ UNCHANGED account
       ELSE /\ ~Blocked(q, {UserRow(u)})
            /\ account' = [account EXCEPT ![u] = [NoAccount EXCEPT !.exists = TRUE, !.password = q]]
            /\ Continue(q, "issue")
    /\ UNCHANGED <<session, codeVars>>

\* Mutant: the old codes are taken back in a transaction of their own.
RetireCodes_Commits(q) ==
    LET kind == KindOf(Op(q)) IN
    /\ At(q, "issue")
    /\ code' = [c \in Codes |-> IF c \in Unspent(call[q].user, kind)
                                THEN [code[c] EXCEPT !.state = "SPENT"] ELSE code[c]]
    /\ Continue(q, "retired")
    /\ UNCHANGED <<account, session, identity>>

\* updateMany consumes the codes before, deleteMany deletes the links before.
RetireCodes(q) ==
    /\ At(q, "issue")
    /\ Write(q, CodeRows(Unspent(call[q].user, KindOf(Op(q)))), "retired")
    /\ UNCHANGED <<account, session, codeVars>>

\* The codes when q commits, those it has written in the given state.
Written(q, state) ==
    [c \in Codes |-> IF <<"code", c>> \in held[q] THEN [code[c] EXCEPT !.state = state]
                     ELSE code[c]]

InsertCode(q) ==
    LET kind == KindOf(Op(q)) IN
    /\ At(q, "retired")
    /\ code' = [Written(q, IF kind = "link" THEN "DELETED" ELSE "SPENT") EXCEPT
                   ![q] = [state |-> "LIVE", kind |-> kind, user |-> call[q].user,
                           attempts |-> 0, expiresAt |-> clock + CodeTtl]]
    /\ Finish(q)
    /\ UNCHANGED <<account, session, identity>>

-----------------------------------------------------------------------------
(***************************************************************************)
(* verifyEmail and confirmPasswordResetOtp.                                *)
(***************************************************************************)
\* With a code from an e-mail, or a wrong one.
CallWithCode(q) ==
    /\ \E u \in Users, op \in {"verifyEmail", "confirmOtp"}, given \in Codes \cup {Null} :
           /\ given # Null => code[given].user = u /\ code[given].kind = KindOf(op)
           /\ Arrive(q, op, u, Null, given)
    /\ UNCHANGED codeVars

\* findByEmail; then the code takes the time.
FindForCode(q) ==
    /\ pc[q] \in {"verifyEmail", "confirmOtp"}
    /\ IF Admitted(q)
       THEN /\ call' = [call EXCEPT ![q].now = clock]
            /\ Goto(q, "admitted")
            /\ UNCHANGED <<clock, wanted, held>>
       ELSE Finish(q)
    /\ UNCHANGED <<account, session, codeVars>>

\* findFirst takes the newest code that is neither consumed nor expired.
FindCode(q) ==
    LET usable == {c \in Unspent(call[q].user, KindOf(Op(q))) : code[c].expiresAt > call[q].now}
        newest == {c \in usable : \A d \in usable : code[d].expiresAt <= code[c].expiresAt} IN
    /\ At(q, "admitted")
    /\ \/ usable = {} /\ Finish(q)
       \/ \E c \in newest :
             /\ call' = [call EXCEPT ![q].row = c]
             /\ Goto(q, "codeFound")
             /\ UNCHANGED <<clock, wanted, held>>
    /\ UNCHANGED <<account, session, codeVars>>

\* Mutant: only the code is looked for.
Attemptable_NoCap(c) == {d \in {c} : code[d].state # "DELETED"}

\* The code, unless its attempts are used up; whether it is consumed is not asked.
Attemptable(c) == {d \in {c} : code[d].state # "DELETED" /\ code[d].attempts < MaxAttempts}

\* The conditional UPDATE that counts the attempt, which a wrong code commits.
CountAttempt(q) ==
    LET c == call[q].row
        rows == CodeRows(Attemptable(c)) IN
    /\ At(q, "codeFound")
    /\ IF Ready(q, rows) /\ Hit(q, rows) # {} /\ call[q].given # c
       THEN code' = [code EXCEPT ![c].attempts = code[c].attempts + 1] /\ Finish(q)
       ELSE Claim(q, rows, "counted") /\ UNCHANGED code
    /\ UNCHANGED <<account, session, identity>>

\* The right code consumes itself and the others of its user.
ConsumeCodes(q) ==
    /\ At(q, "counted")
    /\ Write(q, CodeRows(Unspent(call[q].user, KindOf(Op(q)))), "claimed")
    /\ UNCHANGED <<account, session, codeVars>>

CommitVerification(q) ==
    /\ At(q, "userUpdated")
    /\ Op(q) = "verifyEmail"
    /\ code' = [Written(q, "SPENT") EXCEPT ![call[q].row].attempts = @ + 1]
    /\ account' = [account EXCEPT ![call[q].user].verified = TRUE]
    /\ session' = Issued(q, Null)
    /\ Finish(q)
    /\ UNCHANGED identity

-----------------------------------------------------------------------------
(***************************************************************************)
(* confirmPasswordReset, and how either reset ends.                        *)
(***************************************************************************)
CallWithLink(q) ==
    /\ \E c \in Codes : code[c].kind = "link" /\ Arrive(q, "confirmLink", code[c].user, c, Null)
    /\ UNCHANGED codeVars

FindLink(q) ==
    LET c == call[q].row IN
    /\ At(q, "confirmLink")
    /\ IF code[c].state = "LIVE" /\ code[c].expiresAt > clock
       THEN Continue(q, "linkFound") ELSE Finish(q)
    /\ UNCHANGED <<account, session, codeVars>>

\* Mutant: the claim does not look at usedAt.
Usable_Any(c) == {d \in {c} : code[d].state # "DELETED"}

Usable(c) == {d \in {c} : code[d].state = "LIVE"}

\* The conditional UPDATE of the link.
ClaimLink(q) ==
    /\ At(q, "linkFound")
    /\ Claim(q, CodeRows(Usable(call[q].row)), "claimed")
    /\ UNCHANGED <<account, session, codeVars>>

\* The address is proven, too.
CommitReset(q) ==
    LET u == call[q].user
        c == call[q].row IN
    /\ At(q, "sessionsRevoked")
    /\ Op(q) \in {"confirmOtp", "confirmLink"}
    /\ code' = [Written(q, "SPENT") EXCEPT ![c].attempts = IF Op(q) = "confirmOtp" THEN @ + 1 ELSE @]
    /\ account' = [account EXCEPT ![u].password = q, ![u].verified = TRUE]
    /\ session' = Revoked(q)
    /\ Finish(q)
    /\ UNCHANGED identity

-----------------------------------------------------------------------------
(***************************************************************************)
(* googleLogin: one transaction.                                           *)
(***************************************************************************)
IdentityRow(u) == <<"identity", u>>

CallGoogle(q) ==
    /\ \E u \in Users : Arrive(q, "googleLogin", u, Null, Null)
    /\ UNCHANGED codeVars

FindIdentity(q) ==
    /\ At(q, "googleLogin")
    /\ Continue(q, IF identity[call[q].user] THEN "linked" ELSE "unlinked")
    /\ UNCHANGED <<account, session, codeVars>>

\* An unverified user is taken over; a verified one is linked as it is.
FindGoogleUser(q) ==
    LET user == account[call[q].user] IN
    /\ At(q, "unlinked")
    /\ Continue(q, CASE ~user.exists -> "newAccount"
                     [] user.exists /\ ~user.verified -> "claimed"
                     [] OTHER -> "taken")
    /\ UNCHANGED <<account, session, codeVars>>

\* deleteMany of the unused reset links, then of the unconsumed verification codes.
DeleteLinks(q) ==
    /\ At(q, "sessionsRevoked")
    /\ Op(q) = "googleLogin"
    /\ Write(q, CodeRows(Unspent(call[q].user, "link")), "linksDeleted")
    /\ UNCHANGED <<account, session, codeVars>>

DeleteCodes(q) ==
    /\ At(q, "linksDeleted")
    /\ Write(q, CodeRows(Unspent(call[q].user, "verify")), "taken")
    /\ UNCHANGED <<account, session, codeVars>>

\* INSERT under the unique indexes on the address and on the Google account.
InsertGoogle(q) ==
    LET u == call[q].user
        rows == IF At(q, "newAccount") THEN {UserRow(u), IdentityRow(u)} ELSE {IdentityRow(u)} IN
    /\ pc[q] \in {"newAccount", "taken"}
    /\ IF identity[u] \/ (At(q, "newAccount") /\ account[u].exists)
       THEN Finish(q)
       ELSE Claim(q, rows, "linked")
    /\ UNCHANGED <<account, session, codeVars>>

\* issueTokens, and COMMIT.  The row of the user is written unless it was verified.
CommitGoogle(q) ==
    LET u == call[q].user IN
    /\ At(q, "linked")
    /\ account' = IF UserRow(u) \in held[q]
                  THEN [account EXCEPT ![u].exists = TRUE, ![u].verified = TRUE, ![u].password = Null]
                  ELSE account
    /\ code' = Written(q, "DELETED")
    /\ identity' = [identity EXCEPT ![u] = TRUE]
    /\ session' = Issued(q, Null)
    /\ Finish(q)

-----------------------------------------------------------------------------
CodeCall(q) == CallForEmail(q) \/ CallWithCode(q) \/ CallWithLink(q) \/ CallGoogle(q)

CodeStep(q) ==
    \/ FindForRequest(q) \/ CreateUser(q) \/ RetireCodes(q) \/ InsertCode(q)
    \/ FindForCode(q) \/ FindCode(q) \/ CountAttempt(q) \/ ConsumeCodes(q)
    \/ CommitVerification(q) \/ FindLink(q) \/ ClaimLink(q) \/ CommitReset(q)
    \/ FindIdentity(q) \/ FindGoogleUser(q) \/ DeleteLinks(q) \/ DeleteCodes(q)
    \/ InsertGoogle(q) \/ CommitGoogle(q)

-----------------------------------------------------------------------------
(***************************************************************************)
(* Properties.                                                             *)
(***************************************************************************)
CodesTypeOK ==
    /\ code \in [Codes -> CodeRow]
    /\ identity \in [Users -> BOOLEAN]

\* "One conditional update, so concurrent guesses can't pass the cap".
AttemptsCapped == \A c \in Codes : code[c].attempts <= MaxAttempts

\* "Guard against two concurrent requests using the same token": a reset by link
\* commits only while its link is still unused, and uses it.
LinkUsedOnce ==
    [][\A q \in Requests, u \in Users :
          Op(q) = "confirmLink" /\ account[u].password # q /\ account'[u].password = q =>
              code[call[q].row].state = "LIVE" /\ code'[call[q].row].state = "SPENT"
      ]_<<sessionVars, codeVars>>

\* A code that was sent is not lost: it stops being live only when another one of its
\* kind is sent, or when it or another proof has served its purpose, in the same
\* transaction.
CodesReplacedOrUsed ==
    [][\A c \in Codes :
          code[c].state = "LIVE" /\ code'[c].state # "LIVE" =>
              LET u == code[c].user IN
              \/ \E d \in Codes : /\ code[d].state = "ABSENT"
                                  /\ code'[d].state = "LIVE"
                                  /\ code'[d].kind = code[c].kind
                                  /\ code'[d].user = u
              \/ code[c].kind = "verify" /\ account'[u].verified
              \/ account'[u].password # account[u].password
              \/ ~identity[u] /\ identity'[u]
      ]_<<sessionVars, codeVars>>

\* "all existing sessions are revoked": when a reset commits, the sessions its user has.
ResetEndsSessions ==
    [][\A q \in Requests, t \in Tokens :
          /\ At(q, "sessionsRevoked") /\ Op(q) \in {"confirmOtp", "confirmLink"}
          /\ account' # account
          /\ Live(t) /\ session[t].user = call[q].user
          => session'[t].state = "REVOKED"
      ]_<<sessionVars, codeVars>>

=============================================================================
