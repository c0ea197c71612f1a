------------------------------ MODULE Accounts ------------------------------
(***************************************************************************)
(* Staff invites, one-time codes and sessions together: the requests of    *)
(* all of them meet on the row and on the tokens of a user.                *)
(***************************************************************************)
EXTENDS StaffInvites, OneTimeCodes

tables == <<account, session, invite, codeVars>>
vars == <<flow, tables>>

Init == \E start \in Starts : SessionsInit(start) /\ InvitesInit(start) /\ CodesInit(start)

Call(q) ==
    \/ SessionCall(q) /\ UNCHANGED <<invite, codeVars>>
    \/ InviteCall(q) /\ UNCHANGED codeVars
    \/ CodeCall(q) /\ UNCHANGED invite

\* The next statement of a request, or the end of a deadlock it is part of.
Serve(q) ==
    \/ SessionStep(q) /\ UNCHANGED <<invite, codeVars>>
    \/ InviteStep(q) /\ UNCHANGED codeVars
    \/ CodeStep(q) /\ UNCHANGED invite
    \/ BreakDeadlock(q) /\ UNCHANGED tables

Next ==
    \/ Tick /\ UNCHANGED <<invite, codeVars>>
    \/ \E q \in Requests : Call(q) \/ Serve(q) \/ (Abort(q) /\ UNCHANGED tables)

\* The service finishes what it was asked, and the database ends deadlocks.
Spec == Init /\ [][Next]_vars /\ \A q \in Requests : WF_vars(Serve(q))

\* The rows have their types, a row is locked by one running request.
TypeOK == SessionsTypeOK /\ InvitesTypeOK /\ CodesTypeOK

=============================================================================
