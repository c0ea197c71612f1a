------------------------- MODULE PublicationLedger -------------------------
(***************************************************************************)
(* What the editorial workflow promises, without its drafts, statuses,     *)
(* submissions and recalls: the live catalogue changes only by publishing  *)
(* an approval, an approval names the content it replaces and the content  *)
(* it allows, somebody other than the author or an overriding ADMIN gave   *)
(* it, and it is spent at most once and only on the version it was given   *)
(* for.                                                                    *)
(***************************************************************************)
EXTENDS Naturals

CONSTANTS Careers, Ids, Staff, Contents, Blank, Seeded, SeedContent

VARIABLES
    live,     \* per career, its state, version and content
    granted,  \* approvals not spent yet
    spent     \* ids of the approvals that were published

ledger == <<live, granted, spent>>

Approval ==
    [id : Ids, career : Careers, base : Nat, before : Contents,
     after : Contents, author : Staff, approver : Staff, override : BOOLEAN]

LedgerInit ==
    /\ live = [c \in Careers |->
                  IF c \in Seeded
                  THEN [state |-> "PUBLISHED", version |-> 1, content |-> SeedContent]
                  ELSE [state |-> "ABSENT", version |-> 1, content |-> Blank]]
    /\ granted = {}
    /\ spent = {}

Add(c) ==
    /\ live[c].state = "ABSENT"
    /\ live' = [live EXCEPT ![c].state = "DRAFT"]
    /\ UNCHANGED <<granted, spent>>

\* Only a career that was never published can go, with its approvals.
Drop(c) ==
    /\ live[c].state = "DRAFT"
    /\ live' = [live EXCEPT ![c].state = "DELETED"]
    /\ granted' = {a \in granted : a.career # c}
    /\ UNCHANGED spent

Retire(c) ==
    /\ live[c].state = "PUBLISHED"
    /\ live' = [live EXCEPT ![c].state = "RETIRED"]
    /\ UNCHANGED <<granted, spent>>

Grant(id, c, after, author, approver, override) ==
    /\ live[c].state \notin {"ABSENT", "DELETED"}
    /\ id \notin spent
    /\ \A a \in granted : a.id # id
    /\ approver # author \/ override
    /\ granted' = granted \cup
                     {[id |-> id, career |-> c, base |-> live[c].version,
                       before |-> live[c].content, after |-> after,
                       author |-> author, approver |-> approver,
                       override |-> override]}
    /\ UNCHANGED <<live, spent>>

Publish(a) ==
    /\ a.base = live[a.career].version
    /\ a.before = live[a.career].content
    /\ live' = [live EXCEPT ![a.career] =
                   [state |-> "PUBLISHED", version |-> a.base + 1, content |-> a.after]]
    /\ granted' = granted \ {a}
    /\ spent' = spent \cup {a.id}

LedgerNext ==
    \/ \E c \in Careers : Add(c) \/ Drop(c) \/ Retire(c)
    \/ \E id \in Ids, c \in Careers, after \in Contents :
           \E author, approver \in Staff, override \in BOOLEAN :
               Grant(id, c, after, author, approver, override)
    \/ \E a \in granted : Publish(a)

LedgerSpec == LedgerInit /\ [][LedgerNext]_ledger

=============================================================================
