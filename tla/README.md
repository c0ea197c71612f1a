# Pathway backend: specification and verification

Pathway is a NestJS service on PostgreSQL (Prisma). Staff edit a catalogue of careers
through reviewed revisions; learners pick a career, follow the steps of its pathway and
record what they complete. The modules here model the parts of the service where several
requests meet in the database, check them with TLC on small instances and prove the most
important facts about the editorial workflow, publications, the learners' pathways, and
invites, sessions and codes, for every value of the constants, with TLAPS.

Paths below are relative to the repository; code lives in `src/`, the schema in `prisma/`.

## Inventory

### Editorial workflow
`catalog/content-revisions/content-revisions.service.ts`, `revision.rules.ts`,
`admin-revisions.controller.ts`, `catalog/careers/careers.service.ts`

- **State**: `Career` (status, version, published content, publishedAt, who published and
  reviewed), `ContentRevision` (status, base version, snapshot, creator), `Review`.
- **Operations**: create, delete and retire a career; save, submit, rebase, recall, review,
  publish and delete a revision. The routes carry a minimum role.
- **Interactions**: each operation is a request of one staff member. Publishing rewrites the
  rows learners read and refer to; deletes cascade; foreign keys and a partial unique index
  (one open revision per career) bind the tables.
- **Hard**: two staff members on one career; a revision based on an old version; content
  that changes between approval and publication; learners who make progress meanwhile.
- **Correct when**: only reviewed content goes live, on the content it was reviewed against;
  decisions are final; each version is published once; nobody's progress is lost; a career
  with history is not deleted.

### Drafts, plans and publishing a snapshot
`career-snapshot.consistency.ts` and `career-snapshot.plan.ts` of content-revisions,
`saveDraftRevision` and `applyPlan` of `content-revisions.service.ts`

- **State**: the draft of a revision; steps with unique orders, their skills and
  resources, resources shared between careers, outlook rows; the plan is a list of
  operations per section.
- **Operations**: `findSnapshotProblems` (refuses a draft that contradicts itself),
  `buildPlan` (differences, blockers and counts), `groupOperations` (what the reviewer is
  shown), `applyPlan` (about one statement per difference, in a fixed order of sections, in
  the publishing transaction).
- **Interactions**: publications of other careers link, unlink and delete the same `Resource` rows,
  take the slug or the title this one wants, and hold no lock this one waits for, except on rows
  that both write.
- **Hard**: moving steps under a unique index, temporary ids, shared rows, rows the database
  no longer has, failure half way.
- **Correct when**: what is committed is what the snapshot says, and what the reviewer is shown is
  what is committed; whether a statement is refused does not depend on row order; rows other
  careers use survive.

### Learner pathways and step progress
`catalog/pathways/pathways.service.ts`, `catalog/pathway-steps/pathway-steps.service.ts`

- **State**: `UserPathway` (saved, active, starting step), `UserPathwayStep` (status).
- **Operations**: `setActivePathway` (a transaction that locks the `User` row),
  `setStartingPoint` and `setStepStatus` (separate statements, no transaction), each followed
  by the reads of the view it answers with; `getActivePathway` and `getSavedPathways`, the views
  alone: percentage, current and next step.
- **Interactions**: references to careers and steps that staff retire and delete; analytics
  events for real changes of a step.
- **Hard**: double clicks and two tabs; rows that vanish between the check and the write; a
  view put together from several reads.
- **Correct when**: at most one pathway is active and a switch never leaves none; references
  stay valid; a change is reported exactly once; a view never leaves a learner without a next
  step short of 100 %.

### Staff invites
`teams/teams.service.ts`, `acceptStaffInvite` of `auth/auth.service.ts`

- **State**: `StaffInvite` (accepted, revoked, expiry), `User.role`.
- **Operations**: create (replaces a pending one), revoke, accept (claims the invite, changes
  the role, replaces the sessions; one transaction).
- **Hard**: concurrent creates, an acceptance against a revocation, a replacement, the expiry
  or another acceptance. Correct when an invite is used at most once, by its addressee, while
  it is valid, and acceptance and role change together.

### Sessions, registration, one-time codes
`auth/auth.service.ts`, `users/users.service.ts`

- **State**: `User`, `AuthIdentity`, `RefreshToken`, `EmailVerificationOtp`,
  `PasswordResetOtp`, `PasswordResetToken`.
- **Operations**: register, verify, resend, login, refresh (rotation), logout, Google login,
  password reset by link and by code.
- **Interactions**: all of them meet, with the acceptance of invites, on the row of the user
  and on its refresh tokens, which they lock in different orders.
- **Hard**: concurrent attempts under a cap, codes replaced while in use, rotation retried
  after a lost answer, deadlocks, a connection lost between the insert of a user and of the
  first code.
- **Correct when**: only proven addresses sign in, a refresh token or a link is used once, a
  change of password or role ends the session the user had before the requests, no code is lost
  without a replacement.

### The rest
- **Opportunities** (list, save, unsave) and **content feedback** (submit, list, set status):
  single statements on one learner's own rows, which no rule relates to another row.
- **Catalogue reads** (careers, fields, skills, reference options): queries without state.
- **Seeding** (`prisma/seed*.ts`): provides the first careers; its refresh mode, refused in
  production, overwrites them.
- **Notifications, analytics**: I/O. **Platform** (configuration, health, logging, filters,
  throttling, API documentation): no state that the properties mention.

`PROJECT.json` lists all components with their status, the hazards with their line in the
code, and for each definition the lines it models.

## Modules

| Module | What it is |
| --- | --- |
| `Revisions` | the editorial workflow; each operation is one atomic action |
| `PublicationLedger` | abstract: approvals are granted and spent, the live catalogue changes by nothing else |
| `RevisionsLedger` | the refinement mapping from `Revisions` to `PublicationLedger` |
| `RevisionsClaims` | a statement of the API documentation about what staff can do next |
| `RevisionsProofs` | theorems about `Revisions` |
| `RevisionsLedgerProofs` | the theorem that `Revisions` implements `PublicationLedger` |
| `RevisionTx` | the same operations as transactions: statements, row locks, roll-backs |
| `RevisionTxProofs` | theorems about `RevisionTx` |
| `Snapshots` | drafts, their problems, `buildPlan` and what the reviewer is shown, as operators |
| `ApplyPlan` | a draft saved, then `applyPlan`, one statement at a time, beside other careers' publications |
| `ApplyPlanProofs` | theorems about `ApplyPlan` |
| `ApplyPlanDiffProofs` | the theorem that the entries the reviewer is shown are those of what a publication changes |
| `Progress` | percentages, current and next step of a pathway, as operators |
| `LearnerPathways` | the learner's requests, one statement at a time, against staff changes |
| `LearnerPathwaysProofs` | theorems about `LearnerPathways` and `Progress` |
| `Sessions` | users, refresh tokens, login, refresh and logout; requests, row locks and deadlocks for the next two |
| `StaffInvites` | invites and the roles they give, one statement at a time |
| `OneTimeCodes` | registration, verification and reset codes, reset links, Google sign-in, one statement at a time |
| `Accounts` | the composition of `Sessions`, `StaffInvites` and `OneTimeCodes` |
| `AccountsProofs` | theorems about `Accounts` and its parts: rows, locks, and what requests claim |
| `AccountsUsersProofs` | theorems about `Accounts` that relate these to the users they belong to |
| `MC...` | instances for TLC |

`RevisionTx` EXTENDS `Revisions`: it uses its tables and its guards, and its property
`Serializes` says that its steps are steps of `Revisions`. `ApplyPlan` EXTENDS `Snapshots` and
opens up what `PublishRevision` does in one step. `LearnerPathways` EXTENDS `Progress` and
opens up what `SetActivePathway` and `SetStepStatus` of `Revisions` do in one step.
`StaffInvites` and `OneTimeCodes` EXTEND `Sessions` and add their tables and requests;
`Accounts` EXTENDS both and runs the requests of all three against each other. The staff of
the workflow are those the invites make, and read their role from an access token.

### `Revisions`
`career`, `revision` and `review` are the tables, restricted to the columns the rules read.
A snapshot and the live content are members of `Contents`: what matters about a content is
which steps it has and whether it is complete (required fields, a skill, a step). `saved` and
`completed` say of the learners' tables what the workflow asks: is the career saved by
somebody, is a step completed by somebody. `ABSENT` and `DELETED` stand for rows not yet or
no longer there, because ids are not reused. A refused call is a step that is not taken, as
it writes nothing. `asAdmin`, `live` and `snapshot` of a review are history for the
properties: no action reads them.

The guards are, clause by clause, the early returns of the service; the role of an actor is
the one in the access token (`AtLeast` is the roles guard with the route's minimum role). As
in the code, a plan's blockers stop a submission and a publication but not an approval, and
staleness stops an approval and a publication but not a submission.

No code in `src/` inserts a second revision of a career: `createCareer` inserts the first,
and `saveDraftRevision` only updates. The schema allows more, and the e2e tests insert them
directly, so the action `OpenRevision` (marked external) opens one under the partial unique
index.

### `RevisionTx`
A request peeks at its revision, locks the career, locks the revision, for submissions and
publications reads what the plan needs, and commits or returns a failure. `read` holds the
columns it has seen, and the guards of the commit use `read`, never the table; the writes go
to the table as it is. PostgreSQL runs at READ COMMITTED, so nobody sees a transaction's
writes before its commit and they form one step. Single statements (the conditional deletes,
the creation of a career) are atomic but wait for the row locks they need. `recallRevision`
does not look at whether its SELECT of the career found a row, and the model goes on
likewise. `Abort` rolls a transaction back wherever it stands: Prisma ends interactive
transactions that take too long, and connections break.

### `Snapshots` and `ApplyPlan`
A draft lists rows as the editor sends them. `FindSnapshotProblems` refuses one in which a row,
an order or a link is there twice, a step links a temporary resource the draft does not have,
or steps have no pathway; what is saved is a `Snapshot`, with its rows by id as `planById`
takes them. `BuildPlan` finds the operations of every section, each a triple of section, kind
and row, and `Blockers` the reasons to refuse it. Texts, numbers and dates of a row that no rule
tells apart are one `text`. What a constraint is about is kept beside it: the slug, the title and
the field of a career (its text is complete or not), the source of an outlook row, the date of a
resource's last check, which `planResources` does not compare either.

`GroupOperations` is what the reviewer is shown. As in the formatter, an entry for an update has
the field and the values before and after and no id of its row (only a resource, which is shown
whole, has one among its values), and an entry for a link of a step has what is linked and not the
step. `Counted` says how often each entry is pushed; the order of the lists, titles and labels are
left out.

`SaveDraft` validates the draft, `StartApplying` is the publication after its checks, and from
then on each action is one statement of `applyPlan`: `Stages` gives the order of the sections,
and within a section any operation may be next (so `updateMany`, which moves rows in an order of its
own, is covered). A write is refused, and rolls everything back, when two steps would have one
order; when another career has the slug, the title or the id of an outlook row (`taken`); when
the field, the source, the skill or the resource does not exist; and when a value does not fit its
column: an order beyond `MaxOrder`, or one of `Refused`, such as the date "2026-10-01", which the DTO
accepts and Prisma's DateTime does not. `Interrupt` ends the transaction for reasons of its own: it
takes longer than the five seconds Prisma gives it, loses the connection or a deadlock. The count of
a resource's links and its DELETE are two statements; `doomed` is the resource between them.

Publications of other careers are steps of the same code between any two statements. `others`
are the resources other careers link, `joining` those a publication of another career has linked
and not committed: it may link, commit, roll back and unlink `contended` resources, and with the
last link delete one (`OtherDeletes`; `gone`). Its uncommitted link is not counted, but the DELETE
waits for it. It may also take and give back the `rivalled` slugs, titles and outlook ids, unless
this publication has or had them: an index entry stays locked until its transaction ends. Left out
are texts that another publication gives a shared resource, and a DELETE of another publication that
counted before this career last published: this career would have to be rebased, submitted, approved
and published within the five seconds that the other transaction may take. Nothing in `src/`
deletes skills, fields or sources.

### `Progress` and `LearnerPathways`
Each request is a sequence of statements; between any two, other requests and staff act.
`setActivePathway` locks the learner's row, reads which pathways are active, deactivates them,
upserts its own and commits; `setStartingPoint` and `setStepStatus` check and then write,
without a transaction. All three, and the two GET routes for pathways, go on to answer with a view. Prisma
reads a pathway, its steps and the learner's statuses with several queries, which see the
database at different times: `LiveSteps` and `ReadSteps`, `ReadStatuses` are those reads, in
either order where the code has two queries, and `AnswerView` computes the progress from what
was read. `Progress` says what is computed: `Percentages` is a set, because the quotient in
floating point may round a half either way.

Staff publish in one step here (their transaction commits at once): they add and remove steps
and retire careers. Deleting a step deletes the status rows (CASCADE) and clears starting
points (SET NULL); the foreign key refuses a starting point or a status for a step that is
gone. The order of a step is a constant: publications that move steps are left out.
`captured` counts the analytics events.

### `Sessions`, `StaffInvites`, `OneTimeCodes` and `Accounts`
The tables are `account`, `session`, `invite`, `code` (three tables, told apart by `kind`)
and `identity`. A request is numbered, and the token it issues, the password it sets and the
code it sends bear its number: which of them an answer carries is all that matters about
them. `wanted` and `held` are the rows a request waits for and has locked.

At READ COMMITTED an UPDATE or a DELETE chooses its rows when it starts, waits for their locks
and looks at each row again (`Wait`, `Hit`, `Ready`). In between, other requests may insert rows the
statement will not see and settle rows it has chosen. `Write` does not mind how many rows
are left, `Claim` gives up when there is none, as the code does where it looks at `count`.
Writes take effect at COMMIT; nothing reads the transaction's own writes before that, except
`InsertGoogle`'s unique indexes, which its own rows do not meet. A statement locks
all its rows at once: that two statements deadlock half way through the same set of rows is
covered by `Abort`, which rolls a transaction back wherever it stands (timeouts, lost
connections, the process). Requests that wait in a ring do so until PostgreSQL ends
one of them (`BreakDeadlock`).

A request takes the time when the code evaluates `new Date()`: `createInvite` and
`revokeInvite` when they arrive, `claimInvite` when it reads, the codes after the user was
found. The user of a registration is inserted by a transaction of its own, so `Abort` may leave
a user without a code. The attempt of a wrong code commits; that of a right one commits
with what follows. Whoever knows a token, a link or an invite may call. E-mail addresses of
invites are those of verified users, since without one claims and logins are refused before
they write. `logout` of a cookie and a body token is one statement for each, and the
model's `Logout` is one of them.

## Runs

| Run | Instance | What it shows |
| --- | --- | --- |
| `editorial` | 2 careers (1 seeded), 2 revisions, a PUBLISHER and an ADMIN, 3 contents | type and safety properties of the workflow, and that it implements `PublicationLedger` |
| `transactions` | 1 career (published or not yet created), 2 revisions, 2 requests of any kind, deletes, creations, learners | transactions serialize to the atomic operations, see current values, never deadlock |
| `apply` | live rows and drafts of eleven families (below) | what is saved, shown, applied and refused |
| `learner_pathways` | 1 learner, 2 careers, 3 steps, 2 requests, staff | one active pathway, valid references, exact events, views that lead on, every call answered |
| `accounts` | 1 user in four states, every 3 requests of a family, time 1 to 2 | invites, tokens, links and codes are used once and in time, sessions end, every call answered |
| `progress_race` | as `transactions` | a learner's progress is lost to a publication that counted it too early |
| `stale_approval` | 1 career, 2 revisions | a stale approved revision cannot be rebased |
| `apply_refused` | as `apply` | an unblocked revision fails half way |
| `links_reflect` | as `apply` | a step that had left the pathway returns without its links |
| `linked_resources` | a publication that takes its last link back | a resource is deleted under the link another career has just made |
| `one_pending` | two invitations of an invited user | two concurrent invitations of an address leave two pending |
| `reset_ends_sessions` | a reset by link and a refresh | a session refreshed during a reset survives it |

The first five pass; the other seven end in a counterexample, each to a sentence that the
repository says about itself and that `PROJECT.json` quotes under "findings".

### Properties
- `Revisions`: `TypeOK` (with the foreign keys); `DecisionIsFinal`; `ApprovalCoversPublication`
  (an approved snapshot is the one reviewed, on the content it was reviewed against unless
  stale); `FourEyes`; `EachVersionOnce` (no lost update); `ReviewedPublication`;
  `FrozenUnderReview`; `RetiredChangesByAdmin`; `HistoryKept`; `KeepsLedger`.
- `RevisionTx`: `TxTypeOK` (with the lock order); `ReadsStayCurrent` (what a transaction has
  read is true until it ends); `Serializes`; `EveryCallAnswered`. `Serializes` exempts one
  case, named `Overtaken`: a learner completes a step between the count of progress and the
  commit. Learners take no lock on the career, so this case is real: `progress_race` shows that
  it violates `ProgressSurvivesPublish`. Nothing is claimed of progress in the atomic workflow, where
  the count and the delete are one step.
- `ApplyPlan`: `ConstraintsHold` at every statement (unique orders, slugs, titles and outlook ids,
  the foreign keys, and values that fit); `AppliedMatchesSnapshot`;
  `ProductRulesHold` (a committed career has skills, steps and its required fields, and no
  step that learners completed is gone); `FailsOnConflict` (a statement is refused exactly for
  the reasons `Conflict` names, as they stand when the publication ends, whatever the order of rows
  and the moves of other careers, unless orders reach the offset); `SharedResourcesSurvive`;
  `DiffShowsEveryChange` (the entries shown, counted, are those of what has changed; which
  step or row they are about they leave open, see below).
- `LearnerPathways`: `TypeOK` (references valid); `AtMostOneActive`; `NeverLeftWithout`;
  `CapturesRealChanges`; `NextStepLeadsOn` (a view shows a next step that is not completed, or
  100 %, even though it mixes reads of several moments); `EveryCallAnswered`.
- `Accounts`: `TypeOK` (a row is locked by one running request); `SettledOneWay` (an invite is
  accepted or revoked, never both, and accepted in time); `HistoryPreserved` (what is settled is
  neither changed nor deleted, whatever replaces it); `AcceptedIsPromoted` (acceptance and
  role go together); `RotatedOnce` (a refresh token has one successor); `EarlierSessionsEnd`
  (the session a user had before the requests does not outlive a change of password or role; of
  sessions the requests open, `reset_ends_sessions` shows that one may survive);
  `OnlyVerifiedSignedIn`; `AttemptsCapped`; `LinkUsedOnce`; `CodesReplacedOrUsed` (a code stops
  being usable only with the transaction that replaces or uses it); `EveryCallAnswered`
  (again and again nothing is left running, deadlocks included).

Every property of a passing run has a mutant in `PROJECT.json`: a plausible mistake in the
code, written next to the definition it changes, for which TLC refutes the property.

### Bounds, and why they are enough
- *Careers and revisions.* The rules relate a revision to its own career and compare two
  revisions of one career (base versions, the unique index); two of each let two revisions
  share a career or not. Versions are bounded by the number of revisions that can be published.
- *Staff.* Self-review, overriding and the retired-career rule need one caller without and
  one with the ADMIN role. `stale_approval` has three, so that a peer can review.
- *Contents.* Blank, one step, two steps: a step can be added, kept and removed.
- *Requests.* Two at a time: locks are per row and each request is made once, so any conflict
  is between two. The learner's requests start from a new learner, one with an active pathway
  and one with a second, saved one: what any number of earlier requests may leave.
  The first career starts with one step and may get a second one that comes before it.
- *Drafts.* `apply` takes each part of a career with the drafts that matter to it:
  `StepInputs` (up to three live steps and four in the snapshot, any distinct orders 1 to 3:
  every move, swap, rotation, creation, removal and resurrection), `OffsetInputs` (orders that
  reach `Offset`, 3 here and 10 000 in the code), `LinkInputs` (links of a kept, a new or a
  vanished step to own, shared, new and missing resources), `SkillInputs` (with a skill that does
  not exist), `OutlookInputs` (with a temporary id an earlier publication left, an id of another
  career, a source that does not exist and a number too large), `CareerInputs` (slug, title and
  field, taken or not there, and fields missing), `TextInputs` (no pathway, completed steps, dates
  that do not fit), `FaultyInputs` (each kind of inconsistency), `Contended` and `LinkedMeanwhile` (other
  careers link, unlink and delete a resource this publication unlinks, or links), and `Rivalled`
  (others take and give back its slug, title or outlook id). Sections meet only where
  steps link skills and resources, and those families have both.
- *Accounts.* One user, because every statement is about one address. Three requests, so that
  two can race while a third creates, replaces or signs in. Any three of one kind or of
  several, from four states of the user: a verified one with one or two pending invites
  (requests on invites and sessions), one to be registered, one not yet verified with a code
  of each kind, and a verified one who is signed in, invited and has reset codes. One attempt is
  left on every code, so that two guesses meet the cap. A time to live of 1 and a clock of 1
  to 2 let a code or an invite be valid or expired at each of its requests.
- No state constraint is used; all models are finite because ids are not reused and each
  request is made once.

`CHECK_DEADLOCK FALSE` everywhere: once ids are used up, each request was answered or a plan
is applied, the instance has nothing left to do. That no request waits for ever is checked
by `EveryCallAnswered` instead.

### Fairness
`RevisionTx`, `LearnerPathways` and `Accounts` assume weak fairness of each request's next
statement once the call has arrived: Node and PostgreSQL execute what they were sent, a lock
that was released is handed on, and (in `Accounts`, where requests lock in different orders)
PostgreSQL ends a ring of waiting transactions after `deadlock_timeout`. Nothing is assumed of clients,
staff or learners: calls need not arrive. Every request is made once, so a waiting one cannot
be overtaken for ever. The roll-back `Abort` is never forced. `Revisions` and `ApplyPlan`
assume no fairness.

## Proofs

`RevisionsProofs` proves, from the named assumptions on the constants
(`ActorsAssumption`, `ContentsAssumption`, `SeedAssumption`, `NullAssumption`):

- `TypeCorrect`: `TypeOK`, inductive as it stands, by cases on the actions. The foreign keys
  are what makes it more than typing: a deletion must take the referring rows along.
- `EditorialHolds`: the inductive invariant `Editorial`, the conjunction of `TypeOK`,
  `DecisionIsFinal`, `FourEyes`, `EachVersionOnce` and `ApprovalCoversPublication`. None of
  its parts is inductive alone: that an approval still covers what would be published needs
  the bound on base versions in `EachVersionOnce`, for only then does a publication make
  every other approval stale, and that a decision is final needs each review to have left
  its status on its revision.
- From it `DecisionsAreFinal`, `ReviewersAreOthers`, `ApprovalsCoverPublications`,
  `VersionsArePublishedOnce` follow, and the action property `PublicationsAreReviewed` (live content changes only by
  publishing what somebody else or an ADMIN approved against the content it replaces).
- `HistoryInvHolds`: `Editorial` and `Recorded`, what the tables tell of the past: every revision
  has an author, a published one has released its career, and only released careers are public,
  retired or saved by learners. `Recorded` is inductive only beside `ReleasesLast`, that a release
  is never taken back.
- From it the other action properties of the run follow: `HistoryIsKept`, `RevisionsAreFrozen` and
  `RetiredCareersRest`. So every property of `editorial` is a theorem.

Steps that neither decide nor publish are handled by one lemma (`QuietStepEditorial`), and
deletions by one (`DeletionEditorial`), so the proof splits where the argument does.

`RevisionsLedgerProofs` proves `WorkflowKeepsLedger`, the refinement: from the same assumptions,
every step of the workflow is a step of `PublicationLedger` under the mapping of
`RevisionsLedger`, or leaves it unchanged. The mapping needs `Recorded`: because a published
revision has released its career, dropping a career loses no spent approval. `GrantedFollows` says once how the set of granted
approvals follows the reviews, and each action is compared with its counterpart
(`CareerStepsOfLedger`, `ReviewStepOfLedger`, `PublishStepOfLedger`, `DraftStepsOfLedger`).

`RevisionTxProofs` proves, from the same assumptions and `TxAssumption` (which says of the first
tables that they are well typed and that their foreign keys name stored rows, and that careers
and revisions have different ids):

- `TxInvHolds`: the inductive invariant `TxInv`. Its parts are `TypeOK` of the tables; the types
  of what requests hold (`TxShapes`); and, for every request, `CallOK` (a running call is one its
  caller's role allows, and its revision keeps the career it was peeked with), `LocksOK` (which
  rows it has locked at each statement, and no others; a recall may go on without a career, but
  not past it) and `ReadsOK` (what it has read under its locks is what the rows hold).
- `RestKeeps` is the heart of the argument: a step that writes only rows nobody else has locked
  (`TablesGuarded`) keeps all that the other requests know. The delete of a career does so
  because it waits for the locks of its revisions, too, and an insert because only rows
  that are there can be locked (`HeldRowsExist`).
- From it `LocksAreOrdered` and `ReadsAreCurrent` follow, and `TransactionsSerialize`, the
  refinement: a commit reads what the atomic operation would (`AtCommit`), so each one
  is a step of `Revisions` (`CommitRevisionIsAtomic` and the lemmas after it), unless a learner
  has completed a removed step since the transaction counted the progress; every other
  step of a request leaves the tables alone.

`LearnerPathwaysProofs` proves, from `PathwaysAssumption` (which says of the first rows that
they are rows of the tables and that at most one of them is active per learner, and of the
catalogue that the pathways start with at least one and at most `MaxSteps` steps, whose orders differ):

- `PathwaysInvHolds`: the inductive invariant `PathwaysInv`. Its parts are `TypeOK` with the
  types of what requests hold (`ControlTypes`); `Found` (what a request at each stage has
  checked: past its checks it has a saved pathway, and saved pathways stay saved); `LockHeld`
  (exactly the switches between their lock and their commit hold the learner's row);
  `DeactivatesAll` (what a switch is about to deactivate is whatever is active besides); `AtMostOneActive` and `CapturesRealChanges`.
  `AtMostOneActive` is not inductive alone: that the upsert of a switch adds the only active
  pathway needs that nothing became active since it deactivated the others, which is
  what the lock on the `User` row is for.
- From it `RowsAreSound`, `OneActivePathway` and `CapturesAreReal` follow, and the action
  property `NobodyIsLeftWithout`.
- `ViewsLeadOn`: every view names a next step that leads on. It rests on `StepsFit` (each
  career, and what each view has read, has between one and `MaxSteps` steps), on the existence
  of an earliest step (`EarliestIsMinimal`, by well-foundedness of the orders), and on
  arithmetic:
- `PercentageReachesNoEnd`: with at most `MaxSteps` steps the rounded percentage is 100 only
  when all of them are completed and 0 only when none is.

`AccountsProofs` proves, from `SessionsAssumption`, `InvitesAssumption` and `CodesAssumption`
(which say of the first rows that they are rows of the tables, that no invite was both accepted
and revoked or accepted late, and that no code was tried too often):

- `AccountsInvHolds`: the inductive invariant `AccountsInv`. Its parts are the types
  (`FlowTypes`, `RowTypes`); `Exclusive` (two requests hold no row in common); for every request
  `HeldRows` (what it has locked is as it found it: tokens live, invites open, codes sent),
  `Fresh` (what will bear its number is not there before it is done), and `RowClaims` and
  `CodeClaims` (what it knows at each statement: which row it has claimed, that the invite is
  still valid for the time it took, that the code has an attempt left); and `RowsSound`, the
  facts about the tables. `SettledOneWay` and `AttemptsCapped` are not inductive
  alone: that a commit settles an open invite, or counts an attempt below the cap, was seen
  several statements earlier, and stays true because the row is locked since. `RotatedOnce` is
  strengthened to `Successors`, which says that no two tokens were exchanged for the same one.
- `OthersKeep` is the heart of the argument: a step that leaves the rows that others have locked
  or will insert (`Guarded`) keeps all that other requests know. So each statement is looked at
  where its request stands only, and the kinds of statements (arrive, continue, wait, lock,
  finish) are handled once each, by the `Quiet...` lemmas.
- From it `AccountRowsAreSound`, `InvitesSettledOneWay`, `TokensRotatedOnce` and
  `AttemptsAreCapped` follow, and the action properties `InviteHistoryPreserved` and
  `LinksUsedOnce`.

`AccountsUsersProofs` goes on from `AccountsInv` and proves what relates these rows to their users:

- `UsersInvHolds`: the inductive invariant `UsersInv`. To `AccountsInv` it adds `UsersSound` (tokens
  and codes belong to users, nothing has been proven of a user who does not exist, only the
  verified are linked to Google, and the three properties below) and, for each request, `Knows`:
  what it has been told of the user it serves (`Serves`), which rows it waits for (`Waits`) and has
  locked (`Holds`, and `HoldsCodes` for the kind of its codes), and that a password of its own is in
  the table only once it has committed, or while `register` goes on (`OwnPassword`).
- `EarlierSessionsEnd` is what `Waits` and `Holds` are for: a reset or an acceptance that has
  updated the user waits for the token the user had before, as long as that token is live, and
  once it has revoked it holds its row. So no rotation can keep that token alive past the commit, and
  none revives it later.
- `SignedInAreVerified`, `SessionsBeforeEnd` and `AcceptedArePromoted` follow, and so does the action
  property `CodesAreReplacedOrUsed`: a code is not live any more only after another of its kind was
  sent or a proof was accepted in the same transaction. All safety properties of `accounts` are theorems.
- The assumptions on the first rows also say that who does not exist has no rows, and
  that resets, roles and accepted invites are those of the requests to come, for the properties
  measure sessions and roles against them. Members of staff from before are left out so.

`ApplyPlanProofs` proves, from `InputsAssumption`: the live rows are rows of the tables and satisfy
the constraints, they are finitely many and their orders integers, the drafts are lists, the offset is
positive, the slug, the title and the outlook ids of the career are its own, the database has no id
that the editor invents ("new-..."), and gives a created row an id that no row, no link of the draft
and no link of another career has. Nothing is assumed of the draft's contents, of what learners
completed or of what other careers do.

- `PublicationInvHolds`: the inductive invariant `PublicationInv`. The snapshot is `Sound`
  (`SavedIsSound`: what `FindSnapshotProblems` lets through has distinct orders, links of its own
  steps and a pathway for them), and while it is applied the rows are `Halfway`: each section is a
  function of the live rows, the snapshot and the operations that wait. A step's order, for one, is
  the live one, that and the offset, or the new one, as its `offset` and its `move` are waiting or not.
  `InOrder` says that a stage begins when the ones before are done, which is why a created link finds
  its step and its resource, and a created step its pathway. `DoomedUnlinked` keeps the resource that is about to be
  deleted out of the links, so that the foreign key holds after the DELETE. `Guarded` says that the
  rows fit their columns, that others have none of the career's slugs, titles and outlook ids
  (`KeysStayFree`) and have deleted nothing it links (`LinksAvoidGone`), which steps of others
  keep (`OthersKeepGuarded`). Each section has its
  lemma (`SkillsAdvance`, `StepsAdvance`, `LinksAdvance`, ...), and `StatementFrames` says once which
  sections a statement leaves alone.
- `ConstraintsAlwaysHold`, `AppliedIsTheSnapshot` and `ProductRulesKept` follow, the last two because
  nothing waits when a publication commits.
- `FailuresAreConflicts`: `StepsFail` and `OthersFail` find, for each statement that may be refused,
  the conflict that did it, which lasts until the end because the publication ends there, and
  `NoConflict` that one past all of them has none when it commits: what it has written holds off
  the others (`Guarded`). So below the offset row order decides nothing, for any number of steps.
- `SharedResourcesStay`: what others link all along is counted, so it is never `doomed`
  (`SteadyKept`).

`ApplyPlanDiffProofs` proves `DiffIsWhatChanges`, from the same assumption: each list is made of
the rows that the operations of its bucket are about (`ListedIs`); these are, section by section, the
rows that differ before and after (`StepsShown`, `LinksShown`, ...), with the values after being those
of the snapshot; and created steps and links, which are shown by the ids of the snapshot, are apart
from the live ones and from each other (`MadeLinks`), so none is shown that is not made.

Only model-checked: `EveryCallAnswered`, the liveness of `RevisionTx`, `LearnerPathways` and
`Accounts` (the prover has no support for fairness and ENABLED), and the seven statements that are
violated. Every other property of a run is a theorem.

## Noted while reading, without a run of their own
- The reviewer's diff does not tell which step, skill or outlook row an update is of
  (`reviewer-diff.formatter.ts:142-147`), nor which step a link is of (`:153-164`): of two steps
  with one text, a draft that changes the one and a draft that changes the other have the same diff.
  `README.md:208` of content-revisions says of the fields of an operation that "every consumer must
  handle it" and counts the diff among the consumers. `DiffShowsEveryChange` is about entries as
  they are shown, so it does not promise more.
- An outlook row is created under the temporary id of the snapshot
  (`content-revisions.service.ts:1285`); `types.ts:13` says it is replaced. `CreateOutlook`
  models it, and one reason in `Conflict` is the second use of such an id.
- `README.md:144,159` of content-revisions say that unlinking never deletes a `Resource`;
  `applyPlan` deletes it with its last link (`:1241-1248`), as `DeleteResource` does.
- The same README says (`:96`) that the checks of a publication run before the transaction opens;
  they run inside it, after the locks, which is what `ReadsStayCurrent` relies on.
- No route starts a new draft of a career whose first revision was published, rejected or
  deleted: `admin-revisions.controller.ts:51` says that saving a draft "Updates the open DRAFT
  revision, or creates one", and `saveDraftRevision` only updates the revision it is given
  (`content-revisions.service.ts:229-233`).
- A plan may hold `link` operations in the section of resources, for which `applyPlan` has no
  statement; updates of outlook rows carry no field, so `resolveSourceLabels` never labels
  their sources. `planResources` does not compare `lastCheckedDate`, so a new date alone is never
  published.
- A pathway is never deleted by a publication: steps need a pathway, and having no steps is a
  blocker.
- A career retired between the look-up of `setActivePathway` and its transaction is saved
  (`pathways.service.ts:74`); `admin.controller.ts:131` of careers says that retiring "Hides a
  PUBLISHED career from new selection".
- Progress is `Math.round` of a floating-point quotient: at an exact half it may go either way.
  No view depends on it (`PercentageReachesNoEnd`).
- `auth.service.ts:499` says that "Verified local accounts keep their existing password"; when
  a verification commits between the read and the update of `googleLogin`, it is cleared.
- `auth.service.ts:149` says "Only one live OTP per user at a time"; two concurrent resends
  leave two, as two invitations do in `one_pending`.
- The tests refuse a reused code (`test/auth/auth.e2e-spec.ts:312`,
  `test/password-reset/password-reset-otp-confirm.e2e-spec.ts:185`); of two concurrent
  confirmations that have both found the code, both succeed, because the update that counts
  the attempt does not ask for `consumedAt`.

## Not modelled, and why
- Length and format rules of single fields, pagination, and the labels, titles and relative
  times of the reviewer's diff: conversions without state. `computeCounts` only counts operations.
- Opportunities, content feedback and catalogue reads: single statements that no rule relates.
- The refresh mode of the seed overwrites published rows and is refused in production.
- The seven-day expiry of refresh tokens: a token that expires only becomes useless, which
  any client may also make it.
- Statements that stop half way, clock skew and the delivery of e-mail.
- Publications that move steps between a learner's two reads (see `LearnerPathways`).

## Plan
1. Views of learners while a publication moves steps: the order of a step becomes a variable.
2. Proofs: the deadlock part of `EveryCallAnswered` that is a safety property: that a request waits
   only for rows that a running one holds.
