# A TLA+ model of Молва (otklik)

Молва takes appeals from pupils, parents and teachers who stay anonymous, routes
them to operators and psychologists, and erases them on demand. The program is a
Go API (`backend/cmd/otklik`), a Go worker (`backend/cmd/worker`), a PostgreSQL
database that both share, a Redis that counts requests, and two React pages. All
state worth modelling is in the database; all concurrency is between request
handlers of the API and the one worker process (`docker-compose.yml`).

The specifications describe that concurrency: requests of the applicant and the
staff that overtake one another between two statements, the worker beside them,
clients that go away, transactions that are rolled back.

## Inventory

| Component | State | Operations | What is hard | What makes it correct |
|---|---|---|---|---|
| Case workflow (`store/workflow.go`, `AllowedTransition`, `CaseAction`, `AddStaffMessage`) | `appeals` (status, return_count, times), `appeal_assignments`, `appeal_status_history`, `reassignment_requests`, `appeal_messages`, `internal_notes` | priority, assign, coexecutor, reject_request, status, operator_reply_close, reply, note, request, staff message | several handlers on one appeal; what was read before a commit of somebody else; reassignment while the expert writes | a handler's reads stay true, one responsible expert, history without gaps, an operator silent once an expert answers, requests resolved once |
| Applicant (`store/store.go`, `ApplicantStatus`, `ApplicantResolve`) | the above, `anonymous_sessions`, `appeal_contents`, `appeal_attachments`, `applicant_email_channels`, `appeal_feedback` | create, log in, status, resolve (helped, return, rate, complain), message, reassignment request, delete | statements that decide on a snapshot without a row lock; deletion in the middle of everything | at most two returns, nothing changes after deletion, the chat of a closed appeal is closed |
| Worker, closing (`closeInactiveAppeals`) | `appeals.updated_at` | close appeals that wait for their applicant too long | the appeal moves while the statement runs; the statement fails and takes the tick with it | closes only what still waits, and closes it in the end |
| Worker, outbox (`processOne`, `handle`, `refreshFacts`) | `outbox_events`, `analytics_facts` | take an event, refresh the facts, erase a deleted appeal | failure and repetition, snapshots older than the commit | no status change lost for the statistics, a deletion takes effect |
| Staff access (`StaffSession`, `Login`, `saveStaff`, `createStaff`, `BootstrapStaff`) | `staff_users`, `staff_sessions` | log in, log out, create, save (role, activity, password), restart | identity read before the handler, two administrators, two statements for a login and for a new account | a replaced password lets nobody in, only a request whose author was overtaken loses the last administrator, a restart resets nothing |
| Questionnaire (`Questions`, `CreateQuestion`, `saveQuestion`, `ToggleQuestion`, `ValidateQuestionCondition`) | `questionnaire_questions` | create, change, switch off; filter the answers of an appeal | a condition validated against a parent that changes later, two editors | no cycle but by a save that was overtaken, a shown question is answerable |
| Routing (`saveCategory`, `saveGroup`, the hint of `CaseDetail`) | `categories`, `specialist_groups`, `specialist_group_members`, `category_routing_rules` | save, propose an expert | members whose accounts change after the group was saved | a group saved beside changing accounts disturbs none of them |
| Rate limiter (`allow`) | Redis counters | count and expire | failure between INCR and EXPIRE, restart of Redis | a refused client is admitted again |
| Pages of a case (`CaseDetail`) | the row of the appeal, shared while it is read | read | a dozen queries, each on a snapshot of its own | a page shows one state of its case |
| Exports, uploads, configuration, browser pages, deployment | none of their own | | | |

How they interact: handlers and the worker never call each other. They meet in the
rows of `appeals` (locked with `SELECT ... FOR UPDATE`, or by an `UPDATE`), in
`outbox_events` (written in the transaction of the change, taken by the worker with
`SKIP LOCKED`) and in the sessions that the middleware reads before a handler starts. A
page of a case shares the row of its appeal (`FOR SHARE`), so that those who lock it wait.
The login of an applicant passes the rate limiter first. Accounts change without a lock.

## Modules

* `AppealStatus` - the statuses and the table of manual transitions
  (`AllowedTransition`), one operator for each role.
* `Casework` - the database as handlers and the worker's closing change it.
* `CaseLifecycle` - the abstract specification: phases of an appeal, its owner, how
  often it was sent back. `Casework` implements it (`ImplementsLifecycle`).
* `Outbox` - extends `Casework` with the worker's transactions on events.
* `AppealErasure` - the abstract specification of an appeal's text: stored once, erased only after
  a deletion. `Outbox` implements it (`ImplementsErasure`).
* `MCCasework`, `MCOutbox` - symmetry and the state constraints of the runs.
* `Questionnaire` - the questions of an appeal: how administrators change them and
  which answers are kept. It shares no state with the other modules: an appeal keeps
  the answers it was created with.
* `MCQuestionnaire` - the forms and the symmetry of its runs.
* `CaseViews` - extends `Casework` with the pages of cases that are read beside the requests.
* `RateLimiter` - the counter of one address in Redis. It shares no state with the database.
* `Admission` - composes `Outbox` and `RateLimiter`: an access code is looked up only by an
  attempt that was let through; the requests of the one are the callers of the other.
* `StaffAccess` - accounts, passwords and sessions of the staff.
* `Routing` - extends `StaffAccess` with a group of specialists.
* `MCStaffAccess` - the first accounts and the symmetry of the run of `Routing`.
* `CaseworkProofs`, `CaseworkSteps`, `CaseworkRefinement` - theorems about `Casework`,
  each module on top of the one before. `CaseViewsProofs`, `OutboxProofs`, `StaffProofs`,
  `QuestionnaireProofs` - theorems about the modules they are named for, the first two on top of
  `CaseworkProofs`, `StaffProofs` about `Routing` too. `AdmissionProofs` - theorems about
  `RateLimiter`, `Outbox` and their composition, on top of `OutboxProofs` and `CaseworkRefinement`.

### How Casework corresponds to the code

A request is `tx[p]`. Its `pc` is where it may be overtaken:

| pc | the handler |
|---|---|
| `begun` | has passed the middleware (`WithApplicant`, `StaffOnly`), no transaction yet |
| `holds` | has done `SELECT ... FOR UPDATE` and `authorizeCase` (`Acquire`); every statement up to `COMMIT` is one action, as no other transaction can see or change the row in between |
| `checked` | `AddApplicantMessage` has found the chat open on its snapshot (`CheckChatOpen`); the message is inserted by `AddApplicantMessage` when no other transaction holds the row, because the foreign key of the message needs a key-share lock, which waits for `FOR UPDATE` |
| `authenticated` | `createAppealSession` has found the access code; `OpenSession` inserts the session |

The row lock is no variable: the row of `a` is locked exactly while some request on
`a` is at `holds` (`LockFree`). The tail of `CaseAction`, `ApplicantStatus` and
`ApplicantResolve` (status, history row, times) is `Settle`; one event in the outbox
and the end of the transaction are `Commit`. `Refuse` is every error answer of a
handler, `Abort` a client or a connection that goes away; both roll back.
`ApplicantResolve` has three actions: `ConfirmHelp`, `ReturnAnswer` and
`RateOrComplain`, by the status it read.

PostgreSQL facts the model rests on: isolation is READ COMMITTED, so each statement
sees what is committed when it starts; `FOR UPDATE` and `UPDATE` wait for the row and
then see its newest version; a foreign key check waits for `FOR UPDATE` only.

Abstractions: message texts, priorities, times and the append-only logs are left out.
`chat[a]` is the set of authors since the newest history row, `history[a]` that row.
`data[a]` is the set of columns that are set and tables that hold a row of the appeal;
`Tracked` names those an instance follows, as they do not influence one another.
`quiet[a]` says that `updated_at` is older than `AutoCloseDays`. All sessions of an
appeal are one flag: nothing distinguishes them. Staff accounts are constants.

`QueryMode` is the execution mode in which pgx, the driver, runs the worker's statements.
`closeInactiveAppeals` passes the int `days` for `$1::text` (`worker/main.go:70-82`). In the driver's
default mode, `cache_statement`, the parameter is described as a text, an int cannot be encoded as
one, and `Exec` fails before it sends anything; in `simple_protocol` the number is written into
the statement, which then works. `DaysCanBeSent` says which, and guards `AutoClose`. Nothing that is shipped chooses a
mode (`.env.example`, `docker-compose.yml`), so that the program as shipped closes no appeal and
handles no event: see the finding `stuck`. A mode in `DATABASE_URL` would have to be the worker's alone,
since the API passes JSON as bytes, which only the default turns into `jsonb`. The other runs set `simple_protocol`, the case in which the worker
does something; the safety theorems hold for either.

### How Outbox corresponds to the code

A tick is a batch: `StartBatch` is `runBatch` up to the end of a closing that succeeded (a tick in which it
fails changes nothing), `batch` holds the workers that have come past it, and `EndBatch` is the return from the loop.
Events are taken within a batch only, and a failure ends it. `Pick` is the `SELECT ... SKIP LOCKED`, `Refresh` the snapshot of `refreshFacts`,
`FinishRefresh` and `FinishOther` the commits after it, `Fail` a rollback for any
reason, a dead worker included. The outbox is a set: events carry a type and an appeal
only, so equal events that nobody has locked are as good as one, and an event in work is out of
the set. The order of events is left out, which allows more than the code does, except
in the fairness: each event is taken in the end.

### How Questionnaire corresponds to the code

`Validate` is `createQuestion` or `saveQuestion` up to the end of
`ValidateQuestionCondition`, `CreateQuestion` and `SaveQuestion` are the statements after it;
there is no transaction around the two. `stale` and `raced` are no state of the program: `stale` remembers whose
question was validated before another save changed a parent, `raced` that such a question was
written all the same. No guard reads them. `Chain` is the recursive query. A validation
that meets a cycle does not end, so it is no step. `AskOne` is one turn of the loop of
`CreateAppeal`, `CleanAnswers` the loop over `QuestionList`. `Appears` says without a loop
when a question is asked; `AnswersAreFiltered` compares the two for every input in every
questionnaire that the edits can lead to. `QuestionList` is the query of the active questions
in their order; as no two have one place, there is one such list. `AskAll` counts the turns of the loop. A text of an answer is an option, `Words` or `Blank`;
a list of options is a set of them.

### How CaseViews corresponds to the code

`OpenView` is `SELECT ... FOR SHARE` with `authorizeCase`, `ReadCanChat` the query of
`canChat`, `CloseView` the answer after the queries that `canChat` and the role decide on,
`DropView` a client that goes away. `Beside` holds of the steps of `Casework` that need not
wait for a page: all but those that lock or update the row of the appeal (`Acquire`,
`AutoClose`, `DeleteAppeal`, an applicant's message with crisis words). A foreign key check
does not wait for `FOR SHARE`, so an ordinary message gets through. The page as it is shown is
left out: what is modelled is what makes it one picture.

### How RateLimiter and Admission correspond to the code

`Increment` is `INCR` with what `allow` decides on its answer, `Expire` is `EXPIRE`. Each may
fail before or after it was executed (`IncrementFails`, `ExpireFails`): the code then lets the
attempt through, and ignores a failed `EXPIRE`. `Elapse` is the end of the minute,
`RedisRestarts` a restart, which forgets the key (`docker-compose.yml:29`). `count` is the
value of the key and `timed` says that it has an expiry. `lost` is no state of the program: it
remembers that the caller who created the key never got to `EXPIRE`, after which the count
stays until Redis restarts. The properties name this case instead of hiding it. `Enter`
of `Admission` is the end of `allow` and the lookup of the code, `Leave` alone a wrong code.

### How StaffAccess and Routing correspond to the code

A request `req[c]` may be overtaken after each statement, as nothing is locked between two:
`matched` (`Login` has compared the password, not yet inserted the session), `acting`
(`requireAdmin` has read the role), `created` (`createStaff` has inserted the account, not yet
set its password). `SaveStaff` is the one transaction of `saveStaff`. A session remembers the
password it was opened with, and whether that was replaced between the two statements of
its login or by the second statement of `createStaff` (`raced`); no step reads either. A password stands for its hash, and
the columns of the migrations (`development-only`) and of `createStaff`
(`invite-pending`) are no hash and match nothing (`Compares`). `Restart` loses all requests and runs
`BootstrapStaff` if a password is configured. A logout and an expiry are one action.

`Routing` has one group. `SaveGroup` replaces its members by those chosen who are active experts
now. The requests that save a group are those of `StaffAccess`, and to the accounts
such a step looks like a request that is dropped.

## Runs

| Run | Instance | States | What it shows |
|---|---|---|---|
| `casework` | 1 appeal, 2 experts, 1 operator, 1 administrator, 2 concurrent requests; tracks the three times | 2.8 million | type and safety invariants, action properties, refinement of `CaseLifecycle` |
| `two_appeals` | 2 appeals, 1 expert, 1 administrator, 1 row, 1 request at a time | 3.1 million | operations stay on their appeal, the worker closes several |
| `questionnaire` | 3 questions, 1 option, 3 positions, 1 editor | 0.8 million | conditions never form a cycle, answers are filtered right |
| `live` | `CaseViews`: 1 appeal, 1 operator, 2 concurrent requests, 1 page | 0.1 million | a page shows one state, every request is answered beside it, a waiting appeal does not wait for ever where the closing can be sent |
| `outbox` | `MCOutbox`: 1 appeal, 1 expert, 1 operator, 1 request at a time, 1 worker, 1 failure | 2.3 million | facts follow the status, contents are erased, and no text but for a deletion (`AppealErasure`), and nothing undoes a deletion |
| `deletion` | `Admission`: 1 appeal, the applicant alone, 2 concurrent requests, 1 worker, 1 failure; 1 attempt a minute, counted up to 2 | 0.3 million | a deletion takes effect where the closing can be sent, a refused login is let in again |
| `staff` | `Routing`: 1 administrator, 1 expert, 1 account to be created, 2 requests at a time, 2 passwords, 2 roles, 1 group | 3.5 million | replaced passwords let nobody in, the last administrator stays, restarts reset nothing |

Why these bounds are enough. Requests on different appeals share nothing but the
worker's statement and the table of reassignment requests, which `two_appeals` is about. On
one appeal every conflict the code must resolve is between two parties: two requests,
or a request and the worker; a third one would wait in the same queue. Two experts
are needed to replace one and to have a coexecutor beside the responsible one; one
account of each other role, since operators and administrators are not told apart.
That a reassignment request is resolved once also when two requests of the staff race for it is
not a run but a theorem (`RequestsAreResolvedOnce`); `two_appeals` checks the property with one
request at a time.
The return limit is the code's own, two. Three questions are the smallest cycle that the
test of the parent alone would miss, and three positions the longest chain of them; one option
is enough, since an answer either is or is not among the values. With two editors
`NoCycles` is false: two questions validated against each other's old condition form a cycle. The run has
one; `NoQuestionWaitsForItself` says for any number of editors that nothing but this does it.
`SilentStaff` in `outbox` drops states in which the staff has written or an answer was sent back: the worker reads
neither.
In `live` the page is read by the operator, whose chat comes and goes with the status; with an expert
instead the liveness takes longer than the run may, but the safety properties hold (1 million states), and
`PagesShowOneState` proves them for everybody. A limit of one attempt with a
count up to two is the smallest in which a caller is refused, and two callers are needed
for one to come between the two commands of the other. In `staff` every exception a property
names does happen: two administrators can deactivate each other, and a login can be overtaken
by a new password. The role of an operator is left out there: an operator may
do as little with accounts as an expert, and is as little listed in a group as an administrator.
`QuietAppeals` in `two_appeals` drops states with messages and returns, which `casework` covers for one appeal. Symmetry is used
in safety runs only, over experts, requests in work (`Callers` in `staff`), request rows and appeals: no definition
names one of them. The theorems remove the bounds for all safety properties of all runs
(`FactsFollowStatus` for one worker only; `NoCycles` up to a save that was overtaken).

In `deletion` the system rests once its only appeal is deleted and nobody has a session or tries
to get one (the count is at its bound and will not expire), which is
no error; all other runs check for deadlock.

### Fairness

`EveryRequestAnswered` needs strong fairness of `Step(p)`. With weak fairness it
fails: another request may lock the row again each time it is released, so that
`Acquire(p)` is enabled again and again but never for good. The code justifies strong
fairness because PostgreSQL queues the waiters of a row. The same holds for the
worker's `UPDATE`, where it can be sent: fairness is about steps that are enabled, and without
`DaysCanBeSent` neither `AutoClose` nor `StartBatch` ever is. For the outbox, `StartBatch` is weakly fair because the ticker
fires every second, `Pick` is strongly fair per event because events are taken in
the order of their creation, and an event that was taken is handled. `StaleWaitingEnds` and `DeletionTakesEffect`
are therefore promises about a worker whose mode is `simple_protocol`; in the shipped mode `stuck` refutes
the latter under the same fairness. A page that is being read is answered
(weak fairness: its queries wait for nobody). The minute of the limiter passes, and a caller
whom Redis has answered goes on. Nothing else is
assumed of clients, of time or of broken connections.

One assumption is worth knowing. Strong fairness says that a request that could get the row
again and again gets it. Pages that share the row may overlap so that it is never free, and then
the assumption asks nothing; with the one page of `live` the row is free between two readings.
PostgreSQL queues a `FOR UPDATE` before later readers as a rule, but lets new sharers join while the
row is shared already, so that pages opened without a pause could keep a request waiting.

### Findings

Five runs expect a violation of something the repository says.

* `stuck`: a deletion removes the contents and leaves an anonymous fact (`Appeal.tsx:18`), but in the driver's default
  mode the worker's closing fails on every tick (`worker/main.go:80`) and `runBatch`
  returns before it handles an event (`worker/main.go:55`). The text stays for ever; nor is an
  appeal ever closed for want of an answer.
* `revoked`: after a deletion code and chat stop working (`Appeal.tsx:15`), but a login that has already looked up its code opens a new one
  (`store.go:326`); the session then still passes the middleware.
* `complaints`: after two returns the page offers a complaint to the operator
  (`ApplicantActions.tsx:13`), which `ApplicantResolve` refuses together with the
  third return (`workflow.go:540`).
* `child_question`: a child question appears after the chosen answer of its parent
  (`AdminQuestions.tsx:7`), but the parent may be moved behind it: the order is compared
  only when the child is saved (`store.go:509`). The applicant's answer to the child is dropped.
* `nothing_left`: a deletion leaves an anonymous fact only (`Appeal.tsx:18`), but the screenshots sent with
  the appeal and the feedback stay (`worker/main.go:117`), also where the worker gets to the deletion.

### Slips

A definition whose comment begins with "Slip:" is a mistake that could be made at that place of the code: a
dropped guard, a limit off by one, two swapped statements. Each property of a passing
run is paired in `PROJECT.json` (`mutants`) with one of them; with the slip in place
of the definition after it, TLC finds the property violated. No specification uses a slip.

## Proofs

`CaseworkProofs` proves, for all values of the constants:

* `TypeCorrect`: `Spec => []TypeOK`. One lemma for what all operations share (`Join`,
  `Settle`, `Commit`), then one step for each action.
* `LocksProtectReads`: `Spec => [](ReadsStayTrue /\ DeletionIsWhole)`. Neither part is
  inductive alone. What a handler reads is a live status only because `deleted_at` and
  the status agree, and the status of a deleted appeal stays `DELETED` only because no
  handler still holds its row with an older one (`DeletionIsOne` is this part alone). The invariant `LockInv` joins the two
  with `TypeOK` and `BusyOnRows` (no request is on an appeal without a row, so that
  `CreateAppeal` disturbs nobody). The argument: a step writes only to a row that it
  holds or that nobody holds (`HolderKeepsLockInv`, `UnheldRowsMayChange`), and what it
  writes elsewhere no other handler has read (`OthersUndisturbed`).

`CaseworkSteps` derives the safety properties from it. A handler writes what it has
computed from its reads, so a step of `Next` by itself says little about the appeal; but under
`LockInv` what it has read is what is there. `StepsAreCases` puts this into one
formula: every step of `Casework` is a step of `CoreNext` or leaves `core` alone, where
`core` is status, experts, returns, history and chat, and `CoreNext` speaks of them
without requests or locks (`Change`, `Talk`, `TakeOver`, `Support`, `SendBack`, ...).
`CaseInv` joins the safety properties with `NothingBeforeCreation` (no experts before there is an appeal,
without which a new appeal might have a responsible expert); it is inductive under
`LockInv`, one lemma for each of its parts.

* `ReturnLimitHolds`, `HistoryIsTrue`, `ResponsibilityIsClear`,
  `StaffKnowWhenToBeSilent`, `ClosedChatsAreLeft`: the parts of `CaseInv` for every reachable state.
* `TimesAreSet` (`TimesAreKnown`): a column that is set stays set, and a step after which one is
  due has set it or finds it set (`TimesKept`).

`CaseworkRefinement` proves what no step may do, and the refinement:

* `HistoryIsGapless` (`HistoryChains`), `DeletionIsFinal` (`DeletedIsFrozen`),
  `ExpertsLeaveForAReason` (`ExpertsLeaveTogetherOrReplaced`): from the steps of `CoreNext`
  under `LockInv` and `CaseInv`. `RequestsAreResolvedOnce` (`RequestsResolvedOnce`) goes through
  the actions themselves.
* `LifecycleIsImplemented`: `Spec => ImplementsLifecycle`. The initial states agree; each step of
  `CoreNext` is a step of `CaseLifecycle` or a stutter. The table of transitions enters in
  `ChangesImplement`: no row of it leads out of a rejected or closed appeal.

`CaseViewsProofs` proves `PagesShowOneState` for any number of pages. A page finds the row unlocked, and
by `LockInv` what stands in an unlocked row is consistent; a step that waits for no page keeps the row of
every page (`KeepsRow`), one lemma for each kind of step.
`PagesDisturbNoCase` is `ViewSpec => Spec`: every theorem about `Casework` holds beside pages.

`OutboxProofs` proves what the worker owes. First, what requests leave it (`Recorded`,
`StepsAreRecorded`): no step of `Casework` takes an event back, each change of a status and each deletion brings its event.

* `EventsAreKnown` (`OutboxTypeOK`) and `DeletionErases` (`ContentsErased`) for any number of workers. The invariant `EraseInv` adds
  the types and `LockInv`: without the latter an appeal could be deleted and still be written to.
* `ErasureIsImplemented`: `OutboxSpec => ImplementsErasure`, if texts are among the data that is
  followed. That a worker erases only what was deleted needs that an event of a
  deletion, waiting or taken, is about a deleted appeal (`DeletionsAreTrue`); that nobody stores a text
  twice needs that an appeal with a row that is not deleted has its text (`TextsAreKept`). `TextInv` joins the
  two with `EraseInv`.
* `NoStatusIsLost` (`FactsFollowStatus`) under the assumption that there is one worker process.
  `FactsFollowStatus` is not inductive: between the snapshot and its commit the
  facts are about to be overwritten with an older status. `StaleReadsAreCovered` says that an event
  waits that will have the appeal read again. With two workers the other one might have taken
  that event and committed first, and TLC finds `FactsFollowStatus` violated.

`AdmissionProofs` proves that what holds of the parts holds of the whole:

* `RefusalsAreTimed` (`LockoutIsTimed`) of the limiter, with `timed => count > 0` as the strengthening:
  the caller who finds 1 is the one who has created the key only because an expiry goes with its key.
* `CasesAreSafeBesideWorkers`, `WorkersDisturbNoCase`: the invariants, the action properties and the
  refinement of `CaseLifecycle` hold beside any number of workers. Erasing changes `data`, which
  `Casework` declares, so `Outbox` does not simply imply `Spec`; `StepsBesideWorker` says that each of its
  steps is one of `Casework` or leaves everything alone that the cases can tell. The columns with the
  times are not among what is erased.
* `DeletionLasts` (`DeletionStaysInEffect`): once a deletion is in effect (the text is erased, the facts say
  `DELETED`, and no worker has read something older; `InEffect`), no request, no late event and no second worker undoes it. That
  it comes into effect is the liveness property of the run `deletion`.
* `AdmissionComposes`: `AdmissionSpec => OutboxSafety /\ LimiterSafety`, the safety parts of the two
  specifications; hence `AdmissionIsSafe` and `AdmissionImplements`.

`StaffProofs` proves, of `StaffAccess`:

* `SessionsFollowPasswords` (`OldPasswordsEnd`). The invariant `AccessInv` adds two facts:
  sessions and requests belong to accounts there are (`UsedAccountsAreThere`), and an account
  there is not has no password (`NobodyHasNoPassword`). Every statement that writes a
  password either ends the sessions of the account, or finds none because a placeholder
  matches nothing, or is the second one of `createStaff`, which the property excepts.
* `LastAdministratorStays`, `PasswordsAreKept`: what no step does, from the same invariant.
* `GroupsDisturbNoAccount`: `RoutingSpec => StaffSpec`, so the theorems hold of `Routing` too.
  `GroupsListAccounts` is `RoutingTypeOK`.

`QuestionnaireProofs` proves, for any number of questions and positions:

* `QuestionsAreSound` (`QuestionsTypeOK`): the invariant `RowsInv` adds that the parent of a validated
  form is there (`FormsHold`); questions are never deleted, so it stays until the form is written.
* `NoQuestionWaitsForItself`: `Spec => [](raced \/ NoCycles)` for any number of editors. Two of them can
  close a cycle between them, as validation and write are two transactions. The theorem says
  that this is the only way: a save is written after another save has changed a parent since its
  validation. `CycleInv` adds `StillHangs`: what was validated and not overtaken does not lie above its new
  parent. A chain is the least set closed under parents (`ChainsAreLeast`), so a question
  that is hung on a chain without it closes no cycle (`HangingClosesNoCycle`); a question that is created
  lengthens no chain (`CreationKeepsChains`), so that it makes nothing stale. `OneEditorClosesNoCycle`
  is the case of one editor.
* `AnswersAreKept` (`AnswersAreFiltered`): for every input, in every questionnaire that edits can lead
  to, the loop of `CreateAppeal` keeps the answers it should. The library's induction
  takes an operator as a parameter, which the provers cannot instantiate, so the module proves an
  induction of its own over the positions of a list (`InductionOverPositions`, from
  `LeastElement`), and that the loop and the sorted list exist (`LoopIsDefined`, `SortedListExists`): a
  function or a `CHOOSE` without that would say nothing. `TurnKeeps` is one turn: before it, the answers kept
  are those of the questions that appear and come earlier. That a parent which counts comes earlier in the list is
  `AppearsByParent`.

The assumptions are those of the modules on their constants (`RolesAreDisjoint`, `NoRequestIsNoRow`,
`TrackedIsData`, `FailuresAreCounted`, `LimitIsPositive`, `CountIsBounded`, `FirstRolesAreRoles`,
`PasswordsAreChosen`, `QuestionsAreCounted`, ...), which TLC checks in the runs, the one worker of
`NoStatusIsLost`, the one editor of `OneEditorClosesNoCycle`, and `"contents" \in Tracked` of
`ErasureIsImplemented` and `AdmissionImplements`, which only says that the instance follows what they are about.

Only model-checked: the liveness properties (`EveryRequestAnswered` and `StaleWaitingEnds` of
the run `live`, `DeletionTakesEffect` and `LockoutEnds` of `deletion`). They rest on fairness and `ENABLED`, which are out of the prover's reach.

## Not modelled

* The routing hint of `CaseDetail`: one query that looks at the group and at the accounts when it is read;
  what it proposes is right by its own `WHERE` clause in every state.
* `saveCategory`: it points a category to a group, for which one fixed rule stands. The
  default expert it also stores is read by no operation.
* `Cases` and `GetAppeal`: reads that take no lock and whose parts need not agree.
  `StaffAttachment`: two reads without a lock (listed as a hazard).
* The order of the timeline, which is that of the starts of transactions: no operation reads it back.
* Exports and statistics queries (`xlsx.go`, `Analytics`, `staffStatistics`): they change nothing and
  aggregate what other modules keep.
* Uploads, image sanitising, encryption of addresses, hashing: data without control.
* Configuration: read once at the start.
* The pages, nginx, compose, seeds: used as sources of what is promised and of how
  many processes run.
* Failures of the database itself: a lost connection is an aborted request.

## Plan

Written, in this order: `AppealStatus`, `Casework`, `CaseLifecycle`, `Outbox`,
`CaseworkProofs`, `CaseworkSteps`, `CaseworkRefinement`, `Questionnaire`, `CaseViews`,
`RateLimiter`, `Admission`, `StaffAccess`, `Routing`, `AppealErasure` and their proofs. Next:

1. `Outbox` with two workers and events in order of their creation, and an event that always fails.
2. Accounts of `StaffAccess` beside the assignments of `Casework`, if a promise about the cases of a deactivated
   expert is written down.
3. The order of the timeline.
