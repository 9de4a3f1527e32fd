# A verification of the SSS modernization demo

TLA+ models of the backend of `sss-modernization-demo` (TypeScript, Express, PostgreSQL) and of the session
in its browser application (React), checked with TLC on small instances, their safety proved with
TLAPS for every instance. Paths below are relative to `sss-modernization-demo/backend/src/` unless they begin
with `frontend/`.

The backend serves exemption cases for people registered with the program: a person has an account and
a profile, is found eligible or not, applies, and case managers decide. All lasting state is in
PostgreSQL. Every HTTP call is an independent chain of `await`ed statements, several processes may run,
and any of them may stop anywhere, so what can go wrong is in what happens *between* two statements. The
models therefore make a step of each statement, or of each transaction where nothing can be seen inside
it.

## 1. Inventory

| Component | State | Operations | What is hard | What makes it correct |
|---|---|---|---|---|
| Staff access and roles (`services/roleService.ts`, `services/authService.ts` `registerUser`, `routes/staff.ts`, `middleware/requireStaff.ts`) | `users.role`, `audit_logs`, `notifications`, an advisory lock | register, grant, remove, promote from `ADMIN_EMAILS`, bootstrap at a start | two removals at once; roles read before the lock; audit entries on another connection; a start that fails half way | someone can always work cases, there is always an administrator, one role at a time, no unaudited change, one promotion |
| Case workflow (`services/caseService.ts`, `services/caseEvents.ts`, `routes/cases.ts`) | `cases`, `case_events`, `notifications`, notes, documents | apply, change status, assign, add note, add document | status read before the transaction and written without a condition; entries dated at BEGIN; two applications | the timeline tells the truth, one case per exemption, nobody decides their own |
| Decision compliance (`services/complianceService.ts`) | `compliance_checks`, `compliance_reviews` | evaluate a decision, report an evaluation that failed, resolve a review | evaluation after the commit, on data that moved on; two resolutions of one review | a failed control has a review; separation of duties over several rounds |
| Two-step verification (`services/mfaService.ts`, `routes/mfa.ts`, `routes/auth.ts`) | `mfa_devices`, `mfa_code_attempts`, `mfa_recovery_codes`, `users.mfa_enabled` | second step of sign-in, set up, confirm, disable, new recovery codes | codes sent in parallel; a setup begun during a confirmation | one session per password step, bounded tries, each code once (a 6-digit code: once for each confirmation of its device) |
| Audit log (`services/auditService.ts`, `middleware/auditAccess.ts`) | `audit_logs`, the pending batch, its timer | record, flush, log, flush at SIGTERM | a batch in flight at a stop; an answer lost after the INSERT | nothing dropped, nothing twice, a timer whenever something is pending |
| Access policy (`services/policyService.ts`, `policyEngine.ts`, `middleware/enforcePolicy.ts`) | `access_policy_versions`; per process the loaded version, `checkedAt`, the pending read | decide, refresh, save | each process has a copy; overlapping refreshes and saves | a process never goes back a version; its own save applies at once; no save is lost |
| Eligibility and profile (`services/exemptionService.ts`, `userService.ts`, `routes/users.ts`) | `users` profile and `updated_at`, `exemptions`, `compliance_status` | save the profile (which checks eligibility), check eligibility | saves and checks that overlap; the profile is read on one connection and the determination dated on another | the three exemptions are one determination; the status follows from the whole profile; a stale determination is dated before the profile |
| Startup and availability (`database/startup.ts`, `availability.ts`, `connection.ts`, `index.ts`, `app.ts`, `middleware/errorHandler.ts`) | steps done, up/down flag, pool | run steps with backoff, probe, gate, serve | a retry that skips or repeats; a late answer that opens the gate; a full pool whose lock holder needs one connection more | no request before the last step; the gate follows the database; every request is answered |
| Policy assistant (`services/assistantService.ts`, `assistantReviewService.ts`, `oversightLevel.ts`, ...) | `assistant_interactions`, `notifications`, an advisory lock | ask, answer, report, review | parallel questions at a limit; a report during a review; the question's own request failing late | both limits hold; nothing withheld is seen unreviewed; reviewed once and never by the asker |
| Evaluation runs (`services/evalRunService.ts`) | `assistant_eval_runs` | start, finish, fail, mark baseline | two starts or two marks at once; a stale run that finishes; a failure after completion | one run of a kind an hour; one baseline and never none again; no stored run given up by another start |
| Sessions and rate limits (`utils/jwt.ts`, `services/sessionService.ts`, `rateLimitService.ts`, `routes/auth.ts`) | tokens, deny list, counters | sign in, extend, sign out, count | boundaries of time; guesses in parallel; the list tidied while a token lives | guesses are bounded, no session outlives its maximum by more than two seconds, a signed-out session stays out |
| Metrics and objectives (`observability/`, `services/aiQualityService.ts`) | counters per minute, `route_metrics_minute`, alerts | record, flush, evaluate, open and clear alerts | overlapping flushes; a flush whose answer is lost; two checks that found the same breach | a closed minute's row is complete, an alert is opened and said once, alerts follow their cause |
| Browser session (`frontend/src/components/Common/SessionTimer.jsx`, `services/api.js`, `utils/tokenManager.js`) | `localStorage`, a timer and a warning in each tab, requests under way | sign in and out, stay, refuse | tabs that share one token; storage events and replies that come late | no timer ends a session that is not over, and none stops before the stored token has run out |
| Dashboards, freshness, training, notifications, data pages | read models, attempts | queries, single-statement writes | little | - |
| Pages of the browser application, infrastructure, data pipeline | - | - | - | outside: UI, configuration, I/O |

How they meet: the cases component calls compliance after each decision, everything calls the audit log
(`logAuditEvent`, awaited, on its own pooled connection; `recordAudit`, batched), every route asks the
access policy and `getRequestRole` first, and `caseEvents.inTransaction` is the only way the first three
components open a transaction (BEGIN, work, COMMIT, or ROLLBACK and rethrow).

## 2. Modules

| Module | Models | Instance |
|---|---|---|
| `StaffRoles` | the vocabulary: people, roles, lists | |
| `StaffRules` | what Staff Access promises, one indivisible change at a time | refined by `StaffAccess` |
| `StaffAccess` | the code of roles, a step per statement | `MCStaffAccess` |
| `StaffAccessProofs` | theorems about `StaffAccess` | |
| `CaseDecisions` | one exemption's case, its decisions, their evaluation and reviews | `MCCaseDecisions` |
| `CaseDecisionsProofs` | theorems about `CaseDecisions` | |
| `MfaSignIn` | one person's two-step verification | `MCMfaSignIn` |
| `MfaSignInProofs` | theorems about `MfaSignIn` | |
| `AuditBatch` | the batches of the audit log in one process | `MCAuditBatch` |
| `AuditBatchProofs` | theorems about `AuditBatch` and `ServiceHealth` | |
| `PolicyCache` | the access policy: saved versions, and the copy each process decides with | `MCPolicyCache` |
| `PolicyCacheProofs` | theorems about `PolicyCache` and `Browser` | |
| `EvalRuns` | the evaluation and fairness runs of one mode, and the baseline | `MCEvalRuns` |
| `EvalRunsProofs` | theorems about `EvalRuns` | |
| `AssistantPromise` | what becomes of a question, one indivisible step at a time | refined by `Assistant` |
| `Assistant` | questions, answers, reports and reviews, a step per statement | `MCAssistant` |
| `Availability` | the start, the gate, the probe and the pool of connections | `MCAvailability` |
| `Sessions` | sign-ins of one account, their tokens and their end | `MCSessions` |
| `SessionsProofs` | theorems about `Sessions` and `Availability` | |
| `Eligibility` | one person's profile and the exemptions determined from it | `MCEligibility` |
| `EligibilityProofs` | theorems about `Eligibility` and `Assistant`, and the refinement of `AssistantPromise` | |
| `ServiceHealth` | the metrics of one route, their objective and the alerts | `MCServiceHealth` |
| `Browser` | the session in the tabs of one browser | `MCBrowser` |

Conventions: a *request* is one HTTP call, made at most once, with a program counter `pc` (`ask` in
`Assistant`, `phase` in `Availability`); what it asks is in `call`, what it has read in `seen`. `Begin...` actions are the reads and guards before the first
write, and the other actions are the statements, named for what they do. `Fail` is any failure after the
call has begun: a refused statement, a lost connection, the death of the process. Operators with a
comment that begins "Fault:" are not part of any specification: each is an action or a helper with one
plausible mistake, and a property is kept only if some such mistake makes TLC report it violated. `TypeOK`
of every module is its type invariant. Where one module of proofs treats two components, the names both would
define carry the component's (`AssistantTypeOK`, `HealthSpec`, `BrowserNext`), as TLA+ has one name space. Definitions after the heading "What does not hold" state what a
comment or a test of the repository says and the code does not keep (section 4).

### 2.1 StaffAccess

*State.* `roles` is `users.role` (committed), `NoAccount` for no row. `audit` holds the `PERMISSION_*`
entries; they are committed by their own connection, so they survive a rollback. `told` is the
notifications, committed with the change. `lock` is `pg_advisory_xact_lock(STAFF_LOCK_ID)`. `wrote` is a
row an open transaction has written: invisible to others, and a second writer of it waits (`RowLocked`).
`starting`, `unaudited` and `listAudit` belong to `bootstrapStaffRoles`; `raised` is history.

*Actions.* Registration: `BeginRegister` (the address looks free), `RoleForNewUser` (its own statement),
`InsertUser` (the unique index decides), `RecordRegistration`. Grant: `BeginGrant` (role as `requireStaff`
read it), `FindGrantee` (before the lock), `TakeLock`, `UpdateGrantee` (`AND role = $3`), `WriteAudit`,
`Promote`, `AuditPromotion`, `Commit`. Removal: `BeginRevoke`, `TakeLock`, `FindMember`, `UpdateMember` with
`KEEP_ONE` in its statement, `WriteAudit`, `Commit`. A start: `CheckStaff`, `BootstrapCaseManagers`,
`AuditCaseManagers`, the same for administrators, and `RestartBootstrap` at any moment (the supervisor of
`database/startup.ts` runs a failed step again, and a server may be restarted).

*Properties.* `ChangesAudited`, `OnePromotion`, and `ImplementsRules`: under the identity mapping of `roles`,
every behaviour is one of `StaffRules!Spec`, where each change is indivisible and guarded on the roles of
that very moment. `KeepsStaff`, `KeepsAdmin` (once there is someone there always is) and `OneRoleAtATime`
follow from the rules and are proved.

*An observation.* The lists do not promise one administrator. `bootstrapAdmins` raises everyone listed in
one statement, and it takes no lock, so a start beside a grant can add one more; the rules allow it, and
`OnePromotion` speaks of grants only. The bootstrap may likewise raise a listed citizen just after the
first member of staff appeared. The code says of the lists that they bootstrap a database that has no
staff yet (`roleService.ts:51-54`); between the check and the UPDATE that may stop being so.

### 2.2 CaseDecisions

*State.* `caseRow` (status, whether `approved_at` is set, `assigned_to`), `documents` (`created_at` of those of the
type the exemption requires), `noted` (the requests with a row in `case_notes`), `timeline` (the `case_events` that
carry a status), `audit` (which requests' changes are logged), `checks`, `reviews` (`Open`, `Resolved`), `resolutions`
(history), `held` (rows an open transaction has written), `clock` and `began` (the time of the BEGIN of each open
transaction, which is the `CURRENT_TIMESTAMP` of all it inserts).

*Two orders.* The application shows the timeline by `created_at` (`caseService.ts:349`), a column whose default is
`CURRENT_TIMESTAMP` (migration 012:15), the time of BEGIN. The order of the COMMITs is another: a change that began
first may take the case's row last. The variable `timeline` is kept in the order of the COMMITs, as a history is, and
each entry bears its `created_at` and the time of its COMMIT, so that a property can speak of either order.

*Actions.* `BeginApply`, `FindNoCase`, `InsertCase` or `InsertRefused`; `BeginStatus` (reads the status and
decides on `TRANSITIONS` and `Side`), `Begin` (BEGIN, and nothing else), `TakeCaseRow` (the UPDATE, which waits for the
row), `CommitStatus`, `LogChange`; `BeginAssign`, `CommitAssign`; `BeginAdd`, `CommitAdd` (a note or a document);
`LoadDecisionContext` (everything as of now, but only the documents dated before the decision: CTRL-07), `RecordChecks` (one transaction),
`AuditChecks`, `EvaluationError` from any of them, `ReportError` or `ReportLost`; `FindReview`,
`ReadReviewedCase`, `TakeReviewRow`, then `CommitAccept`, or `TakeCaseRow` and `CommitReopen`.
`PUT /cases/:id` is three of these calls in a row, each of which reads the case afresh, so it is among the
behaviours of three requests.

*Abstractions.* Every statement names one case, so one is enough. Who is staff does not change (that is
StaffAccess). The exemption row is an input: whenever it is read it may be any member of `Determinations`
(that is Eligibility). The text of reasons and notes is reduced to whether there is one. Only entries that
carry a status are on `timeline`.

*Properties.* `TimelineTrue`: there is one application; the timeline has an entry for the case's status, and whatever
is shown after that entry overlapped it (`StatusOnTimeline`: each began before the other's COMMIT); an approved case is
dated; and every move was one the workflow allows, from a status committed before the move began (`MovesJustified`).
That the entry shown *last* is the status does not hold (`EndsInStatus`, section 4). Then `DutiesSeparated`,
`FailuresReviewed`, `GuardedControls` (four of the eight controls cannot fail, whatever overlaps: the
workflow's guards imply them), `RowsComeFree` (no deadlock of row locks).

### 2.3 MfaSignIn

*State.* `devices` (`none`, `waiting` for confirmation or `verified`, with `last_used_step`), `setups` (their
order, which is `created_at`), `enabled`, `attempts` and `completed` for each budget (a pending sign-in or a
session), `recovery` (the rows of codes), `now` (the 30-second step), and history of what was accepted, spent,
looked at and given. Of a transaction: `done` (how many of its statements have ended), `saw` (the rows its
DELETE found when it began) and `held` (the rows it has written or deleted).

*Actions.* `ReserveAttempt` (counted in one statement before anything is looked at), `MatchCode` or
`RefuseCode`, `AcceptCode` (the UPDATE on `last_used_step`), `SpendRecoveryCode`, `FinishSignIn` (the UPDATE on
`completed_at`). The four transactions are lists of `Statements`: `BeginSetup`, `BeginDelete` and `EndDelete` (a
DELETE finds the rows that are there when it begins, waits for those another transaction has touched and
removes those that remain), `VerifyDevice` (the UPDATE by id, with the unique index on the verified device),
`UpdateUser`, `CommitChange` (the INSERT, if there is one, and COMMIT). `Tick` is time.

*Abstractions.* A code is its device and time step (that two steps share six digits is left out). A budget's
row is not dropped after a day. The deadlock PostgreSQL would break between a removal and a confirmation is a
`Fail` of one of them.

*Properties.* `OneSession`, `BudgetKept`, `CodesSpent` (`RecoveryOnce` and `OncePerConfirmation`). `accepted` is the
whole history of 6-digit codes, with what each was accepted for, and nothing is ever taken out of it. Two
confirmations of one device may both have read it waiting, and the UPDATE of the second (`mfaService.ts:188`, which has no
condition) sets `last_used_step` again: it may accept the code of the first once more, or set the step back before
codes used since. So `OncePerConfirmation` says that a code accepted twice had its device confirmed in between; that none
is (`NeverAcceptedTwice`) does not hold (section 4).

### 2.4 AuditBatch

*State.* `pendingAudit` and `auditTimer` are the two variables of `auditService.ts`; `flushes` holds the
calls of `flushAuditEntries` that wait for the database, each with the rows it still has to write, whether
it goes one row at a time, and whether the database has run the statement it waits for. `written` counts the
rows of `audit_logs` by entry; `reported` is what the server log names as not written. `recorded`, `outage`,
`unsure` and `lastBatch` are history.

*Actions.* `RecordAudit` (which flushes at `AUDIT_BATCH_MAX`, or sets the timer), `TimerFires`; `RunInsert`
is the database, `InsertAnswered` and `InsertFailed` what the process learns of it, which may be false when
the connection is lost after the statement ran; `FallBack`, `ReportRow` and `NextRow` are the loop over the
rows; `CloseServer` is the callback at SIGTERM, after which requests may still be recorded until the exit;
`Kill` is an end without it.

*Abstractions.* An entry is a name, recorded at most once. The database refuses exactly the entries in
`Gone`, and may lose any connection besides. A sent statement may still be run after the process has gone.

*Properties.* `NothingDropped`, `WrittenOnce`, `PendingWrittenAtStop`, `EntriesSettle`. Two things the code
does not promise, and the properties say so: an entry is in the log twice when its batch was written and
the answer lost, and a flush begun before SIGTERM is not waited for.

### 2.5 PolicyCache

*State.* `versions`, `serial` and `audit` are the table, its sequence (a rollback leaves a gap) and its
entries; `lock` is `pg_advisory_xact_lock(POLICY_LOCK_ID)`. By process: `loaded`, `fresh` (`checkedAt` is less
than `REFRESH_MS` ago), `pending` (how far the one read has come: the number or the row, asked or known)
and `seen`, what it was answered. By save: `pc`, `call`, `wrote`. By caller: `asking`, `record`, `first` (the
policy the record was looked up under), `answer`.

*Actions.* The read: `StartPolicy`, `RunQuery`, `CompareVersion`, `LoadVersion`, `ReadFails`; when it ends,
`Settle` moves on whoever awaits the promise. The save: `BeginSave`, `TakeLock`, `ReadLatest` (a change that
changes nothing is refused), `InsertVersion`, `AuditVersion`, `CommitSave`, then `ForceRead` and `ForceAgain`
(`current(true)`: a read begun before is let finish first), `LoseAnswer`, `Fail`. The request: `LookUp` (twice),
`RecordToLoad`, `Decide`. `Expire` is time.

*Abstractions.* A state of the policy is the set of settings that differ from the code defaults. One route
about a record, one caller and the one rule that lets them in stand for the access table: a setting closes
the route to the caller's role, another switches the rule off. `GET /policies` forces the same read as a
save does and is left out, for it multiplies the states and adds no step; so are the restart of a process
(it begins like one that has not started) and the validation of a request's body. Time is only whether
`REFRESH_MS` has gone by, at any moment.

*Properties.* `NoChangeLost`, `NeverBack`, `AppliesAtOnce`, `DecisionsJustified`,
`InForceInTheEnd`. `DecisionsJustified` allows for the one thing that overlaps in the code: the record is
looked up under one policy and the question decided under the next, so a refusal may have its reason in
either, but an acceptance never rests on the older one.

### 2.6 EvalRuns

*State.* `status`, `created` and `baseline` are the rows of `assistant_eval_runs` as committed, by the request
that started the run (`none` before its INSERT); `audit` is the entries. `lock` is
`pg_advisory_xact_lock(RUN_LOCK_ID)`, and `held` says which open transaction has locked a row. `now` is the clock
in minutes. By start: `kind` and `began` (`NOW()` is the time of its BEGIN). By mark: `target` and `released`.

*Actions.* `startRun`: `BeginStart`, `TakeLock`, `FailStale` (the UPDATE of runs that seem cut off), `CountRuns`
(a refusal rolls that UPDATE back), `CommitStart`, `LogStart`. `finishRun`, in the background: `StoreRun`,
`LogFinish`, `RunError` from either, `MarkFailed`; `Abandon` is a restart of the process, or an entry of the
start that cannot be written, which leaves the row running. `markBaseline`: `FindRun` (`FOR UPDATE`),
`FindBaseline` and `ReleaseBaseline` (its first UPDATE: the rows it sees, then the ones that still qualify when
their locks are free), `SetBaseline` (the unique index of migration 022 waits for a mark that has not
committed, and refuses a second baseline), `CommitMark`, `LogMark`. `Fail` and `FailMark` are ROLLBACK anywhere.

*Abstractions.* All runs are of one mode, as the index and the release are by mode. What a run asks, its
scores and its usage are left out, and so are the alerts and markers computed from them. `checkAlerts`, which
the routes pass as `after`, catches its own errors and touches no run.

*Properties.* `OncePerHour`, `OneBaseline`, `CompletedStays`. The code promises less than one might read
into it, and no property claims more. A run that has stored its results is marked failed when its
`finished` entry cannot be written, so the baseline may be a run marked failed meanwhile. A live run older than
`STALE_RUN_MINUTES` is marked failed by the next start and completes after all. And the mark of a cut-off
run is rolled back with a start that is then refused.

### 2.7 Assistant and AssistantPromise

*State.* `row` is `assistant_interactions` by question (status, mode, whether there is a draft, whether the
question is personal, whether the draft is grounded, who reviewed it and with what outcome); `lock` is
`pg_advisory_xact_lock(ASSISTANT_LOCK_ID)`; `ask`, `asker`, `began` are the request of each question (`began` is the
`NOW()` of its BEGIN, which becomes `created_at`); `held` is the row lock of a reviewer; `rating`, `review` the
feedback and the reviews under way; `told` the notifications.

*Actions.* `reserveAsk`: `BeginAsk`, `TakeLock`, `CountAsks` (both limits, by the time the transaction began),
`CommitReserve`. `askAssistant`: `StoreAnswer`, `LogAnswer`, and the catch, `FailAsk`, which marks the row
whatever it has become; `LeaveAsk` is a mark that fails too, or a stop. `submitFeedback`: `BeginFeedback`
(reads), `RecordFeedback` (the UPDATE that asks again). `reviewExchange`: `LockExchange` (`FOR UPDATE` and the
checks), `LogReview`, `CommitReview`, `FailReview`.

*Abstractions.* The model, the search of the documents and the grounding check are a choice of outcomes.
Time is in ticks, with an hour and a day of so many.

*The promise.* `AssistantPromise` has a question asked, answered or queued, reported, and closed once by
somebody other than the asker; only its own request, still going, can withdraw it. `KeepsPromise` is the
refinement: the stage is read off the row's status, and a request is settled when it is over.
*Properties.* `LimitsKept`, `WithheldUnseen` (of what the history shows), `ReviewsHold`, `KeepsPromise`.

### 2.8 Availability

*State.* `db` (the database can be reached or not), the supervisor (`stage`, `step`, `done`, `reachable`), the port
(`listening`), the two fields of `availability.ts` (`startupComplete`, `database`), the `probe`, and each request of
a data route (`phase`) with the `lock` one of them may hold.

*Actions.* `BeginStart`, `RunStep`, `StepUnreachable`, `Retry`, `FailRelease` (the database answered and the step
is wrong), `CompleteStartup`; `SendProbe`, `ProbeAnswers`, `ProbeFails`, `CheckHealth`; `LetThrough` (the gate), `Connect`,
`TakeLock`, `LogChange` (a second connection while the first is held), `Finish`, `TimeOut`, `Break`, `HandleError`;
`Outage` and `Recover`.

*Abstractions.* A statement is instantaneous; time-outs are possible whenever what they wait for is not
there. A request either reads or makes one change under an advisory lock, with one audit entry.

*Properties.* `ServedAfterStart`, `GateFollows`, `RequestsAnswered`.

### 2.9 Sessions

*State.* `counter` (`rate_limits`: of the account, of failures and of registrations from the address), `cleared`
(tells the account's windows apart), by sign-in how far it is and the window it was counted in; by session
`auth_time`, `exp` (its longest-lived token), the requests past the role read (`asked`) and `revoked`
(`revoked_sessions.expires_at`). Time is in whole seconds, as in a token.

*Actions.* Sign-in: `AskAddress`, `CountAttempt` (in one statement, before the password), `WrongPassword`,
`CountFailure`, `RightPassword` (a token, or one that waits for a code), `RightCode`, `ClearAccount`, `SignToken`.
`CountRegistration`. Then `Admit` (the role read with the deny list), `Refresh` (which looks at the clock up to
three times), `RevokeSession` and `DeleteExpired`, and failures of each.

*Abstractions.* One account and one address; the codes are MfaSignIn's. A caller on the machine itself, who
has no limits by address, is left out, and so is the clean-up of windows a day old.

*Properties.* `GuessesBounded`, `SessionEnds`, `SignedOutStaysOut`. An extension looks at the clock up to three times and
gives at least a second, so a token can outlast the session by two seconds; `SessionEnds` allows exactly that, and
`SessionsEndOnTime`, which does not, is in section 4. `SignedOutStaysOut` speaks of the time up to
`MAX_SESSION_SECONDS` after the sign-in, because the row of the list expires then and may be deleted while such a
token has its last seconds.

### 2.10 Eligibility

*State.* `user` (the profile, `updated_at`, `compliance_status`), `exemptions` (the three rows, and whose check wrote
them), `audit`, `clock` (the order of BEGINs, which is what `NOW()` of a transaction is), and by request what it
saves, has read and has written.

*Actions.* `BeginSave`, `Save` (UPDATE and `checkAndUpdateCompliance` in one transaction on one row, hence one
step), `SaveNothing`, `ChangeMfa` (which dates the row too); `ReadProfile` on one connection, then `BeginCheck`,
`Upsert` of each row, `CommitCheck`, `LogCheck` on another; `Fail`.

*Abstractions.* One person. Phone and address are present or not; the date of birth, which a save cannot
change, is the constant `Age`.

*Properties.* `FilesAgree` (`OneDetermination`, `ComplianceFollows`) and `StaleIsNoticed`: a determination that is no
longer that of the profile is dated before it, so that CTRL-02 of a later decision notices, unless its check
was running while the save was. That exception is the code's (`exemptionService.ts:129`).

### 2.11 ServiceHealth

*State.* `counted` (history) and `memory` are the recorder's minutes, `rows` is `route_metrics_minute`; `queue` is
the chain of flush promises, `snapshot` and `closed` what each flush is writing and will forget; `alerts`, with
what has been said of each; of a check, the keys it `wanted` and the alerts it found `open`.

*Actions.* `RecordRequest`, `StartFlush`, `PendingRows`, `CommitFlush`, `FailFlush` (before or after the database has
committed); `MeasureSlos`, `StartView` (drift of the answers), `ReadOpen`, `OpenAlert`, `ClearAlert`, `EndCheck`,
`FailCheck` (also between the row and what is said of it); `Restart`.

*Abstractions.* One route; the availability objective; one drift signal. What is said of an alert is read by
no check and is one step with its row. A row that a restart leaves behind is overwritten by the new
process's smaller count of the same minute; `counted` starts anew with the process, so `MinutesComplete` says
nothing of the minute of a restart.

*Properties.* `MinutesComplete`, `AlertsOnce`, `AlertsFollow`.

### 2.12 Browser

*State.* `token` is `auth_token` of `localStorage`, shared by the `Tabs`; each tab has a `page`, the `expiresAt` its
timer knows, whether its warning is open, and its requests under way (`stay`, `data`, `leaving`); `events` are the
storage events not yet delivered; `auth_time` and `revoked` are what the server knows.

*Actions.* `Navigate`, `CloseTab`, `SignIn`, `WrongPassword`, `Ask` and `DataAnswered`, `HandleLogout` and `SignOut` with
`LogoutAnswered`, the timer's `WarnFires` and `EndFires`, `Sync` (the event), `Stay` with `ServeStay`, `StayAnswered`,
`StayRefused`, `StayFailed`. Any 401 is `Refused`: the interceptor of `api.js`.

*Abstractions.* The server's part is what Sessions shows of it, with the three looks at the clock of an extension. The
browser and the server have one clock: a timer compares the computer's clock with an expiry the server has
written, and a computer whose clock is wrong is left out. A page of the application is one page.

*Properties.* `TimersHarmless` (no timer takes a good token away; where the timer or the warning has signed
out, a late reply stores nothing), `TimersRunOut` (while a token that has run out is in the store, a tab that shows the
application leaves it, unless it has been told that the token is gone). A tab that *is* told, by the event, drops its
timer (`SessionTimer.jsx:62`) and keeps its page until it asks for something, so `OffInTheEnd`, without that exception,
does not hold (section 4).

## 3. Runs

Every run passes; each has the name of its configuration in lower case.

| Run | Configuration | Asks |
|---|---|---|
| `staff_access` | 3 people, 2 on both lists, every initial table; 2 requests, and a start with its retries | `ChangesAudited`, `OnePromotion`, the refinement `ImplementsRules` |
| `case_decisions` | an applicant who is a case manager, 2 others, somebody who is none; 3 requests, on no case or on one Submitted, In Review with either manager, or Denied | `TimelineTrue`, `DutiesSeparated`, `FailuresReviewed`, `GuardedControls`, `RowsComeFree` |
| `mfa_sign_in` | 2 pending sign-ins and a session, 3 requests, 2 tries, 2 time steps | `OneSession`, `BudgetKept`, `CodesSpent` |
| `audit_batch` | 4 entries, 1 refused, batches of 2; `FairSpec` | `NothingDropped`, `WrittenOnce`, `PendingWrittenAtStop`, `EntriesSettle` |
| `policy_cache` | 2 processes, one serves a caller, 2 saves out of 3 changes, 1 failed read; `FairSpec` | `NoChangeLost`, `AppliesAtOnce`, `DecisionsJustified`, `NeverBack`, `InForceInTheEnd` |
| `eval_runs` | 3 starts, 2 marks, interval 2, stale after 0, 2 ticks | `OncePerHour`, `OneBaseline`, `CompletedStays` |
| `assistant` | 2 questions of 3 people, 2 of them case managers; one an hour, one generated a day, 2 ticks | `LimitsKept`, `WithheldUnseen`, `ReviewsHold`, the refinement `KeepsPromise` |
| `availability` | 2 steps, 4 requests on 2 connections; `FairSpec` | `ServedAfterStart`, `GateFollows`, `RequestsAnswered` |
| `sessions` | 2 sign-ins, limits of 1 in windows of 2 and 3 seconds, tokens of 2 s, sessions of 3 s, 5 s in all | `GuessesBounded`, `SessionEnds`, `SignedOutStaysOut` |
| `eligibility` | 3 calls, 3 changes on either side of each rule | `FilesAgree`, `StaleIsNoticed` |
| `service_health` | one window of a minute, 2 minutes, the timer, a view and a page; `FairSpec` | `MinutesComplete`, `AlertsOnce`, `AlertsFollow` |
| `browser` | 2 tabs, 2 sign-ins, 4 clicks, tokens of 2 s, sessions of 3 s, 5 s in all; `FairSpec` | `TimersHarmless`, `TimersRunOut` |

*Bounds, and why they are enough to meet the interesting cases.*

- `staff_access`: two requests make every pair of calls overlap, from every initial table of roles, so that
  longer histories are covered by starting in their result; three people let two be removed and one stay,
  and let two race for a promotion. The constraint `StartsAmongListed` lets a start go on only in databases
  without the third person, who is on no list; the refinement with a start and any table is left to the proof.
- `case_decisions`: three requests allow a decision, its review and a second decision or resolution, beside each other
  and in any order of their BEGINs. `Earlier` starts them where a first call can have left the case: Approved and
  Appealed are one call from one of these, and no call makes a Draft; the applicant is staff, so that only the separation of duties
  stands between them and their own case.
- `mfa_sign_in`: three requests against a limit of two make the limit matter, and neighbouring codes overlap (a
  code is valid one step either side). `LastStep` stops the clock.
- `audit_batch`: four entries in batches of two let two full batches, a batch by the timer and the last flush
  overlap, one of them with a refused row before or after a good one.
- `policy_cache`: two saves at different processes make each process both the one that saves and the one that
  is out of date; the three changes close the route, switch the rule off and open the route again, so that
  a decision can be wrong in both directions. `MaxFailures` is 1: the failures of one process are independent.
- `eval_runs`: three starts are two of one kind and one of the other, or three of one; a run can be stale and
  still too recent for another of its kind, and two ticks bring the interval to its end. Two marks race for the
  first baseline, or one releases the other's; three marks are left to the proof. `LastMinute` stops the clock.
- `assistant`: two questions of one person meet the hourly limit, of two people the daily cap, across the end of
  an hour and a day; two case managers race for one review, and either may be the asker. `LastTick`.
- `availability`: two changes can fill the pool of two, one holding the lock and in need of a second connection,
  while a third waits; with two steps one can be done, skipped or repeated. The database goes and comes
  back any number of times.
- `sessions`: the second sign-in is the one too many, or the one that is let in as a window ends or is cleared;
  a token is extended once in full and once to the session's end, and there are two seconds after it
  (`LastSecond`) in which a token or a row that lived too long would show.
- `eligibility`: two saves and a check, or a save and two checks, overlap everywhere; each change turns one
  determination or the status, and the person is 65.
- `service_health`: `Budgets` are the requests, changes of the drift and failures or restarts of a behaviour: traffic
  with a fault, answers with a fault, both without. The timer, a page and a check make three flushes that chain.
- `browser`: `Clicks` bounds what people do: four are a sign-in, a second, a request to stay and a sign-out. With a
  warning a second before the end every timer is due at some second of the five (`LastSecond`), the last of which is the
end of a session and the two seconds after it.

Nothing else is cut off, because a request is made at most once, and so are an entry and a question. Symmetry is
over requests, interchangeable people and pending sign-ins; no run with a liveness property uses it.
`CHECK_DEADLOCK FALSE` is in every run, because the requests of each run out, or its clock does, which is the end of the
behaviour and not a deadlock; waiting that never ends is the subject of `RowsComeFree` and of the liveness properties.

*Fairness.* Five runs assume some; their safety properties do not need it.

- `audit_batch` (`EntriesSettle`): the event loop ends its turn (`TimerFires`), and every statement is answered
  or its connection given up (`Answer`, by entry). The database is not obliged to run anything.
- `policy_cache` (`InForceInTheEnd`): the supervisor runs `startPolicy` until it succeeds, a read comes to its
  end, time goes by. That callers go on asking is the antecedent of the property and not an assumption
  about them: a process nobody asks keeps its old copy.
- `availability`: the supervisor and the probe go on (their timers fire), and so does what a request has begun.
  A lock that is free again and again is granted in the end, or its waiter's connection breaks (strong fairness:
  PostgreSQL queues the waiters of an advisory lock). Nothing makes the database come back, or a request arrive.
- `service_health`: the timer goes on, and what has been asked of the database is answered; a failed flush or
  check is bounded by the budget of faults, and the next tick does it again.
- `browser`: the timers of a page fire and its events are delivered. Nothing is asked of people, the network or
  the server.

`Begin...`, `Fail` and the like have none: nobody is obliged to call, and nothing is obliged to fail.

## 4. What does not hold

Some sentences of the code's own comments were checked and are not kept. They stand as definitions at the end of
their modules; added to the run's configuration, each is reported violated.

| Definition | Says | What happens |
|---|---|---|
| `ListGrantsAudited` (StaffAccess) | every grant is audited (`roleService.ts:99`) | the UPDATE of the bootstrap (`:65`) is committed before its entries; after a failure in between the next start finds staff and skips them |
| `ApprovedIsFinal` (CaseDecisions) | approved is final (`caseService.ts:16`) | two managers read In Review; one approves, then the other's UPDATE (`:210`) denies |
| `EndsInStatus` (CaseDecisions) | the timeline of the case page ends with how the case stands (USER-GUIDE.md: the page shows the status and a Timeline) | entries are shown by `created_at` (`caseService.ts:349`), which is the time of BEGIN (migration 012:15): of two changes, the one that began first takes the row last and sets the status, and its entry is shown first |
| `DecisionsChecked` (CaseDecisions) | no decision is left unchecked without someone being told (`complianceService.ts:237-238`) | the audit entry after the COMMIT (`caseService.ts:236`) fails, outside the `try` of `evaluateDecision`, and nothing is evaluated |
| `ConfirmsStoredKey` (MfaSignIn) | only the latest setup can be confirmed (`mfaService.ts:146`) | a setup deletes the waiting device a confirmation has read; its UPDATE (`:188`) touches no row and verification is on with no device |
| `NeverAcceptedTwice` (MfaSignIn) | a code is never accepted twice (migration 018:3-4, `mfaService.test.ts`) | two confirmations of one device overlap; the second sets `last_used_step` without a condition (`mfaService.ts:188`) and takes the code of the first, or makes codes used since good again |
| `OneSetOfCodes` (MfaSignIn) | the old codes stop working (`routes/mfa.ts:147`) | two sets are made at once; the DELETE of the second (`mfaService.ts:307`) does not see the rows of the first |
| `OffLeavesNothing` (MfaSignIn; 4 requests, 3 tries, 1 pending sign-in) | - | a removal (`mfaService.ts:261`) that began before a confirmation's commit leaves its device verified, and the unique index then refuses every later confirmation |
| `StopLosesNothing` (AuditBatch; batches of 3) | a stop with SIGTERM writes the pending entries (`auditService.ts:183-184`) | a batch is refused and its rows go one at a time; the last flush ends first and `process.exit` (`index.ts:83`) leaves the others |
| `ReviewsStand` (Assistant) | the person sees the result in their history (`assistantReviewService.ts`) | the answer is stored and withheld, a case manager closes it, and the request's own AI_ANSWER entry then fails: its catch (`assistantService.ts:374`) marks the row an error |
| `DeterminationFollows` (Eligibility) | eligibility is determined again whenever the profile changes (`routes/users.ts`, STORY-006) | two saves: the check of the first reads the profile before the second and commits after its check |
| `Listens` (Availability) | the API starts and listens whatever the database is doing (`availability.ts`) | the database is there when the start asks, and goes before its steps are done: the port stays closed until it returns |
| `OverloadStaysOpen` (Availability) | an overload is not an outage (`app.ts`) | the probe times out in a full pool, or the pool has room again when the error of a request that timed out in it is handled: the gate closes for a moment |
| `SessionsEndOnTime` (Sessions) | never valid past MAX_SESSION_SECONDS after the sign-in (`jwt.ts:58`), never past 12 hours (`routes/auth.ts:187`) | an extension at the end is for at least one second (`jwt.ts:63`), and the clock goes on between its three looks: up to two seconds more |
| `OffInTheEnd` (Browser) | each tab signs out when the session ends (`SessionTimer.jsx`) | the timer of one tab removes the token; the event reaches another before its own timer, which it clears (`:62`), and that tab stays on its page |
| `RefusalsEnd` (Browser) | while signed in, a 401 means the session ended (`api.js:27-28`) | it answers a request sent with an earlier token, and takes the new one away |
| `StaysSignedOut` (Browser) | - | the reply to a request to stay comes after another tab, or the navigation, has signed out, and stores a token again |
| `AlertsTold` (ServiceHealth) | a breach notifies every administrator (`sloService.ts`) | the notification fails after the alert's row was inserted; later checks find the alert open and say nothing |

## 5. Proofs

`StaffAccessProofs` proves the safety properties of `StaffAccess` for every set of people (finite and not
empty), every two lists of them, and every set of requests and starts. The assumptions are
`UsersAssumption`, `ListsAssumption` and `NoRequestAssumption`.

The properties are not inductive: that a removal leaves somebody is only true at its COMMIT because of
what its UPDATE counted several steps before. `IInv` adds what holds in between. Whoever is past the lock
holds it (`LockHeld`); each stage belongs to its operation (`StageOfOp`); what was read and asked for is
something the rules allow (`Admissible`); the row an open transaction has written is still, to others, the
row it read (`OpenWrite`: a second writer of that row waits, be it a request or a start); the colleague a
removal counted is still staff (`SomeoneStays`: only removals take staff away and they all take the lock);
and the trail is ahead of the change (`AuditAhead`).

- `TypeCorrect`, `OpenTransactions`: the types and `IInv` are invariants.
- `Implements`: every step of the code is a step of `StaffRules` or leaves the roles alone.
- `StaffKept`, `AdminKept`: proved of the rules, and carried over by the refinement.
- `AuditedFirst`, `RolesMove`: from `IInv` and the refinement.
- `PromotedOnce`: a second invariant, `PromotionInv`: a committed promotion means there is an administrator,
  and then no transaction has another promotion waiting.

`AuditBatchProofs` proves the safety of `AuditBatch` for any entries, any that are refused and any batch size
above zero (`GoneAssumption`, `MaxAssumption`). `IInv` says where an entry can be (`InOnePlace`: pending, or in
one flush, and no sequence repeats one), how often it can have been written there (`Counted`: not at all
before its flush, at most once more than in doubt after), and what the exit waits for (`LastWaits`: one
last flush, which holds all that was pending). `EachInOnePlace` is the invariant; `BatchTypes`,
`NeverDropped`, `OnceEach` and `StopWrites` follow from it. Lemmas before it say what `Append`, `Head` and `Tail`
do to the entries a sequence holds.

`PolicyCacheProofs` proves the safety of `PolicyCache` for any processes, callers, saves and settings, and any
number of failed reads (the five assumptions of the module). `IInv` has `Newest` (a number belongs to one
version and there is a newest), `OnNewest` (who is past the lock holds it, and what it has read is still the
newest version), `Copies` (a copy is a version that was saved, and an answered read is not older than the
copy it will replace), `Looked` (the read a save waits for was answered after its commit) and `Recorded`.
`OneAtATime` is the invariant; `PolicyTypes`, `NoneOverwritten`, `AuditedBefore`, `AppliedHere` and `Justified`
follow, and `OnlyForward` is proved step by step from `Copies`.

`EvalRunsProofs` proves all four properties of `EvalRuns` for any starts and marks, any interval and any age of
a stale run (`RequestsAssumption`, `MinutesAssumption`). `IInv` has `UnderLock` (a start that has counted holds
the lock and still finds no recent run of its kind: nobody else can have inserted one), `RowsOf` (a row is
there from the COMMIT on, and one a start has locked is still running, because its own run waits for the
lock), `Marked` and `PastIndex` (one mark at a time is past the index, having released every other baseline).
`KeptApart` is the invariant; `RunTypes`, `HourlyLimit`, `BaselineKept` and `ResultsStay` follow, the last two with
one step each.

`EligibilityProofs` proves both properties of `Eligibility` for any number of saves, checks and changes and
any values of the profile (the module's assumptions; `Age >= 18` is among them because nobody younger can register,
validators.ts). `IInv` adds `Dates` (what is on file and under way is dated no later than the clock, and no save has the date of an open check or of a determination) and
`ReadHolds` (a check under way that no save has overlapped has read the profile that is on file). `DatedApart` is the invariant; `EligibilityTypes`, `FilesAlwaysAgree` and
`StaleAlwaysNoticed` follow.

`SessionsProofs` proves all three properties of `Sessions` for any attempts, limits and lengths of windows
(`LimitsAssumption`, `TimesAssumption`), and any lengths of which a token's is at most a session's
(`ExpiryAssumption`: `generateToken` does not cut the first token to the end of the session, so with a longer
JWT_EXPIRY it would outlive it; the defaults and the documented settings are far below). `IInv` adds `AskedOf` (only a
session has requests), `OnTheList` (a row of the list expires with its session, and is gone only after
that), `Windows` (which window an attempt can have been counted in) and `RowCounts` (whoever was let in within
the present window has been counted in its row). `CountedAndListed` is the invariant; `SessionTypes`,
`GuessesAlwaysBounded`, `SessionsEnd` and `SignedOutStays` follow.

`MfaSignInProofs` proves the three properties of `MfaSignIn` for any pending sign-ins, requests and recovery
codes, any number of tries and any length of time (`BudgetAssumption`, `BoundAssumption`, and `RowsAssumption`: rows of
different tables are different rows). The properties are about the history, what was looked at, accepted and
spent; the code decides by the rows. `IInv` says that the rows tell the history: a pending sign-in with a session is
completed (`SessionsComplete`), whoever looked at a code has been counted (`TriesCounted`), the last step of a device is
no earlier than any step accepted of it since it was last confirmed (`LastIsLatest`), and a device is on file only once its
setup has committed, so no code of it was accepted before (`DevicesInserted`). `HeldByChanges` says who holds which rows, so that a
confirmation cannot take back the last step under a sign-in. `RowsTell` is the invariant; `MfaTypes`,
`OneSessionEach`, `BudgetsKept` and `CodesStaySpent` follow.

`CaseDecisionsProofs` proves the five properties of `CaseDecisions` for any people, staff and calls, and whatever the
exemptions row says, from no case or from one that is Submitted, In Review or Denied (`PeopleAssumption`, `EarlierAssumption`,
`DataAssumption`); every other case is reached from these, as the number of calls is not bounded. The properties are about the timeline; what makes them true
happened several steps earlier, in a read before BEGIN. `IInv` ties the two: each stage belongs to its operation
(`StageOfOp`), a call asks only for what its read and its actor allow (`CallsAdmitted`), what it has read was the
status before its transaction began (`SeenWas`), an entry says what its call asked for (`EntriesTrue`) and starts from one
committed before its own BEGIN (`OpenedFirst`), the timeline is in the order of the COMMITs and no entry is dated after its
own (`TimesTrue`), the entry committed last says the status (`LastSays`),
a decision is on the timeline and in the audit log before it is evaluated (`DecisionsThere`, so that `FoundGuarded`), and
who holds the case can commit (`HeldOpen`). Every step either adds one true entry or leaves the timeline and the
status alone (`WhoWrites`); the rest follows from that lemma. That whatever is *shown* after the entry of the present status
overlapped it follows from `LastSays` and `TimesTrue`: an entry with a later date than the one committed last was committed no
later and begun no earlier. `FileTrue` is the invariant; `CaseTypes`,
`TimelineStaysTrue`, `DutiesStaySeparated`, `FailuresStayReviewed`, `GuardsHold` and `NoneWaitForEver` follow.

The second half of `SessionsProofs` is about `Availability`, for any number of steps, any size of the pool and any set
of requests (`SizesAssumption`, `DataRequestsAssumption`). That no request is served before the start is done is a
conclusion from where the supervisor is: `StartInv` says that the steps that have finished are those before the
present one (`StepsInOrder`: a step that is tried again is neither skipped nor counted twice), that the gate has been
told when and only when the supervisor serves (`GateTold`, `ServingDone`), and that the port is open earlier only where
the database was out of reach (`PortWaits`). `AvailabilityStart` is the invariant, `NoneServedBefore` follows.
`LockHeldByOne` says of the requests what no run asks: the advisory lock belongs to one transaction that still has its connection.

The second half of `AuditBatchProofs` is about `ServiceHealth`, for any windows, pages and views and any budgets of
faults (`WindowsAssumption`). `MinutesInv` has `TurnHeld` (only the flush at the head of the chain of promises holds a
copy, and of a closed minute its copy is what was counted) and `Forgotten` (a minute that has left memory has closed
and its row is complete): a minute may be forgotten at the answer to a flush only because nobody else can have
begun one. `RowsComplete` follows, and `OnlyHeldMinutesWritten`, an action property. `AlertsInv` is about `alerts`
alone, whatever a check has read and however long ago: an alert is opened where none of its key is (the unique
index), and cleared where it is still open. `AlertedOnce` follows, and `ClearedIsFinal`, an action property:
no stale check reopens or clears a second time.

The second half of `PolicyCacheProofs` is about `Browser`, for any tabs and sessions and any length of them
(`SecondsAssumption`). `NoHarmByTimers` is inductive with the types: a timer acts only where the expiry its tab knows is
that of the stored token and has come (`EndFires` looks at the store first). `TokensEndWithTheSession` carries what
the server's rule of extension says through the store, the tabs and the replies: no token anywhere ends later than
`JWT_EXPIRY` after the sign-in or two seconds after the session. It holds of every token in a call as well
(`TokensEnd`), for a reply that is late would store what it holds.

The second half of `EligibilityProofs` is about `Assistant`, for any questions, people, limits and lengths of an hour and
a day (`PeopleAssumption`, `LimitsAssumption`, `ModeAssumption`). `QuestionsInv` says where a question's request is
and what its row is then (`Asked`: there is no row before the COMMIT of the reservation, and a pending one until the answer
is stored), who has the lock (`Locked`), that a review that holds a row still finds it with the staff and not its own
(`Holding`), that what is shown is grounded and not personal (`Shown`) and what is reviewed was closed by another
(`Closed`). `QuestionsInvariant` gives `AssistantTyped`, `WithheldAnswersUnseen` and `ReviewsStandAsTold`.

For `NoLimitSlipsPast` the property as the run states it is not inductive: it speaks of the windows up to now, and a
request counts by the time it *began*, which may be before that of one that was let in earlier. `LimitsInv` says it of the
window that ends at any time whatever (`AnyHour`, `AnyDay`), and of whoever has counted and not yet inserted that
there is still room (`Counted`), which the lock keeps true.

`PromiseKept` is the refinement: `AssistantSpec => KeepsPromise`. The mapping reads the stage off the row, the asker
off the row once there is one, and counts a request as settled when it is over. The initial states agree (`Words`: the
words of both alphabets differ), and `PromiseStep` goes through the actions: the COMMIT of the reservation is the asking,
`StoreAnswer` the answering, `RecordFeedback` the report, `CommitReview` the closing (by `Holding`, nobody's own),
the catch of the request the withdrawal, and any other end of it the settling; every other step leaves what the promise sees as it was.

Only model-checked are the liveness properties `EntriesSettle`, `InForceInTheEnd`, `GateFollows`, `RequestsAnswered`,
`AlertsFollow` and `TimersRunOut`, which rest on fairness and are beyond the prover. Every other property of every run is
the conclusion of a theorem, for every value of the constants. The definitions of section 4 are false and have none.

## 6. What is not modelled

PostgreSQL is taken at its READ COMMITTED word: a statement sees what was committed when it began, a
transaction's writes appear together, a row being written makes other writers wait, unique indexes
decide. Connections are counted in `Availability` only. Reads, reports, CSV exports and dashboards change
nothing. Notifications marked read, training attempts, the measurements of freshness, markers of changes and
the daily clean-ups are single statements, each of which the database makes atomic: there is no order of steps to
get wrong. What the steps of a start do to the schema and the documents (migrations, the ingestion of the
corpus, the audit of the configuration) runs in one process before any request is served; that it is done in
order and repeated when it fails is in `Availability`. The pages of the browser application show what the
API allows, and every rule they show is enforced there. Infrastructure and scripts are configuration.

## 7. Plan

Done: the twelve components of section 2, each with its run and the proofs of its safety properties; both
refinements (`StaffAccess` of `StaffRules`, `Assistant` of `AssistantPromise`), model-checked and proved.

Left, in this order: a composition of `Eligibility` with `CaseDecisions` in place of the constant `Determinations`, which
would show that CTRL-02 notices every stale determination it can; the pool of connections in the components whose
transactions hold one while their audit entry waits for a second.
