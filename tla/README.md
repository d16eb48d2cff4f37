# A TLA+ development of e-voting-blockchain

This directory holds TLA+ modules that model the server of this repository, TLC
configurations that check them on small instances, and theorems that TLAPS
proves for instances of any size. Paths below are relative to the repository.

## 1. The system

One Node process (`server.js`) serves voters and an administrator. It keeps its
tables in MySQL, reached through **one** connection (`config/db.js`), and three
hash chains ("ledgers") of signed blocks, each both in memory and in a table.

| Component | State | Operations | Interacts by |
|---|---|---|---|
| Blockchain core `blockchain/blockchain.js`, `keys.js` | `chain` in memory, one table per ledger | `create`, `addBlock`, `resetChain`, `isChainValid`, `hackBlock` | called by the services; one INSERT per block |
| Merkle tree `blockchain/merkle.js` | none | root, proof, verification | called by `Block` |
| Database `config/db.js`, `sql/` | tables, constraints | statements | one FIFO connection shared by every handler |
| Voting `services/votingService.js` | `votes`, `users.sudah_vote`, vote ledger | `castVote` | settings, candidates, vote ledger, audit |
| User administration `services/userAdminService.js` | `users`, `votes`, vote ledger | `addUser`, `deleteUser`, `resetUserVote`, `resetAll` | same tables as voting |
| Settings `services/settingsAdminService.js` | `election_settings` | `updateSchedule`, `toggleElectionStatus` | read by voting and the candidate ledger |
| Audit recording `utils/auditLog.js` | `audit_logs`, audit ledger | `recordAuditLog` | tail of every handler that changes something |
| Candidate ledger `services/candidateLedgerService.js` | candidate ledger | `submitTransaction` | locked while the election runs |
| Candidate projection `services/candidateProjectionService.js` | `candidates`, `candidate_ledger_sync_state` | project, resync, migrate | replays the candidate ledger |
| Authentication `services/authService.js` | sessions | login, key generation, logout | a session is a copy of the user's row |
| Audit log query `services/auditLogService.js` | none | filter, sort, pages, export | `audit_logs`, in two statements |
| Explorer `controllers/explorerController.js` | none | blocks, detail, Merkle proof, health | the chains in memory |
| Results `services/resultsService.js` | none | one SELECT | `votes` |
| Integrity validation `validation/` | local variables of one run | scenarios, cleanup | a second process on the same live tables |
| Benchmarks `benchmark/` | a worker process and its own database | start, phases, stop | messages between two processes |
| Web pages `public/` | who is logged in, what is shown, requests under way | fetch calls | HTTP; one cookie for all pages of a browser |

### What is hard in it

* **Interleaving.** A handler is a chain of nested callbacks. Between two of its
  statements any other handler may run: what was read (`sudah_vote`, `is_open`,
  `last_tx_id`, the lock of the candidate ledger) may be stale when it is used,
  and what two statements write together (a vote and its flag; the rows of a
  ledger and its chain in memory) is seen half-written.
* **Partial failure.** There is no transaction. Any statement may fail after
  others have been executed, and each handler has its own idea of what to tell
  the client then.
* **Crash and recovery.** Memory runs ahead of the tables (`addBlock` pushes,
  then saves). A restart rebuilds the chains from whatever had been saved.
* **Process exit.** An exception in a callback is caught by nobody.
* **Tampering.** `hackBlock` overwrites a block in memory; validation must
  notice.
* **Sessions.** express-session gives every request a copy of the stored session
  and writes whole copies back; a timer destroys sessions behind the requests
  that use them, and the page remembers its user separately.
* **Pages.** Requests of a page overlap, are answered in any order, and what they
  show may be stale when it is clicked.

What makes each component correct: *voting*: one vote per voter, a receipt
means the vote, its flag and its block are stored for good; *ledger*: a chain
that nobody tampered with validates, one that was tampered with does not, and
memory and table hold the same history; *reset*: all or nothing; *audit*: a
record that names a block names the right one; *settings*: toggles are not
lost, no vote enters a closed election, candidates are frozen while votes are
accepted; *sessions*: a vote is stored for the voter the page showed, a session
that was ended stays so; *pages*: what is shown is what there is; *validation
tool*: its report is right and its clean-up removes its own traces only; *every
handler*: it answers.
`PROJECT.json` lists the hazards line by line.

## 2. The model

### Execution model (module `Database`)

The driver sends the next statement when the one before has been answered, so
statements run in the order in which they were issued. The program is therefore
a FIFO `queue` of statements `[req, stmt, block]`, and **one step of the model
is one statement together with its callback**: Node runs the callback (and the
promise continuations it resolves) on its only thread before the next answer
can arrive. Requests may arrive between any two steps.

* `Succeeds(r, stmt)` / `Fails(r, stmt)`: the statement at the head is `stmt` of
  request `r`, and its callback is called without / with an error. A statement
  fails because a constraint rejects it (`Rejected`) or for no reason of its own
  (at most `MaxFaults` times).
* A callback ends in `Proceed` (issue the handler's next statement), `AddBlock`
  (push a block and issue its INSERT) or `Answer` (reply to the client).
* `req[r]` is the request's input, with the set `after` of requests that had been
  answered when it came: a history variable used by properties only.
* Digests are symbolic (`Ledger`): a block's hash is the list of all that has
  been hashed into it since the genesis block, a signature is the pair of key and
  data. SHA-256 is thereby taken as free of collisions and RSA as unforgeable.
  The Merkle root is that of the single transaction a block holds.
* Timestamps are the request that made the block. The program's are
  milliseconds; two blocks of one millisecond differ in the model through their
  requests, in the program through their data.
* Data columns of the block tables are text that is read back as written
  (`JSON.parse(row.data)` at `blockchain.js:113` requires text).

### Modules

| Module | Models | Correspondence |
|---|---|---|
| `Ledger` | `Block`, `addBlock`'s linking, `isChainValid`, `hackBlock`, the load order | pure operators on sequences of blocks |
| `Database` | `config/db.js`, the tables, `saveBlock`, `recordAuditLog` | variables of the server; `Perform` = effect of a statement; `RecordAuditLog`, `AuditBlockSaved/Lost`, `AuditLogSaved/Lost` |
| `VotingService` | `castVote` | one action per callback, success and error |
| `UserAdminService` | `deleteUser`, `resetUserVote`, `resetAll` with `resetChain` | likewise |
| `SettingsAdminService` | `toggleElectionStatus` | likewise |
| `ElectionServer` | arrival of requests, service, `hack`, `Crash`, `FatalError`, `Restart` (`Blockchain.create`) | composes the services; states the properties |
| `Ballot` | the promise to a voter: at most one ballot each, which only the administrator takes out | abstract specification |
| `SerialElection` | `ElectionServer` with voters who wait for an answer before they vote again | implements `Ballot` |
| `CandidateTransactions` | `applyTxToState`, the fold of `resyncFromGenesis` | pure operators; `LastValues` says in one formula what the fold is to compute |
| `CandidateStore` | `sql/migration_candidate_ledger.sql` and the statements on its tables | `PerformCandidates`, `RejectedCandidates`; `Runs`/`Refused` as `Succeeds`/`Fails` |
| `CandidateProjectionService` | `projectSingleTransaction`, `resyncFromGenesis`, `syncAfterTransaction` | one action per statement of a projection |
| `CandidateLedgerService` | `isLedgerLocked`, `validateTransaction`, `submitTransaction`, `migrateLegacyCandidates` | likewise |
| `CandidateServer` | the whole server: `ElectionServer` and the candidate handlers | one queue, one settings row, one process; states the candidate properties |
| `IntegrityValidation` | `validation/IntegrityValidationService.js` | `ElectionServer` twice on the same tables: the server itself, and an instance with the chains and the connection of the tool; `tool.pc` goes through `runValidation`, one action per statement |
| `VotingPage` | `public/script.js`, express-session, `authService.js` | `requests` go through loading the session, the handler, saving and answering |
| `Merkle` | `blockchain/merkle.js` | pure operators: layers, root, proof, verification |
| `AuditLogPage` | `public/audit-log.js`, `auditLogController.js`, `auditLogService.js` | a query is two statements, `Count` and `Select` |
| `ExplorerPage` | `public/explorer.js`, `explorerController.js` | handlers answer at once from the chains; requests overlap |
| `ElectionWindow` | the election section of `public/admin.js`, `adminSettingsController.js`, `updateSchedule`, the criteria of `castVote` and `isLedgerLocked` | a settings row with a schedule, a clock and a zone; a toggle is its two statements, any other handler one step; an answer may be a refusal, which `loadSettings` takes for a row |
| `MCElectionServer`, `MCSerialElection`, `MCCandidateServer`, `MCIntegrityValidation` | symmetry for TLC | |
| `MCAdminPages` | the pages of the administrator, one part at a time | `part` chooses among `AuditLogPage`, `ExplorerPage`, `ElectionWindow` and lists for `Merkle`, which share nothing; the election page is cut once more, into three parts (section 3) |
| `HandlerProofs`, `ServerProofs`, `SettingsProofs`, `CandidateProofs`, `ValidationProofs` | theorems about the server, the candidate ledger and the tool | section 5; each extends the ones it rests on |
| `PageProofs`, `AdminPageProofs` | theorems about the pages: voting page, sessions and audit log; explorer and election page | section 5 |
| `MerkleProofs` | lemmas about Merkle trees | `AdminPageProofs` extends it |

Operators with a name `X_Something` before an operator `X` are variants of it
that show what a slip in the code would do; no specification uses them.

Modelling decisions a reader should know:

* `sudah_vote`, the votes, the settings and the ledgers are separate tables
  written by separate statements, exactly as in the code. The foreign keys of
  `votes` and the UNIQUE key of `audit_ledger_blocks.block_index` are in
  `Rejected`; `blockchain.block_index` has no such key, and neither has
  `votes.user_id`.
* `castVote` of a session without keys issues an UPDATE of the keys **without
  waiting for it**: two statements in the queue at once. The failure of that
  update calls a callback that does not exist and is not modelled.
* `votingService.js:51` reads `result[0]` of a user who may have been deleted:
  `FatalError` ends the process with every request in it.
* `Crash` kills the process between two steps, with the statement under way
  executed by the database or not, its callback never called.
* `Restart` is one step, since no request is served before the chains are loaded;
  rows with equal `block_index` may be loaded in any order.
* `start_time` and `end_time` are NULL (their default) in the server modules, so
  the election is open when `is_open` is; `ElectionWindow` has the schedule.

Of the candidate half:

* The queue, the settings row and the process are those of `ElectionServer`; a
  candidate handler keeps what it still needs in the third field of its queue
  entry (the lock it read, the block it stores, the rows left to write). All of a
  resync's replay happens in the callback that starts it, as in the code.
* `tx_id` and `candidate_ref` are UUIDs in the program and here name the request
  (and the row) that made them. A client sends only references it can know: those
  on the ledger. A new row's id is its `candidate_ref`; a legacy row's name is its
  id. Votes go to rows that were there at the start.
* A payload is `nama` and `deskripsi`; `foto_url` is treated by every transaction
  as `deskripsi` is. A field not sent is `NULL`; sending an explicit `null` is left
  out. `reason` is present or not. The signature of the transaction inside the
  block's signature adds nothing to it and is left out.
* `nama_kandidat` is NOT NULL (strict mode, MySQL's default), and `candidate_ref`
  and `block_index` are UNIQUE.
* `candidateController.submitTransaction` awaits the ledger outside its `try`: the
  rejected handler is answered by Express 5 with status 500.
* The JSON columns of the audit and candidate block tables are read back as text,
  as MariaDB does; where the driver parses them, `JSON.parse(row.data)` would throw
  at a restart (`blockchain.js:113`).

Of the validation tool and the pages:

* The tool's votes go through the same `VotingService` actions as the server's, by
  `INSTANCE` with the tool's own chains and queue. Node runs one callback at a time
  in each process; statements of the two interleave freely. The settings row is
  there at the start (the schema inserts it).
* `VotingPage` has one browser and one cookie. A request loads a copy of its
  session, its handler changes the copy, and the copy is stored before the answer
  if it is new or changed (`resave: false`, `saveUninitialized: true`). What
  `castVote` does to the tables is one step there.
* Requests under way are bags of records: any of them may be served, answered or
  lost next, and a double click is two equal ones.
* In `AuditLogPage` a row is its place in the table, which is its id and the order
  of its timestamp. Only the sort by time is modelled.
* In `ElectionWindow` hours are integers, and the browser and the server are in
  one zone `zone` hours ahead of UTC. A DATETIME is the hour a clock of that zone
  shows. The history variable `origin`, which travels with the answers and the form,
  has for each time the hour that was typed and how often it was saved as it had been
  loaded since; `seen` in an answer, and with the badge, is the number of toggles there
  had been.
* The tool's `insertedUsers` (`tool.users`) is assigned when `createValidationUsers`
  returns; `tool.created` are the rows it has inserted by then. When one of its
  statements fails, `tool.users` stays empty and the clean-up leaves its two DELETEs out.

## 3. What the runs check

Statements fail and processes die only in the runs whose bounds say so. Each
run finishes within five minutes.

| Run | Bounds | Properties |
|---|---|---|
| `overlaps` | 2 voters, one without keys, 3 requests (votes, `resetUserVote`, `resetAll`, `deleteUser`, `hack`), 1 failure | `TypeOK`; `FlagAgreesWithVotes`: flag and votes agree once the statements under way are done, whatever overlaps; `MemoryChainsValid`: `/validate` raises no false alarm; `TamperEvident` and `ResetIsComplete` (action properties): validation misses no tampering; a reset that overlaps nothing leaves one genesis block, in table and memory |
| `faults` | 2 voters, 3 requests (votes, toggles), 2 failures, 1 crash | `NoVoteAfterReceipt`, `ReceiptIsDurable`, `NoBlockWithoutVote`, `AuditLogNamesItsBlock`; `WriteBehind`: the table is the beginning of the chain in memory, and the inserts under way carry the rest of it, each block once and in order; `RecoverableLedgers`: the table is a valid chain at any moment; `TogglesAddUp`, `NoVoteWhileClosed` |
| `serial` | 2 voters, 2 candidates, 3 requests | `ImplementsBallot` (refinement) |
| `projection` | one administrator, a legacy row, 3 requests, all types of transaction, 1 failure, 1 crash | `ProjectionIsReplay`: single projections and a replay agree; `ReplayIsLastValue`; `MigrationRegistersOnce`; `HistoryRefersBack`; `ResyncRepairs` (action property) |
| `admission` | 3 overlapping requests with toggles and a legacy row, 1 crash | `CandidatesTypeOK`, `LockIsHonoured`, `HistoryRefersBack`, `RowsAreBacked` |
| `answers` | every handler of the server, 2 requests, 1 failure, 1 crash | `EveryRequestIsAnswered` (liveness) |
| `validation` | the tool with 2 users beside a server with one voter and one request (vote or toggle), candidates 1 and 12, 1 failure of either | `CleanupRestores`, `ReportIsRight`, `VotersKeepTheirVotes` |
| `sessions` | 2 voters, an admin, 4 requests, 1 reload, 1 crash | `VoteIsOfTheShownUser`, `DestroyedForGood`, `VotedSessionEnds` (liveness) |
| `admin_pages` | audit log: 4 rows in pages of 2, exports of 3, 2 queries at a time; explorer: 2 ledgers of 2 blocks, 1 reset, 3 requests at a time; election: zones 0 and 1, hours 0 to 3, 3 toggles, 2 savings of a form as it was loaded, 2 requests at a time, any of them refused or lost, in three parts (times loaded, typed and saved; time passing over typed schedules while others toggle and voters vote; the button clicked over an empty form); Merkle: lists of up to 6 | `PagesShowEveryRow`, `ExportIsWhole`; `DetailIsOfTheRow`, `BadgeIsOfTheLedger`, `TamperedBlockIsFound`; `CandidatesFrozen`; `WrongClicksAreUninformed` (action property): when a click does the opposite of what the button read; `ScheduleShiftsByTheZone`: by how much the schedule differs from what was typed; `ProofsVerify`, `RootsBind` |
| `double_vote`, `voided_create`, `nondestructive` | 2 requests | violations, section 4 |

*Why the bounds suffice.* The hazards are about two requests that overlap; the
third request is the one that meets the state they leave (a vote after a toggle
that failed, a reset after a block was tampered with, a VOID of an update).
Two voters distinguish "this voter" from "all" (`resetAll`, a WHERE clause).
Two failures allow one to hit a handler and one to hit its clean-up, or the
projections of two candidates. A candidate has two transactions before a third
can void the first or overlap the second. Two names, or a name and a description,
tell a kept value from a new one. Four requests are the two of one voter (login,
vote) and of the next. Candidate 12 is one whom `(candidate % 10) + 10` does not
change. Four rows in pages of two let a row move from one page to the next while
the reader turns it; five transactions are the first number to double a node on
two layers of a Merkle tree. One hour between zones and three hours let an
election be scheduled, begun and over, and a form be saved twice as it was loaded.
The election page runs in three parts because what one of its questions needs
multiplies the states of the others; that the parts do not disturb each other is
what the theorems about all of `WindowNext` add (section 5). Requests, voters, candidates and names are
interchangeable and TLC uses that symmetry in the runs without liveness.

*Conditions in the properties.* `FlagAgreesWithVotes` excludes failing statements
and requests cut off by the end of the process: the code makes no attempt to
repair either (a failure between the INSERT of a vote and the UPDATE of its flag
is answered by "Vote tersimpan tapi gagal update status"). `WriteBehind` and
`RecoverableLedgers` exclude failures and are checked without `resetAll`, for
which they are false (section 4). `MemoryChainsValid` excludes `hack`.
`TogglesAddUp` and `NoVoteWhileClosed` are about toggles that do not overlap:
overlapping ones read the same status, and the code promises nothing.
`LockIsHonoured` is about requests that overlap no toggle. `RowsAreBacked`
excludes failures: a resync takes a block whose INSERT has failed from memory
into the rows, and once the process has ended that block is nowhere.
`HistoryRefersBack` therefore excludes failures together with an end of the process (by a
crash, or by an uncaught error of `castVote`), and overlapping migrations, the second of which gives a row another
`candidate_ref`. `ResetIsComplete` is about a reset that
overlaps no other request. `ProjectionIsReplay`, `ReplayIsLastValue`,
`MigrationRegistersOnce` and `ResyncRepairs` are checked under
`SerialCandidateSpec`, one administrator who waits for each answer, as one does
on the page. `ProjectionIsReplay` further leaves out ledgers on which a VOID has
left a candidate without transactions or without a name (`Intact`); section 4
tells what happens to those. `ResyncRepairs` needs neither `Intact` nor the
absence of failures. `CleanupRestores` is about a run with the server at rest in
which none of the statements fails that `Costly` lists (the reading of the status, and
those of the clean-up itself), and that starts from tables with each block at its index.
A failure while the users are created is not excluded: the property says that then those
already created stay (`LeftBehind`), and that nothing else does. A server that has lost an INSERT of a
block leaves a gap: the tool loads a chain that is shorter than its last index says,
gives its first block the length of the chain as index, and the clean-up, which compares
with the highest index before, spares that block and leaves it behind without its vote.
`ReportIsRight` excludes failing statements. In `VotingPage`, `overlapped` notes a
login sent while another login or an unserved vote was under way, `undercut` a
session destroyed under a request that had loaded it; section 4 tells what happens
then. `PagesShowEveryRow` is about a reader who waits for each page and leaves the
form alone, and to whose last page no row came between its two statements;
`DetailIsOfTheRow` about one who waits for each answer, without a reset between
list and click. `WrongClicksAreUninformed` and `ScheduleShiftsByTheZone` exclude nothing:
they say which clicks do the opposite of what the button reads, and what a schedule that
is loaded and saved again becomes, refused loads and zones other than UTC included.

*Fairness.* `FairCandidateSpec` asks for weak fairness of serving the head of the queue:
Node runs callbacks while the process lives, and the database answers or reports
an error. `PageSpec` asks for weak fairness of `TimerFires`: a timer that Node has set goes
off while the process lives. Nothing else is fair: clients need not send, a killed process need not
be restarted. Deadlock checking is off, as the system rests when its requests
have been served.

## 4. Findings

* **Two votes of one voter** (`double_vote`). `castVote` reads `sudah_vote`, and
  inserts the vote two statements later; there is no UNIQUE key. Two requests that
  overlap are both stored. What does hold is `NoVoteAfterReceipt`: after a voter
  has been told that the vote is in, none of that voter's later requests stores
  another; and, for voters who wait for their answer, `ImplementsBallot`.
* **A voided candidate stays** (`voided_create`). A resync only writes rows of
  candidates that have a state; one whose CREATE is voided has none, and its row
  stays ACTIVE.
* **A non-destructive tool that destroys** (`nondestructive`). The clean-up of the
  integrity validation deletes all blocks above the highest index there was before
  the run. A vote that the server has stored and acknowledged meanwhile keeps its
  row and its flag (`VotersKeepTheirVotes`) and loses its block.

Behaviour the properties exclude and a maintainer should know of, met in
counterexamples to stronger forms of them:

* A `resetAll` whose genesis INSERT fails has emptied the table; the chain in memory
  is as before, and the client is told that the reset failed.
* When the voided CREATE of a candidate is followed by other transactions of it,
  the replay starts without a name, the NOT NULL column rejects the row, and no
  resync succeeds any more.
* Two overlapping transactions of one candidate read the same row and the second
  write takes the first back, though both are answered ok.
* `resetChain` deletes, inserts and replaces the chain in memory in three steps. A
  second reset between the first two leaves two genesis rows; a vote leaves a block
  that links to the old chain.
* `last_synced_block_index` names the last transaction projected, not the last up to
  which all are: after a projection has failed the next success moves it past.
* A CREATE admitted just before the election opens is added to the ledger of the open
  election; and a VOID of an UPDATE, allowed while locked, renames a candidate.
* Validation tool: `(candidate % 10) + 10` leaves candidates 10 to 19 as they are, and
  a chain whose votes were all refused has only a genesis block: both are reported as
  a failure to detect tampering. When its first `SELECT * FROM election_settings`
  fails, the clean-up takes the row for one of its own and deletes it. `insertedUsers` is assigned
  when all users have been created (line 204): when a statement of their creation fails
  after the first INSERT, the users already there stay for good. Rows of `audit_logs` always stay,
  naming blocks that are gone. A toggle during the run is overwritten at its end.
* Sessions: the timer destroys whatever the session id stands for three seconds after
  a vote. A vote still on its way when the page is reloaded and another voter logs in
  is stored for that voter. Overlapping logins write old sessions back, and a request
  that had loaded a session before a logout writes it back afterwards. A vote answered
  after a logout is reported as failed though it is stored.
* Audit log: a row that comes between the COUNT and the SELECT of the last page hides
  the oldest; a negative limit is not clamped; an export ends at 5000 rows without
  saying so; the form is read when a page is fetched, so that turning pages may mix
  filters.
* Explorer: lists and details are shown in the order they arrive and labelled by the
  ledger then selected; it shows the oldest 200 blocks, never the newest.
* Election page: the form is filled with hours of UTC and sent back as hours of the
  server's zone: outside UTC each save of an untouched form shifts the schedule, and typing
  one of the two times anew shifts the other (`ScheduleShiftsByTheZone`).
  The button sends a toggle: a double click closes and reopens, or closes once if its two
  requests overlap; and a status changed by somebody else turns the click into its
  opposite. `loadSettings` does not look whether its answer is a refusal (a failed SELECT,
  `adminSettingsController.js:5`, or an ended session, `requireAdmin.js:4`): it empties the
  form and shows `DITUTUP` and `Buka Voting`, and a click that is to open a closed
  election then closes an open one (`WrongClicksAreUninformed`). The comment at
  `candidateLedgerService.js:41` calls the lock's criterion the same as that of
  `castVote`; it is a weaker one (started, or open), which is what `CandidatesFrozen`
  needs, and it keeps an election locked that is over.

## 5. What is proved

The theorems hold for any sets of users, candidates and requests, any number of
failures and of crashes, any number of toggles, page loads and requests at a
time. Their only assumptions are the named ones on the constants, which TLC
evaluates on every run: `NULL` is no user, request, candidate, request record,
reply, key pair, signature, request of the candidate half, `candidate_ref` or `tx_id`, in
`VotingPage` no number, in the explorer no key and no signature, and beside the
validation tool no number and no truth value;
candidate ids a client makes up have no row; the id of an inserted row is new
(AUTO_INCREMENT); the legacy candidates are finitely many; hours are integers and `Unset` is
none of them; the bounds are natural numbers. Some theorems are about a server that is never asked
for certain things; this is then a hypothesis of the theorem:

| Hypothesis | Says | Needed because |
|---|---|---|
| `NothingUndone` | no `deleteUser`, `resetUserVote`, `resetAll` | the administrator does take votes back |
| `NobodyTampers` | no `hack` | it writes a vote into a block that nobody cast |
| `NobodyResets` | no `resetAll` | `resetChain` is not atomic; `WriteBehind` and `RecoverableLedgers` are false with it (section 4); the tool may load a table between its DELETE and INSERT (`ReportIsRight`), and adds a genesis block to one that a failed reset left empty, which its clean-up keeps (`CleanupRestores`) |
| `NothingFails` | `MaxFaults = 0`, `MaxCrashes = 0`, no `deleteUser` | after a lost UPDATE of the flag, or a kill before it, a second vote is stored; a deletion that overlaps a vote ends the process |

These are the sets of operations of the runs `faults` and `serial`. The theorems about
the validation tool also say that `castVote` is an operation, and `ReportsAreRight` that
there is a candidate. All other theorems have no hypothesis.

**The server in general.**

* **`TypeCorrect`** (`HandlerProofs`): `Spec => []TypeOK`. `TypeOK` is not
  inductive: a callback uses what its request was admitted with, and builds on
  the last block of a chain. `TypeInv` adds `QueueOK` (each statement in the queue
  belongs to a request that has arrived; a flag is set for a user who had a row
  when the vote was stored) and `ChainsLoaded` (a listening process has non-empty
  chains; a dead one has no statements). The proof has one lemma per way a
  callback can end (`ProceedType`, `AnswerType`, `AddBlocksType`,
  `RecordAuditLogType`), one per handler, and one per step of the server.
* `HandlersInv` (`HandlerProofs`), on which the other theorems about `Spec` rest, says how
  handlers share the queue: each statement is one that the handler of its request
  issues (`MayIssue`) with the block of that request (`OwnBlock`); a request waits for one statement at a time, and only while it has not been
  answered (`OneEach`, `Waits`); requests that were answered before another came
  stay answered (`Admitted`). `Turn` says in one formula what any callback leaves of
  the queue (its own next statements in their order, or an answer), so that the
  invariants below go through the callbacks again only for what they add.

**Votes and their flags.**

* **`FlagFollowsVotes`** (`HandlerProofs`): `Spec => []FlagAgreesWithVotes`. Inductive
  (`FlagInv`) once one knows how the statements are spread over the queue: each
  callback that changes a user's votes puts the write of that user's flag behind all
  those already there, so that the last write always goes with the votes.
* **`ResetLeavesGenesis`** (`HandlerProofs`): `Spec => ResetIsComplete`. `ResetInv`:
  between the DELETE and the INSERT of a reset that overlaps no vote and no reset the
  table is empty.
* **`ReceiptsAreDurable`**, **`ReceiptStopsVotes`** (`ServerProofs`): `NothingUndone /\
  Spec => []ReceiptIsDurable`, `... => []NoVoteAfterReceipt`. `VoteInv` follows each
  `castVote` through its stages (`Staged`: a vote whose flag is being set is stored, one
  whose block is being saved is marked, one being audited has its block in the
  table), and says of a vote that comes after the receipt that it stands at the checks
  of the settings or of the flag, or is over (`Stopped`). That the stages are not
  lost again is `MovesGrow`: no statement takes away a row, a flag or a block.
* **`BlocksHaveVotes`** (`ServerProofs`): `NothingUndone /\ NobodyTampers /\ Spec =>
  []NoBlockWithoutVote`, by `BlockInv` over memory and table.
* **`OneVoteAtATime`**, **`ServerIsBallotBox`** (`ServerProofs`): `NothingFails /\ SerialSpec
  => []OneVotePerVoter`, and the refinement `NothingFails /\ SerialSpec =>
  ImplementsBallot`. `SerialInv` says that a vote past the check of the flag is its
  voter's first (`Clears`); this is where `FlagInv` is used: of a voter who waits for the
  answer no other vote can still be about to set the flag (`FlagIsClear`). Then the
  initial states are `Ballot`'s, and each step takes one ballot, takes one out, or
  leaves the box alone. The property `OneVotePerVoter` without the hypothesis of
  waiting is the one `double_vote` refutes.

**Ledgers.**

* **`TamperingShows`** (`ServerProofs`): `Spec => TamperEvident`, an action property.
  `TamperInv`: every hash covers its block, and every Merkle root its data, except for
  the block that `hack` overwrites. Two blocks of one hash then have one root, and the
  one whose data differs fails `verifyMerkleRoot`; and a chain that fails still fails
  with a block appended.
* **`HandlersKeepChains`** (`ServerProofs`): `Spec => []MemoryChainsValid`. What each
  callback does to a ledger is `ChainTurn`: nothing, one block linked to the last and
  one INSERT of it, or the genesis block of a reset. `Chained` and `Signed` in
  `MemoryInv` are kept by each of these and imply `IsChainValid`.
* **`MemoryRunsAhead`**, **`TablesRecover`** (`ServerProofs`): `NobodyResets /\ Spec =>
  []WriteBehind` and `=> []RecoverableLedgers`. `TablesInv` says that the table is valid
  and `InStep`: each block of the chain is in the table or in exactly one queued
  INSERT, in order. It is kept by appending a block together with its INSERT, by
  executing the INSERT at the head, by tampering in memory (the table and the hashes
  stay), by a kill at any point, and by the restart that loads the table (there is only
  one order to load it in, as the indices are the places).
* **`AuditLogsAreLinked`** (`ServerProofs`): `Spec => []AuditLogNamesItsBlock`.
  The strengthening `AuditInv` speaks of the queue: a queued audit block records
  its own request, and a queued `INSERT audit_logs` that is to name a block finds
  that block stored. Rows of `audit_ledger_blocks` are never removed by the
  server (`StillNamed`), and its UNIQUE key keeps indices apart when a restart
  reuses the index of a block that was lost.

**Settings.**

* **`TogglesAreCounted`**, **`ClosedTakesNoVote`** (`SettingsProofs`): `Spec =>
  []TogglesAddUp`, `Spec => []NoVoteWhileClosed`. An UPDATE has taken effect two
  statements before its client hears of it; `Flipped` in `SettingsInv` is therefore the
  set of toggles that have been answered ok or are at their audit record.
  `StatusInv` says that the status is the first one flipped `Cardinality(Flipped)` times
  and that a toggle about to write has read the present status; `EnteredOpen` that a
  vote past its check came while the toggles answered before it had left the election open.
* **`FrozenWhileVoting`** (`AdminPageProofs`): `WindowSpec => []CandidatesFrozen`,
  though the lock of the candidate ledger and `castVote` go by different criteria.
  `CandidatesFrozen` alone does not survive closing the election; `Begun` in
  `WindowInv` says that after a vote the start there is has passed, which neither
  closing nor the clock undoes, or that there is none and the election is open.
* **`ButtonMisleadsTheUninformed`** (`AdminPageProofs`): `WindowSpec =>
  WrongClicksAreUninformed`, an action property. `Known` in `WindowInv` says of every
  status told to somebody, in an answer under way, with the page, with a click or
  between the two statements of a toggle, of which number of toggles it is, and that it is
  the status of the row as long as that is the number there were; or that it is that of a
  refused load, closed. One lemma per action, and two on the domains of bags that are
  added to and taken from.
* **`SchedulesShift`** (`AdminPageProofs`): `WindowSpec => []ScheduleShiftsByTheZone`. The
  schedule in force alone is not inductive: an answer to a load carries it to the form,
  perhaps after it has been replaced, and a saved form carries it back. The invariant says
  of the row, of each answer, of each field of the form and of each schedule under way that
  it is off the hour typed by as many zones as its own history counts.

**The candidate ledger.**

* **`LedgerStaysLocked`** (`SettingsProofs`): `CandidateSpec => []LockIsHonoured`, by
  `LockInv`. The queue now holds statements of both halves of the server, so that
  `HandlersInv` does not apply; `EntryOK` says of it what the lock needs: each statement
  fits its request, and a toggle or a candidate handler waits for one statement at a
  time, unanswered. A request that has passed `isLedgerLocked` was `Unlocked`, that is,
  no toggles answered before it came had opened the election; its statements carry this
  on (`Carried`) into the INSERT of its block, and from there into memory and table
  (`LedgerOK`). `StatusInv` of `SettingsProofs` is shown once more, for this queue. After
  a kill the ledger is loaded ordered by its index, and the genesis row must come first:
  it is the only one of index 0 (`LoadedLedger`).
* **`CandidatesKeepTheirTypes`** (`CandidateProofs`): `CandidateSpec =>
  []CandidatesTypeOK`. `TypesInv` follows what the statements of the candidate handlers
  carry from one to the next (`Typed`: the submission past its checks, the block to be
  saved, the rows yet to be written, the legacy rows left) and what the chains hold
  (`ChainOK`). Every step is first shown to be of one of five kinds (`StepKinds`), by what it
  does to the queue (`Slides`): a step of the election handlers, a candidate request that
  comes, a candidate callback that turns, a process that ends, one that starts.
* **`ReplayComputesLastValues`** (`CandidateProofs`): `CandidateSpec =>
  []ReplayIsLastValue`, for a ledger of any length. `ReplayIsRun` unfolds the replay into
  the tables after each block, and `ReplayedBlock` shows that each table holds the values
  given last by the blocks so far: name, text and status one lemma each, for a block more.
  The induction over the blocks is one over a set of numbers (`Induction`), which the
  provers can do, as no lemma of theirs takes an operator.
* **`RowsFollowTheTable`** (`CandidateProofs`): `CandidateSpec => []RowsAreBacked`. Two
  invariants, for as long as no statement fails of itself. `MirrorInv` says that the table
  of blocks is the beginning of the chain in memory and that the INSERTs of the others are
  in the queue in their order (`Reflected`), so that none is refused (`NoInsertRefused`) and
  a restart reads back what was saved (`LoadedAsSaved`). `BackedInv` says of every row a
  handler has yet to write that it is the work of a saved block, or of one whose INSERT
  is *ahead of it* in the queue: that is why a resync, which replays blocks that are not
  saved yet, never puts a row into the table before its block.
* **`ResyncBringsTheReplay`** (`CandidateProofs`): `SerialCandidateSpec => ResyncRepairs`, an
  action property, whatever failures, kills and lost projections have left in the table. With
  one administrator who waits, a resync under way is the only candidate request
  (`SerialSteps`), so that the ledger it has replayed is still the ledger when it answers.
  `RestoreInv` says that each row of the replay is in the table or among those the resync
  has yet to write, and that a `candidate_ref` names one row at most, so that writing a row
  disturbs none of those written before it.
* **`HistoryGoesBack`** (`CandidateProofs`): `CandidateSpec => []HistoryRefersBack`, through
  overlapping requests, resyncs and migrations, and through failures or an end of the
  process. A transaction takes its `prev_tx_ref` from a row, so that three things are to be
  shown. The row holds the work of a block of the chain in memory: `KnownInv` says so of
  every row written or still to be written while one process runs (`OneRun`), and without
  failures `MirrorInv` and `BackedInv` do. The row is still that of the candidate when
  `SELECT last_tx_id` reads it: `MigrationInv` says that a request past its checks finds
  its row (`Entitled`), for a migration under way writes a `candidate_ref` into rows that
  have none. And a chain that is loaded again is the old one or a beginning of it, in which
  everything refers to what is before it (`PrefixContinued`). That a killed process is not
  one that ran on needs `VotesInv`: who is cut off has no statement in the queue.

**The validation tool.**

* **`ToolSparesVoters`** (`ValidationProofs`): `NothingUndone /\ "castVote" \in Operations
  /\ ValidationSpec => []VotersKeepTheirVotes` (the tool calls `castVote`, so that a
  vocabulary of operations without it describes no tool). Two invariants. `ValidationInv`
  keeps the processes apart: the tool's requests, statements and users are its own
  (`Separate`), its chains are loaded before it uses them (`ToolMemory`), and the server's
  `TypeInv` and `HandlersInv` hold beside it, for each step of the tool too, until it
  deletes the settings row, after which nobody moves. That its castVote is the server's
  handler on other chains and another connection is `ToolTurns`, the `Turn` of the tool.
  `VotersInv` follows the votes of the server's voters (`VoterStages`, the `Staged` of
  `ServerProofs`), whose rows, flags and votes no step of the tool takes away
  (`VotersKept`): what it deletes is of users it has created.
* **`ReportsAreRight`** (`ValidationProofs`): `NobodyResets /\ "castVote" \in Operations
  /\ Candidates # {} /\ ValidationSpec => []ReportIsRight`. A `resetChain` that overlaps the
  load leaves a table that is not a chain, and without a candidate the tool gives up before
  it votes. `ReportInv` has three parts. Until the tool loads, the tables are chains
  (`TablesInv` of `ServerProofs`) whose votes, like those in the queue, are for candidates
  (`TablesWhole`). From then on its own chain is such a chain (`Faithful`): the server cannot
  touch it, and its votes append to it. And on such a chain the scenarios come out as the
  report says (`ScenariosRight`): the copy is valid, the tampered copy is found unless block
  2 was for one of the candidates 10 to 19, which the new vote leaves unchanged
  (`OtherCandidate`), and the restored copy is the original (`CloneIsSame`).
* **`CleanupUndoesTheRun`** (`ValidationProofs`): `NobodyResets /\ "castVote" \in Operations
  /\ ValidationSpec => []CleanupRestores`, also for runs in which the creation of users or a
  statement of the scenarios failed, or a block of the tool's was lost. `CleanInv` relates each table to what
  the tool found (`tool.before`), statement by statement of the way back (`Reversible`).
  A ledger's table `Prolongs` the one found: it begins with its rows, and what follows has
  an index behind them, because the tool's chain is as long as the table at least
  (`ToolNumbers`); the highest index read is then that of the last old row (`HighestIndex`),
  and deleting what is behind it leaves the old rows (`CutBack`). Users that were
  not there are those of `tool.created`, and `tool.users` has all of them or none; if none
  they have not voted, so that `UsersLeft` (what deleting `tool.users` leaves is what there
  was and `LeftBehind`) covers both. Votes that were not there are of `tool.users`
  (`UsersKept`, `VotesKept`), and from the moment the
  status is read `tool.previous` is the old one (`SettingsKept`). All of this holds while
  the server is at rest: before the load (`BeforeTool`), no UPDATE of a key is the last
  statement of its request (`ServeKeys`), so that a server that has answered all its
  requests has an empty queue (`AtRest`); and after it, a request that arrives makes `Alone`
  false for good (`ServerClean`).

**The administrator's pages.**

* **`ReadersMissNoRow`** (`PageProofs`): `LogSpec => []PagesShowEveryRow`. `LogInv`
  knows a row by its `Place` in the list: `Covers` says that of the rows a reader looks for
  those whose place is on the first pages were seen. An inserted row moves each place on or
  leaves it (`PlaceGrows`), so that what is behind the reader stays seen while rows come in;
  and the last page, by the COUNT of its own request, ends behind the place of every row
  (`LastPageHoldsAll`).
* **`ExportsAreWhole`** (`PageProofs`): `LogSpec => []ExportIsWhole`. `NewestRows`
  counts: the rows of a set whose place from the end is within the limit are as many as the
  limit, or all there are.
* **`DetailsAreOfTheirRows`** (`AdminPageProofs`): `ExplorerSpec => []DetailIsOfTheRow`.
  `ExplorerInv` says that lists answered since the last reset, on the page or under way,
  name hashes as the chain has them (a tampered block keeps its hash), and that a detail
  that was asked for alone is of the row in the modal.
* **`BadgesAreOfTheirLedgers`** (`AdminPageProofs`): `ExplorerSpec => []BadgeIsOfTheLedger`.
  The badge is right or a request for the health of a ledger is still under way
  (`BadgeRight`): the answer sets the badge for whatever ledger is then selected.

* **`TamperingIsFound`** (`AdminPageProofs`): `PagesSpec => []TamperedBlockIsFound`.
  `LedgersSealed` says of each block but the first that hash, link, root and signature
  are those of the vote it was added with, and that its data are that vote unless the
  block was tampered with (`SealedBlock`, `SealedChain`). Each endpoint compares the data
  with one of these, and `EndpointsTell` takes them one by one.
* **`ProofsConvince`** (`AdminPageProofs`): `PagesSpec => []ProofsVerify`, for lists of any
  length. `MerkleProofs` has induction as a fact about sets of numbers (`SetInduction`,
  from the well-foundedness of <) and shows with it what `buildMerkleTree` returns
  (`Tree`, `TreeBuilt`). The hash that a verification has reached after k steps is the
  node that k layers of the tree have above the place (`NodeAbove`, `ProofOfPlace`); and
  from two hashes no step leads to one (`ClimbsStayApart`), so that another transaction
  never arrives at the root.
* **`RootsDetermineLists`** (`AdminPageProofs`): `PagesSpec => []RootsBind`. `FilledUp` reads
  the list along every path of turns from the root. If two roots are equal, so are, down
  any path, the nodes the two walks meet (`WalksTogether`); as no leaf is a pair, the trees
  are equally high (`TreesAreAsHigh`) and the leaves the same (`RootsShowLeaves`).
  Conversely every node is on a path (`WalkTurns`), and equal leaves make equal layers up
  to the root (`LeavesGiveRoot`). That a leaf is no pair holds in the code because
  `JSON.stringify` of a transaction is no row of hexadecimal digits.

**Sessions and the voting page** (`PageProofs`).

* **`DestroyedStaysDestroyed`**: `PageSpec => []DestroyedForGood`. `PageInv` has the
  types, `IdsOK` (a session id a request was given is in no cookie, and with no other
  request, until the answer that brings it has arrived) and `SessionsOK` (the copy a
  request works on is the one it loaded, a new one of its own, or one whose
  `sudah_vote` the vote has set). `EndedInv` then says that no request under way has an
  ended session, which delivering an old answer or loading the page again cannot undo.
* **`VotesAreOfTheShownUser`**: `PageSpec => []VoteIsOfTheShownUser`. It is not enough that
  the cookie names the session of the shown user: after a reload, a late answer of an
  admin's login, or a kill it may name nobody's, or that of an earlier voter whose timer
  has not gone off. `ShownInv` says what is true throughout: there is at most one login
  or logout under way (`OneChange`), one user whom the page shows or a vote has been sent
  for (`OneSeen`), and every cookie such a vote may carry names the session of that user,
  of nobody, or of one whose flag already refuses the vote (`SeenClean`, `LoginClean`).

*Model-checked only.* Liveness (`EveryRequestIsAnswered`, `VotedSessionEnds`) and ENABLED
are out of the prover's reach. Two invariants could be stated as theorems and are not proved
here: `ProjectionIsReplay`, which says that single projections, one by one, come to the fold of
a ledger of any length, and `MigrationRegistersOnce`, which relates the rows of every earlier
migration to the ledger. For both the only evidence is TLC's, within the bounds of section 3.

## 6. Not modelled

* *Results*: one SELECT without state.
* *Benchmarks*: they measure and change no state of the program. Their database
  initializer inserts no voters and leaves the election closed, so that what they
  time is a refusal; the protocol with the worker is one message per phase, and a
  worker that ends early leaves the parent waiting.
* *Rendering*: tables, charts, PDF and Excel files, report files, wording.
* *addUser* and the lists of users and candidates: a row that is there or is not.
* Sorting of the audit log by columns with ties, whose order MySQL does not fix.
