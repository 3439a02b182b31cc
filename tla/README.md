# A TLA+ model of QRUCIAL DAO

QRUCIAL DAO lets a user request a review of a package for a bounty, lets
registered auditors report on it and challenge each other's reports, and lets a
committee decide the challenges. A verdict moves Elo score between two
auditors. Off the chain a daemon starts analysis tools for requests, a small
HTTP service keeps a database of auditors and audits, and a web front end
writes to both. This directory holds TLA+ modules for the parts of the system
that have state worth arguing about, the TLC runs that check them on small
instances, and theorems the TLA+ proof system checks for every instance. Source
paths below are relative to `src/`; `F` stands for
`frontend/substrate-front-end-template/src`.

## The system

| component | state | operations | what must hold |
|---|---|---|---|
| audit pallet (`qdao-node/audit-pallet`) | `AuditorMap`: score or none, profile hash, up to three approvers per account; reserved stakes | `sign_up`, `update_profile`, `cancel_account`, `approve_auditor`, `game_result`, `apply_result` | three different approvers per score; a stake behind every sign-up; games move score and create none; nothing but a forfeited stake is burnt |
| exo pallet (`qdao-node/exo-pallet`) | `Reviews`, `Reports`, `Vulnerabilities`, `Challenges` | `request_review`, `review_invalid`, `review_report`, `challenge_report`, `approve_challenge`, `reject_challenge`, `remove_challenge` | the record is permanent and consistent; challengers are others than the author; bounties stay reserved |
| runtime, node client (`qdao-node/runtime`, `client`) | shared accounts, the challenge council, genesis | calls the pallets; more than half of the council, or root, closes challenges | a verdict has the majority the origin asks for |
| exosysd (`exosysd/src/main.rs`) | hash of the block looked at last | polls the best block, starts `exotool.sh` for requests among its events | no block is missed or gone through too often |
| exotool (`exotools/exotool.sh`, docker scripts) | shared files, container names | download, hash, move, check, run in docker, notify lar, clean up | runs do not disturb each other |
| lar (`exotools/lar.py`) | sqlite tables `auditors`, `auditStates` | HTTP routes that insert and update rows | who took an audit keeps it; reports are saved |
| transactions (`F/hooks/useTxAndPost.js`, `TxButton.js`) | status of a submission, its subscription | sign, follow the status, post to lar | the database is told what the chain did |
| connection (`F/substrate-lib/SubstrateContext.js`, `App.js`, `AccountSelector.js`) | api, keyring, current account, balance | connect, load accounts, select | the page comes back after every failure, with what was selected |
| audits (`F/AuditRequests.js`, `ReportButton.js`, `Requestor.js`, `Home.js`) | the list read last, the selection | take, report, request | an auditor sees its takes |
| auditors' page (`F/AuditorsPage.js` and its forms) | the register's entry, lar's row, open forms | sign up, update, cancel | the page agrees with the chain; profiles are of the account that signs |
| approvals, council, challenges (`F/ApproveAuditor.js`, `CouncilPage.js`, `Challenges.js`, `CreateProposal.js`, `ChallengeReportButton.js`, ...) | lists filled by subscriptions, selections, forms | approve, propose a verdict, challenge | what is sent is what is shown |
| scripts, docker, unused template components | - | deployment | - |

The two pallets interact in two ways: the exo pallet asks `has_enough_rank` and
calls `apply_result` through the `Game` trait, and both reserve from the same
balance of an account. The daemon reads chain events and starts processes that
share `/tmp/qrucial` and docker's names; the tool tells lar over HTTP; the front
end writes to chain and lar. Concurrency on the chain is the order in which
blocks put the calls of different accounts; each call is transactional, so one
that fails leaves nothing behind. Off chain it is between processes, and in the
browser between the callbacks of subscriptions, reads, timers and signers, with
an account that may be switched between any two of them.

The hard behaviours, line by line, are the `hazards` of `PROJECT.json`.

## Modules

The chain:

* `Currency` - the balances pallet as the QDAO pallets use it (external to
  this repository): `reserve`, `unreserve`, `withdraw(.., AllowDeath)`, the
  reaping of an account below the existential deposit, and transfers between
  users. A ledger maps an account to `[free, reserved]`.
* `Elo` - `EloRank::calculate` with k = 32. The rounded fixed point expression
  is a count of thresholds, which gives the code's integer result; `ToScore`
  wraps as `to_num` does in a release build, which the runtime is.
  `ScoreModulus` stands for 2^32.
* `AuditPallet` - variables `auditorMap` (`NotSignedUp` where the map has no
  entry), `balances`, and `gamesPlayed` (how many `GameResult` events were
  deposited). One action per extrinsic that returns `Ok`; an error is a
  stuttering step. `Transfer` is what users do with their free balance in
  between. `ApplyResult` is the trait method that `GameResult` and the verdicts
  share.
* `Register` - what the audit pallet promises, without scores and money:
  accounts enter as candidates, collect approvals of auditors, become auditors
  with the third, and leave. `AuditPallet` implements it under a mapping of its
  storage (`Reg`, with `Standing` and `Approvers`).
* `Docket` - what the exo pallet promises of its record, without ids, bounds,
  bounties and scores: a package comes under review once, an auditor reports on
  it once, any other auditor challenges that report once, and a verdict is on
  one challenge, between two accounts that are auditors at that moment, and
  leaves the others as they are. `ExoPallet` implements it under a mapping of
  its storages (`Dock`, with `Requested`, `Filed` and `Claims`), in which a
  report is known by its author and a challenge by its challenger.
* `ExoPallet` - extends `AuditPallet` with the four storages of the exo pallet
  and composes the two: `Next` is a call of either. Ids are positions from 0 as
  in the code. Who may close a challenge is the runtime's configuration; here
  the committee, or root, may do so at any time.

The tools:

* `ExoSysd` - the daemon, a loop of two requests and a sleep, and the runs of
  `exotool.sh` it starts, one action per step of the script. Blocks may be
  overtaken and become the best one again. Shared are the folder of downloads
  (by the last part of the url), the folder of a package (by its hash) and
  docker's containers (by name; one that has ended keeps it). A package is its
  hash; whatever a url answers with is some package. A block holds an event, or
  none, or is `Unreadable`: its metadata or its events do not decode.

The front end and lar:

* `TxAndPost` - `useTxAndPost` with the form of `RequestAudit`: submissions, the
  reports of their status by the node (which may retract a block and include
  again), the posts made by the callback, and reloads, which lose callbacks but
  no submissions.
* `Audits` - lar's `auditStates` with three of its four writing routes
  (`request-audit`, `take_audit`, `send_report`), and any number of pages:
  auditors' (`AuditRequests` with `ReportButton`), requestors' (`Requestor`) and
  home pages. The fourth, `challenge_audit`, writes the column `challenger` and
  nothing else, and none of these pages reads it: it is left out. A page has timers, reads under way that carry
  the table of the moment lar read it, the list set last and the selection.
* `AuditorsPage` - one page: the subscription to the register, the reads of
  lar's row, and the forms, which keep what they were opened with.
* `Connection` - the reducer of `SubstrateContext` with the listeners of
  `WsProvider`, the loading of accounts, `App`'s choice of what to render,
  `AccountSelector` and the balance's subscription.
* `TxButton`, `Applicants` (`ApproveAuditor`), `CouncilPage` (with `Challenges`,
  `ViewChallenge`, `CreateProposal`) and `ChallengeForm`
  (`ChallengeReportButton`, `ChallengeReportInputs`, `useFormValidation`) - the
  remaining parts, each with its own asynchronous steps. In `CouncilPage` a
  proposal is in a block without error whatever became of its verdict, and may
  be in another one after a fork. `ChallengeForm` keeps apart what a row says
  from whose row it is: `closeClear` sets the arrays of the render it was made in
  (`renders`, those something was submitted from), and typing writes into a row
  wherever it is. A submission closes the form at every inclusion. `Pages`
  composes the parts:
  `App` puts up one page at a time and they share nothing but the account, so a
  behaviour of `Pages` is one of one of them.

The `MC` modules give the constants their values for TLC. `PalletProofs`,
`ExoSysdProofs`, `TxAndPostProofs`, `AuditsProofs`, `AuditorsPageProofs`,
`ConnectionProofs` and `PagesProofs` hold the theorems, and `Sums` the lemmas
about sums and finite sets they use.

Definitions whose name has an underscore and a suffix (`SignUp_NoReserve`) are
plausible mistakes in the code they precede. No action uses them; replacing the
definition by the mistake must make TLC report the property named in
`PROJECT.json`, which shows that the property depends on that code.

## Runs

| run | instance | shows |
|---|---|---|
| `audit_register` | three approvers, a genesis auditor below their rank, one new user, one game, a transfer of the existential deposit, forfeits that leave less than it | `AuditTypeOK`, `ApprovedByThreeOthers`, `StakeHeld`, `StandingSurvives`, `GamesConserveScore`, `OnlyForfeitsBurn`, and `RegisterKept`: every step is one of the abstract register or leaves it alone |
| `exo_record` | three auditors, two reports and two challenges per report, two verdicts or games | `TypeOK`, `VulnerabilitiesMatchReports`, `ChallengersAreOthers`, `RecordIsPermanent`, `VerdictsConserveScore`, and `DocketKept`: every step is one of the abstract docket or leaves it alone |
| `exo_bounties` | two packages, a bounty on each side of the deposit, one game, transfers, a user who signs up, is approved, loses and cancels | `ReservedIsOwed` |
| `tx_and_post` | two submissions, a fork, a reload | `TypeOK`, `PostsFollowInclusion`, `SubmissionsArePosted` (liveness) |
| `audits` | an auditor's page with two accounts, a home page, two posts, a lost message, a switch | `TypeOK`, `DisplacedByOlderLists`, `TakesAreShown` (liveness) |
| `auditors_page` | two accounts, two switches, a submission, a change by others | `TypeOK`, `PageAgreesWithChain`, `ProfilesAreOwn`, `StandingIsShown` (liveness) |
| `connection` | two accounts, three failures, three picks, three changes of balance | `TypeOK`, `SelectionIsKept`, `BalanceAgrees`, `PageComesBack` (liveness) |
| `pages` | three presses of a button of every type; two accounts and two candidates; a council of one and two challenges; a form with a list of two rows, submitted twice, included any number of times | `TypeOK`, `StatusIsLatest`, `CallsAreAsPressed`, `ApplicantsWait`, `ProposalsAreOfShown`, `ClosedIsClear` |
| `exosysd` | two blocks that can be read or not, three turns or failures, two packages, two urls | `TypeOK`, `HandledOncePerTurn`, `ContainersHaveTheirPackage`, `ReportsAreOfCompleted`, `StableBlockIsHandled` (liveness) |
| `two_accepted` | as `exo_record` | violation: two challenges of one report are accepted |
| `report_refused` | one auditor's page | violation: a report with a url the form accepts is not saved |
| `unheard_requests` | one block with the event the runtime deposits | violation: no `exotool.sh` is started for a request |

Bounds. Stake, scores and the existential deposit are the runtime's (100, 1000,
2000, 500; `exo_bounties` uses a deposit of 60 with bounties of 50 and 120, so
that one can be reaped with its account and the other cannot). `MaxGames` bounds the results played and
with them the scores; one or two are enough for a loss that takes an approver
below its rank, for a verdict given twice and for one that follows another.
`MaxReportsPerReview` and `MaxChallengesPerReport` are 1 or 2 instead of 10:
they are only compared with lengths, and two let them be reached with three
auditors. `ScoreModulus` is 65536 (TLC computes in 32 bits): no score of a run
comes near it, and the score properties say so in their premise
`NoScoreAtTheEdge`. In the front end two of everything make a race: two accounts
to switch between, two reads or subscriptions that overtake each other, one
message lost. Of the form's three lists, which the code treats alike and closes
together, `pages` fills one; two submissions share a render or have one each, and
retractions and inclusions are not bounded. `Audits` bounds the sum of posts, losses and switches as well
(`MaxEvents`): a take, a switch and another take, or a take, a loss and a
request, are within it. `ExoSysd` needs two blocks for one to overtake the other
and three turns for it to come back; with three requests two runs share a url
and two a package. Runs with no temporal formula but action properties use the
symmetry of accounts that start alike.

Deadlock is not checked: a state where nobody has a legal call left (the last
account cancelled, a bound reached, the daemon looking at a block it knows) is
no error.

Fairness, where a run has a liveness property. `TxAndPost`: the node reports
what becomes of a submission and the browser runs the callback; nothing forces a
block to be built, a user to sign or a post to arrive. `Audits`: timers run, and
what was sent is handled and answered, unless it is lost, which may happen once
and which `TakesAreShown` allows for. `AuditorsPage`: the node answers
subscriptions and the browser runs timers; reads of the row may be lost and
users need do nothing. `Connection`: `WsProvider` tries again every few seconds
by its own timer, the node answers, the user reviews the extension's
authorization; failures stop after `MaxFailures`. `ExoSysd`: the node answers,
the loop goes on, and somebody starts the daemon again; the runs of `exotool.sh`
are under no fairness, since nothing waits for them.

## Found while modelling

Three are shown by runs that must find a violation:

1. `close_challenge` looks neither at the challenge's state nor at the other
   challenges of the report. A verdict can be given again, moving score each
   time, and two challenges of a report can be accepted (`two_accepted`).
2. `send_report` checks the url with the whitelist of addresses, letters and
   digits; the form accepts only urls with a dot (`report_refused`).
3. exosysd waits for `ExecutionRequest`, the pallet deposits `ReviewRequest`
   with other fields (`unheard_requests`).

The others were met while the modules were written and checked; the properties
except them, each in its own statement:

4. Genesis auditors are registered without a stake (`chain_spec.rs`), and
   `cancel_account` unreserves one from them too: a bounty they have reserved is
   set free while the review goes on promising it. `ReservedIsOwed` excepts
   genesis auditors.
5. The stake (100) is smaller than the existential deposit (500): forfeiting it
   can remove the account with everything it has reserved, which are bounties
   below the deposit: `ReservedIsOwed` lets those be gone, and no others.
6. `DuplicateChallengeFound` is documented as "already a pending challenge", but
   closed challenges count too.
7. A sign-up form that was opened before there was an account keeps none and
   refuses every account selected since (`F/AuditorForm.js:12-24`).
8. `CancelAccount` blanks the row it was given, which right after a switch is
   that of the account of before (`F/CancelAccount.js:14`). `ProfilesAreOwn`
   excepts cancellations.
9. A drop while accounts are loaded leaves the loader on the page for ever
   (`F/substrate-lib/SubstrateContext.js:146`), and one before the api is ready
   makes `App` throw (`F/App.js:44`). `PageComesBack` excepts both.
10. A candidate that cancels, or has its score by others' approvals, stays on
    the list of applicants (`F/ApproveAuditor.js:54-58`).
11. After a proposal is in a block the form names no challenge, though the page
    shows one: the next proposal is for the empty hash
    (`F/CreateProposal.js:65`). `ProposalsAreOfShown` allows that, after a
    proposal of the same page was in a block. Such a proposal has not decided its
    challenge, either: proposals have threshold 1, so with two members or more in
    the council no verdict passes, and with one member `close_challenge` still
    fails inside the `propose` that returns `Ok` when challenger or author is no
    approved auditor any more (`qdao-node/exo-pallet/src/lib.rs:642`,
    `qdao-node/audit-pallet/src/lib.rs:358-363`). The page sees no error and the
    challenge stays pending.
12. A deleted row of the challenge form leaves the tools shown and those sent
    apart (`F/ChallengeReportInputs.js:130`). `closeClear` sets the arrays of its
    own render, whose rows `handleChange` writes to in place
    (`F/ChallengeReportButton.js:11-29`, `F/ChallengeReportInputs.js:13-18`): set a
    first time they are clear, but once they are in the form what is typed goes
    into them, and a second setting, by an inclusion after the form was cancelled
    in the same render or by a second inclusion, closes the form with that text
    in it. `ClosedIsClear` excepts just those. And an inclusion closes the form
    also when it was opened and filled anew since.
13. A subscription that is cleaned up before it is there is never ended
    (`F/AuditorsPage.js:78`, `F/AccountSelector.js:138-141`). `PageAgreesWithChain`
    and `BalanceAgrees` except pages that left one behind.
14. Two runs of `exotool.sh` whose urls end alike share a file; two of the same
    package share a container, of which one that has ended stands in the way of
    every later run. `ContainersHaveTheirPackage` and `ReportsAreOfCompleted`
    except such runs and hold for all others.
15. A block whose metadata or events do not decode is not looked at again: it was
    noted as the one seen last before (`exosysd/src/main.rs:104-123`, `245`).
    `StableBlockIsHandled` excepts it.
16. `request-audit` refuses urls with characters the form accepts, such as `%` or
    `~` (`exotools/lar.py:124`, `324`): such a request is on the chain and not in
    the database. In `Audits` any request may be refused.

## Proofs

Every theorem is proved for all values of the constants, from the named
assumptions of the modules alone: accounts and packages are finite sets, stake,
bounties and bounds are natural numbers, score parameters are scores, the
genesis auditors are accounts, markers differ from what they mark. Every safety
property and action property the passing runs check is stated by a theorem.

`Sums` carries what the provers cannot do by themselves. The sum of a function
over a finite set is defined by recursion, and the library's induction theorems
are out of reach, since they take an operator as a parameter. Here induction is
first-order: a non-empty set of bad subsets has a smallest one (`WFMin` on strict
inclusion, `SubsetInduction`). From it follow that a sum is a summand and the sum
of the rest, whichever summand is taken out (`SumOneMore`), and that it changes
as the summand does that changes (`SumOneChanged`), or not at all when two
changes cancel out (`SumBalanced`).

`PalletProofs`, of the audit pallet alone (`AuditSpec`):

* `AuditTypeCorrect`: the type invariant is inductive. That a new score is a score
  needs `ExpectedShareRange` (a cardinality argument on the threshold table) and
  `ToScoreType`; that balances stay natural numbers needs one lemma per ledger
  operation.
* `ApprovalsCorrect`: `ApprovedByThreeOthers`, inductive together with the type
  invariant. The step that matters is `ApprovalKeepsStanding`: the approver is an
  auditor and the candidate is pending, so they differ; games keep everybody's
  status by `ResultKeepsStanding`.
* `StakeCorrect`: `StakeHeld`; an account that loses its genesis entry has
  cancelled, so it has to sign up and reserve like everybody else.
* `StandingCorrect`, `BurnsCorrect`, `GamesCorrect`: the action properties
  `StandingSurvives`, `OnlyForfeitsBurn` and `GamesConserveScore`. The first is
  an argument on one account; the second is on the sum of all balances, which
  moves as the account does that changes; the third rests on
  `ThresholdSymmetry`, by which what one player expects of the points is what
  its opponent does not.

Of the two pallets together (`Spec`):

* `TypeCorrect`: inductive. A verdict is a game (`VerdictIsGame`) and a review
  request reserves (`RequestReviewLedger`), so the register's lemmas carry over;
  `ReportAppended`, `ChallengeAppended` and `ChallengeClosed` say what the three
  kinds of writes do to the vectors.
* `RegisterCorrect` and `RegisterStepsCorrect`: what the audit pallet promises in
  every state and of every step survives the calls of the exo pallet.
* `ChallengersCorrect`: a report keeps its author and its id for ever, so what
  `challenge_report` compared stays true however long the challenge is pending.
* `VulnerabilitiesCorrect`: package by package (`MatchesReports`).
* `VerdictsCorrect`: a verdict conserves score. It needs `ChallengersAreOthers`:
  for one account playing itself `apply_result` would write one score over the
  other.
* `RecordCorrect`: `RecordIsPermanent`, package by package (`KeepsRecord`).
* `ReservedCorrect`: `ReservedIsOwed`, what is reserved for an account is its stake
  and the sum of its bounties, less those that were reaped. A reaped set is
  carried from step to step as a witness (`Owed`); it grows only when a forfeit
  leaves the account below the deposit, and then every bounty it still had
  reserved was below it too.
* `AuditKeepsRegister` and `RegisterImplemented`: the refinement of `Register`.
  Initial states map to initial states; each call maps to a step of the register
  or to none, by the status lemmas above.
* `DocketImplemented`: the refinement of `Docket`, of which each call is one step
  or none. `ReportOnDocket`, `ChallengeOnDocket` and `VerdictOnDocket` say so of
  the three kinds of writes. They need `ChallengersAreOthers` and
  `VulnerabilitiesMatchReports`: only because an author has one report and a
  challenger one challenge does a verdict at a position decide one claim of the
  docket (`ClaimKeyed`).

`ExoSysdProofs`: `HandledCorrect`, that a block is gone through no more often than
it was the best one plus the daemon's starts. The count has to include the block
that is being gone through, and the one that will be when the daemon looks next
(`Due`). `ToolsTypeCorrect` adds the sums (no more runs than turns) and what each
step of a run knows (`RunsOK`). `ReportsCorrect` and `PackagesCorrect` rest on
what runs share: a container that is there was started by a run of its package
(`ContainersOK`); a run that shares its package with none has the container while
it runs and has seen it complete when it reports (`CompleteOK`); and as long as
no two runs have one file name, the file that was hashed is the one that is
moved, to the folder of its hash (`FilesOK`).

`TxAndPostProofs`: `TypeCorrect` and `PostsCorrect`, that every post was made of
what its submission carried after a report of its inclusion without error. The
invariant is inductive with the type invariant because what a submission carried
and was told never changes (`Keeps`).

`AuditsProofs`: `AuditsTypeCorrect` and `DisplacedCorrect`. Every list that is shown,
read or chosen from is one lar had at an earlier write: a row it holds as free
was free then (`Listed`, `Fresh`), and what is selected or sent was chosen from
such a list (`Chosen`). A take therefore displaces only who came after its list
was read, or a row of the same hash. The number of rows is bounded by the posts
that were handled (`CountsOK`).

`AuditorsPageProofs`: `TypeCorrect`, `ProfilesCorrect`, and `AgreementCorrect`, that
`PageAgreesWithChain` holds for any accounts and bounds. The last is not
inductive: what is to be told of the current account last, and is not told yet,
must be known to agree with the register (the last of the callbacks, if there
are any).

`ConnectionProofs`: `ConnectionTypeCorrect`, and `SelectionCorrect` and
`BalanceCorrect`, that the selection and the balance shown survive any number of
reconnections. The invariant ties the subscription to the page that is shown
(`SubFollows`), says what is due last while the connection is up
(`LatestAgrees`), and that accounts which load are not shown yet
(`LoadingIsShown`). Transfers that happen without a connection are not told; the
page a reconnection puts up starts over, so none is missed.

`PagesProofs`: each part of `Pages` has an invariant of its own, and `IInv` is that of
the part in use.

* The button (`StatusCorrect`, `CallsCorrect`): a press carries the text it was made
  with from the moment the call is built (`PressOK`), and as long as presses do
  not overlap there is no subscription but the last one's, which the button can
  end (`OneAtATime`).
* The applicants (`ApplicantsCorrect`): whoever is told last is told the entry of
  the register (`LastTold`); once no subscription of another account is left, a
  candidate whose subscription has told everything is on the list, or off it, as
  its entry says, and that list is the one on the page (`AllHeard`). Nothing is
  assumed of the order among subscriptions.
* The proposals (`ProposalsCorrect`): the form names the challenge shown, or none
  after a proposal of this page was in a block (`DoneHere`). Verdicts play no
  part in it.
* The form (`ClearCorrect`, `RowsCorrect`): the rows of a render that were never set
  are in no list and have nothing in them (`NeverSet`), so a form that is closed
  has arrays that were just set, the first time with nothing in them
  (`SetByClosing`). `SentRowsAreValid` is proved only, no run checks it apart.

Only model-checked: the five liveness properties `SubmissionsArePosted`,
`TakesAreShown`, `StandingIsShown`, `PageComesBack` and `StableBlockIsHandled`,
which need fairness, and that is out of the provers' reach. The three violations
are TLC's counterexamples.

## Not modelled

Weights, fees and events other than the count of game results and the names of
requests. Urls and the text of vulnerabilities: never read by the pallet. The
changes a challenge proposes to a report's vulnerabilities: recorded and never
applied by the code. A debug build's panic where a score does not fit `u32` (the
runtime is a release build and wraps). The stock parts of the node: consensus,
networking, RPC, CLI, benchmarks.

What the analysis tools write in a container, and lar's `notify_logger`, which
exotool.sh does not reach. The pages that only show what they read (`Reports`
but for the selection of an audit, `AuditorPool`, the menu), the vendored yarn,
`TxGroupButton` and the template components no page uses (`template-comps`,
`AuditorButton`), and the deployment scripts: they keep no state of their own
that another part depends on.

Left to do: `Reports` with its array per filling.
