# SlideLens: a verification project

SlideLens (src/backend, src/frontend) sells reviews of slide decks. A user uploads a deck, one
credit is taken, a background worker renders the deck, asks a language model about it, and stores
a report of *findings*; the user votes on findings, applies automatic fixes to a copy of the deck
and records rehearsals. This directory models that system in TLA+, checks the models with TLC and
proves the properties that matter most with TLAPS. Every action names the code it stands for in
`PROJECT.json` ("map").

## 1. The system

| component | where | state it keeps | operations | talks to |
|---|---|---|---|---|
| Credits | `app/services/limits.py` | `users.free_reviews_left`, `users.balance_reviews`, `reviews.credit_source` | `check_and_reserve`, `refund` | called by review requests and by the worker |
| Review requests | `app/services/review_service.py`, `app/api/v1/reviews.py` | rows of `reviews`, `file_assets` | `create_review`, `list/get_review`, `get_report`, `get_slides`, `delete_review` | Postgres, the file store, the arq queue |
| Worker | `worker/tasks.py` | the arq job, the status of a review or rehearsal | `process_review`, `process_rehearsal`, `cleanup_expired_files` | Redis (arq), Postgres, the file store, the pipeline, SMTP |
| Pipeline | `core/run.py`, `core/analyzers/*` | one `ReviewContext` per run | five analyzers in order, each isolated | the LLM client |
| Ingest | `core/ingest.py` | files of a work directory | `ingest`, `extract` | soffice, poppler, ffmpeg |
| LLM client | `core/llm/client.py` | the cost of a run | `complete*`, `transcribe_audio`, retries | an OpenAI-compatible service |
| Aggregation and score | `core/aggregate.py`, `core/geometry.py`, `core/report.py` | none (pure, one LLM question) | dedup, cap, order, score | the LLM client |
| Findings and the fixed deck | `app/services/finding_service.py`, `core/fix.py` | `findings.user_flag/user_like/auto_fixed`, the `fixed_pptx` asset | `flag_finding`, `like_finding`, `apply_finding_fix`, `upsert_fixed_pptx` | Postgres, the file store |
| File store | `app/services/storage.py`, `app/services/file_assets.py`, `app/api/v1/files.py` | files under `STORAGE_ROOT`, rows of `file_assets` with an expiry | `save`, `open`, `delete`, `delete_expired`, `get_file` | everything above |
| Rehearsals | `app/services/rehearsal_service.py`, `worker/tasks.py`, `core/analyzers/crossmodal.py` | rows of `rehearsals`, audio files | create, process, list, report with delta, delete | Postgres, arq, the file store, the LLM client |
| Accounts and tokens | `app/auth.py`, `app/security.py` | rows of `users`; tokens are signed, not stored | register, login, refresh | Postgres |
| Browser session | `frontend/src/api/client.ts`, `frontend/src/auth/AuthProvider.tsx` | two tokens in memory, a copy in localStorage, the shown user | request with one retry, single-flight refresh, login, logout, hydration | the API |
| Finding cards | `frontend/src/components/report/FindingCard.tsx`, hooks | optimistic vote and fix flags, the cached report | like, flag, apply, refetch | the API |
| Polling | `frontend/src/hooks/useReviewPolling.ts`, `useRehearsalPolling.ts` | cached statuses | poll while queued or processing | the API |
| Rehearsal recorder | `frontend/src/components/rehearsal/RehearsalRecorder.tsx`, `lib/slideTimingTracker.ts` | slide timings of a recording | start, switch slide, stop, upload | the API |

### What is hard about it

* **Two stores and a queue without a common transaction.** A request commits the charge, then
  writes files, then puts the job into Redis, then commits the row. A crash or an error between
  any two of these leaves them out of step.
* **At-least-once jobs.** arq starts a job again after the worker was stopped, up to `max_tries`
  times, and `process_review` does not look at the status it finds.
* **A failure boundary with edges.** Only the pipeline is inside `try ... except Exception`; the
  commit of the outcome, the letter and the cancellation by `job_timeout` are not.
* **Deletion at any time.** The owner can delete a review while its job runs.
* **Read, await, write.** Handlers read rows, await for seconds (a deck is rebuilt in a thread, a
  file is written), and write what they computed from the old rows: fixes, votes, attempt numbers,
  slide images.
* **Files outlive rows and rows outlive files.** Bytes are written before and unlinked before the
  commit that accounts for them, and a cron job removes expired files.
* **Optimistic cards.** A card shows a click before the server has it, several calls run at once
  under one mutation hook, and the report is refetched in between.
* **A recorder made of callbacks.** The page asks for the microphone, records, times the slides and
  uploads, and every answer can come after the next click or after the page was left.
* **Browser races.** One refresh of the tokens serves all requests that failed meanwhile, while
  the user may log out or in.

 `PROJECT.json` ("hazards") lists each such place with its line and the properties that watch it.

## 2. The modules

| module | role | read it for |
|---|---|---|
| `CreditLedger` | abstract | what paying for a review promises |
| `ReviewLifecycle` | detailed | the request, the arq job and the rows they share |
| `AppliedFixes` | abstract | what "apply a fix" promises |
| `FixedDeck` | detailed | requests that apply fixes, deletion, the cleanup, rows and files of the corrected deck |
| `ReviewFiles` | detailed | all files of one review: its writers, their rows, the deletion, the cron job |
| `AnalyzerSteps` | abstract | what a sequence of isolated analyzers promises |
| `Aggregation` | operators | cap, order and score of a list of findings |
| `ReviewPipeline` | detailed | one run of the pipeline, on top of `Aggregation` |
| `Rehearsals` | detailed | attempts of one review: upload, job, report with delta, deletion, polling |
| `SpeechAnalysis` | operators | delivery metrics, windows of slides, pacing of a recording |
| `RehearsalRecorder` | detailed | the recording page, composed with `SpeechAnalysis` for what is made of its recordings |
| `ReportPage` | detailed | polling, the cached report and one finding's card with its votes and fixes |
| `BrowserSession` | detailed | `ApiClient` and `AuthProvider` of one tab, and the server's token rules |
| `MC*` | instances | constants and symmetry for TLC |
| `*Proofs` | theorems | proofs about the module they extend |

In every module one step is one thing that others can see: a committed transaction, a flush that
takes locks, an access to the file store, a call to Redis or to the API, an event of the page.

### 2.1 ReviewLifecycle

`request[r]` is the program counter of `create_review`: `Authorize` loads the user's row with the
token (the session keeps its `is_admin`, which a login may change meanwhile), `Reserve` is the
committed charge, `EnqueueJob` the call to Redis, `CommitReview` the commit that makes the row
visible, `CreateFails` the except branch, `RefundRequest` its refund, `ApiCrash` the end of the
process in between. The wallets are decremented by conditional UPDATEs on the row as it is, so the
charge is one step. What an open transaction has not committed is seen by nobody and is no part of
the state. `job[r]` is the position of `process_review`: `StartJob` (the row is missing: return;
else "processing" is committed), `RunPipeline`, `MarkFailed`, `PersistSuccess`, `SendEmail`,
`FinishJob`; `JobTimeout`, `PersistFails`, `WorkerStops` and `GiveUpJob` are the ways out that no
except clause covers. The deployment has one worker container, so `WorkerStops` interrupts every
running job at once.

`refunded`, `delivered` and `notified` are histories of pairs `<<r, k>>`, where *k* is the start of
the job (0 for the request): redelivery makes several runs of one review, and what they did is
kept apart. `cut` records the reviews a run of which was cut off before its outcome.
`CreditLedger` is the ledger per run: a review is charged once, and each run delivers or pays
back, at most once and never both.

The request validation that answers 413 or 422 happens before any state changes and is left out,
and so is a commit whose acknowledgement is lost.

### 2.2 FixedDeck

A deck is the set of edits it has on top of the original; a file is whole or half-written and
holds a deck; a row of `fixed_pptx` is `<<asset, version>>`. `Unsafe` holds the sets of edits that
fail the control check together. A handler goes through `LoadFinding`, `ReadSiblings` (which
selects the findings), the rebuild in a thread, `FlushFlag` (autoflush updates the rows it
changes one after the other in the order of their keys, and each is locked from then on),
`ReadExisting`, `OpenFile`/`WriteFile` and `CommitFix`. Beside it run the deletion
(`EraseRow` locks and deletes the same rows one by one, then `DeleteFiles` and `DeleteCommits`,
which unlink before they commit) and the cleanup (`Expire`, `CleanupUnlinks`, `CleanupCommits`);
each of the three may crash between any two steps. Which finding gets a flag is a choice where
two have the same edit, because the query of the siblings has no order. Edits are taken as
independent of the order they are applied in. The cleanup is `cleanup_expired_files()` with a
session of its own, as its tests call it; as a cron job it fails earlier (`ReviewFiles`), so this
module has more behaviours than production, not fewer.

Two histories say what overlap can do. `overtaken` holds the requests that had read what another
one committed, or wrote the file another one was writing. `harm` is what has gone wrong with the
deck on offer since it was last made: "overlap" after an overtaken request has touched it,
"half_deleted" after a deletion that failed behind its first file. A commit that nobody overtook
clears it. `AppliedFixes` (the abstract side) allows an overtaken request anything and every other
one a single step: its finding applied, or all of them rolled back.

### 2.3 ReviewFiles

A writer (the upload, one delivery of the job, a reader that renders missing slides, a fix) goes
through the list `Output(w)`: each `SaveFile` inserts a row, which needs the review's row, and
writes bytes under a path made of the new row's id; `Commit` makes all rows visible at once.
`SaveFails` rolls the rows back and leaves the files. `upsert_fixed_pptx` reads the row of the
corrected deck (`ReadDeck`), which may be gone or newer when its bytes are written, keeps its id
and counts up the version in the path. `delete_review` reads the rows, unlinks one file after the
other in any order (`UnlinkFile`; the query has none), flushes (`FlushDelete`), waits for open
inserts and cascades (`CommitDelete`). `deletion.lost` is a history of what failed deletions have
unlinked. `RunCron` is the cron job as arq calls it: with the context where the function expects a
session, so it raises before it removes anything. Both kinds of reviews occur at first: a new
upload, and one from before slide images were stored, for which `get_slides` renders them.

### 2.4 BrowserSession

One action per callback: `StartRequest`, `ReceiveReply`, `AwaitRefresh` (the shared
`refreshPromise`), `ReceiveRenewal`/`ReceiveRefusal` (which also resume all waiters),
`SubmitLogin`/`ReceiveLogin`, `Logout`, `Reload`. The user may log in, log out or reload at any
moment and the network may fail any call. The server decides at `Serve*`, earlier than the browser
learns of it. Tokens are pairs of a login and a generation; access tokens expire and refresh
tokens lapse. One tab is modelled; a fresh access token outlives the one retry it is for, the last
generation never expires, and the login form is offered only while no user is shown.

`crossed` records that a refresh or `/auth/me` was under way when the user last logged in or out;
a login or logout with nothing of the kind under way, or a reload, clears it. `strays` holds the
calls whose session ended while they were under way.

### 2.5 ReviewPipeline

`turn` walks over `default_steps`. An analyzer begins (`Begin*`) with a task per slide or one for
the deck; `task[a][p]` goes from "queued" to "asked" to "answered" or "failed", and each `Answer*`
action is what one call may bring back: findings with a box and a severity from `Answers`, remarks
about slides of the model's choice from `Remarks`. A remark may name a slide the deck does not
have: `NMissing` such numbers each make a group of their own in the report, as the deck as a whole
does. `AnalyzerDone` adds all findings to `ctx.findings`; `AnalyzerFailed` adds none and leaves the
other calls of `asyncio.gather` running as strays, which keep competing for the semaphore of
`SlideAnalyzer` until the client is closed. The aggregator goes through the findings one by one
(`Keep`, `ConfirmSameIssue`, `DenySameIssue`), and the report is `Ordered(kept)` of `Aggregation`.

Geometry is a relation of overlapping boxes; retries, the repair request and costs are inside a
call; the checks of a chart are a choice of what is found.

### 2.6 Rehearsals

An upload takes its number from the committed rows (`TakeNumber`), flushes and writes the
recording (`SaveAttempt`), calls Redis (`EnqueueJob`) and commits (`CommitAttempt`): the job is in
the queue before its row is there, as with reviews. The deletion of the review unlinks the
recordings it has read one by one (`PurgeAudio`), and its flush (`FlushPurge`) fails when an
attempt was committed after they were read. Flushed inserts lock the review's row, which
`CommitPurge` waits for. The job has the same edges as a review's job: `StoreFails` and
`JobTimeout` leave "processing", `WorkerStops` starts it again whatever its status. A job whose
last run found no row or was cut off is `"lost"`. `Poll` is `useRehearsalStatus`, and
`ComparedWith` the query of `get_rehearsal_report` for the attempt its delta is taken against.
`before[h]` is a history of what was listed when *h* took its number.

### 2.7 RehearsalRecorder and SpeechAnalysis

One action per event of the page: the click on start and the browser's answer about the
microphone, a second that passes, a slide switch, clicks on stop and the recorder's "stop" event,
the answer to the upload, leaving the page. Recorders are numbered by the clicks that asked for
them, so a second one that overwrites `mediaRecorderRef` is told from the first; `stopping[rec]`
holds the "stop" listeners that clicks on stop have added to recorder *rec*, each with the
recording it closes over. `chunks` is `chunksRef`, the one array all recorders push into: the
next start empties it and the listener takes what is in it when it fires. `screen` records which
slide was shown in each second, which is what the tracker's entries should say. An upload carries
its timings and the recorders heard in it; when it is analysed a transcript is chosen from
`Transcripts`, and the operators of `SpeechAnalysis` compute from both what the worker does:
windows from timings, the words of each slide, pacing, pauses and rates. Times are whole seconds.
`slips` records the four awkward moments that the properties name as their exceptions.

### 2.8 ReportPage

`page` is "opening" until the first poll of the status is answered, "waiting" while polls go on,
"interrupted" after a later poll that failed (the interval follows the last status heard, so it
goes on), "stopped" after a first one that failed (no status was heard, so there is no interval,
until `Reopen`), then "report" or "error" with the fetch of the report. `card` is the local state
of a `FindingCard`, `calls` its POSTs in the order of the clicks. A call is read and written on the
server in two steps (`Read`, `Write`), and `Write` stores only the columns the session changed.
`ReceiveSuccess` refetches the report, cancelling the fetch under way; `ReceiveFailure` takes back
what the handler's closure remembers (`TakenBack`), but only for the last call of its hook
(`Latest`), because callbacks given to `mutate` are dropped for earlier ones, and not after the
card was unmounted (`Deaf`). `ReceiveReport` sets the card to the report only when a flag of the
*report* changed. `troubles` records what may part card and row.

### 2.9 How the modules meet

`Rehearsals`, `FixedDeck` and `ReviewFiles` each model the part of `delete_review` that concerns
them, and `ReviewFiles` and `ReviewLifecycle` the same job with files and with credits: both have
its start, its outcomes and its redelivery; a timeout while files are saved is a `SaveFails`, and
one before that touches no file and is in `ReviewLifecycle` only. Of the job `ReportPage` has only
the moment its outcome is committed (`FinishReview`), and the effect of a fix on the deck is
`FixedDeck`'s. `RehearsalRecorder` ends where `Rehearsals` begins, with a POST.

## 3. The runs

| run | instance | what it shows |
|---|---|---|
| `lifecycle_faults` | 1 user with a trial and a bought credit, 2 uploads, 2 tries, every fault, fair | no credit appears or disappears; failed means refunded; work is paid; redelivery ends |
| `lifecycle_ledger` | the same with the trial spent: 2 uploads compete for the last credit, every fault, fair | each run has one outcome (`CreditLedger`); only a second start takes an outcome back; every review whose job may start is answered unless a run of it was cut off |
| `fixed_deck` | 3 findings, 3 requests, 2 at a time, every fault | the deck on offer matches the flags and can be downloaded but for what an overtaken request or a failed deletion did; nobody waits in a circle; `AppliedFixes` is implemented |
| `fixed_deck_answers` | 3 findings, one of which fits no shape, 2 requests at once, every fault, fair | every request is answered, also one whose finding changes nothing |
| `review_files` | 2 slides, 2 deliveries, 2 readers, 2 fixes, 1 deletion, every fault | rows have their files but for a failed deletion; leftovers on disk are explained; a report is whole |
| `never_cleaned` | violation; 1 slide, 1 delivery, no faults, fair | expired files are never removed: the cron job takes its context for a session |
| `session` | 2 users, 2 logins, 2 requests, 2 renewals, 1 reload, network failures, logins and logouts at any time | requests are the shown user's; logout clears; no request fails for want of a good token; good tokens are kept; each with the exceptions it names |
| `session_settles` | 1 user, 1 renewal, the same interruptions and failures, fair | every call settles, the page does not stay blank |
| `pipeline` | 2 slides, 2 numbers outside the deck, cap of 2, semaphore of 1, 2 crops, every call may fail, fair | `AnalyzerSteps` is implemented; charts are checked where one was seen; crops add only what is new; no finding vanishes uncounted; the worst are shown; the run ends |
| `rehearsals` | 2 attempts, 2 tries, every fault, fair | the delta looks back; a listed attempt can be played; recordings without a row are explained; an attempt is answered unless its job was lost |
| `recorder` | 2 slides, 2 seconds, 3 visits, 2 starts, 2 stops, 1 slip, fair | words are heard with the slide they were said to; pacing agrees with the map; sound is of its recorder; no microphone stays open; one attempt per recording; the upload ends |
| `report_page` | 3 clicks, 2 at once, failing polls, fetches and calls, lost replies, fair | the card tells what the row holds; every click counts; the report catches up |

**Why the bounds are enough.** Two uploads of one account are what it takes to compete for a last
credit, and different accounts share no row. `MaxTries = 2` gives a first and a redelivered start;
arq's five only repeat the second. The findings of `fixed_deck` are two about one shape and one
about another, whose edits are safe alone and unsafe together; in `fixed_deck_answers` one fits no
shape. Three requests of which two overlap reach a roll-back, a deck made by an overtaken request,
and the request after it that puts it right. Two slides are a set of images that can be
half-written; two deliveries, two readers and two fixes are each a pair that can run one after or
beside the other, and one deletion meets all of them (`MaxDeletes`; a second one after a failed
one finds the same rows with fewer files). Two requests and the hydration meet one refresh as
first, waiter and latecomer. In the pipeline two slides give one that fails and one that strays, a
semaphore of 1 makes the stray hold what the next needs, a cap of 2 is exceeded by what one slide
collects, three boxes in a row overlap without being transitive, two crops of one slide may find
the same, and two missing numbers are two groups. Two attempts can be numbered, finished and
deleted in both orders. Three visits of two slides come back to a slide; `MaxSlips = 1` lets one
kind of awkward moment happen in a behaviour; each property names the kinds it does not survive
and is checked beside the others. In `report_page` a third click follows two that race
(`MaxPending = 2`). Symmetry is used only in runs without liveness, over interchangeable clicks,
accounts, requests and logins.

**Fairness.** Jobs are coroutines that arq runs until they end, handlers of one request likewise
where a liveness property needs it: weak fairness of `JobStep`, `ApplyStep`, `DeleteGoesOn`,
`CallStep`, of the answers of the server and of the page's callbacks; none of faults, of clicks or
of expiry. API requests of `ReviewLifecycle` and `Rehearsals` may stop anywhere and have none. A
request that waits for row locks is queued by Postgres and is served when the lock is free
infinitely often: strong fairness of `FlushFlag`. Open pages go on polling, and of the polls that
follow one another one succeeds (`Poll`, `FetchStep`); arq starts its cron jobs (`RunCron`). In
the pipeline weak fairness of the next-state relation is enough, for no step can be repeated for
ever.

`CHECK_DEADLOCK FALSE` is set where the system really ends: a pipeline run that has reported, a
session with no login left, a review whose clicks are used up or whose files are gone, a page
that was left.

## 4. What is proved

TLAPS checks the following for all values of the constants.

No theorem excludes a fault or an overlap: what breaks a promise of the code is recorded by a
history variable at the step that does it, and the theorem says that nothing else breaks it.

**ReviewLifecycle** (`ReviewLifecycleProofs`). Two inductive invariants. `RequestsAndJobsAgree`
ties the row, the job and every refund and report of an upload to the state of its request.
`RunsHaveOneOutcome` is about redelivery: a run that has not come to its outcome has neither
delivered nor paid back, no run has done both, and an outcome in the row is that of the latest
run. `TypeCorrect`, `CreditsAlwaysConserved` (by counting the finite sets of charges and refunds;
the second invariant says that each refund is a new pair), `WorkIsAlwaysPaid`,
`FailedIsAlwaysRefunded`, `TrialIsSpentFirst`, `DeletedNeverReturns`, `LettersFollowReports`,
`OutcomesAreFinal` and `LifecycleImplementsLedger` follow under every fault. A redelivered run can
pay back what was delivered or paid back before, as the code asks for no status:
`RefundedTwiceOnlyWhenRestarted` and `DeliveredPaidBackOnlyWhenRestarted` say that it takes a
second start. `JobsAlwaysWearOut`: `WorkLeft` counts the starts a job has left, six steps each,
and every step that changes a queued job lowers it, a timeout and a worker that stops included. It
uses from `RequestsAndJobsAgree` that a job is enqueued once.

**FixedDeck** (`FixedDeckProofs`). Any number of requests may overlap, with every fault. `Inv` has
the types, what a handler remembers at each point, and that rows are locked in the order of their
keys. `NobodyEverWaitsInACircle` follows: who waits for a row holds only rows before it, so of all
rows somebody in a circle waits for, the last is held by somebody who waits for a later one. A
late request finds no row of a deleted review (`DeletedNeverReturns`). `DeckInv` says of each
request that is *not* overtaken that what it remembers is still so (its finding is not fixed, the
selection is the flags, the row it read is the only one) and that the file it writes holds what it
will commit. Most of the proof is that every step of another request which would spoil this is one
that puts the request into `overtaken`. With it the deck on offer has exactly the edits shown as
fixed until an overtaken request touches it (`FlagsAlwaysMatchDeck`), its file is whole and on disk
until such a request or a deletion that failed halfway (`DeckAlwaysOnDisk`), the next request that
nobody overtakes restores both, and every step is one of `AppliedFixes` or none
(`PromiseAlwaysKept`). `LocksAlwaysExclude` and `RequestsAlwaysWearOut` are what
`EveryApplyIsAnswered` needs besides fairness: locked rows are never shared, and every change of a
request in flight brings it nearer to its answer.

**ReviewFiles** (`ReviewFilesProofs`). `FilesInv` is about names: a file carries the writer that
made it, a writer saves its `Output` in order, and all rows of a writer appear at its commit. So a
row never names a file somebody else can remove (`EveryRowHasItsFile`), a file without a row has
one of the named causes (`EveryLeftoverIsExplained`), and a review that is done has a report with
the whole set of slides of its delivery, whatever the number of slides, deliveries, readers and
fixes (`EveryReportIsWhole`). The proof of the second showed a cause the property did not name: a
slow fix that commits after a deletion has read the rows can reuse the name of a deck that was
unlinked.

**BrowserSession** (`BrowserSessionProofs`). Any user, at any moment, and any network. `PairInv`
says that pairs lapse in the order of their issue, that a refused refresh means a lapsed pair, and
that the tokens kept are the latest of their login. `SessionInv` says that unless the user's last
login or logout crossed a refresh or `/auth/me` (`crossed`) the session is `Coherent`: a refresh is
of the tokens that are kept, these are of the user shown, none are kept for nobody, and the calls
whose session has not ended carry pairs of the same login. It is inductive because a login or
logout that crosses nothing starts a coherent session from any state, however incoherent. Hence
`UserAlwaysOwnsTokens` and `LogoutAlwaysClears`; and with `PairInv` `GoodRequestsNeverFail` (only
the network, the end of its session or a crossing makes a request fail) and `GoodTokensAreKept`
(only a logout, the network or a crossing drops tokens that can be refreshed). The crossing is not
an assumption about the user but a case the code leaves open (section 5). For every user and
network, a call waits only while a refresh is in flight and the page loads only while `/auth/me`
is (`WaitersAreServed`), and a call goes through at most five stages, each once
(`CallsAlwaysWearOut`): the safety half of the liveness that `session_settles` checks.

**ReportPage** (`ReportPageProofs`). `ReportInv` says of each call what its handler remembers from
the click (`AsAtTheClick`), when the report is as the row (`ReportInStep`), and what the card then
shows: the last click that is not settled, or else the row (`CardFollows`). It holds for any number
of clicks and calls at once. The attempt to prove `CardTellsTheTruth` refuted its first form, which
three clicks do not violate: four votes that race on the server can leave the row as it was before
the first, so the refetched report does not change and the card keeps the last click. "raced" is
therefore one of the `Grave` troubles that the property names. `StaleIsAlwaysFetched` excludes
only lost replies: a report that is behind the row has a fetch under way, or a stored call whose
answer will ask for one. With it only fairness is missing from `ReportCatchesUp`.

**RehearsalRecorder** (`RehearsalRecorderProofs`). `RecorderInv` has these parts. Recorders are
numbered by clicks, asked for before they are used, and used once (`Numbered`, `Once`). The page
has one recording at a time (`Alone`), from which `MicIsAlwaysReleased` follows. `Follows` and
`Kept` say that every second recorded so far is in an entry of the tracker, and that every entry
it is in names the slide that was on the screen; this survives every switch, stop and late "stop"
event, and with it the windows the worker makes of an upload contain only what was said to their
slide (`WordsAlwaysMeetTheirSlide`, which also needs that a finite set of positions
has a greatest one) and the pacing findings agree with the pacing map
(`PacingIsAlwaysInTheMap`, for any `TooShort < TooLong`). The proof of `MicIsReleased` showed that
its first form was weaker than the code: a page that is left before the "stop" event has released
its microphone as well.

`Sole` adds that the shared array holds the sound of the one recorder there is, unless a recording
was started twice: `SoundIsAlwaysOfItsRecorder`.

**ReviewPipeline** (`ReviewPipelineProofs`). `PipelineInv` says that analyzers have no tasks
before their turn, contribute only in it, and are settled when they have; so a step of a task is
always one of an analyzer that has not contributed, which is all `AnalyzerSteps` asks
(`AnalyzersDegradeBySteps`). `ChartsAreAlwaysSeen` follows from the flags being set as a whole.

`ContentInv` adds what is inside the findings: those of a task are of its analyzer, those merged
are of an analyzer whose turn is over, and while the zooms of a slide are collected they overlap
neither each other nor what `findings` held when they began (`ZoomsGood`). The last part is why
`ZoomsAlwaysAddNew` survives the merge of several slides. It also counts: kept plus confirmed
duplicates are the findings judged so far.

The other three are about the report, a sequence made of sequences, for every list of findings.
Induction over data is out of reach as a schema, but `Induction` states it for a set of numbers,
and the partial results of `FlattenSeq`, of the sum and of `Accept` are functions of a number: so
each is unfolded one step and the facts about the whole are members of such a set. `Worth` is
the sum of a table of weights over a list. Grouping by slide and sorting by severity keep the worth
by every table, and the cap keeps a prefix of each sorted group; `NothingEverVanishes`,
`WorstIsAlwaysShown` and `CapIsNeverHarsher` are this with the tables that weigh a shown finding 1
and a line what it hides, a severe finding of one slide 1, and each severity its weight. The third
also needs that rounding half to even is monotonic, which `RoundedQuotient` is shown to be.
`TypesHold` follows from both invariants.

With the types, both also give `RunsAlwaysWearOut`: a tuple of counts (stages, turns, findings to
judge, rivals to compare) goes down at every step of the run, in lexicographic order, and the calls
left of one task at every step of a task, in its turn or as a stray. This is why weak fairness of
the next-state relation is enough for `RunEnds`.

**Rehearsals** (`RehearsalsProofs`). Two invariants. `FileInv` ties recordings to uploads and
deletions: only accepted uploads are listed or in the hands of a deletion, an upload that wrote
its recording keeps it until it is accepted, and what a deletion has unlinked, one file per step,
stays unlinked until it commits. `ListedIsPlayable` and `NoUnexplainedOrphans` follow under every
fault. `EarlierAreLower` keeps the numbers in the order of the uploads (`NumbersGrow`); with the
fact that a finite set of numbers has a greatest element, proved by a smallest counterexample, it
gives `DeltaIsAgainstThePast` in every order of jobs, retries and deletions. The steps of the job
are `Quiet` for all of this, which is why one lemma covers them. `AttemptsAlwaysWearOut` is
`JobsAlwaysWearOut` for the job of an attempt, five steps a try.

Some proved properties are in no run, because a theorem says more: the type invariants of these
modules, `FreeFirst`, `DeletedStaysDeleted`, `AnnouncedIsDelivered`, `RequestsAndJobsAgree`,
`RunsHaveOneOutcome`, `RefundedOnce`, `DeliveredIsKept`, `DoneIsSettled`, `NumbersFollowUploads`;
and, defined beside their proofs, the safety halves of the liveness properties: `JobsWearOut`,
`AttemptsWearOut`, `RunsWearOut`, `LocksExclude`, `RequestsWearOut`, `NobodyWaitsInVain`,
`CallsWearOut`, `StaleIsFetched`. They say that nothing goes round in circles and nothing waits
for what is not coming.

**Only model-checked**: the liveness properties themselves (`WF_`/`SF_` arguments and ENABLED are
out of the prover's reach). Every invariant, action property and refinement of a passing run has a
theorem.

## 5. Disagreements found

`never_cleaned` is kept as a run: `cleanup_expired_files` says it deletes expired files, and as a
cron job it raises on its first statement, every night.

The models also showed the following. Each is an exception that a property names, or a reason for
a bound or an assumption.

*Reviews.* The job is enqueued before the commit, and a worker that finds no row drops it. A
timeout passes by the failure branch and leaves "processing" without the refund that the price
page promises; so does an error while the result is saved, and the last permitted restart. A
redelivered job asks for no status: it can refund twice, refund a delivered report, store a second
set of slides, and store a fresh deck over a corrected one.

*Files.* A deletion that fails has lost the files it unlinked. A request that is rolled back
leaves its files. Superseded versions of the corrected deck are never removed, and its version can
go backwards when a slow fix commits after a fast one. Two readers may both render the slide
images, though the comment says once per review.

*Fixes and votes.* Of two overlapping fixes the deck may have one while the findings show both, or
be half-written, until the next fix. A fix that found nothing to change is shown as applied. Votes
that are handled in another order than they were cast leave the card unlike the row until a flag
of the report changes, and a like and a flag that race leave both set. A background refetch that
fails replaces a report that is shown by an error page, and a first status request that fails is
never repeated by the polling.

*Session.* A logout or login during a refresh, or a login during `/auth/me`, is overwritten by the
answer: tokens stay in localStorage after a logout, or are those of another user, until the next
login, logout or reload.

*Rehearsals.* A second click on start before the microphone is granted overwrites the first
recorder, whose microphone stays open, and the upload can carry the sound of both; a page left
meanwhile goes on recording. A second click on stop uploads twice. Of a slide visited twice only
the last visit is heard. A rehearsal fails as a whole when its transcription fails, although the
docstring of `process_rehearsal` names files only.

*Report.* The "Прочее" line promises a full list that the JSON export does not have; the prompt of
the judge says that categories were compared.

## 6. Plan

Done, in this order: ReviewLifecycle with CreditLedger, FixedDeck with AppliedFixes,
BrowserSession, ReviewPipeline with Aggregation and AnalyzerSteps, and their first theorems; then
Rehearsals with its theorems, RehearsalRecorder with SpeechAnalysis, ReportPage, ReviewFiles.

Proved since: the safety properties of BrowserSession, ReviewFiles, ReportPage and
RehearsalRecorder, `DeckOnDisk`, and the four properties of ReviewPipeline about the findings and
the report; then the safety halves of the liveness properties. Since then the theorems of
ReviewLifecycle, FixedDeck and BrowserSession do without assumptions on redelivery, overlap, the
user or the network.

Left to prove: nothing that a run checks and the provers can reach.

Left to model: `_align_slide_windows`; `LlmCall` (retries, backoff, repair and cost of one call,
and a bound of its length against the timeout of the job); the grouping of recurring findings and
contact sheets as pure operators; the composition of a redelivered job with `FixedDeck`.

## 7. Not modelled

Rendering, annotation and PDF export, password hashing, field validation, migrations, email
templates and telemetry keep no state that another operation reads. The grouping of recurring
findings is a pure function of the browser. A second browser tab shares localStorage with the
first and is left out, as are the S3 storage placeholder and the signed links of files. The
external programs (soffice, poppler, ffmpeg, the language model) appear as choices of outcome, and
the retries inside a call to the model as part of that choice. `_align_slide_windows`, which
guesses the windows of a review's recording from its words, is left out: rehearsals come with
timings, and in the review pipeline its result only shapes the remarks, which are a choice.
Payment is not in the repository: bought reviews are an initial value.
