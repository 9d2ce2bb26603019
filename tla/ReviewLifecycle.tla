--------------------------- MODULE ReviewLifecycle ---------------------------
(***************************************************************************)
(* The life of a Review (a paid "Razbor"): the API request that pays for   *)
(* it, the arq job that runs it, and the rows the two of them share.       *)
(*                                                                         *)
(* One step is one committed database transaction, one call to Redis, or   *)
(* one point at which the handler or the job can be interrupted.  What a   *)
(* transaction has not committed yet is visible to nobody else and is      *)
(* therefore no part of the state.                                         *)
(***************************************************************************)
EXTENDS Naturals, FiniteSets

CONSTANTS
  Users,           \* rows of the table users
  Reviews,         \* uploads, one POST /reviews each
  Owner,           \* Owner[r]: the user who uploads r
  InitialFree,     \* trial reviews of a new account
  InitialBalance,  \* reviews already bought
  MaxTries,        \* arq's max_tries: how often one job may be started
  Faults           \* the faults that may happen, a subset of FaultKinds

FaultKinds == {"api_crash", "worker_stop", "timeout", "persist_error", "email_error"}

ASSUME ReviewAssumption ==
  /\ IsFiniteSet(Reviews)
  /\ Owner \in [Reviews -> Users]
  /\ InitialFree \in Nat /\ InitialBalance \in Nat
  /\ MaxTries \in Nat \ {0}
  /\ Faults \subseteq FaultKinds

VARIABLES
  wallet,     \* wallet[u][w]: reviews left to user u in wallet w
  admins,     \* users whose row has is_admin
  request,    \* request[r]: where the POST that uploads r has got to
  source,     \* credit_source: the wallet r was paid from
  status,     \* status column of the committed row, "absent" without a row
  job,        \* job[r]: where the arq job of r has got to
  tries,      \* arq's retry counter of that job
  refunded,   \* history: <<r, k>> when run k of r paid back; k = 0: the request
  delivered,  \* history: <<r, k>> when run k of r committed a report
  notified,   \* history: <<r, k>> when run k of r sent "report is ready"
  cut         \* history: reviews a run of which was cut off before its outcome

vars == <<wallet, admins, request, source, status, job, tries,
          refunded, delivered, notified, cut>>
history == <<delivered, notified, cut>>

Wallets == {"free", "balance"}
Sources == Wallets \cup {"admin", "none"}
Statuses == {"absent", "queued", "processing", "done", "failed"}
Unpaid == {"idle", "as_user", "as_admin", "rejected"}
RequestStates == Unpaid \cup {"charged", "enqueued", "accepted",
                              "failing", "refunded", "crashed"}
Running == {"pipeline", "failing", "persist", "email", "ended"}
JobStates == {"none", "waiting", "finished"} \cup Running

TypeOK ==
  /\ wallet \in [Users -> [Wallets -> Nat]]
  /\ admins \subseteq Users
  /\ request \in [Reviews -> RequestStates]
  /\ source \in [Reviews -> Sources]
  /\ status \in [Reviews -> Statuses]
  /\ job \in [Reviews -> JobStates]
  /\ tries \in [Reviews -> 0..MaxTries]
  /\ refunded \subseteq Reviews \X (0..MaxTries)
  /\ delivered \subseteq Reviews \X (0..MaxTries)
  /\ notified \subseteq Reviews \X (0..MaxTries)
  /\ cut \subseteq Reviews

Init ==
  /\ wallet = [u \in Users |->
                 [w \in Wallets |-> IF w = "free" THEN InitialFree ELSE InitialBalance]]
  /\ admins = {}
  /\ request = [r \in Reviews |-> "idle"]
  /\ source = [r \in Reviews |-> "none"]
  /\ status = [r \in Reviews |-> "absent"]
  /\ job = [r \in Reviews |-> "none"]
  /\ tries = [r \in Reviews |-> 0]
  /\ refunded = {}
  /\ delivered = {}
  /\ notified = {}
  /\ cut = {}

(***************************************************************************)
(* The wallets: LimitService.                                              *)
(***************************************************************************)
\* The wallet the request that uploads r pays from; "none" when both are empty.
\* The decrements look at the row; is_admin is still what was read with the token.
PaysFrom(r) ==
  LET left == wallet[Owner[r]]
  IN CASE request[r] = "as_admin" -> "admin"
       [] request[r] # "as_admin" /\ left["free"] > 0 -> "free"
       [] request[r] # "as_admin" /\ left["free"] = 0 /\ left["balance"] > 0 -> "balance"
       [] OTHER -> "none"

Debit(u, w) ==
  wallet' = IF w \in Wallets THEN [wallet EXCEPT ![u][w] = @ - 1] ELSE wallet

\* A mutation of Refund: every refund is a trial review.
RefundToFree(r, k) ==
  /\ wallet' = IF source[r] \in Wallets
               THEN [wallet EXCEPT ![Owner[r]]["free"] = @ + 1]
               ELSE wallet
  /\ refunded' = refunded \cup {<<r, k>>}

\* refund: back into the wallet r was paid from, nothing for an administrator.
Refund(r, k) ==
  /\ wallet' = IF source[r] \in Wallets
               THEN [wallet EXCEPT ![Owner[r]][source[r]] = @ + 1]
               ELSE wallet
  /\ refunded' = refunded \cup {<<r, k>>}

\* A login re-reads ADMIN_EMAILS, which may have changed since the last one.
Authenticate(u) ==
  /\ \E listed \in BOOLEAN :
       admins' = IF listed THEN admins \cup {u} ELSE admins \ {u}
  /\ UNCHANGED <<wallet, request, source, status, job, tries, refunded, history>>

(***************************************************************************)
(* The request: create_review.                                             *)
(***************************************************************************)
Advance(r, to) == request' = [request EXCEPT ![r] = to]

\* get_current_user: the session keeps the row, is_admin included, as it is now.
Authorize(r) ==
  /\ request[r] = "idle"
  /\ Advance(r, IF Owner[r] \in admins THEN "as_admin" ELSE "as_user")
  /\ UNCHANGED <<wallet, admins, source, status, job, tries, refunded, history>>

\* check_and_reserve and the commit of the reservation.
Reserve(r) ==
  LET w == PaysFrom(r) IN
    /\ request[r] \in {"as_user", "as_admin"}
    /\ w # "none"
    /\ Debit(Owner[r], w)
    /\ source' = [source EXCEPT ![r] = w]
    /\ Advance(r, "charged")
    /\ UNCHANGED <<admins, status, job, tries, refunded, history>>

\* LimitExceededError: both wallets are empty.
RejectUnpaid(r) ==
  /\ request[r] \in {"as_user", "as_admin"}
  /\ PaysFrom(r) = "none"
  /\ Advance(r, "rejected")
  /\ UNCHANGED <<wallet, admins, source, status, job, tries, refunded, history>>

\* The job is in Redis before the row it is about is committed.
EnqueueJob(r) ==
  /\ request[r] = "charged"
  /\ Advance(r, "enqueued")
  /\ job' = [job EXCEPT ![r] = "waiting"]
  /\ UNCHANGED <<wallet, admins, source, status, tries, refunded, history>>

CommitReview(r) ==
  /\ request[r] = "enqueued"
  /\ Advance(r, "accepted")
  /\ status' = [status EXCEPT ![r] = "queued"]
  /\ UNCHANGED <<wallet, admins, source, job, tries, refunded, history>>

\* A mutation of CreateFails: an error after the commit is refunded too.
CreateFailsLate(r) ==
  /\ request[r] \in {"charged", "enqueued", "accepted"}
  /\ Advance(r, "failing")
  /\ UNCHANGED <<wallet, admins, source, status, job, tries, refunded, history>>

\* A file, Redis or the commit raises: the transaction is rolled back ...
CreateFails(r) ==
  /\ request[r] \in {"charged", "enqueued"}
  /\ Advance(r, "failing")
  /\ UNCHANGED <<wallet, admins, source, status, job, tries, refunded, history>>

\* ... and the reservation is paid back in a transaction of its own.
RefundRequest(r) ==
  /\ request[r] = "failing"
  /\ Refund(r, 0)
  /\ Advance(r, "refunded")
  /\ UNCHANGED <<admins, source, status, job, tries, history>>

\* The API process dies, or the refund itself raises: nobody resumes.
ApiCrash(r) ==
  /\ "api_crash" \in Faults
  /\ request[r] \in {"charged", "enqueued", "failing"}
  /\ Advance(r, "crashed")
  /\ UNCHANGED <<wallet, admins, source, status, job, tries, refunded, history>>

\* delete_review: the owner may delete a review in any status.
DeleteReview(r) ==
  /\ status[r] # "absent"
  /\ status' = [status EXCEPT ![r] = "absent"]
  /\ UNCHANGED <<wallet, admins, request, source, job, tries, refunded, history>>

(***************************************************************************)
(* The job: process_review, run by arq.                                    *)
(***************************************************************************)
Proceed(r, to) == job' = [job EXCEPT ![r] = to]

\* A mutation of StartJob: arq's retry counter is not kept.
StartJobUncounted(r) ==
  /\ job[r] = "waiting"
  /\ \/ status[r] = "absent" /\ Proceed(r, "ended") /\ UNCHANGED status
     \/ /\ status[r] # "absent"
        /\ Proceed(r, "pipeline")
        /\ status' = [status EXCEPT ![r] = "processing"]
  /\ UNCHANGED <<wallet, admins, request, source, tries, refunded, history>>

\* The review is looked up and marked as processing, whatever its status was;
\* without a row the job returns at once.
StartJob(r) ==
  /\ job[r] = "waiting"
  /\ tries[r] < MaxTries
  /\ tries' = [tries EXCEPT ![r] = @ + 1]
  /\ \/ /\ status[r] = "absent"
        /\ Proceed(r, "ended")
        /\ UNCHANGED status
     \/ /\ status[r] # "absent"
        /\ Proceed(r, "pipeline")
        /\ status' = [status EXCEPT ![r] = "processing"]
  /\ UNCHANGED <<wallet, admins, request, source, refunded, history>>

\* arq gives up on a job that was started MaxTries times.
GiveUpJob(r) ==
  /\ job[r] = "waiting"
  /\ tries[r] = MaxTries
  /\ Proceed(r, "finished")
  /\ UNCHANGED <<wallet, admins, request, source, status, tries, refunded, history>>

\* _download_inputs and _run_pipeline return or raise.
RunPipeline(r) ==
  /\ job[r] = "pipeline"
  /\ \E outcome \in {"persist", "failing"} : Proceed(r, outcome)
  /\ UNCHANGED <<wallet, admins, request, source, status, tries, refunded, history>>

\* A mutation of MarkFailed: no refund.
MarkFailedUnpaid(r) ==
  /\ job[r] = "failing"
  /\ status' = IF status[r] = "absent" THEN status ELSE [status EXCEPT ![r] = "failed"]
  /\ Proceed(r, "ended")
  /\ UNCHANGED <<wallet, admins, request, source, tries, refunded, history>>

\* A mutation of MarkFailed: the return behind it is forgotten.
MarkFailedGoesOn(r) ==
  /\ job[r] = "failing"
  /\ \/ /\ status[r] # "absent"
        /\ status' = [status EXCEPT ![r] = "failed"]
        /\ Refund(r, tries[r])
     \/ /\ status[r] = "absent"
        /\ UNCHANGED <<status, wallet, refunded>>
  /\ Proceed(r, "persist")
  /\ UNCHANGED <<admins, request, source, tries, history>>

\* _mark_failed: status and refund in one transaction.  An UPDATE of a row
\* deleted meanwhile raises StaleDataError, and nothing is committed.
MarkFailed(r) ==
  /\ job[r] = "failing"
  /\ \/ /\ status[r] # "absent"
        /\ status' = [status EXCEPT ![r] = "failed"]
        /\ Refund(r, tries[r])
     \/ /\ status[r] = "absent"
        /\ UNCHANGED <<status, wallet, refunded>>
  /\ Proceed(r, "ended")
  /\ UNCHANGED <<admins, request, source, tries, history>>

\* _persist_success up to its commit.
PersistSuccess(r) ==
  /\ job[r] = "persist"
  /\ status[r] # "absent"
  /\ status' = [status EXCEPT ![r] = "done"]
  /\ delivered' = delivered \cup {<<r, tries[r]>>}
  /\ Proceed(r, "email")
  /\ UNCHANGED <<wallet, admins, request, source, tries, refunded, notified, cut>>

\* _persist_success raises (always when the row is gone: its files violate
\* their foreign key).  Nobody catches it, and the status stays as it is.
PersistFails(r) ==
  /\ job[r] = "persist"
  /\ status[r] = "absent" \/ "persist_error" \in Faults
  /\ Proceed(r, "ended")
  /\ cut' = cut \cup {r}
  /\ UNCHANGED <<wallet, admins, request, source, status, tries, refunded, delivered, notified>>

SendEmail(r) ==
  /\ job[r] = "email"
  /\ \/ notified' = notified \cup {<<r, tries[r]>>}
     \/ "email_error" \in Faults /\ UNCHANGED notified
  /\ Proceed(r, "ended")
  /\ UNCHANGED <<wallet, admins, request, source, status, tries, refunded, delivered, cut>>

\* arq removes the job: an exception of the coroutine is no reason to retry.
FinishJob(r) ==
  /\ job[r] = "ended"
  /\ Proceed(r, "finished")
  /\ UNCHANGED <<wallet, admins, request, source, status, tries, refunded, history>>

\* job_timeout: the coroutine is cancelled, which "except Exception" lets pass.
JobTimeout(r) ==
  /\ "timeout" \in Faults
  /\ job[r] \in Running \ {"ended"}
  /\ Proceed(r, "ended")
  /\ cut' = IF job[r] = "email" THEN cut ELSE cut \cup {r}
  /\ UNCHANGED <<wallet, admins, request, source, status, tries, refunded, delivered, notified>>

\* The worker process is stopped or dies; arq starts all its jobs again.
WorkerStops ==
  /\ "worker_stop" \in Faults
  /\ \E r \in Reviews : job[r] \in Running
  /\ job' = [r \in Reviews |-> IF job[r] \in Running THEN "waiting" ELSE job[r]]
  /\ cut' = cut \cup {r \in Reviews : job[r] \in {"pipeline", "failing", "persist"}}
  /\ UNCHANGED <<wallet, admins, request, source, status, tries, refunded, delivered, notified>>

(***************************************************************************)
(* The specification.                                                      *)
(***************************************************************************)
ApiStep(r) ==
  \/ Authorize(r) \/ Reserve(r) \/ RejectUnpaid(r) \/ EnqueueJob(r)
  \/ CommitReview(r) \/ CreateFails(r) \/ RefundRequest(r) \/ ApiCrash(r) \/ DeleteReview(r)

WorkerStep(r) ==
  \/ StartJob(r) \/ GiveUpJob(r) \/ RunPipeline(r) \/ MarkFailed(r)
  \/ PersistSuccess(r) \/ PersistFails(r) \/ SendEmail(r) \/ FinishJob(r)
  \/ JobTimeout(r)

Next ==
  \/ \E u \in Users : Authenticate(u)
  \/ \E r \in Reviews : ApiStep(r) \/ WorkerStep(r)
  \/ WorkerStops

Spec == Init /\ [][Next]_vars

\* The worker polls its queue and awaits its jobs to their end.
JobStep(r) ==
  \/ StartJob(r) \/ GiveUpJob(r) \/ RunPipeline(r) \/ MarkFailed(r)
  \/ PersistSuccess(r) \/ PersistFails(r) \/ SendEmail(r) \/ FinishJob(r)

\* Requests may stop anywhere.
FairSpec == Spec /\ \A r \in Reviews : WF_vars(JobStep(r))

(***************************************************************************)
(* Safety.                                                                 *)
(***************************************************************************)
PaidBy(u, w) == {r \in Reviews : Owner[r] = u /\ source[r] = w}
RefundsTo(u, w) == {p \in refunded : Owner[p[1]] = u /\ source[p[1]] = w}
WasRefunded(r) == \E p \in refunded : p[1] = r

\* No credit appears or disappears: what a wallet holds is what it held at
\* first, less one per review paid from it, plus one per refund to it
\* (check_and_reserve, refund), whatever fails and however often a job runs.
CreditsConserved ==
  \A u \in Users, w \in Wallets :
    wallet[u][w] + Cardinality(PaidBy(u, w))
      = (IF w = "free" THEN InitialFree ELSE InitialBalance) + Cardinality(RefundsTo(u, w))

\* A review that shows as failed has been paid back: _mark_failed commits the
\* status and the refund together, also when the job is delivered again.
FailedIsRefunded ==
  \A r \in Reviews : status[r] = "failed" => WasRefunded(r)

\* Only a paid review is worked on: a row, and a pipeline run, exist only for
\* an upload that check_and_reserve let through and no request took back.
WorkIsPaid ==
  \A r \in Reviews :
    status[r] # "absent" \/ job[r] \in {"pipeline", "failing", "persist", "email"}
      => source[r] # "none" /\ <<r, 0>> \notin refunded

\* The letter "your report is ready" is sent only after a report was committed,
\* under redelivery too (_persist_success).
AnnouncedIsDelivered == notified \subseteq delivered

\* No fault but a second start of its job pays a review back twice ...
RefundedOnce ==
  \A p, q \in refunded : p[1] = q[1] /\ p # q => tries[p[1]] > 1

\* ... or pays back a review whose report was delivered (_mark_failed after
\* _persist_success, in either order of the two runs).
DeliveredIsKept ==
  \A p \in delivered : WasRefunded(p[1]) => tries[p[1]] > 1

(***************************************************************************)
(* How a request and its job stand to each other: the inductive invariants *)
(* behind the theorems.                                                    *)
(***************************************************************************)
\* Rows, pipeline runs, their refunds and reports belong to accepted requests,
\* the refund of a request to a refunded one.
Agree(r) ==
  /\ request[r] \in Unpaid <=> source[r] = "none"
  /\ request[r] \in Unpaid \cup {"charged"} => job[r] = "none"
  /\ job[r] = "none" => tries[r] = 0
  /\ status[r] # "absent" => request[r] = "accepted"
  /\ job[r] \in {"pipeline", "failing", "persist", "email"} =>
       request[r] = "accepted" /\ tries[r] > 0
  /\ \A k \in 0..MaxTries : <<r, k>> \in refunded =>
       /\ k <= tries[r]
       /\ request[r] = IF k = 0 THEN "refunded" ELSE "accepted"
  /\ \A k \in 0..MaxTries : <<r, k>> \in delivered =>
       0 < k /\ k <= tries[r] /\ request[r] = "accepted"

RequestsAndJobsAgree == \A r \in Reviews : Agree(r)

\* A run that has not come to its outcome has neither delivered nor paid back,
\* no run has done both, and an outcome in the row is that of the latest run.
Outcome(r) ==
  /\ job[r] \in {"pipeline", "failing", "persist"} =>
       /\ <<r, tries[r]>> \notin refunded \cup delivered
       /\ status[r] \in {"processing", "absent"}
  /\ \A k \in 0..MaxTries : ~ (<<r, k>> \in refunded /\ <<r, k>> \in delivered)
  /\ tries[r] = 0 => status[r] \in {"queued", "absent"}
  /\ status[r] = "done" => <<r, tries[r]>> \in delivered
  /\ status[r] = "failed" => <<r, tries[r]>> \in refunded

RunsHaveOneOutcome == \A r \in Reviews : Outcome(r)

(***************************************************************************)
(* The abstract ledger this implements.                                    *)
(***************************************************************************)
Ledger == INSTANCE CreditLedger WITH runs <- tries, returned <- refunded

\* Every step of requests and jobs is a step of the credit ledger or none: a
\* review is charged once, and each run of its job delivers the report or pays
\* the credit back, at most once and never both, under every fault.
ImplementsLedger == Ledger!LedgerSpec

(***************************************************************************)
(* Steps.                                                                  *)
(***************************************************************************)
\* The trial is used up before a bought review is taken (check_and_reserve).
FreeFirst ==
  [][\A u \in Users : wallet'[u]["balance"] < wallet[u]["balance"]
                        => wallet[u]["free"] = 0 /\ wallet'[u]["free"] = 0]_vars

\* A deleted review stays deleted: a job that outlives the row
\* (process_review after delete_review) never brings it back.
DeletedStaysDeleted ==
  [][\A r \in Reviews : request[r] = "accepted" /\ status[r] = "absent"
                          => status'[r] = "absent"]_vars

\* A finished review is left alone, as useReviewStatus assumes when it stops
\* polling: but for deletion, only the second start of its job takes an outcome
\* back, and it takes it back to processing.
OutcomeIsFinal ==
  [][\A r \in Reviews : status[r] \in {"done", "failed"} =>
       \/ status'[r] \in {status[r], "absent"}
       \/ status'[r] = "processing" /\ tries[r] > 0 /\ tries'[r] = tries[r] + 1]_vars

(***************************************************************************)
(* Liveness.                                                               *)
(***************************************************************************)
\* A review whose job may still be started when its row is committed gets an
\* answer: a report, or a failure and a refund - or its owner deletes it first,
\* or a run of it was cut off in processing, by the timeout, a stop of the worker
\* or an error while the result is saved (process_review).
EveryReviewIsAnswered ==
  \A r \in Reviews :
    (status[r] = "queued" /\ job[r] = "waiting" /\ tries[r] < MaxTries)
      ~> \/ status[r] = "done"
         \/ status[r] = "failed" /\ WasRefunded(r)
         \/ status[r] = "absent"
         \/ status[r] = "processing" /\ job[r] = "finished" /\ r \in cut

\* The queue drains: no job is started for ever, however often workers stop.
EveryJobFinishes ==
  \A r \in Reviews : job[r] = "waiting" ~> job[r] = "finished"
==============================================================================
