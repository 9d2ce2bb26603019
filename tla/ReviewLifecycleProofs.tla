------------------------ MODULE ReviewLifecycleProofs ------------------------
(***************************************************************************)
(* Theorems about ReviewLifecycle, for every set of users and reviews,     *)
(* every initial balance, every retry limit and every set of faults.       *)
(***************************************************************************)
EXTENDS ReviewLifecycle, FiniteSetTheorems, TLAPS

USE ReviewAssumption

(***************************************************************************)
(* Types.                                                                  *)
(***************************************************************************)
\* What a request pays from is a wallet that holds something.
LEMMA PaysFromType ==
  ASSUME TypeOK, NEW r \in Reviews
  PROVE  /\ Owner[r] \in Users
         /\ PaysFrom(r) \in Sources
         /\ PaysFrom(r) \in Wallets => wallet[Owner[r]][PaysFrom(r)] > 0
BY DEF TypeOK, PaysFrom, Sources, Wallets

\* Taking one from a wallet that holds something, and giving one back,
\* leaves every wallet a natural number.
LEMMA WalletTypes ==
  ASSUME TypeOK, NEW u \in Users, NEW w \in Wallets
  PROVE  /\ wallet[u][w] > 0 => [wallet EXCEPT ![u][w] = @ - 1] \in [Users -> [Wallets -> Nat]]
         /\ [wallet EXCEPT ![u][w] = @ + 1] \in [Users -> [Wallets -> Nat]]
<1>1. wallet[u] \in [Wallets -> Nat] /\ wallet[u][w] \in Nat
  BY DEF TypeOK
<1>2. [wallet[u] EXCEPT ![w] = @ + 1] \in [Wallets -> Nat]
  BY <1>1
<1>3. wallet[u][w] > 0 => [wallet[u] EXCEPT ![w] = @ - 1] \in [Wallets -> Nat]
  BY <1>1
<1>4. QED
  BY <1>2, <1>3 DEF TypeOK

LEMMA RefundType ==
  ASSUME TypeOK, NEW r \in Reviews, NEW k \in 0..MaxTries, Refund(r, k)
  PROVE  /\ wallet' \in [Users -> [Wallets -> Nat]]
         /\ refunded' \subseteq Reviews \X (0..MaxTries)
<1>1. Owner[r] \in Users
  OBVIOUS
<1>2. wallet' \in [Users -> [Wallets -> Nat]]
  <2>1. CASE source[r] \in Wallets
    BY <1>1, <2>1, WalletTypes DEF Refund
  <2>2. CASE source[r] \notin Wallets
    BY <2>2 DEF Refund, TypeOK
  <2>3. QED
    BY <2>1, <2>2
<1>3. QED
  BY <1>2 DEF Refund, TypeOK

LEMMA InitType == Init => TypeOK
BY DEF Init, TypeOK, Wallets, Sources, RequestStates, Unpaid, Statuses, JobStates

LEMMA ApiType ==
  ASSUME TypeOK, NEW r \in Reviews, ApiStep(r)
  PROVE  TypeOK'
<1> USE DEF TypeOK, Advance, RequestStates, Unpaid, history
<1>0. CASE Authorize(r)
  BY <1>0 DEF Authorize
<1>1. CASE Reserve(r)
  <2>1. Owner[r] \in Users
    OBVIOUS
  <2>2. PaysFrom(r) \in Sources /\
        (PaysFrom(r) \in Wallets => wallet[Owner[r]][PaysFrom(r)] > 0)
    BY PaysFromType
  <2>3. wallet' \in [Users -> [Wallets -> Nat]]
    BY <1>1, <2>1, <2>2, WalletTypes DEF Reserve, Debit
  <2>4. QED
    BY <1>1, <2>2, <2>3 DEF Reserve
<1>2. CASE RejectUnpaid(r)
  BY <1>2 DEF RejectUnpaid
<1>3. CASE EnqueueJob(r)
  BY <1>3 DEF EnqueueJob, JobStates
<1>4. CASE CommitReview(r)
  BY <1>4 DEF CommitReview, Statuses
<1>5. CASE CreateFails(r)
  BY <1>5 DEF CreateFails
<1>6. CASE RefundRequest(r)
  BY <1>6, RefundType DEF RefundRequest
<1>7. CASE ApiCrash(r)
  BY <1>7 DEF ApiCrash
<1>8. CASE DeleteReview(r)
  BY <1>8 DEF DeleteReview, Statuses
<1>9. QED
  BY <1>0, <1>1, <1>2, <1>3, <1>4, <1>5, <1>6, <1>7, <1>8 DEF ApiStep

LEMMA WorkerType ==
  ASSUME TypeOK, NEW r \in Reviews, WorkerStep(r)
  PROVE  TypeOK'
<1> USE DEF TypeOK, Proceed, JobStates, Running, Statuses, history
<1>1. CASE StartJob(r)
  <2>1. tries[r] \in Nat /\ tries[r] + 1 \in 0..MaxTries
    BY <1>1 DEF StartJob
  <2>2. tries' \in [Reviews -> 0..MaxTries]
    BY <1>1, <2>1 DEF StartJob
  <2>3. status' \in [Reviews -> Statuses] /\ job' \in [Reviews -> JobStates]
    BY <1>1 DEF StartJob
  <2>4. QED
    BY <1>1, <2>2, <2>3 DEF StartJob
<1>2. CASE GiveUpJob(r)
  BY <1>2 DEF GiveUpJob
<1>3. CASE RunPipeline(r)
  BY <1>3 DEF RunPipeline
<1>4. CASE MarkFailed(r)
  <2>1. tries[r] \in 0..MaxTries
    OBVIOUS
  <2>2. wallet' \in [Users -> [Wallets -> Nat]] /\ refunded' \subseteq Reviews \X (0..MaxTries)
    BY <1>4, <2>1, RefundType DEF MarkFailed
  <2>3. QED
    BY <1>4, <2>2 DEF MarkFailed
<1>5. CASE PersistSuccess(r)
  BY <1>5 DEF PersistSuccess
<1>6. CASE PersistFails(r)
  BY <1>6 DEF PersistFails
<1>7. CASE SendEmail(r)
  BY <1>7 DEF SendEmail
<1>8. CASE FinishJob(r)
  BY <1>8 DEF FinishJob
<1>9. CASE JobTimeout(r)
  BY <1>9 DEF JobTimeout
<1>10. QED
  BY <1>1, <1>2, <1>3, <1>4, <1>5, <1>6, <1>7, <1>8, <1>9 DEF WorkerStep

\* Every wallet holds a natural number in every state, so the decrements of
\* check_and_reserve never race below zero; all other variables keep their
\* types.
THEOREM TypeCorrect == Spec => []TypeOK
<1>1. TypeOK /\ [Next]_vars => TypeOK'
  <2> SUFFICES ASSUME TypeOK, [Next]_vars PROVE TypeOK'
    OBVIOUS
  <2>1. ASSUME NEW u \in Users, Authenticate(u) PROVE TypeOK'
    BY <2>1 DEF Authenticate, TypeOK, history
  <2>2. CASE WorkerStops
    BY <2>2 DEF WorkerStops, TypeOK, JobStates, history
  <2>3. CASE UNCHANGED vars
    BY <2>3 DEF vars, TypeOK
  <2>4. QED
    BY <2>1, <2>2, <2>3, ApiType, WorkerType DEF Next
<1>2. QED
  BY <1>1, InitType, PTL DEF Spec

(***************************************************************************)
(* Requests and jobs.                                                      *)
(***************************************************************************)
LEMMA InitAgrees == Init => RequestsAndJobsAgree
BY DEF Init, RequestsAndJobsAgree, Agree, Unpaid

LEMMA ApiAgrees ==
  ASSUME TypeOK, RequestsAndJobsAgree, NEW r \in Reviews, ApiStep(r)
  PROVE  RequestsAndJobsAgree'
<1> USE DEF TypeOK, RequestsAndJobsAgree, Agree, Advance, Unpaid, history
<1>0. CASE Authorize(r)
  BY <1>0 DEF Authorize
<1>1. CASE Reserve(r)
  BY <1>1 DEF Reserve
<1>2. CASE RejectUnpaid(r)
  BY <1>2 DEF RejectUnpaid
<1>3. CASE EnqueueJob(r)
  BY <1>3 DEF EnqueueJob
<1>4. CASE CommitReview(r)
  BY <1>4 DEF CommitReview
<1>5. CASE CreateFails(r)
  BY <1>5 DEF CreateFails
<1>6. CASE RefundRequest(r)
  BY <1>6 DEF RefundRequest, Refund
<1>7. CASE ApiCrash(r)
  BY <1>7 DEF ApiCrash
<1>8. CASE DeleteReview(r)
  BY <1>8 DEF DeleteReview
<1>9. QED
  BY <1>0, <1>1, <1>2, <1>3, <1>4, <1>5, <1>6, <1>7, <1>8 DEF ApiStep

LEMMA WorkerAgrees ==
  ASSUME TypeOK, RequestsAndJobsAgree, NEW r \in Reviews, WorkerStep(r)
  PROVE  RequestsAndJobsAgree'
<1> USE DEF TypeOK, RequestsAndJobsAgree, Agree, Proceed, Unpaid, history
<1>1. CASE StartJob(r)
  <2>1. /\ tries[r] + 1 \in 0..MaxTries
        /\ tries' = [tries EXCEPT ![r] = @ + 1]
        /\ UNCHANGED <<request, source, refunded, delivered>>
        /\ job[r] = "waiting"
    BY <1>1 DEF StartJob
  <2>2. job'[r] \in {"ended", "pipeline"} /\ (job'[r] = "pipeline" => request[r] = "accepted")
    BY <1>1 DEF StartJob
  <2>3. status'[r] # "absent" => request[r] = "accepted"
    BY <1>1 DEF StartJob
  <2>4. Agree(r)'
    <3>1. ASSUME NEW k \in 0..MaxTries, <<r, k>> \in refunded'
          PROVE  k <= tries'[r] /\ request'[r] = IF k = 0 THEN "refunded" ELSE "accepted"
      BY <2>1, <3>1
    <3>2. ASSUME NEW k \in 0..MaxTries, <<r, k>> \in delivered'
          PROVE  0 < k /\ k <= tries'[r] /\ request'[r] = "accepted"
      BY <2>1, <3>2
    <3>3. /\ request'[r] \in Unpaid <=> source'[r] = "none"
          /\ request'[r] \notin Unpaid \cup {"charged"}
          /\ job'[r] # "none" /\ tries'[r] > 0
      BY <2>1, <2>2
    <3>4. QED
      BY <2>1, <2>2, <2>3, <3>1, <3>2, <3>3
  <2>5. ASSUME NEW x \in Reviews \ {r} PROVE Agree(x)'
    BY <1>1, <2>5 DEF StartJob
  <2>6. QED
    BY <2>4, <2>5
<1>2. CASE GiveUpJob(r)
  BY <1>2 DEF GiveUpJob
<1>3. CASE RunPipeline(r)
  BY <1>3 DEF RunPipeline
<1>4. CASE MarkFailed(r)
  BY <1>4 DEF MarkFailed, Refund
<1>5. CASE PersistSuccess(r)
  BY <1>5 DEF PersistSuccess
<1>6. CASE PersistFails(r)
  BY <1>6 DEF PersistFails
<1>7. CASE SendEmail(r)
  BY <1>7 DEF SendEmail
<1>8. CASE FinishJob(r)
  BY <1>8 DEF FinishJob
<1>9. CASE JobTimeout(r)
  BY <1>9 DEF JobTimeout, Running
<1>10. QED
  BY <1>1, <1>2, <1>3, <1>4, <1>5, <1>6, <1>7, <1>8, <1>9 DEF WorkerStep

\* The status of a row, the state of a job and the refunds of a review always
\* fit the state of the request that paid for it, under every fault.
THEOREM RequestsAndJobsAlwaysAgree == Spec => []RequestsAndJobsAgree
<1>1. TypeOK /\ RequestsAndJobsAgree /\ [Next]_vars => RequestsAndJobsAgree'
  <2> SUFFICES ASSUME TypeOK, RequestsAndJobsAgree, [Next]_vars
               PROVE  RequestsAndJobsAgree'
    OBVIOUS
  <2>1. ASSUME NEW u \in Users, Authenticate(u) PROVE RequestsAndJobsAgree'
    BY <2>1 DEF Authenticate, RequestsAndJobsAgree, Agree, history
  <2>2. CASE WorkerStops
    BY <2>2 DEF WorkerStops, RequestsAndJobsAgree, Agree, TypeOK, Running, Unpaid
  <2>3. CASE UNCHANGED vars
    BY <2>3 DEF vars, RequestsAndJobsAgree, Agree
  <2>4. QED
    BY <2>1, <2>2, <2>3, ApiAgrees, WorkerAgrees DEF Next
<1>2. QED
  BY <1>1, InitAgrees, TypeCorrect, PTL DEF Spec

\* The worker works only for reviews that were paid for and not paid back by
\* their request (process_review, create_review).
THEOREM WorkIsAlwaysPaid == Spec => []WorkIsPaid
<1>1. TypeOK /\ RequestsAndJobsAgree => WorkIsPaid
  BY DEF TypeOK, RequestsAndJobsAgree, Agree, WorkIsPaid, Unpaid
<1>2. QED
  BY <1>1, TypeCorrect, RequestsAndJobsAlwaysAgree, PTL

(***************************************************************************)
(* Runs.                                                                   *)
(***************************************************************************)
\* A step of one review leaves all that is known of the others alone.
Untouched(x) ==
  /\ request'[x] = request[x]
  /\ status'[x] = status[x]
  /\ job'[x] = job[x]
  /\ tries'[x] = tries[x]
  /\ \A k \in 0..MaxTries : (<<x, k>> \in refunded') <=> (<<x, k>> \in refunded)
  /\ \A k \in 0..MaxTries : (<<x, k>> \in delivered') <=> (<<x, k>> \in delivered)

LEMMA OthersUntouched ==
  ASSUME TypeOK, NEW r \in Reviews, ApiStep(r) \/ WorkerStep(r), NEW x \in Reviews \ {r}
  PROVE  Untouched(x)
<1> USE DEF TypeOK, Untouched, Advance, Proceed, history
<1>1. CASE ApiStep(r)
  BY <1>1 DEF ApiStep, Authorize, Reserve, RejectUnpaid, EnqueueJob, CommitReview, CreateFails,
              RefundRequest, Refund, ApiCrash, DeleteReview
<1>2. CASE WorkerStep(r)
  BY <1>2 DEF WorkerStep, StartJob, GiveUpJob, RunPipeline, MarkFailed, Refund,
              PersistSuccess, PersistFails, SendEmail, FinishJob, JobTimeout
<1>3. QED
  BY <1>1, <1>2

LEMMA ApiOutcome ==
  ASSUME TypeOK, NEW r \in Reviews, Agree(r), Outcome(r), ApiStep(r)
  PROVE  Outcome(r)'
<1> USE DEF TypeOK, Agree, Outcome, Advance, Unpaid, history
<1>1. CASE RefundRequest(r)
  BY <1>1 DEF RefundRequest, Refund
<1>2. CASE CommitReview(r)
  BY <1>2 DEF CommitReview
<1>3. CASE ~ RefundRequest(r) /\ ~ CommitReview(r)
  BY <1>3 DEF ApiStep, Authorize, Reserve, RejectUnpaid, EnqueueJob, CreateFails,
              ApiCrash, DeleteReview
<1>4. QED
  BY <1>1, <1>2, <1>3

LEMMA WorkerOutcome ==
  ASSUME TypeOK, NEW r \in Reviews, Agree(r), Outcome(r), WorkerStep(r)
  PROVE  Outcome(r)'
<1> USE DEF TypeOK, Agree, Outcome, Proceed, Running, history
<1>1. CASE StartJob(r)
  <2>1. /\ tries'[r] = tries[r] + 1 /\ tries[r] + 1 \in 0..MaxTries /\ tries[r] \in Nat
        /\ UNCHANGED <<refunded, delivered>>
        /\ \/ status[r] = "absent" /\ status'[r] = "absent" /\ job'[r] = "ended"
           \/ status'[r] = "processing" /\ job'[r] = "pipeline"
    BY <1>1 DEF StartJob
  <2>2. <<r, tries'[r]>> \notin refunded' /\ <<r, tries'[r]>> \notin delivered'
    BY <2>1
  <2>3. QED
    BY <2>1, <2>2
<1>2. CASE MarkFailed(r)
  BY <1>2 DEF MarkFailed, Refund
<1>3. CASE PersistSuccess(r)
  BY <1>3 DEF PersistSuccess
<1>4. CASE ~ StartJob(r) /\ ~ MarkFailed(r) /\ ~ PersistSuccess(r)
  BY <1>4 DEF WorkerStep, GiveUpJob, RunPipeline, PersistFails, SendEmail, FinishJob, JobTimeout
<1>5. QED
  BY <1>1, <1>2, <1>3, <1>4

\* Each run of a review's job ends in a report or in a refund, at most one of
\* them and at most once, whatever fails and however often arq delivers the job;
\* an outcome that the row shows is that of the latest run (process_review).
THEOREM RunsAlwaysHaveOneOutcome == Spec => []RunsHaveOneOutcome
<1>1. Init => RunsHaveOneOutcome
  BY DEF Init, RunsHaveOneOutcome, Outcome
<1>2. TypeOK /\ RequestsAndJobsAgree /\ RunsHaveOneOutcome /\ [Next]_vars => RunsHaveOneOutcome'
  <2> SUFFICES ASSUME TypeOK, RequestsAndJobsAgree, RunsHaveOneOutcome, [Next]_vars,
                      NEW x \in Reviews
               PROVE  Outcome(x)'
    BY DEF RunsHaveOneOutcome
  <2>1. Outcome(x) /\ Agree(x)
    BY DEF RunsHaveOneOutcome, RequestsAndJobsAgree
  <2>2. ASSUME NEW r \in Reviews \ {x}, ApiStep(r) \/ WorkerStep(r) PROVE Outcome(x)'
    <3>1. Untouched(x) /\ tries[x] \in 0..MaxTries
      BY <2>2, OthersUntouched DEF TypeOK
    <3>2. /\ <<x, tries'[x]>> \in refunded' <=> <<x, tries[x]>> \in refunded
          /\ <<x, tries'[x]>> \in delivered' <=> <<x, tries[x]>> \in delivered
      BY <3>1 DEF Untouched
    <3>3. \A k \in 0..MaxTries : ~ (<<x, k>> \in refunded' /\ <<x, k>> \in delivered')
      BY <2>1, <3>1 DEF Outcome, Untouched
    <3>4. status'[x] = status[x] /\ job'[x] = job[x] /\ tries'[x] = tries[x]
      BY <3>1 DEF Untouched
    <3>5. QED
      BY <2>1, <3>2, <3>3, <3>4 DEF Outcome
  <2>3. CASE ApiStep(x) \/ WorkerStep(x)
    BY <2>1, <2>3, ApiOutcome, WorkerOutcome
  <2>4. CASE (\E u \in Users : Authenticate(u)) \/ UNCHANGED vars
    BY <2>1, <2>4 DEF Authenticate, vars, history, Outcome
  <2>5. CASE WorkerStops
    BY <2>1, <2>5 DEF WorkerStops, Outcome
  <2>6. QED
    BY <2>2, <2>3, <2>4, <2>5 DEF Next
<1>3. QED
  BY <1>1, <1>2, TypeCorrect, RequestsAndJobsAlwaysAgree, PTL DEF Spec

\* No fault but a second start of its job pays a review back twice (refund in
\* create_review and in _mark_failed).
THEOREM RefundedTwiceOnlyWhenRestarted == Spec => []RefundedOnce
<1>1. TypeOK /\ RequestsAndJobsAgree => RefundedOnce
  <2> SUFFICES ASSUME TypeOK, RequestsAndJobsAgree,
                      NEW p \in refunded, NEW q \in refunded, p[1] = q[1], p # q
               PROVE  tries[p[1]] > 1
    BY DEF RefundedOnce
  <2>1. PICK x \in Reviews, k \in 0..MaxTries : p = <<x, k>>
    BY DEF TypeOK
  <2>2. PICK l \in 0..MaxTries : q = <<x, l>>
    BY <2>1 DEF TypeOK
  <2>3. Agree(x) /\ tries[x] \in Nat /\ k # l
    BY <2>1, <2>2 DEF RequestsAndJobsAgree, TypeOK
  <2>4. k <= tries[x] /\ l <= tries[x] /\ (k = 0 <=> l = 0)
    BY <2>1, <2>2, <2>3 DEF Agree
  <2>5. QED
    BY <2>1, <2>3, <2>4
<1>2. QED
  BY <1>1, TypeCorrect, RequestsAndJobsAlwaysAgree, PTL

\* No fault but a second start of its job pays back a review whose report was
\* delivered (_mark_failed against _persist_success).
THEOREM DeliveredPaidBackOnlyWhenRestarted == Spec => []DeliveredIsKept
<1>1. TypeOK /\ RequestsAndJobsAgree /\ RunsHaveOneOutcome => DeliveredIsKept
  <2> SUFFICES ASSUME TypeOK, RequestsAndJobsAgree, RunsHaveOneOutcome,
                      NEW p \in delivered, NEW q \in refunded, q[1] = p[1]
               PROVE  tries[p[1]] > 1
    BY DEF DeliveredIsKept, WasRefunded
  <2>1. PICK x \in Reviews, k \in 0..MaxTries : p = <<x, k>>
    BY DEF TypeOK
  <2>2. PICK l \in 0..MaxTries : q = <<x, l>>
    BY <2>1 DEF TypeOK
  <2>3. Agree(x) /\ Outcome(x) /\ tries[x] \in Nat
    BY DEF RequestsAndJobsAgree, RunsHaveOneOutcome, TypeOK
  <2>4. 0 < k /\ k <= tries[x] /\ l <= tries[x] /\ l # 0 /\ k # l
    BY <2>1, <2>2, <2>3 DEF Agree, Outcome
  <2>5. QED
    BY <2>1, <2>3, <2>4
<1>2. QED
  BY <1>1, TypeCorrect, RequestsAndJobsAlwaysAgree, RunsAlwaysHaveOneOutcome, PTL

\* Done and failed are final but for deletion, unless arq starts the job a second
\* time: only that takes an outcome back, and only to processing.
THEOREM OutcomesAreFinal == Spec => OutcomeIsFinal
<1>1. ASSUME TypeOK, RequestsAndJobsAgree, RunsHaveOneOutcome, [Next]_vars, NEW x \in Reviews,
             status[x] \in {"done", "failed"}
      PROVE  \/ status'[x] \in {status[x], "absent"}
             \/ status'[x] = "processing" /\ tries[x] > 0 /\ tries'[x] = tries[x] + 1
  <2> USE <1>1
  <2>1. Outcome(x) /\ Agree(x) /\ tries[x] \in Nat
    BY DEF RunsHaveOneOutcome, RequestsAndJobsAgree, TypeOK
  <2>2. /\ request[x] = "accepted"
        /\ job[x] \notin {"pipeline", "failing", "persist"}
        /\ tries[x] > 0
    BY <2>1 DEF Outcome, Agree
  <2>3. ASSUME NEW r \in Reviews \ {x}, ApiStep(r) \/ WorkerStep(r)
        PROVE  status'[x] = status[x]
    BY <2>3, OthersUntouched DEF Untouched
  <2>4. CASE ApiStep(x)
    BY <2>2, <2>4 DEF TypeOK, ApiStep, Authorize, Reserve, RejectUnpaid, EnqueueJob,
                      CommitReview, CreateFails, RefundRequest, ApiCrash, DeleteReview
  <2>5. CASE WorkerStep(x)
    BY <2>2, <2>5 DEF TypeOK, WorkerStep, StartJob, GiveUpJob, RunPipeline, MarkFailed,
                      PersistSuccess, PersistFails, SendEmail, FinishJob, JobTimeout
  <2>6. CASE (\E u \in Users : Authenticate(u)) \/ WorkerStops \/ UNCHANGED vars
    BY <2>6 DEF Authenticate, WorkerStops, vars
  <2>7. QED
    BY <2>3, <2>4, <2>5, <2>6 DEF Next
<1>2. TypeOK /\ RequestsAndJobsAgree /\ RunsHaveOneOutcome /\ [Next]_vars =>
        [\A r \in Reviews : status[r] \in {"done", "failed"} =>
           \/ status'[r] \in {status[r], "absent"}
           \/ status'[r] = "processing" /\ tries[r] > 0 /\ tries'[r] = tries[r] + 1]_vars
  BY <1>1
<1>3. QED
  BY <1>2, TypeCorrect, RequestsAndJobsAlwaysAgree, RunsAlwaysHaveOneOutcome, PTL
  DEF Spec, OutcomeIsFinal

(***************************************************************************)
(* Credits.                                                                *)
(***************************************************************************)
\* The only steps that move credits: a reservation, and the first refund of
\* a run of a paid review.
FirstRefund(r, k) == Refund(r, k) /\ <<r, k>> \notin refunded /\ UNCHANGED source

LEMMA CreditSteps ==
  ASSUME TypeOK, RequestsAndJobsAgree, RunsHaveOneOutcome, [Next]_vars
  PROVE  \/ \E r \in Reviews : Reserve(r)
         \/ \E r \in Reviews, k \in 0..MaxTries : FirstRefund(r, k)
         \/ UNCHANGED <<wallet, source, refunded>>
<1>1. ASSUME NEW r \in Reviews, ApiStep(r)
      PROVE  \/ Reserve(r)
             \/ FirstRefund(r, 0)
             \/ UNCHANGED <<wallet, source, refunded>>
  <2>1. CASE RefundRequest(r)
    <3>1. 0 \in 0..MaxTries /\ request[r] = "failing" /\ Agree(r)
      BY <2>1 DEF RefundRequest, RequestsAndJobsAgree
    <3>2. <<r, 0>> \notin refunded
      BY <3>1 DEF Agree
    <3>3. QED
      BY <2>1, <3>2 DEF RefundRequest, FirstRefund
  <2>2. CASE ~ RefundRequest(r)
    BY <1>1, <2>2 DEF ApiStep, Authorize, RejectUnpaid, EnqueueJob, CommitReview, CreateFails,
                      ApiCrash, DeleteReview
  <2>3. QED
    BY <2>1, <2>2
<1>2. ASSUME NEW r \in Reviews, WorkerStep(r)
      PROVE  \/ FirstRefund(r, tries[r])
             \/ UNCHANGED <<wallet, source, refunded>>
  <2>1. CASE MarkFailed(r)
    <3>1. <<r, tries[r]>> \notin refunded
      BY <2>1 DEF MarkFailed, RunsHaveOneOutcome, Outcome
    <3>2. QED
      BY <2>1, <3>1 DEF MarkFailed, FirstRefund
  <2>2. CASE ~ MarkFailed(r)
    BY <1>2, <2>2 DEF WorkerStep, StartJob, GiveUpJob, RunPipeline, PersistSuccess,
                      PersistFails, SendEmail, FinishJob, JobTimeout
  <2>3. QED
    BY <2>1, <2>2
<1>3. ASSUME NEW u \in Users, Authenticate(u)
      PROVE  UNCHANGED <<wallet, source, refunded>>
  BY <1>3 DEF Authenticate
<1>4. CASE WorkerStops
  BY <1>4 DEF WorkerStops
<1>5. CASE UNCHANGED vars
  BY <1>5 DEF vars
<1>6. 0 \in 0..MaxTries /\ \A r \in Reviews : tries[r] \in 0..MaxTries
  BY DEF TypeOK
<1>7. QED
  BY <1>1, <1>2, <1>3, <1>4, <1>5, <1>6 DEF Next

\* Both sides of the balance sheet count finite sets.
LEMMA FiniteCounts ==
  /\ \A S \in SUBSET Reviews : IsFiniteSet(S) /\ Cardinality(S) \in Nat
  /\ \A P \in SUBSET (Reviews \X (0..MaxTries)) : IsFiniteSet(P) /\ Cardinality(P) \in Nat
<1>1. IsFiniteSet(0..MaxTries)
  BY FS_Interval
<1>2. IsFiniteSet(Reviews \X (0..MaxTries))
  BY <1>1, FS_Product
<1>3. QED
  BY <1>2, FS_Subset, FS_CardinalityType

LEMMA LedgerFinite ==
  ASSUME TypeOK, NEW u, NEW w
  PROVE  /\ IsFiniteSet(PaidBy(u, w)) /\ Cardinality(PaidBy(u, w)) \in Nat
         /\ IsFiniteSet(RefundsTo(u, w)) /\ Cardinality(RefundsTo(u, w)) \in Nat
<1>1. PaidBy(u, w) \subseteq Reviews /\ RefundsTo(u, w) \subseteq Reviews \X (0..MaxTries)
  BY DEF PaidBy, RefundsTo, TypeOK
<1>2. QED
  BY <1>1, FiniteCounts

LEMMA ReserveConserves ==
  ASSUME TypeOK, RequestsAndJobsAgree, CreditsConserved, NEW r \in Reviews, Reserve(r),
         NEW u \in Users, NEW w \in Wallets
  PROVE  wallet'[u][w] + Cardinality(PaidBy(u, w)')
           = wallet[u][w] + Cardinality(PaidBy(u, w))
         /\ RefundsTo(u, w)' = RefundsTo(u, w)
<1> DEFINE o == Owner[r]
           p == PaysFrom(r)
<1>1. /\ o \in Users
      /\ request[r] \in {"as_user", "as_admin"}
      /\ source[r] = "none"
      /\ source' = [source EXCEPT ![r] = p]
      /\ UNCHANGED refunded
  BY DEF Reserve, RequestsAndJobsAgree, Agree, Unpaid
<1>2. p \in Sources /\ (p \in Wallets => wallet[o][p] > 0)
  BY <1>1, PaysFromType
<1>3. ASSUME NEW q \in refunded PROVE q[1] # r
  <2>1. PICK x \in Reviews, k \in 0..MaxTries : q = <<x, k>>
    BY DEF TypeOK
  <2>2. request[x] = IF k = 0 THEN "refunded" ELSE "accepted"
    BY <2>1 DEF RequestsAndJobsAgree, Agree
  <2>3. QED
    BY <1>1, <2>1, <2>2
<1>4. RefundsTo(u, w)' = RefundsTo(u, w)
  BY <1>1, <1>3 DEF RefundsTo, TypeOK
<1>5. CASE u = o /\ w = p
  <2>1. PaidBy(u, w)' = PaidBy(u, w) \cup {r} /\ r \notin PaidBy(u, w)
    BY <1>1, <1>5 DEF PaidBy, TypeOK, Wallets
  <2>2. Cardinality(PaidBy(u, w)') = Cardinality(PaidBy(u, w)) + 1
    BY <2>1, LedgerFinite, FS_AddElement
  <2>3. wallet'[u][w] = wallet[u][w] - 1
    BY <1>1, <1>5 DEF Reserve, Debit, TypeOK
  <2>4. wallet[u][w] \in Nat /\ Cardinality(PaidBy(u, w)) \in Nat
    BY LedgerFinite DEF TypeOK
  <2>5. QED
    BY <1>4, <2>2, <2>3, <2>4
<1>6. CASE ~ (u = o /\ w = p)
  <2>1. PaidBy(u, w)' = PaidBy(u, w)
    BY <1>1, <1>6 DEF PaidBy, TypeOK, Wallets
  <2>2. wallet'[u][w] = wallet[u][w]
    BY <1>1, <1>6 DEF Reserve, Debit, TypeOK
  <2>3. QED
    BY <1>4, <2>1, <2>2
<1>7. QED
  BY <1>5, <1>6

LEMMA RefundConserves ==
  ASSUME TypeOK, CreditsConserved, NEW r \in Reviews, NEW k \in 0..MaxTries,
         FirstRefund(r, k), NEW u \in Users, NEW w \in Wallets
  PROVE  wallet'[u][w] + Cardinality(RefundsTo(u, w))
           = wallet[u][w] + Cardinality(RefundsTo(u, w)')
         /\ PaidBy(u, w)' = PaidBy(u, w)
<1>1. /\ Owner[r] \in Users
      /\ <<r, k>> \notin refunded
      /\ refunded' = refunded \cup {<<r, k>>}
      /\ UNCHANGED source
  BY DEF FirstRefund, Refund
<1>2. PaidBy(u, w)' = PaidBy(u, w)
  BY <1>1 DEF PaidBy
<1>3. wallet[u][w] \in Nat /\ Cardinality(RefundsTo(u, w)) \in Nat
  BY LedgerFinite DEF TypeOK
<1>4. CASE u = Owner[r] /\ w = source[r]
  <2>1. RefundsTo(u, w)' = RefundsTo(u, w) \cup {<<r, k>>} /\ <<r, k>> \notin RefundsTo(u, w)
    BY <1>1, <1>4 DEF RefundsTo
  <2>2. Cardinality(RefundsTo(u, w)') = Cardinality(RefundsTo(u, w)) + 1
    BY <2>1, LedgerFinite, FS_AddElement
  <2>3. wallet'[u][w] = wallet[u][w] + 1
    BY <1>1, <1>4 DEF FirstRefund, Refund, TypeOK
  <2>4. QED
    BY <1>2, <1>3, <2>2, <2>3
<1>5. CASE ~ (u = Owner[r] /\ w = source[r])
  <2>1. RefundsTo(u, w)' = RefundsTo(u, w)
    BY <1>1, <1>5 DEF RefundsTo
  <2>2. wallet'[u][w] = wallet[u][w]
    BY <1>1, <1>5 DEF FirstRefund, Refund, TypeOK
  <2>3. QED
    BY <1>2, <2>1, <2>2
<1>6. QED
  BY <1>4, <1>5

LEMMA InitConserves == Init => CreditsConserved
<1> SUFFICES ASSUME Init, NEW u \in Users, NEW w \in Wallets
             PROVE  wallet[u][w] + Cardinality(PaidBy(u, w))
                      = (IF w = "free" THEN InitialFree ELSE InitialBalance)
                        + Cardinality(RefundsTo(u, w))
  BY DEF CreditsConserved
<1>1. PaidBy(u, w) = {} /\ RefundsTo(u, w) = {}
  BY DEF Init, PaidBy, RefundsTo, Wallets
<1>2. wallet[u][w] = IF w = "free" THEN InitialFree ELSE InitialBalance
  BY DEF Init
<1>3. QED
  BY <1>1, <1>2, FS_EmptySet

\* Credits are conserved under every fault, interleaving and redelivery: a
\* wallet is short of its first balance by exactly the reviews paid from it
\* and not paid back (check_and_reserve, refund).
THEOREM CreditsAlwaysConserved == Spec => []CreditsConserved
<1>1. /\ TypeOK /\ RequestsAndJobsAgree /\ RunsHaveOneOutcome /\ CreditsConserved
      /\ TypeOK' /\ [Next]_vars
      => CreditsConserved'
  <2> SUFFICES ASSUME TypeOK, RequestsAndJobsAgree, RunsHaveOneOutcome, CreditsConserved,
                      TypeOK', [Next]_vars,
                      NEW u \in Users, NEW w \in Wallets
               PROVE  wallet'[u][w] + Cardinality(PaidBy(u, w)')
                        = (IF w = "free" THEN InitialFree ELSE InitialBalance)
                          + Cardinality(RefundsTo(u, w)')
    BY DEF CreditsConserved
  <2>1. wallet[u][w] + Cardinality(PaidBy(u, w))
          = (IF w = "free" THEN InitialFree ELSE InitialBalance)
            + Cardinality(RefundsTo(u, w))
    BY DEF CreditsConserved
  <2>2. /\ wallet[u][w] \in Nat /\ wallet'[u][w] \in Nat
        /\ Cardinality(PaidBy(u, w)) \in Nat
        /\ Cardinality(RefundsTo(u, w)) \in Nat
    BY LedgerFinite DEF TypeOK
  <2>3. Cardinality(PaidBy(u, w)') \in Nat /\ Cardinality(RefundsTo(u, w)') \in Nat
    <3>1. /\ PaidBy(u, w)' \subseteq Reviews
          /\ RefundsTo(u, w)' \subseteq Reviews \X (0..MaxTries)
      BY DEF PaidBy, RefundsTo, TypeOK
    <3>2. QED
      BY <3>1, FiniteCounts
  <2>4. CASE \E r \in Reviews : Reserve(r)
    BY <2>1, <2>4, ReserveConserves
  <2>5. CASE \E r \in Reviews, k \in 0..MaxTries : FirstRefund(r, k)
    <3>1. wallet'[u][w] + Cardinality(RefundsTo(u, w))
            = wallet[u][w] + Cardinality(RefundsTo(u, w)')
          /\ PaidBy(u, w)' = PaidBy(u, w)
      BY <2>5, RefundConserves
    <3>2. QED
      BY <2>1, <2>2, <2>3, <3>1
  <2>6. CASE UNCHANGED <<wallet, source, refunded>>
    BY <2>1, <2>6 DEF PaidBy, RefundsTo
  <2>7. QED
    BY <2>4, <2>5, <2>6, CreditSteps
<1>2. QED
  BY <1>1, InitConserves, TypeCorrect, RequestsAndJobsAlwaysAgree, RunsAlwaysHaveOneOutcome, PTL
  DEF Spec

\* A failed review has been paid back, also when its job was delivered twice
\* (_mark_failed).
THEOREM FailedIsAlwaysRefunded == Spec => []FailedIsRefunded
<1>1. RunsHaveOneOutcome => FailedIsRefunded
  <2> SUFFICES ASSUME RunsHaveOneOutcome, NEW r \in Reviews, status[r] = "failed"
               PROVE  WasRefunded(r)
    BY DEF FailedIsRefunded
  <2>1. <<r, tries[r]>> \in refunded /\ <<r, tries[r]>>[1] = r
    BY DEF RunsHaveOneOutcome, Outcome
  <2>2. QED
    BY <2>1 DEF WasRefunded
<1>2. QED
  BY <1>1, RunsAlwaysHaveOneOutcome, PTL

\* A bought review is taken only when the trial is used up
\* (check_and_reserve).
THEOREM TrialIsSpentFirst == Spec => FreeFirst
<1>1. ASSUME TypeOK, RequestsAndJobsAgree, RunsHaveOneOutcome, [Next]_vars, NEW u \in Users,
             wallet'[u]["balance"] < wallet[u]["balance"]
      PROVE  wallet[u]["free"] = 0 /\ wallet'[u]["free"] = 0
  <2> USE <1>1 DEF TypeOK, Wallets
  <2>1. wallet[u]["balance"] \in Nat /\ wallet[u]["free"] \in Nat
    OBVIOUS
  <2>2. ASSUME NEW r \in Reviews, Reserve(r)
        PROVE  wallet[u]["free"] = 0 /\ wallet'[u]["free"] = 0
    <3>1. Owner[r] \in Users
      OBVIOUS
    <3>2. u = Owner[r] /\ PaysFrom(r) = "balance"
      BY <2>1, <2>2, <3>1 DEF Reserve, Debit
    <3>3. wallet[u]["free"] = 0
      BY <3>2 DEF PaysFrom
    <3>4. QED
      BY <2>2, <3>1, <3>2, <3>3 DEF Reserve, Debit
  <2>3. ASSUME NEW r \in Reviews, NEW k \in 0..MaxTries, FirstRefund(r, k)
        PROVE  FALSE
    <3>1. Owner[r] \in Users
      OBVIOUS
    <3>2. wallet'[u]["balance"] \in {wallet[u]["balance"], wallet[u]["balance"] + 1}
      BY <2>1, <2>3, <3>1 DEF FirstRefund, Refund
    <3>3. QED
      BY <2>1, <3>2
  <2>4. QED
    BY <2>1, <2>2, <2>3, CreditSteps
<1>2. TypeOK /\ RequestsAndJobsAgree /\ RunsHaveOneOutcome /\ [Next]_vars =>
        [\A u \in Users : wallet'[u]["balance"] < wallet[u]["balance"]
                            => wallet[u]["free"] = 0 /\ wallet'[u]["free"] = 0]_vars
  BY <1>1
<1>3. QED
  BY <1>2, TypeCorrect, RequestsAndJobsAlwaysAgree, RunsAlwaysHaveOneOutcome, PTL
  DEF Spec, FreeFirst

\* No job brings a deleted review back (delete_review against _mark_failed
\* and _persist_success).
THEOREM DeletedNeverReturns == Spec => DeletedStaysDeleted
<1>1. TypeOK /\ [Next]_vars =>
        [\A r \in Reviews : request[r] = "accepted" /\ status[r] = "absent"
                              => status'[r] = "absent"]_vars
  BY DEF TypeOK, Next, ApiStep, WorkerStep, Authenticate, Authorize, Reserve, RejectUnpaid,
         EnqueueJob, CommitReview, CreateFails, RefundRequest, ApiCrash, DeleteReview,
         StartJob, GiveUpJob, RunPipeline, MarkFailed, PersistSuccess, PersistFails,
         SendEmail, FinishJob, JobTimeout, WorkerStops, vars
<1>2. QED
  BY <1>1, TypeCorrect, PTL DEF Spec, DeletedStaysDeleted

(***************************************************************************)
(* The ledger refinement.                                                  *)
(***************************************************************************)
LEMMA InitLedger == Init => Ledger!LedgerInit
BY DEF Init, Ledger!LedgerInit, Wallets

LEMMA ReserveCharges ==
  ASSUME TypeOK, RequestsAndJobsAgree, NEW r \in Reviews, Reserve(r)
  PROVE  Ledger!LedgerNext
<1> DEFINE w == PaysFrom(r)
<1>1. /\ Owner[r] \in Users /\ source[r] = "none"
      /\ w # "none" /\ source' = [source EXCEPT ![r] = w]
      /\ UNCHANGED <<tries, refunded, delivered>>
  BY DEF Reserve, RequestsAndJobsAgree, Agree, Unpaid, history
<1>2. \/ w = "admin"
      \/ w = "free" /\ wallet[Owner[r]]["free"] > 0
      \/ w = "balance" /\ wallet[Owner[r]]["free"] = 0 /\ wallet[Owner[r]]["balance"] > 0
  BY <1>1 DEF PaysFrom
<1>3. wallet' = IF w \in Wallets THEN [wallet EXCEPT ![Owner[r]][w] = @ - 1] ELSE wallet
  BY DEF Reserve, Debit
<1> HIDE DEF w
<1>4. Ledger!Charge(r, w) /\ w \in {"admin", "free", "balance"}
  BY <1>1, <1>2, <1>3 DEF Ledger!Charge, Wallets
<1>5. QED
  BY <1>4 DEF Ledger!LedgerNext

\* A refund is a payment of the ledger.
LEMMA RefundPaysBack ==
  ASSUME TypeOK, NEW r \in Reviews, NEW k, Refund(r, k), source[r] # "none",
         UNCHANGED <<source, tries, delivered>>
  PROVE  Ledger!PayBack(r, k)
BY DEF Refund, Ledger!PayBack, TypeOK, Sources, Wallets

\* The requests and jobs implement the credit ledger, whatever fails and however
\* often arq delivers a job: each step charges one review, begins a run, delivers
\* the report of a run that has no outcome yet or pays it back, or changes nothing
\* the ledger speaks of.
THEOREM LifecycleImplementsLedger == Spec => ImplementsLedger
<1>1. TypeOK /\ RequestsAndJobsAgree /\ RunsHaveOneOutcome /\ [Next]_vars
        => [Ledger!LedgerNext]_(Ledger!ledgerVars)
  <2> SUFFICES ASSUME TypeOK, RequestsAndJobsAgree, RunsHaveOneOutcome, [Next]_vars
               PROVE  Ledger!LedgerNext \/ UNCHANGED Ledger!ledgerVars
    OBVIOUS
  <2> DEFINE Still == UNCHANGED <<wallet, source, tries, refunded, delivered>>
  <2>1. ASSUME Still PROVE UNCHANGED Ledger!ledgerVars
    BY <2>1 DEF Ledger!ledgerVars
  <2>2. ASSUME NEW r \in Reviews, RefundRequest(r) PROVE Ledger!LedgerNext
    <3>1. Agree(r) /\ request[r] = "failing" /\ source[r] # "none" /\ Refund(r, 0)
          /\ UNCHANGED <<source, tries, delivered>>
      BY <2>2 DEF RequestsAndJobsAgree, RefundRequest, Agree, Unpaid, history
    <3>2. ASSUME NEW p \in refunded \cup delivered, p[1] = r PROVE FALSE
      <4>1. PICK k \in 0..MaxTries : p = <<r, k>>
        BY <3>2 DEF TypeOK
      <4>2. QED
        BY <3>1, <3>2, <4>1 DEF Agree
    <3>3. Ledger!TakeBack(r)
      BY <3>1, <3>2, RefundPaysBack DEF Ledger!TakeBack
    <3>4. QED
      BY <3>3 DEF Ledger!LedgerNext
  <2>3. ASSUME NEW r \in Reviews, job[r] \in {"failing", "persist"} PROVE Ledger!Open(r)
    <3>1. Agree(r) /\ Outcome(r) /\ 0 \in 0..MaxTries
      BY DEF RequestsAndJobsAgree, RunsHaveOneOutcome
    <3>2. QED
      BY <2>3, <3>1 DEF Agree, Outcome, Unpaid, Ledger!Open
  <2>4. ASSUME NEW r \in Reviews, MarkFailed(r)
        PROVE  Ledger!LedgerNext \/ UNCHANGED Ledger!ledgerVars
    <3>1. job[r] = "failing" /\ UNCHANGED <<source, tries, delivered>>
      BY <2>4 DEF MarkFailed, history
    <3>2. Ledger!Open(r) /\ source[r] # "none"
      BY <2>3, <3>1 DEF Ledger!Open
    <3>3. CASE Refund(r, tries[r])
      BY <3>1, <3>2, <3>3, RefundPaysBack DEF Ledger!Return, Ledger!LedgerNext
    <3>4. CASE UNCHANGED <<wallet, refunded>>
      BY <2>1, <3>1, <3>4
    <3>5. QED
      BY <2>4, <3>3, <3>4 DEF MarkFailed
  <2>5. ASSUME NEW r \in Reviews, PersistSuccess(r) PROVE Ledger!LedgerNext
    <3>1. /\ job[r] = "persist"
          /\ UNCHANGED <<wallet, source, tries, refunded>>
          /\ delivered' = delivered \cup {<<r, tries[r]>>}
      BY <2>5 DEF PersistSuccess
    <3>2. Ledger!Deliver(r)
      BY <2>3, <3>1 DEF Ledger!Deliver
    <3>3. QED
      BY <3>2 DEF Ledger!LedgerNext
  <2>6. ASSUME NEW r \in Reviews, StartJob(r) PROVE Ledger!LedgerNext
    <3>1. /\ job[r] = "waiting" /\ tries' = [tries EXCEPT ![r] = @ + 1]
          /\ UNCHANGED <<wallet, source, refunded, delivered>>
      BY <2>6 DEF StartJob, history
    <3>2. source[r] # "none"
      BY <3>1 DEF RequestsAndJobsAgree, Agree
    <3>3. QED
      BY <3>1, <3>2 DEF Ledger!Begin, Ledger!LedgerNext
  <2>7. ASSUME NEW r \in Reviews, ApiStep(r), ~ Reserve(r), ~ RefundRequest(r) PROVE Still
    BY <2>7 DEF ApiStep, Authorize, RejectUnpaid, EnqueueJob, CommitReview, CreateFails,
                ApiCrash, DeleteReview, history
  <2>8. ASSUME NEW r \in Reviews, WorkerStep(r),
               ~ StartJob(r), ~ MarkFailed(r), ~ PersistSuccess(r)
        PROVE  Still
    BY <2>8 DEF WorkerStep, GiveUpJob, RunPipeline, PersistFails, SendEmail,
                FinishJob, JobTimeout, history
  <2>9. ASSUME (\E u \in Users : Authenticate(u)) \/ WorkerStops \/ UNCHANGED vars PROVE Still
    BY <2>9 DEF Authenticate, WorkerStops, vars, history
  <2> HIDE DEF Still
  <2>10. QED
    BY <2>1, <2>2, <2>4, <2>5, <2>6, <2>7, <2>8, <2>9, ReserveCharges DEF Next
<1>2. QED
  BY <1>1, InitLedger, TypeCorrect, RequestsAndJobsAlwaysAgree, RunsAlwaysHaveOneOutcome, PTL
  DEF Spec, ImplementsLedger, Ledger!LedgerSpec

(***************************************************************************)
(* Letters.                                                                *)
(***************************************************************************)
\* A job that is about to send a letter has committed a report.
EmailFollowsReport == \A r \in Reviews : job[r] = "email" => <<r, tries[r]>> \in delivered

LEMMA EmailStep ==
  TypeOK /\ EmailFollowsReport /\ AnnouncedIsDelivered /\ [Next]_vars
    => EmailFollowsReport' /\ AnnouncedIsDelivered'
<1> SUFFICES ASSUME TypeOK, EmailFollowsReport, AnnouncedIsDelivered, [Next]_vars
             PROVE  EmailFollowsReport' /\ AnnouncedIsDelivered'
  OBVIOUS
<1> USE DEF TypeOK, EmailFollowsReport, AnnouncedIsDelivered, Proceed, Advance, history
<1>1. ASSUME NEW r \in Reviews, ApiStep(r)
      PROVE  EmailFollowsReport' /\ AnnouncedIsDelivered'
  BY <1>1 DEF ApiStep, Authorize, Reserve, RejectUnpaid, EnqueueJob, CommitReview, CreateFails,
              RefundRequest, ApiCrash, DeleteReview
<1>2. ASSUME NEW r \in Reviews, PersistSuccess(r) \/ SendEmail(r)
      PROVE  EmailFollowsReport' /\ AnnouncedIsDelivered'
  BY <1>2 DEF PersistSuccess, SendEmail
<1>3. ASSUME NEW r \in Reviews, WorkerStep(r), ~ PersistSuccess(r), ~ SendEmail(r)
      PROVE  EmailFollowsReport' /\ AnnouncedIsDelivered'
  BY <1>3 DEF WorkerStep, StartJob, GiveUpJob, RunPipeline, MarkFailed, PersistFails,
              FinishJob, JobTimeout, Running
<1>4. CASE (\E u \in Users : Authenticate(u)) \/ WorkerStops \/ UNCHANGED vars
  BY <1>4 DEF Authenticate, WorkerStops, vars
<1>5. QED
  BY <1>1, <1>2, <1>3, <1>4 DEF Next

\* A letter announces a report that was committed, whatever is delivered twice,
\* deleted or cut off (_persist_success).
THEOREM LettersFollowReports == Spec => []AnnouncedIsDelivered
<1>1. Init => EmailFollowsReport /\ AnnouncedIsDelivered
  BY DEF Init, EmailFollowsReport, AnnouncedIsDelivered
<1>2. QED
  BY <1>1, EmailStep, TypeCorrect, PTL DEF Spec

(***************************************************************************)
(* How jobs end.                                                           *)
(***************************************************************************)
\* What a job may still do: the runs that it is not started for yet, and the
\* rest of the one under way.
WorkLeft(r) ==
  CASE job[r] = "finished" -> 0
    [] job[r] = "waiting" -> 6 * (MaxTries - tries[r]) + 1
    [] job[r] = "ended" -> 6 * (MaxTries - tries[r]) + 2
    [] job[r] = "email" -> 6 * (MaxTries - tries[r]) + 3
    [] job[r] \in {"failing", "persist"} -> 6 * (MaxTries - tries[r]) + 4
    [] OTHER -> 6 * (MaxTries - tries[r]) + 5

\* A job that is in the queue only moves towards its end: whatever step changes
\* where it is, be it a timeout or a worker that stops and hands all its jobs
\* back, leaves it less to do, so no job is started for ever (process_review, run
\* by arq with max_tries).
JobsWearOut ==
  [][\A r \in Reviews : job[r] # "none" =>
       (job'[r] = job[r] /\ tries'[r] = tries[r]) \/ WorkLeft(r)' \in 0..(WorkLeft(r) - 1)]_vars

\* There is always a number of steps left.
Counts == \A r \in Reviews : WorkLeft(r) \in Nat

LEMMA WorkIsCounted == TypeOK => Counts
<1> SUFFICES ASSUME TypeOK, NEW r \in Reviews PROVE WorkLeft(r) \in Nat
  BY DEF Counts
<1>1. tries[r] \in 0..MaxTries /\ MaxTries \in Nat
  BY ReviewAssumption DEF TypeOK
<1> QED BY <1>1 DEF WorkLeft

\* Steps of other reviews and of requests.
LEMMA OtherJobs ==
  ASSUME TypeOK, NEW r \in Reviews, NEW q \in Reviews,
         ApiStep(q) \/ (WorkerStep(q) /\ q # r), job[r] # "none", RequestsAndJobsAgree
  PROVE  job'[r] = job[r] /\ tries'[r] = tries[r]
<1> USE DEF TypeOK
<1>1. ASSUME ApiStep(q), ~ EnqueueJob(q) PROVE job' = job /\ tries' = tries
  BY <1>1 DEF ApiStep, Authorize, Reserve, RejectUnpaid, CommitReview, CreateFails, RefundRequest, ApiCrash, DeleteReview
<1>2. CASE EnqueueJob(q)
  <2>1. job[q] = "none" /\ q # r
    BY <1>2 DEF EnqueueJob, RequestsAndJobsAgree, Agree
  <2> QED BY <1>2, <2>1 DEF EnqueueJob
<1>3. ASSUME WorkerStep(q), q # r PROVE job'[r] = job[r] /\ tries'[r] = tries[r]
  BY <1>3 DEF WorkerStep, StartJob, GiveUpJob, RunPipeline, MarkFailed, PersistSuccess, PersistFails, SendEmail,
     FinishJob, JobTimeout, Proceed
<1> QED BY <1>1, <1>2, <1>3

LEMMA OwnJob ==
  ASSUME TypeOK, NEW r \in Reviews, WorkerStep(r) \/ (WorkerStops /\ job[r] \in Running)
  PROVE  WorkLeft(r)' < WorkLeft(r)
<1>1. tries[r] \in Nat /\ MaxTries \in Nat /\ tries[r] <= MaxTries /\ MaxTries - tries[r] \in Nat
  BY DEF TypeOK
<1> DEFINE left == MaxTries - tries[r]
<1>2. CASE StartJob(r)
  <2>1. job[r] = "waiting" /\ job'[r] \in {"pipeline", "ended"} /\ tries'[r] = tries[r] + 1
    BY <1>2 DEF StartJob, Proceed, TypeOK
  <2>2. WorkLeft(r) = 6 * left + 1
    BY <2>1 DEF WorkLeft
  <2>3. WorkLeft(r)' <= 6 * (MaxTries - (tries[r] + 1)) + 5
    BY <1>1, <2>1 DEF WorkLeft
  <2>4. WorkLeft(r)' \in Int
    BY <1>1, <2>1 DEF WorkLeft
  <2> QED BY <1>1, <2>2, <2>3, <2>4
<1>3. ASSUME WorkerStep(r) \/ WorkerStops, ~ StartJob(r) PROVE tries'[r] = tries[r]
  BY <1>3 DEF WorkerStep, WorkerStops, GiveUpJob, RunPipeline, MarkFailed, PersistSuccess, PersistFails, SendEmail,
     FinishJob, JobTimeout
<1>4. ASSUME ~ StartJob(r)
      PROVE  \/ job[r] \in {"waiting", "ended"} /\ job'[r] = "finished"
             \/ job[r] = "pipeline" /\ job'[r] \in {"persist", "failing"}
             \/ job[r] = "persist" /\ job'[r] = "email"
             \/ job[r] \in {"pipeline", "failing", "persist", "email"} /\ job'[r] = "ended"
             \/ job[r] \in Running /\ job'[r] = "waiting"
  <2>1. ASSUME WorkerStops, job[r] \in Running PROVE job'[r] = "waiting"
    BY <2>1 DEF WorkerStops
  <2>2. ASSUME WorkerStep(r)
        PROVE  \/ job[r] \in {"waiting", "ended"} /\ job'[r] = "finished"
               \/ job[r] = "pipeline" /\ job'[r] \in {"persist", "failing"}
               \/ job[r] = "persist" /\ job'[r] = "email"
               \/ job[r] \in {"pipeline", "failing", "persist", "email"} /\ job'[r] = "ended"
    BY <1>4, <2>2 DEF WorkerStep, GiveUpJob, RunPipeline, MarkFailed, PersistSuccess, PersistFails, SendEmail,
       FinishJob, JobTimeout, Proceed, Running, TypeOK
  <2> QED BY <2>1, <2>2
<1>5. CASE ~ StartJob(r)
  <2>1. tries'[r] = tries[r]
    BY <1>3, <1>5
  <2> HIDE DEF left
  <2>2. left \in Nat
    BY <1>1 DEF left
  <2>3. /\ job[r] = "waiting" => WorkLeft(r) = 6 * left + 1
        /\ job[r] = "ended" => WorkLeft(r) = 6 * left + 2
        /\ job[r] = "email" => WorkLeft(r) = 6 * left + 3
        /\ job[r] \in {"failing", "persist"} => WorkLeft(r) = 6 * left + 4
        /\ job[r] = "pipeline" => WorkLeft(r) = 6 * left + 5
    BY DEF WorkLeft, left
  <2>4. /\ job'[r] = "finished" => WorkLeft(r)' = 0
        /\ job'[r] = "waiting" => WorkLeft(r)' = 6 * left + 1
        /\ job'[r] = "ended" => WorkLeft(r)' = 6 * left + 2
        /\ job'[r] = "email" => WorkLeft(r)' = 6 * left + 3
        /\ job'[r] \in {"failing", "persist"} => WorkLeft(r)' = 6 * left + 4
    BY <2>1 DEF WorkLeft, left
  <2>5. Running = {"pipeline", "failing", "persist", "email", "ended"}
    BY DEF Running
  <2> QED BY <1>4, <1>5, <2>2, <2>3, <2>4, <2>5
<1> QED BY <1>2, <1>5

\* The queue never turns in a circle, for any number of jobs, tries and faults: a
\* job makes at most six steps a try.
THEOREM JobsAlwaysWearOut == Spec => JobsWearOut
<1>1. ASSUME TypeOK, RequestsAndJobsAgree, [Next]_vars, NEW r \in Reviews, job[r] # "none"
      PROVE  (job'[r] = job[r] /\ tries'[r] = tries[r]) \/ WorkLeft(r)' < WorkLeft(r)
  <2>1. ASSUME NEW q \in Reviews, ApiStep(q) \/ WorkerStep(q)
        PROVE  (job'[r] = job[r] /\ tries'[r] = tries[r]) \/ WorkLeft(r)' < WorkLeft(r)
    BY <1>1, <2>1, OtherJobs, OwnJob
  <2>2. CASE WorkerStops
    <3>1. CASE job[r] \in Running
      BY <1>1, <2>2, <3>1, OwnJob
    <3>2. CASE job[r] \notin Running
      BY <1>1, <2>2, <3>2 DEF WorkerStops
    <3> QED BY <3>1, <3>2
  <2>3. CASE (\E u \in Users : Authenticate(u)) \/ UNCHANGED vars
    BY <2>3 DEF Authenticate, vars
  <2> QED BY <1>1, <2>1, <2>2, <2>3 DEF Next
<1>2. TypeOK /\ TypeOK' /\ RequestsAndJobsAgree /\ [Next]_vars =>
        [\A r \in Reviews : job[r] # "none" =>
           (job'[r] = job[r] /\ tries'[r] = tries[r]) \/ WorkLeft(r)' \in 0..(WorkLeft(r) - 1)]_vars
  <2> SUFFICES ASSUME TypeOK, TypeOK', RequestsAndJobsAgree, [Next]_vars,
                      NEW r \in Reviews, job[r] # "none"
               PROVE  \/ job'[r] = job[r] /\ tries'[r] = tries[r]
                      \/ WorkLeft(r)' \in 0..(WorkLeft(r) - 1)
    OBVIOUS
  <2>1. Counts /\ Counts'
    BY WorkIsCounted, PTL
  <2>2. WorkLeft(r) \in Nat /\ WorkLeft(r)' \in Nat
    BY <2>1 DEF Counts
  <2>3. (job'[r] = job[r] /\ tries'[r] = tries[r]) \/ WorkLeft(r)' < WorkLeft(r)
    BY <1>1
  <2> QED BY <2>2, <2>3
<1> QED BY <1>2, TypeCorrect, RequestsAndJobsAlwaysAgree, PTL DEF Spec, JobsWearOut
===============================================================================
