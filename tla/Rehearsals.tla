------------------------------ MODULE Rehearsals ------------------------------
(***************************************************************************)
(* The rehearsal attempts of one finished Review: the upload of a          *)
(* recording, the arq job that listens to it, the deletion of an attempt   *)
(* and of the whole review, and the page that polls for the result.        *)
(*                                                                         *)
(* One step is one committed transaction, one statement that other         *)
(* transactions can see or wait for, one access to the file store or one   *)
(* call to Redis.                                                          *)
(***************************************************************************)
EXTENDS Naturals, FiniteSets, FiniteSetsExt

CONSTANTS
  Attempts,   \* uploads, one POST /reviews/{id}/rehearsals each
  MaxTries,   \* arq's max_tries: how often one job may be started
  Faults      \* the faults that may happen, a subset of FaultKinds

FaultKinds == {"upload_fails", "worker_stop", "timeout", "store_error"}

ASSUME RehearsalAssumption ==
  /\ IsFiniteSet(Attempts)
  /\ MaxTries \in Nat \ {0}
  /\ Faults \subseteq FaultKinds

VARIABLES
  review,     \* the row of the review: "done" or "gone"
  request,    \* request[h]: where the POST of attempt h has got to
  num,        \* attempt_num, 0 before it is taken
  before,     \* history: the attempts that were listed when h took its number
  status,     \* status of the committed row of h, "absent" without a row
  audio,      \* the attempts whose recording is on disk
  job,        \* job[h]: where the arq job of h has got to
  tries,      \* arq's retry counter of that job
  removal,    \* the attempts whose file DELETE /rehearsals/{h} has unlinked
  purge,      \* DELETE of the review: its position, the rows it has read and
              \* those whose file it has still to unlink
  shown       \* shown[h]: "pending" until the page of h shows an outcome

vars == <<review, request, num, before, status, audio, job, tries, removal, purge, shown>>
upload == <<request, num, before>>
deletions == <<review, removal, purge>>
work == <<job, tries>>

\* A run that stored an outcome ends before arq records it as finished; one
\* that stored none is recorded as lost in the same step.
Running == {"working", "storing", "ended"}
Outcomes == {"done", "failed"}

TypeOK ==
  /\ review \in {"done", "gone"}
  /\ request \in [Attempts -> {"idle", "numbered", "saved", "enqueued",
                               "accepted", "refused", "failed"}]
  /\ num \in [Attempts -> Nat]
  /\ before \in [Attempts -> SUBSET Attempts]
  /\ status \in [Attempts -> {"absent", "queued", "processing"} \cup Outcomes]
  /\ audio \subseteq Attempts
  /\ job \in [Attempts -> {"none", "waiting", "finished", "lost"} \cup Running]
  /\ tries \in [Attempts -> 0..MaxTries]
  /\ removal \subseteq Attempts
  /\ purge \in [at : {"idle", "unlinking", "deleting", "failed", "over"},
            rows : SUBSET Attempts, left : SUBSET Attempts]
  /\ shown \in [Attempts -> {"pending", "outcome"}]

Init ==
  /\ review = "done"
  /\ request = [h \in Attempts |-> "idle"]
  /\ num = [h \in Attempts |-> 0]
  /\ before = [h \in Attempts |-> {}]
  /\ status = [h \in Attempts |-> "absent"]
  /\ audio = {}
  /\ job = [h \in Attempts |-> "none"]
  /\ tries = [h \in Attempts |-> 0]
  /\ removal = {}
  /\ purge = [at |-> "idle", rows |-> {}, left |-> {}]
  /\ shown = [h \in Attempts |-> "pending"]

\* The committed rows of table rehearsals.
Listed == {h \in Attempts : status[h] # "absent"}

(***************************************************************************)
(* The upload: create_rehearsal.                                           *)
(***************************************************************************)
Advance(h, to) == request' = [request EXCEPT ![h] = to]

\* A mutation of TakeNumber: only finished attempts are counted.
TakeNumberOfDone(h) ==
  /\ request[h] = "idle" /\ review = "done"
  /\ num' = [num EXCEPT ![h] = Max({num[g] : g \in {k \in Listed : status[k] = "done"}} \cup {0}) + 1]
  /\ before' = [before EXCEPT ![h] = Listed]
  /\ Advance(h, "numbered")
  /\ UNCHANGED <<status, audio, work, deletions, shown>>

\* The number is the highest of the committed attempts, plus one.
TakeNumber(h) ==
  /\ request[h] = "idle" /\ review = "done"
  /\ num' = [num EXCEPT ![h] = Max({num[g] : g \in Listed} \cup {0}) + 1]
  /\ before' = [before EXCEPT ![h] = Listed]
  /\ Advance(h, "numbered")
  /\ UNCHANGED <<status, audio, work, deletions, shown>>

\* ReviewNotFoundError.
RefuseUpload(h) ==
  /\ request[h] = "idle" /\ review = "gone"
  /\ Advance(h, "refused")
  /\ UNCHANGED <<num, before, status, audio, work, deletions, shown>>

\* Attempts whose INSERT has been flushed: their transactions hold a key-share
\* lock on the row of the review until they end.
OpenInserts == {h \in Attempts : request[h] \in {"saved", "enqueued"}}

\* The flush, and the recording is written.  The flush waits for a DELETE of
\* the review that holds the row, and violates its foreign key when the review
\* is gone.
SaveAttempt(h) ==
  /\ request[h] = "numbered"
  /\ purge.at = "deleting" => OpenInserts # {}
  /\ \/ review = "done" /\ Advance(h, "saved") /\ audio' = audio \cup {h}
     \/ review = "gone" /\ Advance(h, "failed") /\ UNCHANGED audio
  /\ UNCHANGED <<num, before, status, work, deletions, shown>>

\* The job is in Redis before the row it is about is committed.
EnqueueJob(h) ==
  /\ request[h] = "saved"
  /\ job' = [job EXCEPT ![h] = "waiting"]
  /\ Advance(h, "enqueued")
  /\ UNCHANGED <<num, before, status, audio, tries, deletions, shown>>

CommitAttempt(h) ==
  /\ request[h] = "enqueued"
  /\ status' = [status EXCEPT ![h] = "queued"]
  /\ Advance(h, "accepted")
  /\ UNCHANGED <<num, before, audio, work, deletions, shown>>

\* The file store, Redis or the database raises, or the process dies: the
\* transaction is rolled back, the file and the job are not.
UploadFails(h) ==
  /\ "upload_fails" \in Faults
  /\ request[h] \in {"numbered", "saved", "enqueued"}
  /\ Advance(h, "failed")
  /\ UNCHANGED <<num, before, status, audio, work, deletions, shown>>

(***************************************************************************)
(* The deletion of an attempt: delete_rehearsal.                           *)
(***************************************************************************)
\* A mutation of UnlinkAudio: the recording is left to the cleanup job, which
\* knows nothing of rehearsals.
UnlinkAudioLater(h) ==
  /\ h \in Listed \ removal
  /\ removal' = removal \cup {h}
  /\ UNCHANGED <<review, purge, audio, upload, status, work, shown>>

\* The file goes first ...
UnlinkAudio(h) ==
  /\ h \in Listed \ removal
  /\ removal' = removal \cup {h}
  /\ audio' = audio \ {h}
  /\ UNCHANGED <<review, purge, upload, status, work, shown>>

\* ... and then the row, if nobody else has deleted it.  A request that dies
\* before leaves a row without a file to the next one.
CommitRemoval(h) ==
  /\ h \in removal
  /\ removal' = removal \ {h}
  /\ status' = [status EXCEPT ![h] = "absent"]
  /\ UNCHANGED <<review, purge, upload, audio, work, shown>>

(***************************************************************************)
(* The deletion of the review: the rehearsals' part of delete_review.      *)
(***************************************************************************)
StartPurge ==
  /\ review = "done" /\ purge.at \in {"idle", "failed"}
  /\ purge' = [at |-> "unlinking", rows |-> Listed, left |-> Listed]
  /\ UNCHANGED <<review, removal, upload, status, audio, work, shown>>

\* One recording after the other, in the order of the query, which names none.
PurgeAudio(h) ==
  /\ purge.at = "unlinking" /\ h \in purge.left
  /\ audio' = audio \ {h}
  /\ purge' = [purge EXCEPT !.left = @ \ {h}]
  /\ UNCHANGED <<review, removal, upload, status, work, shown>>

\* The flush loads review.rehearsals once more: an attempt that was committed
\* after the rows were read would lose its review_id, which is NOT NULL.
FlushPurge ==
  /\ purge.at = "unlinking" /\ purge.left = {}
  /\ purge' = [purge EXCEPT !.at = IF Listed \subseteq purge.rows THEN "deleting" ELSE "failed"]
  /\ UNCHANGED <<review, removal, upload, status, audio, work, shown>>

\* DELETE FROM reviews waits for open inserts, and ON DELETE CASCADE takes the
\* rows that these have committed meanwhile.
CommitPurge ==
  /\ purge.at = "deleting" /\ OpenInserts = {}
  /\ purge' = [purge EXCEPT !.at = "over"]
  /\ review' = "gone"
  /\ status' = [h \in Attempts |-> "absent"]
  /\ UNCHANGED <<removal, upload, audio, work, shown>>

\* A failing disk, an error of the database, or the process dies.
PurgeFails ==
  /\ purge.at \in {"unlinking", "deleting"}
  /\ purge' = [purge EXCEPT !.at = "failed", !.left = {}]
  /\ UNCHANGED <<review, removal, upload, status, audio, work, shown>>

(***************************************************************************)
(* The job: process_rehearsal, run by arq.                                 *)
(***************************************************************************)
Proceed(h, to) == job' = [job EXCEPT ![h] = to]

\* The attempt is looked up and marked as processing, whatever its status was;
\* without a row the job returns at once.
StartJob(h) ==
  /\ job[h] = "waiting" /\ tries[h] < MaxTries
  /\ tries' = [tries EXCEPT ![h] = @ + 1]
  /\ \/ h \notin Listed /\ Proceed(h, "lost") /\ UNCHANGED status
     \/ /\ h \in Listed
        /\ Proceed(h, "working")
        /\ status' = [status EXCEPT ![h] = "processing"]
  /\ UNCHANGED <<upload, audio, deletions, shown>>

\* arq gives up on a job that was started MaxTries times.
GiveUpJob(h) ==
  /\ job[h] = "waiting" /\ tries[h] = MaxTries
  /\ Proceed(h, "lost")
  /\ UNCHANGED <<upload, status, audio, tries, deletions, shown>>

Listen(h) ==
  /\ job[h] = "working" /\ h \in audio /\ review = "done"
  /\ Proceed(h, "storing")
  /\ UNCHANGED <<upload, status, audio, tries, deletions, shown>>

\* The deck is rendered again, the recording transcribed and compared with the
\* slides.  Any error but that of one slide's comparison fails the attempt
\* (_mark_rehearsal_failed; without a row its UPDATE raises StaleDataError).
Analyze(h) ==
  \/ Listen(h)
  \/ /\ job[h] = "working"
     /\ status' = IF h \in Listed THEN [status EXCEPT ![h] = "failed"] ELSE status
     /\ Proceed(h, "ended")
     /\ UNCHANGED <<upload, audio, tries, deletions, shown>>

\* A mutation of StoreResult: a recording that was heard is thrown away.
StoreResultDropsAudio(h) ==
  /\ job[h] = "storing" /\ h \in Listed
  /\ status' = [status EXCEPT ![h] = "done"]
  /\ audio' = audio \ {h}
  /\ Proceed(h, "ended")
  /\ UNCHANGED <<upload, tries, deletions, shown>>

StoreResult(h) ==
  /\ job[h] = "storing" /\ h \in Listed
  /\ status' = [status EXCEPT ![h] = "done"]
  /\ Proceed(h, "ended")
  /\ UNCHANGED <<upload, audio, tries, deletions, shown>>

\* The commit of the result raises outside the try block, always when the row
\* is gone: the status stays as it is.
StoreFails(h) ==
  /\ job[h] = "storing"
  /\ h \notin Listed \/ "store_error" \in Faults
  /\ Proceed(h, "lost")
  /\ UNCHANGED <<upload, status, audio, tries, deletions, shown>>

FinishJob(h) ==
  /\ job[h] = "ended"
  /\ Proceed(h, "finished")
  /\ UNCHANGED <<upload, status, audio, tries, deletions, shown>>

\* job_timeout: the coroutine is cancelled, which "except Exception" lets pass.
JobTimeout(h) ==
  /\ "timeout" \in Faults
  /\ job[h] \in {"working", "storing"}
  /\ Proceed(h, "lost")
  /\ UNCHANGED <<upload, status, audio, tries, deletions, shown>>

\* The one worker process stops; arq starts all its jobs again.
WorkerStops ==
  /\ "worker_stop" \in Faults
  /\ \E h \in Attempts : job[h] \in Running
  /\ job' = [h \in Attempts |-> IF job[h] \in Running THEN "waiting" ELSE job[h]]
  /\ UNCHANGED <<upload, status, audio, tries, deletions, shown>>

(***************************************************************************)
(* The page of an attempt: useRehearsalStatus.                             *)
(***************************************************************************)
\* A mutation of Poll: an attempt that failed is polled for again and again.
PollUntilDone(h) ==
  /\ request[h] = "accepted" /\ status[h] = "done"
  /\ shown[h] = "pending"
  /\ shown' = [shown EXCEPT ![h] = "outcome"]
  /\ UNCHANGED <<upload, status, audio, work, deletions>>

\* Polling goes on while the attempt is queued or processing and stops at the
\* first outcome it sees.
Poll(h) ==
  /\ request[h] = "accepted" /\ status[h] \in Outcomes
  /\ shown[h] = "pending"
  /\ shown' = [shown EXCEPT ![h] = "outcome"]
  /\ UNCHANGED <<upload, status, audio, work, deletions>>

(***************************************************************************)
(* The specification.                                                      *)
(***************************************************************************)
UploadStep(h) == SaveAttempt(h) \/ EnqueueJob(h) \/ CommitAttempt(h)

JobStep(h) ==
  \/ StartJob(h) \/ GiveUpJob(h) \/ Analyze(h)
  \/ StoreResult(h) \/ StoreFails(h) \/ FinishJob(h)

AttemptStep(h) ==
  \/ TakeNumber(h) \/ RefuseUpload(h) \/ UploadStep(h) \/ UploadFails(h)
  \/ UnlinkAudio(h) \/ CommitRemoval(h)
  \/ JobStep(h) \/ JobTimeout(h) \/ Poll(h)

Next ==
  \/ \E h \in Attempts : AttemptStep(h)
  \/ \E h \in Attempts : PurgeAudio(h)
  \/ StartPurge \/ FlushPurge \/ CommitPurge \/ PurgeFails
  \/ WorkerStops

Spec == Init /\ [][Next]_vars

\* A job in the queue is run, and an open page goes on polling.  Requests may
\* stop anywhere.
FairSpec ==
  /\ Spec
  /\ \A h \in Attempts : WF_vars(JobStep(h)) /\ WF_vars(Poll(h))

(***************************************************************************)
(* The report of an attempt: get_rehearsal_report.                         *)
(***************************************************************************)
Done == {h \in Attempts : status[h] = "done"}

\* The finished attempts the delta may be taken against: those with the
\* highest lower number (the query has LIMIT 1).
ComparedWith(h) ==
  LET lower == {g \in Done : num[g] < num[h]}
  IN {g \in lower : \A k \in lower : num[k] <= num[g]}

(***************************************************************************)
(* Properties.                                                             *)
(***************************************************************************)
\* Numbers follow the order of the uploads: an attempt has a higher number
\* than every attempt that was listed when it took its own (create_rehearsal).
NumbersFollowUploads ==
  \A h \in Listed : \A g \in Listed \cap before[h] : num[g] < num[h]

\* A finished attempt that was there before another one is what that one, or a
\* later one, is compared with, and never the other way round
\* (get_rehearsal_report after uploads, deletions and retries in any order).
DeltaLooksBack ==
  \A h \in Done : \A g \in Done \cap before[h] :
    ComparedWith(h) # {} /\ h \notin ComparedWith(g)

\* A listed attempt can be played (get_rehearsal_audio), unless somebody has
\* begun to delete it or its review.
AudioIsKept ==
  \A h \in Listed : h \in audio \/ h \in removal \/ h \in purge.rows

\* A recording without a row is of an upload that is under way or has failed,
\* or that was committed while its review was being deleted; the deletion of
\* an attempt leaves none (delete_rehearsal, and delete_review "files (rows +
\* bytes on disk), rehearsal attempts (rows + their audio)").
OrphansAreExplained ==
  \A h \in audio \ Listed :
    \/ request[h] \in {"saved", "enqueued", "failed"}
    \/ review = "gone" /\ h \notin purge.rows

\* A listed attempt comes to an outcome that its page shows, unless it is
\* deleted, or its last run looked for it before it was committed or was cut
\* off: by a timeout, a failed commit or the last permitted restart
\* (process_rehearsal beside create_rehearsal and delete_rehearsal).
EveryAttemptIsAnswered ==
  \A h \in Attempts :
    status[h] # "absent" ~> \/ shown[h] = "outcome"
                            \/ status[h] = "absent"
                            \/ job[h] = "lost"
===============================================================================
