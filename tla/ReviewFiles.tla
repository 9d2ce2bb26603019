------------------------------ MODULE ReviewFiles ------------------------------
(***************************************************************************)
(* The files of one review: who writes them, which rows name them, and who *)
(* takes them away.  Every writer inserts a row, writes the bytes, goes on *)
(* to its next file, and commits all its rows at the end.  The upload      *)
(* writes the deck and the recording; each delivery of the job the slide   *)
(* images, the corrected deck and the report; a reader of the slides       *)
(* renders them when there are none; a fix writes a new version of the     *)
(* corrected deck.  delete_review unlinks files before it commits, and the *)
(* nightly cleanup is called with the worker's context for a session.      *)
(***************************************************************************)
EXTENDS Naturals, Sequences, FiniteSets

CONSTANTS
  NSlides,  \* slides of the deck
  MaxRuns,  \* arq's max_tries: deliveries of the job
  MaxReads, \* bound: GET /reviews/{id}/slides that find no slides
  MaxFixes, \* bound: POST /findings/{id}/apply_fix
  MaxDeletes, \* bound: DELETE /reviews/{id}
  Faults    \* the faults that may happen, a subset of FaultKinds

FaultKinds == {"save_fails", "worker_stop", "delete_fails"}

ASSUME FilesAssumption ==
  /\ {NSlides, MaxRuns} \subseteq Nat \ {0}
  /\ {MaxReads, MaxFixes, MaxDeletes} \subseteq Nat
  /\ Faults \subseteq FaultKinds

VARIABLES
  review,   \* status of the review's row, "absent" before the upload's commit
  rows,     \* the committed file_assets
  disk,     \* the files under storage_root
  writer,   \* writer[w]: where a writer is, the files it has written, and the
            \* corrected deck that its session has read
  deletion, \* delete_review: where it is, which try this is, the rows it has read,
            \* the files it has still to unlink, and (history) those that tries
            \* which failed had unlinked
  cron      \* the nightly cleanup: "idle", or "due" when files have expired

vars == <<review, rows, disk, writer, deletion, cron>>

Upload == <<"upload", 1>>
Before == <<"older version", 1>>
Runs == {"run"} \X (1..MaxRuns)
Readers == {"get_slides"} \X (1..MaxReads)
Fixes == {"apply_fix"} \X (1..MaxFixes)
Writers == {Upload} \cup Runs \cup Readers \cup Fixes

\* storage_path: the review's directory, the id of the row (its kind, number
\* and who inserted it) and a name, which has the version of a corrected deck.
File(kind, num, by, version) == [kind |-> kind, num |-> num, by |-> by, version |-> version]

TypeOK ==
  /\ review \in {"absent", "queued", "processing", "done", "failed", "deleted"}
  /\ \A f \in rows \cup disk :
       /\ f.kind \in {"deck", "audio", "slide", "fixed", "report"}
       /\ f.by \in Writers \cup {Before} /\ {f.num, f.version} \subseteq Nat \ {0}
  /\ \A w \in Writers :
       writer[w].at \in {"idle", "analyzing", "saving", "ended", "over", "failed", "cut off"}
  /\ deletion.at \in {"idle", "unlinking", "flushed"}
  /\ deletion.left \subseteq deletion.doomed /\ deletion.tries \in 0..MaxDeletes
  /\ cron \in {"idle", "due"}

\* A new upload, or a review from before slides were stored (get_slides:
\* "Lazily backfilled").
Init ==
  /\ \/ review = "absent" /\ rows = {}
     \/ review = "done" /\ rows = {File(kind, 1, Before, 1) : kind \in {"deck", "fixed", "report"}}
  /\ disk = rows
  /\ writer = [w \in Writers |-> [at |-> "idle", new |-> {}, read |-> {}]]
  /\ deletion = [at |-> "idle", tries |-> 0, doomed |-> {}, left |-> {}, lost |-> {}]
  /\ cron = "idle"

(***************************************************************************)
(* Writing: save_file_asset, upsert_fixed_pptx.                            *)
(***************************************************************************)
Slides == [i \in 1..NSlides |-> <<"slide", i>>]

At(w, where) == writer[w].at = where

\* Requests of one kind are numbered as they come.
Comes(w) == At(w, "idle") /\ \A v \in Writers : v[1] = w[1] /\ v[2] < w[2] => ~At(v, "idle")

\* What a writer saves, in this order.
Output(w) ==
  CASE w = Upload -> <<<<"deck", 1>>, <<"audio", 1>>>>
    [] w \in Runs -> Slides \o <<<<"fixed", 1>>, <<"report", 1>>>>
    [] w \in Readers -> Slides
    [] w \in Fixes -> <<<<"fixed", 1>>>>

Go(w, to) == writer' = [writer EXCEPT ![w].at = to]
Written(w) == writer[w].new
Whole(w) == Cardinality(Written(w)) = Len(Output(w))
Corrected(files) == {f \in files : f.kind = "fixed"}

Due(w) == Output(w)[Cardinality(Written(w)) + 1]

\* The path of its next file: of a row of its own, or the next version under
\* the id of the corrected deck's row as it was read.
NextFile(w) ==
  IF writer[w].read = {} THEN File(Due(w)[1], Due(w)[2], w, 1)
  ELSE LET existing == CHOOSE f \in writer[w].read : TRUE
       IN [existing EXCEPT !.version = @ + 1]

\* The row of the corrected deck, if there is one, is read before the bytes are
\* written, and not again.
Reads(w) ==
  /\ At(w, "saving") /\ ~Whole(w) /\ Due(w)[1] = "fixed"
  /\ writer[w].read = {} /\ Corrected(rows) # {}
ReadDeck(w) ==
  /\ Reads(w)
  /\ writer' = [writer EXCEPT ![w].read = Corrected(rows)]
  /\ UNCHANGED <<review, rows, disk, deletion, cron>>

Saves(w) ==
  /\ At(w, "saving") /\ ~Whole(w) /\ ~Reads(w) /\ review # "deleted"
  /\ writer' = [writer EXCEPT ![w].new = @ \cup {NextFile(w)}, ![w].read = {}]

\* A mutation of SaveFile: the version before is unlinked at once.
SaveFileReplaces(w) ==
  /\ Saves(w)
  /\ disk' = (disk \ IF NextFile(w).kind = "fixed" THEN Corrected(rows) ELSE {})
               \cup {NextFile(w)}
  /\ UNCHANGED <<review, rows, deletion, cron>>

\* The insert refers to the review's row, which must be there.
SaveFile(w) ==
  /\ Saves(w)
  /\ disk' = disk \cup {NextFile(w)}
  /\ UNCHANGED <<review, rows, deletion, cron>>

\* The bytes follow the insert, or the read of the row that exists.
CanBegin(w) == ~Whole(w) /\ ~Reads(w) /\ (review # "deleted" \/ writer[w].read # {})

\* An error, the insert when the review is gone, a client that goes away: the
\* session is rolled back, and a file begun may stay as well.
SaveFails(w) ==
  /\ At(w, "saving")
  /\ "save_fails" \in Faults \/ review = "deleted"
  /\ \E begun \in SUBSET (IF CanBegin(w) THEN {NextFile(w)} ELSE {}) :
       /\ disk' = disk \cup begun
       /\ writer' = [writer EXCEPT ![w] = [at |-> "failed", new |-> @.new \cup begun, read |-> {}]]
  /\ UNCHANGED <<review, rows, deletion, cron>>

\* The corrected deck's row is updated.  When the deletion has deleted the row
\* and waits for this transaction, the two deadlock and one of them fails.
Commit(w, to, status) ==
  /\ At(w, "saving") /\ Whole(w) /\ review # "deleted"
  /\ Corrected(Written(w)) # {} => deletion.at # "flushed"
  /\ rows' = (rows \ IF Corrected(Written(w)) = {} THEN {} ELSE Corrected(rows))
               \cup Written(w)
  /\ writer' = [writer EXCEPT ![w] = [at |-> to, new |-> {}, read |-> {}]]
  /\ review' = status
  /\ UNCHANGED <<disk, deletion, cron>>

(***************************************************************************)
(* create_review.                                                          *)
(***************************************************************************)
StartUpload ==
  /\ At(Upload, "idle") /\ review = "absent"
  /\ Go(Upload, "saving")
  /\ UNCHANGED <<review, rows, disk, deletion, cron>>

CommitUpload == Commit(Upload, "over", "queued")

(***************************************************************************)
(* process_review.                                                         *)
(***************************************************************************)
Stored == review \notin {"absent", "deleted"}
Running(w) == writer[w].at \in {"analyzing", "saving", "ended"}

\* The first delivery, or one after the worker stopped: the status that is
\* found is not asked for.
StartRun(w) ==
  /\ At(w, "idle") /\ Stored /\ At(Upload, "over")
  /\ w[2] > 1 => At(<<"run", w[2] - 1>>, "cut off")
  /\ review' = "processing"
  /\ Go(w, "analyzing")
  /\ UNCHANGED <<rows, disk, deletion, cron>>

\* _download_inputs opens the file of every row; then the pipeline runs.
Analyze(w) ==
  /\ At(w, "analyzing") /\ Stored
  /\ \/ rows \subseteq disk /\ Go(w, "saving") /\ UNCHANGED review
     \/ Go(w, "ended") /\ review' = "failed"
  /\ UNCHANGED <<rows, disk, deletion, cron>>

PersistSuccess(w) == Commit(w, "ended", "done")

FinishJob(w) ==
  /\ \/ At(w, "ended")
     \/ At(w, "analyzing") /\ review = "deleted"
  /\ Go(w, "over")
  /\ UNCHANGED <<review, rows, disk, deletion, cron>>

\* arq delivers the job again, also when its result was committed.
WorkerStops(w) ==
  /\ "worker_stop" \in Faults /\ Running(w)
  /\ Go(w, "cut off")
  /\ UNCHANGED <<review, rows, disk, deletion, cron>>

(***************************************************************************)
(* get_slides and _backfill_slide_assets.                                  *)
(***************************************************************************)
Images(files) == {f \in files : f.kind = "slide"}
Decks(files) == {f \in files : f.kind = "deck"}

\* A mutation of StartBackfill: the status is not looked at.
StartBackfillEarly(w) ==
  /\ Comes(w) /\ Stored
  /\ Images(rows) = {} /\ Decks(rows) # {} /\ Decks(rows) \subseteq disk
  /\ Go(w, "saving")
  /\ UNCHANGED <<review, rows, disk, deletion, cron>>

\* Answered at once when the review is not done, when there are slides, or when
\* the deck is gone.
StartBackfill(w) ==
  /\ Comes(w) /\ review = "done"
  /\ Images(rows) = {} /\ Decks(rows) # {} /\ Decks(rows) \subseteq disk
  /\ Go(w, "saving")
  /\ UNCHANGED <<review, rows, disk, deletion, cron>>

CommitBackfill(w) == Commit(w, "over", review)

(***************************************************************************)
(* apply_finding_fix: its file only (FixedDeck has the rest).              *)
(***************************************************************************)
StartFix(w) ==
  /\ Comes(w) /\ Stored
  /\ Corrected(rows) # {} /\ Decks(rows) \subseteq disk
  /\ Go(w, "saving")
  /\ UNCHANGED <<review, rows, disk, deletion, cron>>

CommitFix(w) == Commit(w, "over", review)

(***************************************************************************)
(* delete_review.                                                          *)
(***************************************************************************)
StartDelete ==
  /\ deletion.at = "idle" /\ Stored /\ deletion.tries < MaxDeletes
  /\ deletion' = [deletion EXCEPT !.at = "unlinking", !.tries = @ + 1,
                                  !.doomed = rows, !.left = rows]
  /\ UNCHANGED <<review, rows, disk, writer, cron>>

\* A mutation of UnlinkFile: only the files that the worker has written.
UnlinkOutputs ==
  /\ deletion.at = "unlinking" /\ deletion.left # {}
  /\ \E f \in deletion.left :
       /\ deletion' = [deletion EXCEPT !.left = @ \ {f}]
       /\ disk' = IF f.by \in Runs THEN disk \ {f} ELSE disk
  /\ UNCHANGED <<review, rows, writer, cron>>

\* In the order in which the query returns the rows, which has no ORDER BY.
UnlinkFile ==
  /\ deletion.at = "unlinking" /\ deletion.left # {}
  /\ \E f \in deletion.left :
       /\ deletion' = [deletion EXCEPT !.left = @ \ {f}]
       /\ disk' = disk \ {f}
  /\ UNCHANGED <<review, rows, writer, cron>>

Unlinked == deletion.doomed \ deletion.left

\* A row keeps its id when it names a new version.
Ids(files) == {<<f.kind, f.num, f.by>> : f \in files}

\* The flush: rows of the review committed meanwhile would lose their review_id,
\* which is NOT NULL.
FlushDelete ==
  /\ deletion.at = "unlinking" /\ deletion.left = {}
  /\ Ids(rows) \subseteq Ids(deletion.doomed)
  /\ deletion' = [deletion EXCEPT !.at = "flushed"]
  /\ UNCHANGED <<review, rows, disk, writer, cron>>

\* Open inserts lock the review's row.
Inserts(w) == At(w, "saving") /\ w \notin Fixes /\ Written(w) # {}

\* The DELETE of the review waits for them and cascades to their rows.
CommitDelete ==
  /\ deletion.at = "flushed"
  /\ \A w \in Writers : ~Inserts(w)
  /\ review' = "deleted" /\ rows' = {}
  /\ deletion' = [deletion EXCEPT !.at = "idle"]
  /\ UNCHANGED <<disk, writer, cron>>

\* The rows come back, the files do not.
DeleteFails ==
  /\ deletion.at # "idle"
  /\ \/ "delete_fails" \in Faults
     \/ deletion.left = {} /\ ~Ids(rows) \subseteq Ids(deletion.doomed)
  /\ deletion' = [deletion EXCEPT !.at = "idle", !.lost = @ \cup Unlinked]
  /\ UNCHANGED <<review, rows, disk, writer, cron>>

(***************************************************************************)
(* cleanup_expired_files.                                                  *)
(***************************************************************************)
Busy ==
  deletion.at # "idle" \/ \E w \in Writers : Running(w) \/ (w \in Fixes /\ At(w, "idle"))

\* file_expire_days later: everything the review has left has expired.  It is
\* enough to look at the cleanup after the last fix, as it changes nothing.
Expire ==
  /\ cron = "idle" /\ rows # {} /\ ~Busy
  /\ cron' = "due"
  /\ UNCHANGED <<review, rows, disk, writer, deletion>>

\* arq calls the cron job with its context, which is not None and no session:
\* its execute raises before anything is removed.
RunCron ==
  /\ cron = "due"
  /\ cron' = "idle"
  /\ UNCHANGED <<review, rows, disk, writer, deletion>>

(***************************************************************************)
(* The specification.                                                      *)
(***************************************************************************)
Next ==
  \/ StartUpload \/ CommitUpload
  \/ \E w \in Writers : ReadDeck(w) \/ SaveFile(w) \/ SaveFails(w)
  \/ \E w \in Runs :
       StartRun(w) \/ Analyze(w) \/ PersistSuccess(w) \/ FinishJob(w) \/ WorkerStops(w)
  \/ \E w \in Readers : StartBackfill(w) \/ CommitBackfill(w)
  \/ \E w \in Fixes : StartFix(w) \/ CommitFix(w)
  \/ StartDelete \/ UnlinkFile \/ FlushDelete \/ CommitDelete \/ DeleteFails
  \/ Expire \/ RunCron

Spec == Init /\ [][Next]_vars

\* The worker runs its cron jobs.
FairSpec == Spec /\ WF_vars(RunCron)

(***************************************************************************)
(* Properties.                                                             *)
(***************************************************************************)
\* Every row names a file that is there, unless a deletion of the review has
\* unlinked it and is at work still or has failed since (get_file opens
\* what the row names, process_review what all rows name).
RowsHaveTheirFiles ==
  \A f \in rows :
    \/ f \in disk \cup deletion.lost
    \/ deletion.at # "idle" /\ f \in Unlinked

\* A file that no row names was written by somebody who is still at it or has
\* failed, is another version of the corrected deck (an old one, or a newer one
\* over which a slower fix has stored its own), or came after the deletion of
\* its review had read the rows: a corrected deck may then have the name of one
\* that was unlinked, as a slower fix sets the version back.  All others
\* delete_review removes ("files (rows + bytes on disk)").
LeftoversAreExplained ==
  \A f \in disk \ rows :
    \/ \E w \in Writers : f \in Written(w)
    \/ f.kind = "fixed" /\ \E g \in Corrected(rows) : g.by = f.by /\ g.version # f.version
    \/ review = "deleted" /\ (f.kind = "fixed" \/ f \notin deletion.doomed)

\* A review that is done has the report of a run, or of an older version, and
\* all slides of that run.  Sets of slides are whole; there is more than one
\* only after a redelivery or when readers rendered them at the same time
\* (get_slides: "once per Review").
ReportIsWhole ==
  LET renderers == {f.by : f \in Images(rows)}
  IN /\ \A w \in renderers : Cardinality({f \in Images(rows) : f.by = w}) = NSlides
     /\ review = "done" =>
          \E f \in rows : f.kind = "report" /\ f.by \in renderers \cup {Before}
     /\ renderers \subseteq Runs \/ renderers \subseteq Readers

\* Expired files are removed (cleanup_expired_files: "Delete expired FileAsset
\* rows and their files").
ExpiredIsRemoved == cron = "due" ~> rows = {}
===============================================================================
