------------------------------ MODULE FixedDeck -------------------------------
(***************************************************************************)
(* The corrected deck of one finished review: the requests that apply a    *)
(* fix, the rows and the files they share, the request that deletes the    *)
(* review, and the cron job that removes expired files.                    *)
(*                                                                         *)
(* A request reads rows, rebuilds the deck from the original in a thread,  *)
(* writes the file and commits; everything else can happen in between.     *)
(* Rows an open transaction has written are locked (Postgres, READ         *)
(* COMMITTED) and visible to others only after its commit.                 *)
(***************************************************************************)
EXTENDS Naturals, FiniteSets

CONSTANTS
  Findings,     \* rows of findings with auto_fixable
  Key,          \* Key[f]: its primary key, in whose order a flush goes through rows
  MaxKey,       \* the largest primary key
  Edit,         \* Edit[f]: what FixRule.apply changes in the shape matching f
  NoEdit,       \* Edit[f] when no shape matches, no rule applies or nothing changes
  Unsafe,       \* sets of edits that together fail _passes_control_check
  Requests,     \* POST /findings/{id}/apply_fix
  Deletion,     \* DELETE /reviews/{id}, as one of those who lock rows
  MaxInFlight,  \* how many of them the user has open at a time
  Seed,         \* the fixed_pptx row that the worker created, version 1
  NoRow,        \* "existing is None"
  None,         \* no finding
  NoDeck,       \* no corrected deck can be downloaded
  Faults        \* the faults that may happen, a subset of FaultKinds

FaultKinds == {"apply_crash", "delete_crash", "cron_crash"}

Assets == {Seed} \cup Requests
Paths == Assets \X (Nat \ {0})

ASSUME FixedDeckAssumption ==
  /\ IsFiniteSet(Findings) /\ IsFiniteSet(Requests)
  /\ MaxKey \in Nat /\ Key \in [Findings -> 0..MaxKey]
  /\ \A f, g \in Findings : Key[f] = Key[g] => f = g
  /\ {} \notin Unsafe                                  \* the original passes
  /\ MaxInFlight \in Nat \ {0}
  /\ Seed \notin Requests /\ Deletion \notin Requests /\ "original" \notin Assets
  /\ NoRow \notin Paths
  /\ Faults \subseteq FaultKinds

VARIABLES
  fixed,      \* findings whose row has auto_fixed
  rows,       \* the fixed_pptx rows, <<asset, version>> each
  disk,       \* disk[<<asset, version>>]: what the file at that storage path holds
  original,   \* deck_original: row and file "kept", file "unlinked", row "gone"
  expired,    \* kinds of files whose expires_at has passed
  review,     \* "done", "emptying" or "deleting" (delete_review is at work) or "deleted"
  erased,     \* findings whose rows delete_review has deleted and not yet committed
  doomed,     \* assets that delete_expired has unlinked and not yet committed
  handler,    \* handler[q]: the handler of request q and what it remembers
  overtaken,  \* history: requests that another one has overtaken since they began
  harm        \* history: what has gone wrong since the deck on offer was last made

stored == <<fixed, rows, original, expired, review, erased, doomed>>
history == <<overtaken, harm>>
vars == <<fixed, rows, disk, original, expired, review, erased, doomed, handler,
          overtaken, harm>>

EditsOf(s) == {Edit[f] : f \in s} \ {NoEdit}
Decks == SUBSET EditsOf(Findings)
\* A file is being written, or holds a deck: the original with these edits.
Files == [whole : BOOLEAN, deck : Decks]
Partial == [whole |-> FALSE, deck |-> {}]
Whole(d) == [whole |-> TRUE, deck |-> d]

\* What a handler remembers: the finding to apply, selected_rows, what
\* PptxFixer.fix made of them (the deck and the flags to set and to clear), the
\* finding rows it has written, and the row that upsert_fixed_pptx has read.
NoOutcome == [deck |-> {}, on |-> {}, off |-> {}]
Idle == [at |-> "idle", finding |-> None, selected |-> {}, outcome |-> NoOutcome,
         held |-> {}, base |-> NoRow]
Answered == [Idle EXCEPT !.at = "answered"]
Writing == {"read", "saving", "saved"}
Handlers ==
  [at : {"idle", "loaded", "fixing", "flushing", "answered"} \cup Writing,
   finding : Findings \cup {None}, selected : SUBSET Findings,
   outcome : [deck : Decks, on : SUBSET Findings, off : SUBSET Findings],
   held : SUBSET Findings, base : Paths \cup {NoRow}]

TypeOK ==
  /\ fixed \subseteq Findings
  /\ rows \subseteq Paths
  /\ DOMAIN disk \subseteq Paths /\ disk \in [DOMAIN disk -> Files]
  /\ original \in {"kept", "unlinked", "gone"}
  /\ expired \subseteq {"original", "fixed"}
  /\ review \in {"done", "emptying", "deleting", "deleted"}
  /\ erased \subseteq Findings
  /\ doomed \subseteq Assets \cup {"original"}
  /\ handler \in [Requests -> Handlers]
  /\ overtaken \subseteq Requests
  /\ harm \subseteq {"overlap", "half_deleted"}

\* The worker leaves a copy of the original behind, and no finding is fixed.
Init ==
  /\ fixed = {}
  /\ rows = {<<Seed, 1>>}
  /\ disk = [p \in rows |-> Whole({})]
  /\ original = "kept"
  /\ expired = {}
  /\ review = "done"
  /\ erased = {}
  /\ doomed = {}
  /\ handler = [q \in Requests |-> Idle]
  /\ overtaken = {} /\ harm = {}

(***************************************************************************)
(* Applying a fix: apply_finding_fix and upsert_fixed_pptx.                *)
(***************************************************************************)
At(q, where) == handler[q].at = where
InFlight == {q \in Requests : handler[q].at \notin {"idle", "answered"}}
Answer(q) == handler' = [handler EXCEPT ![q] = Answered]

\* The rows of findings that q has to write.
Changed(q) == handler[q].outcome.on \cup handler[q].outcome.off

\* A mutation of NextRow: in the order in which a query returned them.
NextRowAsRead(s) == s

\* Of the rows still to be written a flush takes the one with the least key.
NextRow(s) == {g \in s : \A h \in s : Key[g] <= Key[h]}

\* 404 for a deleted review, 204 at once for a finding that is fixed.
LoadFinding(q) ==
  /\ At(q, "idle")
  /\ Cardinality(InFlight) < MaxInFlight
  /\ \E f \in Findings :
       \/ (review = "deleted" \/ f \in fixed) /\ Answer(q)
       \/ /\ review # "deleted" /\ f \notin fixed
          /\ handler' = [handler EXCEPT ![q].at = "loaded", ![q].finding = f]
  /\ UNCHANGED <<stored, disk, history>>

\* A mutation of ReadSiblings: only the finding itself is applied.
ReadSiblingsAlone(q) ==
  /\ At(q, "loaded")
  /\ original = "kept"
  /\ handler' = [handler EXCEPT ![q].at = "fixing", ![q].selected = {handler[q].finding}]
  /\ UNCHANGED <<stored, disk, history>>

\* The original and the findings that are fixed by now; without the original
\* the request fails.
ReadSiblings(q) ==
  /\ At(q, "loaded")
  /\ \/ /\ original = "kept"
        /\ handler' = [handler EXCEPT ![q].at = "fixing",
                                      ![q].selected = fixed \cup {handler[q].finding}]
     \/ original # "kept" /\ Answer(q)
  /\ UNCHANGED <<stored, disk, history>>

\* A mutation of FixOutcomes: the roll-back forgets the flags.
FixOutcomesKeepFlags(f, s) ==
  IF EditsOf(s) \notin Unsafe
  THEN {[deck |-> EditsOf(s), on |-> {f} \ {g \in s : Edit[g] = NoEdit}, off |-> {}]}
  ELSE {[deck |-> {}, on |-> {}, off |-> {}]}

\* PptxFixer.fix on the selected findings s, of which only f is not fixed yet.
\* Of two findings with one edit the first row makes it, and the rows come in
\* no order.  Edits that are unsafe together are all undone.
FixOutcomes(f, s) ==
  IF EditsOf(s) \notin Unsafe
  THEN {[deck |-> EditsOf(s), on |-> on, off |-> {}] :
          on \in {d \in SUBSET {f} : /\ Edit[f] = NoEdit => d = {}
                                     /\ EditsOf({f}) \subseteq EditsOf(s \ {f}) \/ d = {f}}}
  ELSE {[deck |-> {}, on |-> {}, off |-> s \ {f}]}

\* The deck is rebuilt in a thread, and the flags of the loaded rows are set.
Rebuild(q) ==
  /\ At(q, "fixing")
  /\ \E o \in FixOutcomes(handler[q].finding, handler[q].selected) :
       handler' = [handler EXCEPT ![q].at = "flushing", ![q].outcome = o]
  /\ UNCHANGED <<stored, disk, history>>

\* The SELECT of upsert_fixed_pptx flushes the changed flags first, one UPDATE
\* after the other, each of which waits for whoever has locked its row; a row
\* that is gone by then makes it fail.
FlushFlag(q) ==
  /\ At(q, "flushing")
  /\ \E g \in NextRow(Changed(q) \ handler[q].held) :
       \/ /\ review # "deleted"
          /\ g \notin erased /\ \A other \in Requests : g \notin handler[other].held
          /\ handler' = [handler EXCEPT ![q].held = @ \cup {g}]
       \/ review = "deleted" /\ Answer(q)
  /\ UNCHANGED <<stored, disk, history>>

\* A mutation of ReadExisting: waits until there is a single row.
ReadExistingWaits(q) ==
  /\ At(q, "flushing")
  /\ handler[q].held = Changed(q)
  /\ \E row \in rows :
       /\ rows = {row}
       /\ handler' = [handler EXCEPT ![q].at = "read", ![q].base = row]
  /\ UNCHANGED <<stored, disk, history>>

\* Then it reads the row of the corrected deck; two of them make it fail.
ReadExisting(q) ==
  /\ At(q, "flushing")
  /\ handler[q].held = Changed(q)
  /\ \/ \E row \in IF rows = {} THEN {NoRow} ELSE rows :
          /\ rows \subseteq {row}
          /\ handler' = [handler EXCEPT ![q].at = "read", ![q].base = row]
     \/ Cardinality(rows) > 1 /\ Answer(q)
  /\ UNCHANGED <<stored, disk, history>>

\* A mutation of NewPath: the file of the current version is overwritten.
NewPathInPlace(q) == IF handler[q].base = NoRow THEN <<q, 1>> ELSE handler[q].base

\* A new asset starts at version 1, an old one gets the next.
NewPath(q) ==
  IF handler[q].base = NoRow THEN <<q, 1>> ELSE <<handler[q].base[1], handler[q].base[2] + 1>>

Write(path, file) ==
  disk' = [p \in DOMAIN disk \cup {path} |-> IF p = path THEN file ELSE disk[p]]

\* Those who are writing, or have written, the very file that q writes.
Rivals(q) ==
  {p \in Requests \ {q} : handler[p].at \in {"saving", "saved"} /\ NewPath(p) = NewPath(q)}

\* History: they are overtaken; and an overtaken request does harm when it
\* writes to the file of a row.
NoteWriting(q) ==
  /\ overtaken' = overtaken \cup Rivals(q)
  /\ harm' = IF q \in overtaken /\ NewPath(q) \in rows THEN harm \cup {"overlap"} ELSE harm

\* LocalStorage.save truncates the file ...
OpenFile(q) ==
  /\ At(q, "read")
  /\ Write(NewPath(q), Partial)
  /\ handler' = [handler EXCEPT ![q].at = "saving"]
  /\ NoteWriting(q)
  /\ UNCHANGED stored

\* ... and writes it: into the void when it has been unlinked meanwhile, and
\* perhaps into a mixture when another one has written it meanwhile.
WriteFile(q) ==
  /\ At(q, "saving")
  /\ \/ /\ NewPath(q) \in DOMAIN disk
        /\ \E file \in {Whole(handler[q].outcome.deck), Partial} :
             /\ file = Partial => disk[NewPath(q)].whole
             /\ Write(NewPath(q), file)
     \/ NewPath(q) \notin DOMAIN disk /\ UNCHANGED disk
  /\ handler' = [handler EXCEPT ![q].at = "saved"]
  /\ NoteWriting(q)
  /\ UNCHANGED stored

\* The row upsert_fixed_pptx has read is still there to be updated, or the
\* review to which a new one belongs.
StillThere(q) ==
  IF handler[q].base = NoRow THEN review # "deleted"
  ELSE \E p \in rows : p[1] = handler[q].base[1]

\* The committed rows: the asset's new version, and the flags that changed.
Store(q) ==
  /\ rows' = {p \in rows : p[1] # NewPath(q)[1]} \cup {NewPath(q)}
  /\ fixed' = (fixed \cup handler[q].outcome.on) \ handler[q].outcome.off

\* History: who has read by now what this commit changes is overtaken.  The
\* commit itself repairs what was harmed, unless its request was overtaken.
NoteCommit(q) ==
  /\ overtaken' = {p \in InFlight \ {q} :
                     p \in overtaken \/ (At(p, "loaded") => handler[p].finding \in fixed')}
  /\ harm' = IF q \in overtaken THEN harm \cup {"overlap"} ELSE {}

\* The UPDATE (or INSERT) of the row and the commit of both changes; a row
\* that is gone rolls everything back but the file.
CommitFix(q) ==
  /\ At(q, "saved")
  /\ \/ /\ StillThere(q)
        /\ Store(q)
        /\ expired' = IF handler[q].base = NoRow THEN expired \ {"fixed"} ELSE expired
        /\ NoteCommit(q)
     \/ ~ StillThere(q) /\ UNCHANGED <<rows, fixed, expired, history>>
  /\ Answer(q)
  /\ UNCHANGED <<original, review, erased, doomed, disk>>

\* The handler raises (a broken deck, a full disk) or its process dies.
ApplyCrash(q) ==
  /\ "apply_crash" \in Faults
  /\ q \in InFlight
  /\ Answer(q)
  /\ UNCHANGED <<stored, disk, history>>

(***************************************************************************)
(* Deleting the review: delete_review.                                     *)
(***************************************************************************)
Unlink(paths) == disk' = [p \in DOMAIN disk \ paths |-> disk[p]]

DeleteBegins ==
  /\ review = "done"
  /\ review' = "emptying"
  /\ UNCHANGED <<fixed, rows, disk, original, expired, erased, doomed, handler, history>>

\* The SELECT of the files flushes the deletion of the finding rows, one after
\* the other, each of which waits for whoever has locked it ...
EraseRow ==
  /\ review = "emptying"
  /\ \E g \in NextRow(Findings \ erased) :
       /\ \A q \in Requests : g \notin handler[q].held
       /\ erased' = erased \cup {g}
  /\ UNCHANGED <<fixed, rows, disk, original, expired, review, doomed, handler, history>>

\* ... and the files of the rows are unlinked, all before the commit.
DeleteFiles ==
  /\ review = "emptying"
  /\ erased = Findings
  /\ review' = "deleting"
  /\ Unlink(rows)
  /\ original' = IF original = "kept" THEN "unlinked" ELSE original
  /\ UNCHANGED <<fixed, rows, expired, erased, doomed, handler, history>>

DeleteCommits ==
  /\ review = "deleting"
  /\ review' = "deleted"
  /\ fixed' = {} /\ rows' = {} /\ original' = "gone" /\ erased' = {}
  /\ UNCHANGED <<disk, expired, doomed, handler, history>>

DeleteCrash ==
  /\ "delete_crash" \in Faults
  /\ review \in {"emptying", "deleting"}
  /\ review' = "done" /\ erased' = {}
  /\ harm' = IF review = "deleting" THEN harm \cup {"half_deleted"} ELSE harm
  /\ UNCHANGED <<fixed, rows, disk, original, expired, doomed, handler, overtaken>>

(***************************************************************************)
(* Expiry: delete_expired, as cleanup_expired_files() runs it with a       *)
(* session of its own.  Started by arq it fails earlier, see ReviewFiles:  *)
(* with these steps the model has more behaviours, not fewer.              *)
(***************************************************************************)
\* The original was stored before the corrected deck and expires before it.
Expire(kind) ==
  /\ kind \notin expired
  /\ kind = "fixed" => "original" \in expired
  /\ expired' = expired \cup {kind}
  /\ UNCHANGED <<fixed, rows, disk, original, review, erased, doomed, handler, history>>

ExpiredAssets ==
  (IF "fixed" \in expired THEN {p[1] : p \in rows} ELSE {})
    \cup (IF "original" \in expired /\ original # "gone" THEN {"original"} ELSE {})

CleanupUnlinks ==
  /\ doomed = {}
  /\ ExpiredAssets # {}
  /\ doomed' = ExpiredAssets
  /\ Unlink({p \in rows : p[1] \in ExpiredAssets})
  /\ original' = IF "original" \in ExpiredAssets THEN "unlinked" ELSE original
  /\ UNCHANGED <<fixed, rows, expired, review, erased, handler, history>>

CleanupCommits ==
  /\ doomed # {}
  /\ rows' = {p \in rows : p[1] \notin doomed}
  /\ original' = IF "original" \in doomed THEN "gone" ELSE original
  /\ doomed' = {}
  /\ UNCHANGED <<fixed, disk, expired, review, erased, handler, history>>

CleanupCrash ==
  /\ "cron_crash" \in Faults
  /\ doomed # {}
  /\ doomed' = {}
  /\ UNCHANGED <<fixed, rows, disk, original, expired, review, erased, handler, history>>

(***************************************************************************)
(* The specification.                                                      *)
(***************************************************************************)
ApplyStep(q) ==
  \/ LoadFinding(q) \/ ReadSiblings(q) \/ Rebuild(q) \/ FlushFlag(q) \/ ReadExisting(q)
  \/ OpenFile(q) \/ WriteFile(q) \/ CommitFix(q)

DeleteGoesOn == EraseRow \/ DeleteFiles \/ DeleteCommits
DeleteStep == DeleteBegins \/ DeleteGoesOn \/ DeleteCrash
CleanupStep == CleanupUnlinks \/ CleanupCommits \/ CleanupCrash

Next ==
  \/ \E q \in Requests : ApplyStep(q) \/ ApplyCrash(q)
  \/ DeleteStep
  \/ \E kind \in {"original", "fixed"} : Expire(kind)
  \/ CleanupStep

Spec == Init /\ [][Next]_vars

\* Handlers that have begun run to their end; Postgres queues those who wait
\* for a lock, so deletions that come and fail again and again starve nobody.
FairSpec ==
  /\ Spec
  /\ \A q \in Requests : WF_vars(q \in InFlight /\ ApplyStep(q)) /\ SF_vars(FlushFlag(q))
  /\ WF_vars(DeleteGoesOn)

(***************************************************************************)
(* Properties.                                                             *)
(***************************************************************************)
OnDisk(p) == p \in DOMAIN disk /\ disk[p].whole

\* A corrected deck that has not expired can be downloaded whole (get_file): no
\* crash of apply_finding_fix or of the cron job leaves its row with a missing
\* or a half-written file.  Only an overtaken request can, by writing to the
\* file that the other one's row names or storing the other's path, or a
\* deletion that fails after its first file; and then until the next request
\* that nobody overtakes.
DeckOnDisk ==
  review = "done" /\ "fixed" \notin expired /\ harm = {}
    => \A p \in rows : OnDisk(p)

\* The findings shown as fixed are those whose edits are in the deck on offer
\* (the docstring of apply_finding_fix: "The set is all findings with
\* auto_fixed=True plus this finding"), through roll-backs, crashes and expiry;
\* only a request that another one has overtaken can set them apart.
FlagsMatchDeck ==
  "overlap" \notin harm => \A p \in rows : OnDisk(p) => disk[p].deck = EditsOf(fixed)

\* No late request brings rows of a deleted review back.
DeletedStaysDeleted ==
  [][review = "deleted" => UNCHANGED <<fixed, rows, original, review>>]_vars

\* Who holds locks on rows of findings, and for which one he waits.
Actors == Requests \cup {Deletion}
Holds(a) == IF a = Deletion THEN erased ELSE handler[a].held
Awaits(a) ==
  IF a = Deletion THEN IF review = "emptying" THEN NextRow(Findings \ erased) ELSE {}
  ELSE IF At(a, "flushing") THEN NextRow(Changed(a) \ handler[a].held) ELSE {}

\* Requests that overlap, and a deletion, lock rows one by one and hold them
\* to their commit, but never wait for one another in a circle: Postgres never
\* has to abort one of them.
NobodyWaitsInACircle ==
  \A circle \in (SUBSET Actors) \ {{}} :
    \E a \in circle : \A b \in circle : Awaits(a) \cap Holds(b) = {}

\* Requests never wait for one another's locks for ever, nor for a deletion.
EveryApplyIsAnswered ==
  \A q \in Requests : At(q, "loaded") ~> At(q, "answered")

(***************************************************************************)
(* The requests implement the promise of AppliedFixes.                     *)
(***************************************************************************)
Offered == {p \in rows : OnDisk(p)}
deckOnOffer == IF Offered = {} THEN NoDeck ELSE disk[CHOOSE p \in Offered : TRUE].deck

Promise == INSTANCE AppliedFixes WITH
  applied <- fixed, deck <- deckOnOffer, kept <- (review # "deleted"),
  tangled <- ("overlap" \in harm)

\* Whatever fails, overlaps and expires meanwhile, each request that nobody
\* overtakes applies its finding to the deck on offer or rolls all of them
\* back, in one step; and so restores the deck after one that was overtaken.
KeepsPromise == Promise!AppliedSpec
===============================================================================
