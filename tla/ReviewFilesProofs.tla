--------------------------- MODULE ReviewFilesProofs ---------------------------
(***************************************************************************)
(* What holds of the files of a review for any number of slides,           *)
(* deliveries, readers and fixes, and whatever fails.                      *)
(***************************************************************************)
EXTENDS ReviewFiles, FiniteSetTheorems, FunctionTheorems, TLAPS

USE FilesAssumption

(***************************************************************************)
(* The inductive invariant.                                                *)
(***************************************************************************)
Kinds == {"deck", "audio", "slide", "fixed", "report"}
Files == {f \in [kind : Kinds, num : Nat \ {0}, by : Writers \cup {Before}, version : Nat \ {0}] :
            f.kind = "fixed" => f.num = 1}
Places == {"idle", "analyzing", "saving", "ended", "over", "failed", "cut off"}

\* Sets of files are sets of files, and a writer has files only while it saves
\* or after it was stopped.
Typed ==
  /\ review \in {"absent", "queued", "processing", "done", "failed", "deleted"}
  /\ rows \subseteq Files /\ disk \subseteq Files
  /\ writer \in [Writers -> [at : Places, new : SUBSET Files, read : SUBSET Files]]
  /\ deletion \in [at : {"idle", "unlinking", "flushed"}, tries : 0..MaxDeletes, doomed : SUBSET Files,
                   left : SUBSET Files, lost : SUBSET Files]
  /\ deletion.left \subseteq deletion.doomed
  /\ deletion.at = "flushed" => deletion.left = {}
  /\ cron \in {"idle", "due"}
  /\ review = "deleted" => rows = {}
  /\ \A w \in Writers : writer[w].at \in {"idle", "analyzing", "ended", "over"} =>
       Written(w) = {} /\ writer[w].read = {}

\* The file at place i of what a writer saves.
Own(w, i) == File(Output(w)[i][1], Output(w)[i][2], w, 1)

\* Who is saving has saved what comes first in its output, and nothing else, and
\* has read nothing but the corrected deck that it is about to replace.
SavedInOrder(w) ==
  /\ IsFiniteSet(Written(w)) /\ Cardinality(Written(w)) <= Len(Output(w))
  /\ \A i \in 1..Cardinality(Written(w)) : Output(w)[i][1] # "fixed" => Own(w, i) \in Written(w)
  /\ \A f \in Written(w) : \E i \in 1..Cardinality(Written(w)) :
       /\ f.kind = Output(w)[i][1] /\ f.num = Output(w)[i][2]
       /\ f.kind # "fixed" => f = Own(w, i)
  /\ writer[w].read # {} => Due(w)[1] = "fixed" /\ \A f \in writer[w].read : f.kind = "fixed"
InOrder == \A w \in Writers : At(w, "saving") => SavedInOrder(w)

\* Deliveries of the job follow one another, after the upload; slides are
\* rendered for readers only of reviews that were there from the beginning.
InTurn ==
  /\ \A v, w \in Runs : v[2] < w[2] /\ ~ At(w, "idle") => At(v, "cut off")
  /\ \A w \in Runs : ~ At(w, "idle") => At(Upload, "over")
  /\ \A w \in Readers : ~ At(w, "idle") => At(Upload, "idle") /\ review # "absent"
  /\ (\E f \in rows : f.kind = "report" /\ f.by = Before) => At(Upload, "idle") /\ review # "absent"

\* A file of a row, or of a row that was to be deleted, is of a writer that has
\* committed.
Committed ==
  \A f \in rows \cup deletion.doomed :
    f.kind # "fixed" /\ f.by # Before => writer[f.by].at \in {"ended", "over", "cut off"}

\* There is a file for each row and each file just written, or the deletion has
\* taken it.
Covered(f) == f \in disk \cup deletion.lost \/ (deletion.at # "idle" /\ f \in Unlinked)
AllCovered ==
  review # "deleted" =>
    /\ \A f \in rows : Covered(f)
    /\ \A w \in Writers : At(w, "saving") => \A f \in Written(w) : Covered(f)

\* What a deletion has unlinked stays away, except for corrected decks.
StaysAway ==
  deletion.at # "idle" => \A f \in Unlinked : f.kind # "fixed" => f \notin disk

\* Corrected decks, written and read, are versions of one file.
OneCorrected ==
  /\ \A f, g \in Corrected(rows) : f.by = g.by
  /\ review # "deleted" => \A w \in Writers : At(w, "saving") =>
       /\ w \in Fixes => Corrected(rows) # {}
       /\ \A f \in Corrected(Written(w)) :
            /\ \A g \in Corrected(rows) : g.by = f.by
            /\ Corrected(rows) = {} => w \in Runs /\ f.by = w
       /\ writer[w].read # {} => Corrected(rows) # {}
       /\ \A f \in writer[w].read : \A g \in Corrected(rows) : g.by = f.by

\* Slides come in whole sets.
SlidesOf(w) == {File("slide", i, w, 1) : i \in 1..NSlides}
WholeSets ==
  \A f \in Images(rows) : f.by \in Runs \cup Readers /\ f \in SlidesOf(f.by) /\ SlidesOf(f.by) \subseteq rows

\* A review that is done has a report, and the slides of it.
HasReport ==
  review = "done" =>
    \E f \in rows : f.kind = "report" /\ (f.by = Before \/ SlidesOf(f.by) \subseteq rows)

FilesInv ==
  /\ Typed /\ InOrder /\ InTurn /\ Committed /\ AllCovered /\ StaysAway
  /\ OneCorrected /\ WholeSets /\ HasReport /\ LeftoversAreExplained

(***************************************************************************)
(* What the writers save.                                                  *)
(***************************************************************************)
\* The writers of one sort are not those of another.
LEMMA SortsDiffer ==
  /\ Upload \notin Runs \cup Readers \cup Fixes /\ Before \notin Writers
  /\ Runs \cap Readers = {} /\ Runs \cap Fixes = {} /\ Readers \cap Fixes = {}
BY DEF Upload, Before, Runs, Readers, Fixes, Writers

LEMMA OutputOfUpload ==
  /\ Len(Output(Upload)) = 2
  /\ Output(Upload)[1] = <<"deck", 1>> /\ Output(Upload)[2] = <<"audio", 1>>
BY SortsDiffer DEF Output

LEMMA OutputOfRuns ==
  ASSUME NEW w \in Runs
  PROVE  /\ Len(Output(w)) = NSlides + 2
         /\ \A i \in 1..NSlides : Output(w)[i] = <<"slide", i>>
         /\ Output(w)[NSlides + 1] = <<"fixed", 1>>
         /\ Output(w)[NSlides + 2] = <<"report", 1>>
<1>1. Output(w) = Slides \o <<<<"fixed", 1>>, <<"report", 1>>>>
  BY SortsDiffer DEF Output
<1>2. Slides \in Seq({"slide"} \X Nat) /\ Len(Slides) = NSlides
  <2>1. NSlides \in Nat
    OBVIOUS
  <2>2. Slides \in [1..NSlides -> {"slide"} \X Nat]
    BY <2>1 DEF Slides
  <2> HIDE DEF Slides
  <2> QED BY <2>1, <2>2
<1>3. \A i \in 1..NSlides : Slides[i] = <<"slide", i>>
  BY DEF Slides
<1> HIDE DEF Slides
<1>4. Len(Slides) = NSlides /\ NSlides \in Nat /\ Slides \in Seq({"slide"} \X Nat)
  BY <1>2
<1>5. Output(w)[NSlides + 1] = <<"fixed", 1>> /\ Output(w)[NSlides + 2] = <<"report", 1>>
      /\ Len(Output(w)) = NSlides + 2
  BY <1>1, <1>4
<1>6. \A i \in 1..NSlides : Output(w)[i] = <<"slide", i>>
  BY <1>1, <1>3, <1>4
<1> QED BY <1>5, <1>6

LEMMA OutputOfReaders ==
  ASSUME NEW w \in Readers
  PROVE  /\ Len(Output(w)) = NSlides
         /\ \A i \in 1..NSlides : Output(w)[i] = <<"slide", i>>
<1>1. Output(w) = Slides
  BY SortsDiffer DEF Output
<1> QED BY <1>1 DEF Slides

LEMMA OutputOfFixes ==
  ASSUME NEW w \in Fixes
  PROVE  Len(Output(w)) = 1 /\ Output(w)[1] = <<"fixed", 1>>
BY SortsDiffer DEF Output

\* Everything a writer saves has its own kind and number; the corrected deck
\* is one.
LEMMA OutputFits ==
  ASSUME NEW w \in Writers
  PROVE  /\ Len(Output(w)) \in Nat \ {0}
         /\ \A i \in 1..Len(Output(w)) :
              /\ Output(w)[i] = <<Output(w)[i][1], Output(w)[i][2]>>
              /\ Output(w)[i][1] \in Kinds /\ Output(w)[i][2] \in Nat \ {0}
              /\ Output(w)[i][1] = "fixed" => Output(w)[i][2] = 1
         /\ \A i, j \in 1..Len(Output(w)) : Output(w)[i] = Output(w)[j] => i = j
<1> USE DEF Kinds
<1>1. CASE w = Upload
  BY <1>1, OutputOfUpload
<1>2. CASE w \in Runs
  <2> DEFINE n == Len(Output(w))
  <2>1. n = NSlides + 2 /\ \A i \in 1..n : i \in 1..NSlides \/ i = NSlides + 1 \/ i = NSlides + 2
    BY <1>2, OutputOfRuns
  <2>2. \A i \in 1..n : /\ i \in 1..NSlides => Output(w)[i] = <<"slide", i>>
                        /\ i = NSlides + 1 => Output(w)[i] = <<"fixed", 1>>
                        /\ i = NSlides + 2 => Output(w)[i] = <<"report", 1>>
    BY <1>2, OutputOfRuns
  <2> HIDE DEF n
  <2>3. \A i \in 1..n : /\ Output(w)[i] = <<Output(w)[i][1], Output(w)[i][2]>>
                        /\ Output(w)[i][1] \in Kinds /\ Output(w)[i][2] \in Nat \ {0}
                        /\ Output(w)[i][1] = "fixed" => Output(w)[i][2] = 1
    BY <2>1, <2>2
  <2>4. \A i, j \in 1..n : Output(w)[i] = Output(w)[j] => i = j
    BY <2>1, <2>2
  <2> QED BY <2>1, <2>3, <2>4 DEF n
<1>3. CASE w \in Readers
  BY <1>3, OutputOfReaders
<1>4. CASE w \in Fixes
  BY <1>4, OutputOfFixes
<1> QED BY <1>1, <1>2, <1>3, <1>4 DEF Writers

\* The next file of who is saving is a new one; a corrected deck is the next
\* version of the one that was read.
LEMMA NextFits ==
  ASSUME Typed, InOrder, NEW w \in Writers, At(w, "saving"), ~ Whole(w)
  PROVE  LET n == Cardinality(Written(w)) + 1 IN
           /\ n \in 1..Len(Output(w)) /\ Cardinality(Written(w)) \in Nat
           /\ NextFile(w) \in Files /\ NextFile(w) \notin Written(w)
           /\ NextFile(w).kind = Output(w)[n][1] /\ NextFile(w).num = Output(w)[n][2]
           /\ NextFile(w).kind # "fixed" => NextFile(w) = Own(w, n)
           /\ writer[w].read = {} => NextFile(w) = Own(w, n)
           /\ writer[w].read # {} => \E g \in writer[w].read : NextFile(w).by = g.by
           /\ Due(w) = Output(w)[n]
           /\ Own(w, n).by = w
<1> DEFINE m == Cardinality(Written(w))
<1> DEFINE n == m + 1
<1>1. /\ IsFiniteSet(Written(w)) /\ m \in Nat /\ m <= Len(Output(w)) /\ m # Len(Output(w))
      /\ Len(Output(w)) \in Nat
  BY FS_CardinalityType, OutputFits DEF InOrder, SavedInOrder, Whole
<1>2. n \in 1..Len(Output(w))
  BY <1>1
<1> DEFINE next == Output(w)[n]
<1>3. /\ next = <<next[1], next[2]>> /\ next[1] \in Kinds /\ next[2] \in Nat \ {0}
      /\ next[1] = "fixed" => next[2] = 1
  BY <1>2, OutputFits
<1>4. /\ Own(w, n) \in Files /\ Own(w, n).kind = next[1] /\ Own(w, n).num = next[2]
      /\ Own(w, n).by = w
  BY <1>3 DEF Own, File, Files
<1>5. /\ NextFile(w) \in Files /\ NextFile(w).kind = next[1] /\ NextFile(w).num = next[2]
      /\ NextFile(w).kind # "fixed" => NextFile(w) = Own(w, n)
      /\ writer[w].read = {} => NextFile(w) = Own(w, n)
      /\ writer[w].read # {} => \E g \in writer[w].read : NextFile(w).by = g.by
  <2>1. CASE writer[w].read = {}
    BY <1>4, <2>1 DEF NextFile, Own, Due
  <2>2. CASE writer[w].read # {}
    <3>0. next[1] = "fixed" /\ \A f \in writer[w].read : f.kind = "fixed"
      BY <2>2 DEF InOrder, SavedInOrder, Due
    <3>1. PICK g \in writer[w].read : NextFile(w) = [g EXCEPT !.version = @ + 1]
      BY <2>2 DEF NextFile
    <3>2. g \in Files /\ g.kind = "fixed" /\ g.num = 1
      BY <3>0 DEF Typed, Files
    <3>3. /\ NextFile(w) \in Files /\ NextFile(w).kind = "fixed" /\ NextFile(w).num = 1
          /\ NextFile(w).by = g.by
      BY <3>1, <3>2 DEF Files
    <3> QED BY <1>3, <2>2, <3>0, <3>3
  <2> QED BY <2>1, <2>2
<1>6. NextFile(w) \notin Written(w)
  <2> SUFFICES ASSUME NextFile(w) \in Written(w) PROVE FALSE
    OBVIOUS
  <2>1. PICK i \in 1..m : NextFile(w).kind = Output(w)[i][1] /\ NextFile(w).num = Output(w)[i][2]
    BY DEF InOrder, SavedInOrder
  <2>2. i \in 1..Len(Output(w)) /\ i # n
    BY <1>1
  <2>3. Output(w)[i] = <<Output(w)[i][1], Output(w)[i][2]>>
    BY <2>2, OutputFits
  <2>4. Output(w)[i] = Output(w)[n]
    BY <1>3, <1>5, <2>1, <2>3
  <2> QED BY <1>2, <2>2, <2>4, OutputFits
<1> QED BY <1>1, <1>2, <1>4, <1>5, <1>6 DEF Due

\* A step that only moves writer w on, or leaves all where they are.
Elsewhere(w) == \A v \in Writers : v # w => writer'[v] = writer[v]

LEMMA WriterMoves ==
  ASSUME Typed, NEW w \in Writers, NEW to, Go(w, to)
  PROVE  /\ Elsewhere(w) /\ writer'[w].at = to /\ Written(w)' = Written(w)
         /\ writer'[w].read = writer[w].read
         /\ writer' = [writer EXCEPT ![w].at = to]
         /\ to \in Places => writer' \in [Writers -> [at : Places, new : SUBSET Files, read : SUBSET Files]]
BY DEF Typed, Go, Elsewhere, Written

LEMMA WriterSaves ==
  ASSUME Typed, InOrder, NEW w \in Writers, SaveFile(w)
  PROVE  /\ Elsewhere(w) /\ writer'[w].at = "saving" /\ Written(w)' = Written(w) \cup {NextFile(w)}
         /\ writer'[w].read = {}
         /\ writer' \in [Writers -> [at : Places, new : SUBSET Files, read : SUBSET Files]]
<1>1. NextFile(w) \in Files /\ At(w, "saving")
  BY NextFits DEF SaveFile, Saves
<1>2. writer' = [writer EXCEPT ![w].new = @ \cup {NextFile(w)}, ![w].read = {}]
  BY DEF SaveFile, Saves
<1>3. writer \in [Writers -> [at : Places, new : SUBSET Files, read : SUBSET Files]]
      /\ writer[w].at = "saving"
  BY <1>1 DEF Typed, At
<1> HIDE DEF Files
<1> QED BY <1>1, <1>2, <1>3 DEF Elsewhere, Written

LEMMA WriterFails ==
  ASSUME Typed, InOrder, NEW w \in Writers, SaveFails(w)
  PROVE  \E begun \in SUBSET Files :
           /\ Elsewhere(w) /\ writer'[w].at = "failed" /\ writer'[w].read = {}
           /\ Written(w)' = Written(w) \cup begun
           /\ disk' = disk \cup begun
           /\ \A f \in begun : ~ Whole(w) /\ f = NextFile(w)
           /\ writer' \in [Writers -> [at : Places, new : SUBSET Files, read : SUBSET Files]]
<1>1. PICK begun \in SUBSET (IF CanBegin(w) THEN {NextFile(w)} ELSE {}) :
        /\ disk' = disk \cup begun
        /\ writer' = [writer EXCEPT ![w] = [at |-> "failed", new |-> @.new \cup begun, read |-> {}]]
  BY DEF SaveFails
<1>2. begun \subseteq Files /\ \A f \in begun : ~ Whole(w) /\ f = NextFile(w)
  BY <1>1, NextFits DEF SaveFails, CanBegin
<1> HIDE DEF Files
<1> QED BY <1>1, <1>2 DEF Typed, Elsewhere, Written, Places

LEMMA WriterCommits ==
  ASSUME Typed, NEW w \in Writers, NEW to \in Places, NEW status, Commit(w, to, status)
  PROVE  /\ Elsewhere(w) /\ writer'[w].at = to /\ Written(w)' = {} /\ writer'[w].read = {}
         /\ writer' \in [Writers -> [at : Places, new : SUBSET Files, read : SUBSET Files]]
         /\ rows' \subseteq rows \cup Written(w)
         /\ rows \subseteq rows' \cup Corrected(rows)
         /\ Written(w) \subseteq rows'
         /\ Written(w) \subseteq Files
BY DEF Typed, Commit, Elsewhere, Written

(***************************************************************************)
(* The steps, by what they do.                                             *)
(***************************************************************************)
\* A writer goes on without saving or committing.
Moved(w) ==
  /\ UNCHANGED <<rows, disk, deletion, cron>>
  /\ \E to \in Places :
       /\ Go(w, to)
       /\ \/ At(w, "idle") /\ to \in {"saving", "analyzing"}
          \/ At(w, "analyzing") /\ to \in {"saving", "ended", "over", "cut off"}
          \/ At(w, "saving") /\ to = "cut off"
          \/ At(w, "ended") /\ to \in {"over", "cut off"}
  /\ review' = review \/ (Stored /\ review' \in {"processing", "failed"})
  /\ w = Upload => At(w, "idle") /\ review = "absent"
  /\ w \in Runs /\ At(w, "idle") =>
       At(Upload, "over") /\ (w[2] > 1 => At(<<"run", w[2] - 1>>, "cut off"))
  /\ w \in Readers => At(w, "idle") /\ review = "done" /\ Images(rows) = {}
  /\ w \in Fixes => At(w, "idle") /\ Stored /\ Corrected(rows) # {}

\* A writer commits.
Commits(w) ==
  \E to \in {"over", "ended"}, status \in {"queued", "done", review} :
    /\ Commit(w, to, status)
    /\ w = Upload => status = "queued"
    /\ w \in Readers \cup Fixes => status = review
    /\ w \in Runs => status = "done"

Deletes == StartDelete \/ UnlinkFile \/ FlushDelete \/ CommitDelete \/ DeleteFails

\* Nothing happens but that a corrected deck is read or the cleanup comes or goes.
Rests ==
  /\ UNCHANGED <<review, rows, disk, deletion>> /\ cron' \in {"idle", "due"}
  /\ UNCHANGED writer \/ \E w \in Writers : ReadDeck(w)

LEMMA Steps ==
  ASSUME Typed, [Next]_vars
  PROVE  \/ \E w \in Writers : Moved(w) \/ SaveFile(w) \/ SaveFails(w) \/ Commits(w)
         \/ Deletes \/ Rests
<1> USE SortsDiffer DEF Places, Stored, Comes
<1>1. CASE StartUpload
  BY <1>1 DEF StartUpload, Moved, Writers
<1>2. CASE CommitUpload
  BY <1>2 DEF CommitUpload, Commits, Writers
<1>3. ASSUME NEW w \in Runs, StartRun(w) \/ Analyze(w) \/ FinishJob(w) PROVE Moved(w)
  <2>1. CASE StartRun(w)
    BY <2>1 DEF StartRun, Moved
  <2>2. CASE Analyze(w)
    BY <2>2 DEF Analyze, Moved, At
  <2>3. CASE FinishJob(w)
    BY <2>3 DEF FinishJob, Moved, At
  <2> QED BY <1>3, <2>1, <2>2, <2>3
<1>4. ASSUME NEW w \in Runs, WorkerStops(w) PROVE Moved(w)
  BY <1>4 DEF WorkerStops, Running, Moved, At
<1>5. ASSUME NEW w \in Runs, PersistSuccess(w) PROVE Commits(w)
  BY <1>5 DEF PersistSuccess, Commits
<1>6. ASSUME NEW w \in Readers, StartBackfill(w) PROVE Moved(w)
  BY <1>6 DEF StartBackfill, Moved
<1>7. ASSUME NEW w \in Readers, CommitBackfill(w) PROVE Commits(w)
  BY <1>7 DEF CommitBackfill, Commits
<1>8. ASSUME NEW w \in Fixes, StartFix(w) PROVE Moved(w)
  BY <1>8 DEF StartFix, Moved
<1>9. ASSUME NEW w \in Fixes, CommitFix(w) PROVE Commits(w)
  BY <1>9 DEF CommitFix, Commits
<1>10. CASE Expire \/ RunCron \/ UNCHANGED vars
  BY <1>10 DEF Expire, RunCron, vars, Rests, Typed
<1>12. ASSUME NEW w \in Writers, ReadDeck(w) PROVE Rests
  BY <1>12 DEF ReadDeck, Rests, Typed
<1>11. Runs \cup Readers \cup Fixes \cup {Upload} = Writers
  BY DEF Writers
<1> QED
  BY <1>1, <1>2, <1>3, <1>4, <1>5, <1>6, <1>7, <1>8, <1>9, <1>10, <1>11, <1>12 DEF Next, Deletes

\* What remains when nothing else happens.
LEMMA RestFacts ==
  ASSUME Typed, Rests
  PROVE  /\ UNCHANGED <<review, rows, disk, deletion>> /\ cron' \in {"idle", "due"}
         /\ writer' \in [Writers -> [at : Places, new : SUBSET Files, read : SUBSET Files]]
         /\ \A v \in Writers :
              /\ At(v, "idle")' <=> At(v, "idle")
              /\ writer'[v].at = writer[v].at /\ Written(v)' = Written(v)
              /\ \/ writer'[v].read = writer[v].read
                 \/ /\ Reads(v) /\ writer'[v].read = Corrected(rows)
<1>1. CASE UNCHANGED writer
  BY <1>1 DEF Rests, Written, At, Typed
<1>2. ASSUME NEW w \in Writers, ReadDeck(w), UNCHANGED <<review, rows, disk, deletion>>
      PROVE  /\ writer' \in [Writers -> [at : Places, new : SUBSET Files, read : SUBSET Files]]
             /\ \A v \in Writers : v # w => writer'[v] = writer[v]
             /\ writer'[w].at = writer[w].at /\ writer'[w].new = writer[w].new
             /\ Reads(w) /\ writer'[w].read = Corrected(rows)
  <2>1. writer' = [writer EXCEPT ![w].read = Corrected(rows)] /\ Reads(w)
    BY <1>2 DEF ReadDeck
  <2>2. Corrected(rows) \in SUBSET Files
    BY DEF Typed, Corrected
  <2> HIDE DEF Files
  <2> QED BY <2>1, <2>2 DEF Typed
<1> QED BY <1>1, <1>2 DEF Rests, Written, At

\* What a commit changes.
LEMMA CommitFacts ==
  ASSUME Typed, NEW w \in Writers, Commits(w)
  PROVE  /\ Elsewhere(w) /\ writer'[w].at \in {"over", "ended"} /\ Written(w)' = {} /\ writer'[w].read = {}
         /\ writer' \in [Writers -> [at : Places, new : SUBSET Files, read : SUBSET Files]]
         /\ At(w, "saving") /\ Whole(w) /\ review # "deleted"
         /\ rows' = (rows \ IF Corrected(Written(w)) = {} THEN {} ELSE Corrected(rows)) \cup Written(w)
         /\ Written(w) \subseteq Files
         /\ review' \in {"queued", "done", review}
         /\ w \in Readers \cup Fixes => review' = review
         /\ w = Upload => review' = "queued"
         /\ w \in Runs => review' = "done"
         /\ UNCHANGED <<disk, deletion, cron>>
<1>1. PICK to \in {"over", "ended"}, status \in {"queued", "done", review} :
        /\ Commit(w, to, status)
        /\ w = Upload => status = "queued"
        /\ w \in Readers \cup Fixes => status = review
        /\ w \in Runs => status = "done"
  BY DEF Commits
<1>2. to \in Places
  BY DEF Places
<1>3. /\ Elsewhere(w) /\ writer'[w].at = to /\ Written(w)' = {} /\ writer'[w].read = {} /\ Written(w) \subseteq Files
      /\ writer' \in [Writers -> [at : Places, new : SUBSET Files, read : SUBSET Files]]
  BY <1>1, <1>2, WriterCommits
<1> QED BY <1>1, <1>3 DEF Commit

LEMMA MoveFacts ==
  ASSUME Typed, NEW w \in Writers, Moved(w)
  PROVE  /\ Elsewhere(w) /\ Written(w)' = Written(w) /\ writer'[w].read = writer[w].read
         /\ writer' \in [Writers -> [at : Places, new : SUBSET Files, read : SUBSET Files]]
         /\ At(w, "idle") \/ At(w, "analyzing") \/ At(w, "saving") \/ At(w, "ended")
         /\ At(w, "idle") => writer'[w].at \in {"saving", "analyzing"}
         /\ At(w, "saving") => writer'[w].at = "cut off"
         /\ At(w, "ended") => writer'[w].at \in {"over", "cut off"}
         /\ At(w, "analyzing") => writer'[w].at \in {"saving", "ended", "over", "cut off"}
<1>1. PICK to \in Places :
       /\ Go(w, to)
       /\ \/ At(w, "idle") /\ to \in {"saving", "analyzing"}
          \/ At(w, "analyzing") /\ to \in {"saving", "ended", "over", "cut off"}
          \/ At(w, "saving") /\ to = "cut off"
          \/ At(w, "ended") /\ to \in {"over", "cut off"}
  BY DEF Moved
<1>2. /\ Elsewhere(w) /\ writer'[w].at = to /\ Written(w)' = Written(w) /\ writer'[w].read = writer[w].read
      /\ writer' \in [Writers -> [at : Places, new : SUBSET Files, read : SUBSET Files]]
  BY <1>1, WriterMoves
<1> QED BY <1>1, <1>2 DEF At

\* What the deletion changes.
LEMMA DeleteFacts ==
  ASSUME Typed, Deletes
  PROVE  /\ UNCHANGED <<writer, cron>> /\ disk' \subseteq disk /\ rows' \in {rows, {}}
         /\ deletion' \in [at : {"idle", "unlinking", "flushed"}, tries : 0..MaxDeletes, doomed : SUBSET Files,
                           left : SUBSET Files, lost : SUBSET Files]
         /\ deletion'.left \subseteq deletion'.doomed
         /\ deletion'.at = "flushed" => deletion'.left = {}
         /\ deletion'.doomed = deletion.doomed \/ (StartDelete /\ deletion'.doomed = rows)
         /\ \/ rows' = rows /\ review' = review
            \/ CommitDelete /\ rows' = {} /\ review' = "deleted"
<1> USE DEF Typed
<1> HIDE DEF Files
<1>1. CASE StartDelete
  <2>1. deletion.tries \in Nat /\ deletion.tries + 1 \in 0..MaxDeletes
    BY <1>1 DEF StartDelete
  <2> QED BY <1>1, <2>1 DEF StartDelete
<1>2. CASE UnlinkFile
  <2>1. PICK f \in deletion.left :
          /\ deletion' = [deletion EXCEPT !.left = @ \ {f}]
          /\ disk' = disk \ {f}
    BY <1>2 DEF UnlinkFile
  <2> QED BY <1>2, <2>1 DEF UnlinkFile
<1>3. CASE FlushDelete
  BY <1>3 DEF FlushDelete
<1>4. CASE CommitDelete
  BY <1>4 DEF CommitDelete
<1>5. CASE DeleteFails
  BY <1>5 DEF DeleteFails, Unlinked
<1> QED BY <1>1, <1>2, <1>3, <1>4, <1>5 DEF Deletes

(***************************************************************************)
(* Every part of the invariant is kept.                                    *)
(***************************************************************************)
LEMMA TypedStep ==
  ASSUME Typed, InOrder, [Next]_vars PROVE Typed'
<1> USE DEF Typed
<1> HIDE DEF Files
<1>1. ASSUME NEW w \in Writers, Moved(w) PROVE Typed'
  <2>1. review' = review \/ (Stored /\ review' \in {"processing", "failed"})
    BY <1>1 DEF Moved
  <2>2. \A v \in Writers : writer'[v].at \in {"idle", "analyzing", "ended", "over"} =>
        Written(v)' = {} /\ writer'[v].read = {}
    BY <1>1, MoveFacts DEF Elsewhere, At, Written
  <2> QED BY <1>1, <2>1, <2>2, MoveFacts DEF Moved, Stored
<1>2. ASSUME NEW w \in Writers, SaveFile(w) PROVE Typed'
  <2>1. NextFile(w) \in Files
    BY <1>2, NextFits DEF SaveFile, Saves
  <2>2. \A v \in Writers : writer'[v].at \in {"idle", "analyzing", "ended", "over"} =>
        Written(v)' = {} /\ writer'[v].read = {}
    BY <1>2, WriterSaves DEF Elsewhere, Written
  <2> QED BY <1>2, <2>1, <2>2, WriterSaves DEF SaveFile, Saves
<1>3. ASSUME NEW w \in Writers, SaveFails(w) PROVE Typed'
  <2>1. PICK begun \in SUBSET Files :
           /\ Elsewhere(w) /\ writer'[w].at = "failed" /\ writer'[w].read = {}
           /\ Written(w)' = Written(w) \cup begun
           /\ disk' = disk \cup begun
           /\ writer' \in [Writers -> [at : Places, new : SUBSET Files, read : SUBSET Files]]
    BY <1>3, WriterFails
  <2>2. \A v \in Writers : writer'[v].at \in {"idle", "analyzing", "ended", "over"} =>
        Written(v)' = {} /\ writer'[v].read = {}
    BY <2>1 DEF Elsewhere, Written
  <2> QED BY <1>3, <2>1, <2>2 DEF SaveFails
<1>4. ASSUME NEW w \in Writers, Commits(w) PROVE Typed'
  <2>1. \A v \in Writers : writer'[v].at \in {"idle", "analyzing", "ended", "over"} =>
        Written(v)' = {} /\ writer'[v].read = {}
    BY <1>4, CommitFacts DEF Elsewhere, Written
  <2>2. rows' \subseteq Files
    BY <1>4, CommitFacts
  <2> QED BY <1>4, <2>1, <2>2, CommitFacts
<1>5. CASE Deletes
  <2>1. \A v \in Writers : writer'[v].at \in {"idle", "analyzing", "ended", "over"} =>
        Written(v)' = {} /\ writer'[v].read = {}
    BY <1>5, DeleteFacts DEF Written
  <2> QED BY <1>5, <2>1, DeleteFacts
<1>6. CASE Rests
  <2>1. \A v \in Writers : writer'[v].at \in {"idle", "analyzing", "ended", "over"} =>
        Written(v)' = {} /\ writer'[v].read = {}
    BY <1>6, RestFacts DEF Reads, At
  <2> QED BY <1>6, <2>1, RestFacts
<1> QED BY <1>1, <1>2, <1>3, <1>4, <1>5, <1>6, Steps

LEMMA InOrderStep ==
  ASSUME Typed, InOrder, [Next]_vars PROVE InOrder'
<1>0. ASSUME NEW v \in Writers, writer'[v] = writer[v], At(v, "saving")' PROVE SavedInOrder(v)'
  <2>1. Written(v)' = Written(v) /\ At(v, "saving") /\ writer'[v].read = writer[v].read
    BY <1>0 DEF Written, At
  <2> QED BY <2>1 DEF InOrder, SavedInOrder, Due, Own
<1>1. ASSUME NEW w \in Writers, Elsewhere(w), At(w, "saving")' => SavedInOrder(w)' PROVE InOrder'
  BY <1>0, <1>1 DEF InOrder, Elsewhere
<1>2. ASSUME NEW w \in Writers, Moved(w) PROVE InOrder'
  <2>1. SUFFICES ASSUME At(w, "saving")' PROVE SavedInOrder(w)'
    BY <1>1, <1>2, MoveFacts
  <2>2. At(w, "idle") \/ At(w, "analyzing")
    BY <1>2, <2>1, MoveFacts DEF At
  <2>3. Written(w)' = {} /\ writer'[w].read = {}
    BY <1>2, <2>2, MoveFacts DEF Typed, At
  <2> QED BY <2>3, OutputFits, FS_EmptySet DEF SavedInOrder
<1>3. ASSUME NEW w \in Writers, SaveFile(w) PROVE InOrder'
  <2> DEFINE m == Cardinality(Written(w))
             n == m + 1
             next == NextFile(w)
  <2>1. /\ SavedInOrder(w) /\ At(w, "saving") /\ ~ Whole(w)
        /\ Elsewhere(w) /\ Written(w)' = Written(w) \cup {next} /\ writer'[w].read = {}
    BY <1>3, WriterSaves DEF SaveFile, Saves, InOrder
  <2>2. /\ n \in 1..Len(Output(w)) /\ m \in Nat /\ next \notin Written(w)
        /\ next.kind = Output(w)[n][1] /\ next.num = Output(w)[n][2]
        /\ next.kind # "fixed" => next = Own(w, n)
    BY <2>1, NextFits
  <2> HIDE DEF next
  <2>3. IsFiniteSet(Written(w)') /\ Cardinality(Written(w)') = n
    BY <2>1, <2>2, FS_AddElement DEF SavedInOrder
  <2> HIDE DEF m
  <2>4. \A i \in 1..n : Output(w)[i][1] # "fixed" => Own(w, i) \in Written(w)'
    <3>1. \A i \in 1..n : i \in 1..m \/ i = n
      BY <2>2
    <3> QED BY <2>1, <2>2, <3>1 DEF SavedInOrder, m
  <2>5. \A f \in Written(w)' : \E i \in 1..n :
          /\ f.kind = Output(w)[i][1] /\ f.num = Output(w)[i][2]
          /\ f.kind # "fixed" => f = Own(w, i)
    <3>1. 1..m \subseteq 1..n /\ n \in 1..n
      BY <2>2
    <3> QED BY <2>1, <2>2, <3>1 DEF SavedInOrder, m
  <2>6. SavedInOrder(w)'
    <3>1. writer'[w].read = {}
      BY <2>1
    <3> QED BY <2>2, <2>3, <2>4, <2>5, <3>1 DEF SavedInOrder, Own
  <2> QED BY <1>1, <2>1, <2>6
<1>4. ASSUME NEW w \in Writers, SaveFails(w) PROVE InOrder'
  BY <1>1, <1>4, WriterFails DEF At
<1>5. ASSUME NEW w \in Writers, Commits(w) PROVE InOrder'
  BY <1>1, <1>5, CommitFacts DEF At
<1>6. CASE Deletes
  BY <1>0, <1>6, DeleteFacts DEF InOrder
<1>7. CASE Rests
  <2>1. SUFFICES ASSUME NEW v \in Writers, At(v, "saving")' PROVE SavedInOrder(v)'
    BY DEF InOrder
  <2>2. Written(v)' = Written(v) /\ SavedInOrder(v)
    BY <1>7, <2>1, RestFacts DEF InOrder, At
  <2>3. writer'[v].read # {} => Due(v)[1] = "fixed" /\ \A f \in writer'[v].read : f.kind = "fixed"
    BY <1>7, <2>2, RestFacts DEF SavedInOrder, Reads, Corrected
  <2> QED BY <2>2, <2>3 DEF SavedInOrder, Due, Own
<1> QED BY <1>2, <1>3, <1>4, <1>5, <1>6, <1>7, Steps

\* A writer that has ended, or was cut off, is not heard of again but to end.
LEMMA StaysEnded ==
  ASSUME Typed, InOrder, [Next]_vars, NEW v \in Writers
  PROVE  /\ writer[v].at \in {"ended", "over", "cut off"} => writer'[v].at \in {"ended", "over", "cut off"}
         /\ At(v, "over") => At(v, "over")'
         /\ At(v, "cut off") => At(v, "cut off")'
         /\ ~ At(v, "idle") => ~ At(v, "idle")'
<1>1. ASSUME NEW w \in Writers, Moved(w) PROVE writer'[v] = writer[v] \/
        (v = w /\ ~ At(v, "over") /\ ~ At(v, "cut off") /\ writer'[v].at # "idle"
         /\ (At(v, "ended") => writer'[v].at \in {"over", "cut off"}))
  BY <1>1, MoveFacts DEF Elsewhere, At
<1>2. ASSUME NEW w \in Writers, SaveFile(w) \/ SaveFails(w) \/ Commits(w)
      PROVE  writer'[v] = writer[v] \/ (At(v, "saving") /\ writer'[v].at # "idle")
  BY <1>2, WriterSaves, WriterFails, CommitFacts DEF SaveFile, Saves, SaveFails, Elsewhere, At
<1>3. CASE Deletes \/ Rests
  BY <1>3, DeleteFacts, RestFacts DEF At
<1> QED BY <1>1, <1>2, <1>3, Steps DEF At

\* Whoever starts moves on from idle.
LEMMA LeavesIdle ==
  ASSUME Typed, InOrder, [Next]_vars, NEW v \in Writers, At(v, "idle"), ~ At(v, "idle")'
  PROVE  Moved(v)
<1>1. ASSUME NEW w \in Writers, w # v, Moved(w) \/ SaveFile(w) \/ SaveFails(w) \/ Commits(w) PROVE FALSE
  <2>1. writer'[v] = writer[v]
    BY <1>1, MoveFacts, WriterSaves, WriterFails, CommitFacts DEF Elsewhere
  <2> QED BY <2>1 DEF At
<1>2. ASSUME SaveFile(v) \/ SaveFails(v) \/ Commits(v) PROVE FALSE
  BY <1>2, CommitFacts DEF SaveFile, Saves, SaveFails, At
<1>3. ASSUME Deletes \/ Rests PROVE FALSE
  BY <1>3, DeleteFacts, RestFacts DEF At
<1> QED BY <1>1, <1>2, <1>3, Steps

\* What a writer that commits has written besides a corrected deck is its own.
LEMMA WrittenIsOwn ==
  ASSUME InOrder, NEW w \in Writers, At(w, "saving"), NEW f \in Written(w), f.kind # "fixed"
  PROVE  f.by = w
BY DEF InOrder, SavedInOrder, Own, File

\* A review that was there from the beginning gets no upload.
LEMMA OldStays ==
  ASSUME Typed, InOrder, [Next]_vars, At(Upload, "idle"), review # "absent"
  PROVE  At(Upload, "idle")' /\ review' # "absent"
<1>1. Upload \in Writers
  BY DEF Writers
<1>2. At(Upload, "idle")'
  BY <1>1, LeavesIdle DEF Moved
<1>3. ASSUME NEW w \in Writers, Moved(w) \/ SaveFile(w) \/ SaveFails(w) \/ Commits(w)
      PROVE  review' # "absent"
  BY <1>3, CommitFacts DEF Moved, SaveFile, Saves, SaveFails
<1>4. ASSUME Deletes \/ Rests PROVE review' # "absent"
  BY <1>4, DeleteFacts, RestFacts
<1> QED BY <1>2, <1>3, <1>4, Steps

\* Rows are added by commits only.
LEMMA NewRows ==
  ASSUME Typed, InOrder, [Next]_vars, NEW f \in rows', f \notin rows
  PROVE  \E w \in Writers : Commits(w) /\ At(w, "saving") /\ f \in Written(w)
<1>1. ASSUME NEW w \in Writers, Moved(w) \/ SaveFile(w) \/ SaveFails(w) PROVE FALSE
  BY <1>1 DEF Moved, SaveFile, Saves, SaveFails
<1>2. ASSUME Deletes \/ Rests PROVE FALSE
  BY <1>2, DeleteFacts, RestFacts
<1>3. ASSUME NEW w \in Writers, Commits(w) PROVE At(w, "saving") /\ f \in Written(w)
  BY <1>3, CommitFacts
<1> QED BY <1>1, <1>2, <1>3, Steps

\* The slides of a report by a delivery are among the rows, so there are some.
LEMMA SomeSlide ==
  ASSUME NEW w, SlidesOf(w) \subseteq rows
  PROVE  \E f \in Images(rows) : f.by = w
<1>1. 1 \in 1..NSlides /\ File("slide", 1, w, 1) \in SlidesOf(w)
  BY DEF SlidesOf
<1>2. File("slide", 1, w, 1).kind = "slide" /\ File("slide", 1, w, 1).by = w
  BY DEF File
<1> QED BY <1>1, <1>2 DEF Images

LEMMA InTurnStep ==
  ASSUME Typed, InOrder, InTurn, HasReport, [Next]_vars PROVE InTurn'
<1> USE DEF Writers
<1>1. ASSUME NEW v \in Runs, NEW w \in Runs, v[2] < w[2], ~ At(w, "idle")'
      PROVE  At(v, "cut off")'
  <2>1. CASE ~ At(w, "idle")
    BY <1>1, <2>1, StaysEnded DEF InTurn
  <2>2. CASE At(w, "idle")
    <3>1. w[2] > 1 => At(<<"run", w[2] - 1>>, "cut off")
      BY <1>1, <2>2, LeavesIdle DEF Moved
    <3> DEFINE u == <<"run", w[2] - 1>>
    <3>2. /\ v = <<"run", v[2]>> /\ w = <<"run", w[2]>>
          /\ v[2] \in 1..MaxRuns /\ w[2] \in 1..MaxRuns /\ MaxRuns \in Nat
      BY <1>1 DEF Runs
    <3>3. w[2] > 1 /\ w[2] - 1 \in 1..MaxRuns /\ v[2] <= w[2] - 1
      <4> HIDE DEF u
      <4> QED BY <1>1, <3>2
    <3>4. u \in Runs /\ u[2] = w[2] - 1 /\ At(u, "cut off") /\ (v = u \/ v[2] < u[2])
      <4>1. u \in Runs /\ u[2] = w[2] - 1
        BY <3>3 DEF Runs
      <4>2. v[2] = w[2] - 1 => v = u
        BY <3>2
      <4>3. At(u, "cut off")
        BY <3>1, <3>3
      <4> HIDE DEF u
      <4>4. v[2] = w[2] - 1 \/ v[2] < u[2]
        BY <3>2, <3>3, <4>1
      <4> QED BY <4>1, <4>2, <4>3, <4>4
    <3>5. At(v, "cut off")
      BY <3>4 DEF InTurn, At
    <3> QED BY <3>5, StaysEnded
  <2> QED BY <2>1, <2>2
<1>2. ASSUME NEW w \in Runs, ~ At(w, "idle")' PROVE At(Upload, "over")'
  <2>1. At(Upload, "over")
    BY <1>2, LeavesIdle DEF InTurn, Moved
  <2> QED BY <2>1, StaysEnded
<1>3. ASSUME NEW w \in Readers, ~ At(w, "idle")' PROVE At(Upload, "idle")' /\ review' # "absent"
  <2>1. CASE ~ At(w, "idle")
    BY <2>1, OldStays DEF InTurn
  <2>2. CASE At(w, "idle")
    <3>1. review = "done" /\ Images(rows) = {}
      BY <1>3, <2>2, LeavesIdle DEF Moved
    <3>2. \E f \in rows : f.kind = "report" /\ f.by = Before
      BY <3>1, SomeSlide DEF HasReport
    <3> QED BY <3>2, OldStays DEF InTurn
  <2> QED BY <2>1, <2>2
<1>4. ASSUME NEW f \in rows', f.kind = "report", f.by = Before
      PROVE  At(Upload, "idle")' /\ review' # "absent"
  <2>1. CASE f \in rows
    BY <1>4, <2>1, OldStays DEF InTurn
  <2>2. CASE f \notin rows
    BY <1>4, <2>2, NewRows, WrittenIsOwn, SortsDiffer
  <2> QED BY <2>1, <2>2
<1> QED BY <1>1, <1>2, <1>3, <1>4 DEF InTurn

LEMMA CommittedStep ==
  ASSUME Typed, InOrder, Committed, [Next]_vars PROVE Committed'
<1> SUFFICES ASSUME NEW f \in rows' \cup deletion.doomed', f.kind # "fixed", f.by # Before
             PROVE  writer'[f.by].at \in {"ended", "over", "cut off"}
  BY DEF Committed
<1>1. CASE f \in rows \cup deletion.doomed
  <2>1. f.by \in Writers
    BY <1>1 DEF Typed, Files
  <2> QED BY <1>1, <2>1, StaysEnded DEF Committed
<1>2. CASE f \notin rows \cup deletion.doomed
  <2>1. deletion'.doomed \subseteq deletion.doomed \cup rows
    <3>1. ASSUME NEW w \in Writers, Moved(w) \/ SaveFile(w) \/ SaveFails(w) \/ Commits(w)
          PROVE  deletion' = deletion
      BY <3>1, CommitFacts DEF Moved, SaveFile, Saves, SaveFails
    <3> QED BY <3>1, Steps, DeleteFacts, RestFacts
  <2>2. PICK w \in Writers : Commits(w) /\ At(w, "saving") /\ f \in Written(w)
    BY <1>2, <2>1, NewRows
  <2> QED BY <2>2, WrittenIsOwn, CommitFacts
<1> QED BY <1>1, <1>2

LEMMA StaysAwayStep ==
  ASSUME Typed, InOrder, Committed, StaysAway, [Next]_vars PROVE StaysAway'
<1> USE DEF StaysAway
<1>1. ASSUME NEW w \in Writers, At(w, "saving"), ~ Whole(w), NextFile(w).kind # "fixed"
      PROVE  NextFile(w) \notin Unlinked
  <2>1. NextFile(w).by = w /\ w # Before
    BY <1>1, NextFits, SortsDiffer
  <2> QED BY <1>1, <2>1 DEF Committed, Unlinked, At
<1>2. ASSUME NEW w \in Writers, Moved(w) \/ Commits(w) PROVE StaysAway'
  BY <1>2, CommitFacts DEF Moved, Unlinked
<1>3. ASSUME NEW w \in Writers, SaveFile(w) PROVE StaysAway'
  BY <1>1, <1>3 DEF SaveFile, Saves, Unlinked
<1>4. ASSUME NEW w \in Writers, SaveFails(w) PROVE StaysAway'
  <2>1. PICK begun \in SUBSET Files :
          disk' = disk \cup begun /\ \A f \in begun : ~ Whole(w) /\ f = NextFile(w)
    BY <1>4, WriterFails
  <2> QED BY <1>1, <1>4, <2>1 DEF SaveFails, Unlinked
<1>5. CASE StartDelete
  BY <1>5 DEF StartDelete, Unlinked, Typed
<1>6. CASE UnlinkFile
  <2>1. PICK f \in deletion.left : disk' = disk \ {f} /\ deletion' = [deletion EXCEPT !.left = @ \ {f}]
    BY <1>6 DEF UnlinkFile
  <2> QED BY <1>6, <2>1 DEF UnlinkFile, Unlinked, Typed
<1>7. CASE FlushDelete \/ CommitDelete \/ DeleteFails
  BY <1>7 DEF FlushDelete, CommitDelete, DeleteFails, Unlinked, Typed
<1>8. CASE Rests
  BY <1>8 DEF Rests, Unlinked
<1> QED BY <1>2, <1>3, <1>4, <1>5, <1>6, <1>7, <1>8, Steps DEF Deletes

LEMMA StaysDeleted ==
  ASSUME Typed, InOrder, [Next]_vars, review = "deleted" PROVE review' = "deleted"
<1>1. ASSUME NEW w \in Writers, Moved(w) \/ SaveFile(w) \/ SaveFails(w) PROVE review' = "deleted"
  BY <1>1 DEF Moved, SaveFile, Saves, SaveFails, Stored
<1>2. ASSUME NEW w \in Writers, Commits(w) PROVE FALSE
  BY <1>2, CommitFacts
<1> QED BY <1>1, <1>2, Steps, DeleteFacts, RestFacts

LEMMA AllCoveredStep ==
  ASSUME Typed, InOrder, AllCovered, [Next]_vars PROVE AllCovered'
<1> SUFFICES ASSUME review' # "deleted"
             PROVE  /\ \A f \in rows' : Covered(f)'
                    /\ \A w \in Writers : At(w, "saving")' => \A f \in Written(w)' : Covered(f)'
  BY DEF AllCovered
<1>1. /\ \A f \in rows : Covered(f)
      /\ \A w \in Writers : At(w, "saving") => \A f \in Written(w) : Covered(f)
  BY StaysDeleted DEF AllCovered
<1>2. ASSUME NEW w \in Writers, Moved(w)
      PROVE  /\ \A f \in rows' : Covered(f)'
             /\ \A v \in Writers : At(v, "saving")' => \A f \in Written(v)' : Covered(f)'
  <2>1. \A f : Covered(f)' <=> Covered(f)
    BY <1>2 DEF Moved, Covered, Unlinked
  <2>2. \A v \in Writers : At(v, "saving")' =>
          Written(v)' = {} \/ (At(v, "saving") /\ Written(v)' = Written(v))
    BY <1>2, MoveFacts DEF Elsewhere, At, Written, Typed
  <2> QED BY <1>1, <1>2, <2>1, <2>2 DEF Moved
<1>3. ASSUME NEW w \in Writers, SaveFile(w) \/ SaveFails(w)
      PROVE  /\ \A f \in rows' : Covered(f)'
             /\ \A v \in Writers : At(v, "saving")' => \A f \in Written(v)' : Covered(f)'
  <2>1. \A f : Covered(f) => Covered(f)'
    BY <1>3 DEF SaveFile, Saves, SaveFails, Covered, Unlinked
  <2>2. \A v \in Writers : At(v, "saving")' =>
          At(v, "saving") /\ \A f \in Written(v)' : f \in Written(v) \/ f \in disk'
    BY <1>3, WriterSaves, WriterFails DEF SaveFile, Saves, SaveFails, Elsewhere, At, Written
  <2> QED BY <1>1, <1>3, <2>1, <2>2 DEF SaveFile, Saves, SaveFails, Covered
<1>4. ASSUME NEW w \in Writers, Commits(w)
      PROVE  /\ \A f \in rows' : Covered(f)'
             /\ \A v \in Writers : At(v, "saving")' => \A f \in Written(v)' : Covered(f)'
  <2>1. \A f : Covered(f) => Covered(f)'
    BY <1>4, CommitFacts DEF Covered, Unlinked
  <2>2. \A v \in Writers : At(v, "saving")' => At(v, "saving") /\ Written(v)' = Written(v)
    BY <1>4, CommitFacts DEF Elsewhere, At, Written
  <2> QED BY <1>1, <1>4, <2>1, <2>2, CommitFacts
<1>5. ASSUME Deletes \/ Rests
      PROVE  /\ \A f \in rows' : Covered(f)'
             /\ \A v \in Writers : At(v, "saving")' => \A f \in Written(v)' : Covered(f)'
  <2>1. \A f : Covered(f) => Covered(f)'
    <3>1. CASE StartDelete
      BY <3>1 DEF StartDelete, Covered, Unlinked, Typed
    <3>2. CASE UnlinkFile
      <4>1. PICK g \in deletion.left : disk' = disk \ {g} /\ deletion' = [deletion EXCEPT !.left = @ \ {g}]
        BY <3>2 DEF UnlinkFile
      <4> QED BY <3>2, <4>1 DEF UnlinkFile, Covered, Unlinked, Typed
    <3>3. CASE FlushDelete
      BY <3>3 DEF FlushDelete, Covered, Unlinked, Typed
    <3>4. CASE DeleteFails
      BY <3>4 DEF DeleteFails, Covered, Unlinked, Typed
    <3>5. CASE Rests
      BY <3>5 DEF Rests, Covered, Unlinked
    <3>6. ~ CommitDelete
      BY DEF CommitDelete
    <3> QED BY <1>5, <3>1, <3>2, <3>3, <3>4, <3>5, <3>6 DEF Deletes
  <2>2. /\ rows' \subseteq rows
        /\ \A v \in Writers : writer'[v].at = writer[v].at /\ Written(v)' = Written(v)
    BY <1>5, DeleteFacts, RestFacts DEF Written
  <2> QED BY <1>1, <2>1, <2>2 DEF At
<1> QED BY <1>2, <1>3, <1>4, <1>5, Steps

\* Only deliveries and fixes write corrected decks.
LEMMA WhoCorrects ==
  ASSUME NEW w \in Writers, NEW i \in 1..Len(Output(w)), Output(w)[i][1] = "fixed"
  PROVE  w \in Runs \cup Fixes
<1>1. CASE w = Upload
  BY <1>1, OutputOfUpload
<1>2. CASE w \in Readers
  BY <1>2, OutputOfReaders
<1> QED BY <1>1, <1>2 DEF Writers

LEMMA OneRunSaves ==
  ASSUME InTurn, NEW v \in Runs, NEW w \in Runs, At(v, "saving"), At(w, "saving")
  PROVE  v = w
<1>1. /\ v = <<"run", v[2]>> /\ w = <<"run", w[2]>> /\ v[2] \in Nat /\ w[2] \in Nat
  BY DEF Runs
<1>2. ~ (v[2] < w[2]) /\ ~ (w[2] < v[2])
  BY DEF InTurn, At
<1>3. v[2] = w[2]
  BY <1>1, <1>2
<1> QED BY <1>1, <1>3

LEMMA OneCorrectedStep ==
  ASSUME Typed, InOrder, InTurn, OneCorrected, [Next]_vars PROVE OneCorrected'
<1> DEFINE Fits(v) ==
      /\ v \in Fixes => Corrected(rows) # {}
      /\ \A f \in Corrected(Written(v)) :
           /\ \A g \in Corrected(rows) : g.by = f.by
           /\ Corrected(rows) = {} => v \in Runs /\ f.by = v
      /\ writer[v].read # {} => Corrected(rows) # {}
      /\ \A f \in writer[v].read : \A g \in Corrected(rows) : g.by = f.by
<1>0. /\ \A f, g \in Corrected(rows) : f.by = g.by
      /\ review # "deleted" => \A v \in Writers : At(v, "saving") => Fits(v)
  BY DEF OneCorrected
<1>a. SUFFICES /\ \A f, g \in Corrected(rows') : f.by = g.by
               /\ review' # "deleted" => \A v \in Writers : At(v, "saving")' => Fits(v)'
  BY DEF OneCorrected, Corrected
<1>1. ASSUME NEW w \in Writers, Moved(w)
      PROVE  review' # "deleted" => \A v \in Writers : At(v, "saving")' => Fits(v)'
  <2>1. SUFFICES ASSUME review' # "deleted", NEW v \in Writers, At(v, "saving")' PROVE Fits(v)'
    OBVIOUS
  <2>2. rows' = rows /\ review # "deleted"
    BY <1>1, <2>1, StaysDeleted DEF Moved
  <2>3. CASE v # w
    <3>1. At(v, "saving") /\ Written(v)' = Written(v) /\ writer'[v].read = writer[v].read
      BY <1>1, <2>1, <2>3, MoveFacts DEF Elsewhere, At, Written
    <3> QED BY <1>0, <2>2, <3>1 DEF Corrected
  <2>4. CASE v = w
    <3>1. Written(v)' = {} /\ writer'[v].read = {}
      BY <1>1, <2>1, <2>4, MoveFacts DEF At, Typed
    <3>2. v \in Fixes => Corrected(rows) # {}
      BY <1>1, <2>4 DEF Moved
    <3> QED BY <2>2, <3>1, <3>2 DEF Corrected
  <2> QED BY <2>3, <2>4
<1>2. ASSUME NEW w \in Writers, SaveFile(w) \/ SaveFails(w)
      PROVE  review' # "deleted" => \A v \in Writers : At(v, "saving")' => Fits(v)'
  <2>1. SUFFICES ASSUME review' # "deleted", NEW v \in Writers, At(v, "saving")' PROVE Fits(v)'
    OBVIOUS
  <2>2. rows' = rows /\ review # "deleted"
    BY <1>2, <2>1, StaysDeleted DEF SaveFile, Saves, SaveFails
  <2>3. CASE v # w
    <3>1. At(v, "saving") /\ Written(v)' = Written(v) /\ writer'[v].read = writer[v].read
      BY <1>2, <2>1, <2>3, WriterSaves, WriterFails DEF Elsewhere, At, Written
    <3> QED BY <1>0, <2>2, <3>1 DEF Corrected
  <2>4. CASE v = w
    <3>1. SaveFile(w) /\ At(w, "saving") /\ ~ Whole(w) /\ ~ Reads(w)
      BY <1>2, <2>1, <2>4, WriterFails DEF SaveFile, Saves, At
    <3>2. Written(v)' = Written(v) \cup {NextFile(v)} /\ writer'[v].read = {}
      BY <2>4, <3>1, WriterSaves
    <3>3. ASSUME NextFile(w).kind = "fixed"
          PROVE  /\ \A g \in Corrected(rows) : g.by = NextFile(w).by
                 /\ Corrected(rows) = {} => w \in Runs /\ NextFile(w).by = w
      <4>1. w \in Runs \cup Fixes
        BY <3>1, <3>3, NextFits, WhoCorrects
      <4>2. w \in Fixes => Corrected(rows) # {}
        BY <1>0, <2>2, <3>1
      <4>3. Corrected(rows) = {} => NextFile(w).by = w
        BY <1>0, <2>2, <3>1, NextFits
      <4>4. \A g \in Corrected(rows) : g.by = NextFile(w).by
        <5>1. Corrected(rows) # {} => writer[w].read # {}
          BY <3>1, <3>3, NextFits DEF Reads
        <5> QED BY <1>0, <2>2, <3>1, <5>1, NextFits
      <4> QED BY <4>1, <4>2, <4>3, <4>4
    <3>4. Fits(v)
      BY <1>0, <2>2, <2>4, <3>1
    <3> QED BY <2>2, <2>4, <3>2, <3>3, <3>4 DEF Corrected
  <2> QED BY <2>3, <2>4
<1>3. ASSUME NEW w \in Writers, Moved(w) \/ SaveFile(w) \/ SaveFails(w)
      PROVE  \A f, g \in Corrected(rows') : f.by = g.by
  BY <1>0, <1>3 DEF Moved, SaveFile, Saves, SaveFails
<1>4. ASSUME NEW w \in Writers, Commits(w)
      PROVE  /\ \A f, g \in Corrected(rows') : f.by = g.by
             /\ review' # "deleted" => \A v \in Writers : At(v, "saving")' => Fits(v)'
  <2>1. /\ At(w, "saving") /\ review # "deleted" /\ Elsewhere(w) /\ writer'[w].at # "saving"
        /\ rows' = (rows \ IF Corrected(Written(w)) = {} THEN {} ELSE Corrected(rows)) \cup Written(w)
    BY <1>4, CommitFacts
  <2>2. Fits(w)
    BY <1>0, <2>1
  <2>3. \A v \in Writers : At(v, "saving")' =>
          /\ v # w /\ At(v, "saving") /\ Written(v)' = Written(v) /\ Fits(v)
          /\ writer'[v].read = writer[v].read
    BY <1>0, <2>1 DEF Elsewhere, At, Written
  <2>4. CASE Corrected(Written(w)) = {}
    <3>1. Corrected(rows') = Corrected(rows)
      BY <2>1, <2>4 DEF Corrected
    <3> QED BY <1>0, <2>3, <3>1 DEF Corrected
  <2>5. CASE Corrected(Written(w)) # {}
    <3>1. Corrected(rows') = Corrected(Written(w))
      BY <2>1, <2>5 DEF Corrected
    <3>2. \A f, g \in Corrected(Written(w)) : f.by = g.by
      BY <2>2
    <3>3. ASSUME NEW v \in Writers, At(v, "saving")', NEW f \in Corrected(Written(v)),
                 NEW g \in Corrected(Written(w))
          PROVE  g.by = f.by
      <4>1. v # w /\ At(v, "saving") /\ Fits(v)
        BY <2>3, <3>3
      <4>2. CASE Corrected(rows) # {}
        BY <2>2, <3>3, <4>1, <4>2
      <4>3. CASE Corrected(rows) = {}
        BY <2>1, <2>2, <3>3, <4>1, <4>3, OneRunSaves
      <4> QED BY <4>2, <4>3
    <3>4. ASSUME NEW v \in Writers, At(v, "saving")' PROVE Fits(v)'
      <4>1. \A f \in writer[v].read : \A g \in Corrected(Written(w)) : g.by = f.by
        BY <2>2, <2>3, <3>4
      <4> QED BY <2>3, <2>5, <3>1, <3>3, <3>4, <4>1 DEF Corrected
    <3> QED BY <3>1, <3>2, <3>4
  <2> QED BY <2>4, <2>5
<1>5. ASSUME Deletes \/ Rests
      PROVE  /\ \A f, g \in Corrected(rows') : f.by = g.by
             /\ review' # "deleted" => \A v \in Writers : At(v, "saving")' => Fits(v)'
  <2>1. \/ rows' = rows /\ review' = review
        \/ rows' = {} /\ review' = "deleted"
    BY <1>5, DeleteFacts, RestFacts
  <2>2. \A f, g \in Corrected(rows') : f.by = g.by
    BY <1>0, <2>1 DEF Corrected
  <2>3. ASSUME review' # "deleted", NEW v \in Writers, At(v, "saving")' PROVE Fits(v)'
    <3>1. /\ rows' = rows /\ review # "deleted" /\ At(v, "saving") /\ Written(v)' = Written(v)
          /\ writer'[v].read = writer[v].read \/ (writer'[v].read = Corrected(rows) /\ Corrected(rows) # {})
      BY <1>5, <2>1, <2>3, DeleteFacts, RestFacts DEF At, Written, Reads
    <3> QED BY <1>0, <3>1 DEF Corrected
  <2> QED BY <2>2, <2>3
<1> QED BY <1>1, <1>2, <1>3, <1>4, <1>5, Steps

\* Only deliveries and readers write slides, and their own.
LEMMA WhoDraws ==
  ASSUME InOrder, NEW w \in Writers, At(w, "saving"), NEW f \in Written(w), f.kind = "slide"
  PROVE  w \in Runs \cup Readers /\ f.by = w /\ f \in SlidesOf(w)
<1>1. PICK i \in 1..Cardinality(Written(w)) : Output(w)[i][1] = "slide" /\ f = Own(w, i)
  BY DEF InOrder, SavedInOrder
<1>2. i \in 1..Len(Output(w))
  BY OutputFits, FS_CardinalityType DEF InOrder, SavedInOrder
<1>3. w # Upload /\ w \notin Fixes
  BY <1>1, <1>2, OutputOfUpload, OutputOfFixes
<1>4. w \in Runs \cup Readers
  BY <1>3 DEF Writers
<1>5. i \in 1..NSlides
  <2>1. CASE w \in Readers
    BY <1>2, <2>1, OutputOfReaders
  <2>2. CASE w \in Runs
    BY <1>1, <1>2, <2>2, OutputOfRuns
  <2> QED BY <1>4, <2>1, <2>2
<1>6. Output(w)[i] = <<"slide", i>>
  BY <1>4, <1>5, OutputOfReaders, OutputOfRuns
<1> QED BY <1>1, <1>4, <1>5, <1>6 DEF SlidesOf, Own, File

\* Who has written everything has written all the slides, and a delivery the
\* report.
LEMMA WholeOutput ==
  ASSUME InOrder, NEW w \in Runs \cup Readers, At(w, "saving"), Whole(w)
  PROVE  /\ SlidesOf(w) \subseteq Written(w)
         /\ w \in Runs => \E f \in Written(w) : f.kind = "report" /\ f.by = w
<1>1. w \in Writers /\ Cardinality(Written(w)) = Len(Output(w))
  BY DEF Writers, Whole
<1>2. \A i \in 1..Len(Output(w)) : Output(w)[i][1] # "fixed" => Own(w, i) \in Written(w)
  BY <1>1 DEF InOrder, SavedInOrder
<1>3. ASSUME NEW i \in 1..NSlides PROVE File("slide", i, w, 1) \in Written(w)
  <2>1. i \in 1..Len(Output(w)) /\ Output(w)[i] = <<"slide", i>>
    BY OutputOfReaders, OutputOfRuns
  <2>2. Own(w, i) = File("slide", i, w, 1)
    BY <2>1 DEF Own
  <2> QED BY <1>2, <2>1, <2>2
<1>4. ASSUME w \in Runs PROVE \E f \in Written(w) : f.kind = "report" /\ f.by = w
  <2>1. NSlides + 2 \in 1..Len(Output(w)) /\ Output(w)[NSlides + 2] = <<"report", 1>>
    BY <1>4, OutputOfRuns
  <2>2. Own(w, NSlides + 2) \in Written(w)
    BY <1>2, <2>1
  <2>3. Own(w, NSlides + 2).kind = "report" /\ Own(w, NSlides + 2).by = w
    BY <2>1 DEF Own, File
  <2> QED BY <2>2, <2>3
<1> QED BY <1>3, <1>4 DEF SlidesOf

\* Rows of other kinds than the corrected deck go only with the review.
LEMMA RowsStay ==
  ASSUME Typed, InOrder, [Next]_vars, rows' # {}, NEW f \in rows, f.kind # "fixed"
  PROVE  f \in rows'
<1>1. ASSUME NEW w \in Writers, Moved(w) \/ SaveFile(w) \/ SaveFails(w) PROVE f \in rows'
  BY <1>1 DEF Moved, SaveFile, Saves, SaveFails
<1>2. ASSUME NEW w \in Writers, Commits(w) PROVE f \in rows'
  BY <1>2, CommitFacts DEF Corrected
<1> QED BY <1>1, <1>2, Steps, DeleteFacts, RestFacts

LEMMA WholeSetsStep ==
  ASSUME Typed, InOrder, WholeSets, [Next]_vars PROVE WholeSets'
<1> SUFFICES ASSUME NEW f \in rows', f.kind = "slide"
             PROVE  f.by \in Runs \cup Readers /\ f \in SlidesOf(f.by) /\ SlidesOf(f.by) \subseteq rows'
  BY DEF WholeSets, Images, SlidesOf
<1>1. CASE f \in rows
  <2>1. f.by \in Runs \cup Readers /\ f \in SlidesOf(f.by) /\ SlidesOf(f.by) \subseteq rows
    BY <1>1 DEF WholeSets, Images
  <2>2. \A g \in SlidesOf(f.by) : g.kind = "slide"
    BY DEF SlidesOf, File
  <2> QED BY <2>1, <2>2, RowsStay
<1>2. CASE f \notin rows
  <2>1. PICK w \in Writers : Commits(w) /\ At(w, "saving") /\ f \in Written(w)
    BY <1>2, NewRows
  <2>2. Written(w) \subseteq rows' /\ Whole(w)
    BY <2>1, CommitFacts
  <2> QED BY <2>1, <2>2, WhoDraws, WholeOutput
<1> QED BY <1>1, <1>2

LEMMA HasReportStep ==
  ASSUME Typed, InOrder, HasReport, [Next]_vars PROVE HasReport'
<1> SUFFICES ASSUME review' = "done"
             PROVE  \E f \in rows' : f.kind = "report" /\ (f.by = Before \/ SlidesOf(f.by) \subseteq rows')
  BY DEF HasReport, SlidesOf
<1>1. CASE review = "done"
  <2>1. PICK f \in rows : f.kind = "report" /\ (f.by = Before \/ SlidesOf(f.by) \subseteq rows)
    BY <1>1 DEF HasReport
  <2>2. rows' # {}
    <3>1. ASSUME NEW w \in Writers, Moved(w) \/ SaveFile(w) \/ SaveFails(w) PROVE f \in rows'
      BY <3>1 DEF Moved, SaveFile, Saves, SaveFails
    <3>2. ASSUME NEW w \in Writers, Commits(w) PROVE f \in rows'
      BY <2>1, <3>2, CommitFacts DEF Corrected
    <3>3. ASSUME Deletes \/ Rests PROVE f \in rows'
      BY <3>3, DeleteFacts, RestFacts
    <3> QED BY <3>1, <3>2, <3>3, Steps
  <2>3. \A g \in SlidesOf(f.by) : g.kind = "slide"
    BY DEF SlidesOf, File
  <2> QED BY <2>1, <2>2, <2>3, RowsStay
<1>2. CASE review # "done"
  <2>1. ASSUME NEW w \in Writers, Moved(w) \/ SaveFile(w) \/ SaveFails(w) PROVE FALSE
    BY <1>2, <2>1 DEF Moved, SaveFile, Saves, SaveFails
  <2>2. ASSUME Deletes \/ Rests PROVE FALSE
    BY <1>2, <2>2, DeleteFacts, RestFacts
  <2>3. PICK w \in Writers : Commits(w)
    BY <2>1, <2>2, Steps
  <2>4. w \in Runs /\ Written(w) \subseteq rows' /\ At(w, "saving") /\ Whole(w)
    BY <1>2, <2>3, CommitFacts DEF Writers
  <2> QED BY <2>4, WholeOutput
<1> QED BY <1>1, <1>2

LEMMA LeftoversStep ==
  ASSUME Typed, InOrder, OneCorrected, StaysAway, LeftoversAreExplained, [Next]_vars
  PROVE  LeftoversAreExplained'
<1> DEFINE Explained(f) ==
      \/ \E w \in Writers : f \in Written(w)
      \/ f.kind = "fixed" /\ \E g \in Corrected(rows) : g.by = f.by /\ g.version # f.version
      \/ review = "deleted" /\ (f.kind = "fixed" \/ f \notin deletion.doomed)
<1>0. \A f \in disk \ rows : Explained(f)
  BY DEF LeftoversAreExplained
<1>a. SUFFICES ASSUME NEW f \in disk' \ rows' PROVE Explained(f)'
  BY DEF LeftoversAreExplained
<1>1. ASSUME NEW w \in Writers, Moved(w) PROVE Explained(f)'
  <2>1. \A v \in Writers : Written(v)' = Written(v)
    BY <1>1, MoveFacts DEF Elsewhere, Written
  <2> QED BY ZenonT(30), <1>0, <1>1, <2>1, StaysDeleted DEF Moved, Corrected
<1>2. ASSUME NEW w \in Writers, SaveFile(w) \/ SaveFails(w) PROVE Explained(f)'
  <2>1. rows' = rows /\ deletion' = deletion
    BY <1>2 DEF SaveFile, Saves, SaveFails
  <2>2. \A v \in Writers : Written(v) \subseteq Written(v)'
    BY <1>2, WriterSaves, WriterFails DEF Elsewhere, Written
  <2>3. f \in disk \/ f \in Written(w)'
    BY <1>2, WriterSaves, WriterFails DEF SaveFile, Saves
  <2>4. CASE f \in disk
    BY <1>0, <2>1, <2>2, <2>4, StaysDeleted DEF Corrected
  <2> QED BY <2>3, <2>4
<1>3. ASSUME NEW w \in Writers, Commits(w) PROVE Explained(f)'
  <2>1. /\ At(w, "saving") /\ review # "deleted" /\ Elsewhere(w) /\ disk' = disk
        /\ rows' = (rows \ IF Corrected(Written(w)) = {} THEN {} ELSE Corrected(rows)) \cup Written(w)
        /\ Written(w) \subseteq Files
    BY <1>3, CommitFacts
  <2>2. f \notin Written(w)
    BY <2>1
  <2>3. ASSUME NEW v \in Writers, f \in Written(v) PROVE Explained(f)'
    BY <2>1, <2>2, <2>3 DEF Elsewhere, Written
  <2>4. ASSUME f.kind = "fixed", NEW g \in Corrected(rows), g.by = f.by, g \in rows' => g.version # f.version
        PROVE  Explained(f)'
    <3>1. CASE g \in rows'
      BY <2>4, <3>1 DEF Corrected
    <3>2. CASE g \notin rows'
      <4>0. g \in rows /\ Corrected(Written(w)) # {}
        BY <2>1, <2>4, <3>2 DEF Corrected
      <4>1. PICK h \in Corrected(Written(w)) : TRUE
        BY <4>0
      <4>2. h.by = f.by
        BY <2>1, <2>4, <4>1 DEF OneCorrected
      <4>3. h \in rows' /\ h.kind = "fixed" /\ h \in Files /\ f \in Files
        BY <2>1, <4>1 DEF Corrected, Typed
      <4>4. h # f
        BY <2>2, <4>1 DEF Corrected
      <4>5. h.version # f.version
        BY <2>4, <4>2, <4>3, <4>4 DEF Files
      <4> QED BY <2>4, <4>2, <4>3, <4>5 DEF Corrected
    <3> QED BY <3>1, <3>2
  <2>5. CASE f \in rows
    <3>1. f \in Corrected(rows) /\ f.kind = "fixed"
      BY <2>1, <2>5 DEF Corrected
    <3> QED BY <2>4, <3>1
  <2>6. CASE f \notin rows
    <3>1. Explained(f)
      BY <1>0, <2>1, <2>6
    <3> QED BY <2>1, <2>3, <2>4, <3>1
  <2> QED BY <2>5, <2>6
<1>4. CASE CommitDelete
  <2>1. /\ disk' = disk /\ deletion.at = "flushed" /\ deletion.left = {} /\ review' = "deleted"
        /\ deletion'.doomed = deletion.doomed
    BY <1>4 DEF CommitDelete, Typed
  <2>2. f.kind = "fixed" \/ f \notin deletion.doomed
    BY <2>1 DEF StaysAway, Unlinked
  <2> QED BY <2>1, <2>2
<1>5. CASE (Deletes \/ Rests) /\ ~ CommitDelete
  <2>1. /\ disk' \subseteq disk /\ rows' = rows /\ review' = review
        /\ \A v \in Writers : Written(v)' = Written(v)
        /\ review = "deleted" => deletion'.doomed = deletion.doomed
    BY <1>5, DeleteFacts, RestFacts DEF StartDelete, Stored, Written
  <2> QED BY <1>0, <2>1 DEF Corrected
<1> QED BY <1>1, <1>2, <1>3, <1>4, <1>5, Steps

(***************************************************************************)
(* The theorems.                                                           *)
(***************************************************************************)
\* The files of an upload, or of a review from before slides were stored.
LEMMA InitFiles == Init => FilesInv
<1> SUFFICES ASSUME Init PROVE FilesInv
  OBVIOUS
<1>1. writer \in [Writers -> [at : {"idle"}, new : {{}}, read : {{}}]]
  BY DEF Init
<1>2. \A w \in Writers : At(w, "idle") /\ ~ At(w, "saving") /\ Written(w) = {} /\ writer[w].read = {}
  BY <1>1 DEF At, Written
<1>3. \A f \in rows : /\ f \in Files /\ f.by = Before
                      /\ f.kind \in {"deck", "fixed", "report"} /\ review = "done"
  BY DEF Init, File, Files, Kinds
<1>4. rows \subseteq Files /\ disk = rows /\ deletion.doomed = {} /\ deletion.at = "idle"
  BY <1>3 DEF Init
<1>5. Typed
  <2>1. deletion \in [at : {"idle", "unlinking", "flushed"}, tries : 0..MaxDeletes, doomed : SUBSET Files,
                      left : SUBSET Files, lost : SUBSET Files] /\ deletion.left = {}
    BY DEF Init
  <2>2. writer \in [Writers -> [at : Places, new : SUBSET Files, read : SUBSET Files]]
    BY <1>1 DEF Places
  <2> HIDE DEF Files
  <2> QED BY <1>2, <1>4, <2>1, <2>2 DEF Typed, Init
<1>6. InOrder /\ AllCovered /\ StaysAway /\ OneCorrected
  BY <1>2, <1>3, <1>4 DEF InOrder, AllCovered, Covered, StaysAway, OneCorrected, Corrected
<1>7. Committed /\ WholeSets /\ LeftoversAreExplained
  BY <1>3, <1>4 DEF Committed, WholeSets, Images, LeftoversAreExplained
<1>8. InTurn
  <2>1. Upload \in Writers /\ Runs \cup Readers \subseteq Writers
    BY DEF Writers
  <2> QED BY <1>2, <1>3, <2>1 DEF InTurn
<1>9. HasReport
  <2>1. review = "done" => File("report", 1, Before, 1) \in rows
    BY DEF Init
  <2> QED BY <2>1 DEF HasReport, File
<1> QED BY <1>5, <1>6, <1>7, <1>8, <1>9 DEF FilesInv

LEMMA FilesStep == FilesInv /\ [Next]_vars => FilesInv'
BY TypedStep, InOrderStep, InTurnStep, CommittedStep, AllCoveredStep, StaysAwayStep,
   OneCorrectedStep, WholeSetsStep, HasReportStep, LeftoversStep
DEF FilesInv

LEMMA FilesInvariant == Spec => []FilesInv
BY InitFiles, FilesStep, PTL DEF Spec

\* The types of the variables of ReviewFiles.
THEOREM TypeCorrect == Spec => []TypeOK
<1>1. FilesInv => TypeOK
  <2> SUFFICES ASSUME FilesInv PROVE TypeOK
    OBVIOUS
  <2>1. \A f \in rows \cup disk :
          /\ f.kind \in {"deck", "audio", "slide", "fixed", "report"}
          /\ f.by \in Writers \cup {Before} /\ {f.num, f.version} \subseteq Nat \ {0}
    BY DEF FilesInv, Typed, Files, Kinds
  <2>2. \A w \in Writers : writer[w].at \in Places
    BY DEF FilesInv, Typed
  <2> QED BY <2>1, <2>2 DEF FilesInv, Typed, TypeOK, Places
<1> QED BY <1>1, FilesInvariant, PTL

\* Every row names a file that is there, unless a deletion of the review has
\* unlinked it and is at work still or has failed since.
THEOREM EveryRowHasItsFile == Spec => []RowsHaveTheirFiles
<1>1. FilesInv => RowsHaveTheirFiles
  BY DEF FilesInv, Typed, AllCovered, Covered, RowsHaveTheirFiles
<1> QED BY <1>1, FilesInvariant, PTL

\* A file that no row names is the work of a writer still at it or failed, a
\* version of the corrected deck, or came after the deletion had read the rows.
THEOREM EveryLeftoverIsExplained == Spec => []LeftoversAreExplained
<1>1. FilesInv => LeftoversAreExplained
  BY DEF FilesInv
<1> QED BY <1>1, FilesInvariant, PTL

\* A set of slides has as many as the deck.
LEMMA SlidesCount ==
  ASSUME NEW w
  PROVE  IsFiniteSet(SlidesOf(w)) /\ Cardinality(SlidesOf(w)) = NSlides
<1> DEFINE f == [i \in 1..NSlides |-> File("slide", i, w, 1)]
<1>1. f \in Bijection(1..NSlides, SlidesOf(w))
  <2>1. \A i \in 1..NSlides : f[i] \in SlidesOf(w) /\ f[i].num = i
    BY DEF SlidesOf, File
  <2>2. f \in [1..NSlides -> SlidesOf(w)]
    BY <2>1
  <2>3. \A i, j \in 1..NSlides : f[i] = f[j] => i = j
    BY <2>1
  <2>4. \A s \in SlidesOf(w) : \E i \in 1..NSlides : f[i] = s
    BY DEF SlidesOf
  <2> QED BY <2>2, <2>3, <2>4, Fun_IsBij
<1>2. IsFiniteSet(1..NSlides) /\ Cardinality(1..NSlides) = NSlides
  BY FS_Interval
<1>3. ExistsBijection(1..NSlides, SlidesOf(w))
  BY <1>1 DEF ExistsBijection
<1> QED BY <1>2, <1>3, FS_Bijection

\* A review that is done has a report, and all the slides of the delivery that
\* wrote it; sets of slides are whole, and never both of deliveries and of
\* readers.
THEOREM EveryReportIsWhole == Spec => []ReportIsWhole
<1>1. FilesInv => ReportIsWhole
  <2> SUFFICES ASSUME FilesInv PROVE ReportIsWhole
    OBVIOUS
  <2> DEFINE renderers == {f.by : f \in Images(rows)}
  <2>1. ASSUME NEW w \in renderers PROVE Cardinality({f \in Images(rows) : f.by = w}) = NSlides
    <3>1. \A f \in Images(rows) : f \in SlidesOf(f.by) /\ SlidesOf(f.by) \subseteq rows
      BY DEF FilesInv, WholeSets
    <3>2. \A f \in SlidesOf(w) : f.kind = "slide" /\ f.by = w
      BY DEF SlidesOf, File
    <3>3. {f \in Images(rows) : f.by = w} = SlidesOf(w)
      BY <3>1, <3>2 DEF Images
    <3> QED BY <3>3, SlidesCount
  <2>2. review = "done" => \E f \in rows : f.kind = "report" /\ f.by \in renderers \cup {Before}
    BY SomeSlide DEF FilesInv, HasReport
  <2>3. renderers \subseteq Runs \/ renderers \subseteq Readers
    <3>1. ASSUME NEW v \in renderers, NEW w \in renderers, v \in Runs, w \in Readers PROVE FALSE
      <4>1. \A f \in Images(rows) : f.by # Before => writer[f.by].at \in {"ended", "over", "cut off"}
        BY DEF FilesInv, Committed, Images
      <4>2. ~ At(v, "idle") /\ ~ At(w, "idle")
        BY <3>1, <4>1, SortsDiffer DEF At, Writers
      <4> QED BY <3>1, <4>2 DEF FilesInv, InTurn, At
    <3>2. renderers \subseteq Runs \cup Readers
      BY DEF FilesInv, WholeSets
    <3> QED BY <3>1, <3>2
  <2> QED BY <2>1, <2>2, <2>3 DEF ReportIsWhole
<1> QED BY <1>1, FilesInvariant, PTL
===============================================================================
