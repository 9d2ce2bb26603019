--------------------------- MODULE RehearsalsProofs ---------------------------
(***************************************************************************)
(* What holds of Rehearsals for any number of attempts, starts of a job    *)
(* and faults: attempts are numbered in the order of their uploads and     *)
(* compared with earlier ones, a listed attempt has its recording, and a   *)
(* recording without a row is explained.                                   *)
(***************************************************************************)
EXTENDS Rehearsals, FiniteSetTheorems, FunctionTheorems, WellFoundedInduction, TLAPS

(***************************************************************************)
(* Finite sets of numbers have a greatest element.                         *)
(***************************************************************************)
HasGreatest(S) == \E x \in S : \A y \in S : y <= x

\* Take a smallest set without one, and one element away from it.
LEMMA GreatestExists ==
  ASSUME NEW S \in SUBSET Nat, IsFiniteSet(S), S # {}
  PROVE  HasGreatest(S)
<1> DEFINE Bad == {U \in SUBSET S : U # {} /\ ~HasGreatest(U)}
           Sizes == {Cardinality(U) : U \in Bad}
<1>1. \A U \in SUBSET S : IsFiniteSet(U) /\ Cardinality(U) \in Nat
  BY FS_Subset, FS_CardinalityType
<1>2. SUFFICES ASSUME Bad # {} PROVE FALSE
  OBVIOUS
<1>3. Sizes \subseteq Nat /\ Sizes # {}
  BY <1>1, <1>2
<1>4. PICK n \in Sizes : \A m \in Sizes : <<m, n>> \notin OpToRel(<, Nat)
  <2> HIDE DEF Sizes
  <2> QED BY <1>3, WFMin, NatLessThanWellFounded, Zenon
<1>5. \A m \in Sizes : ~(m < n)
  <2> HIDE DEF Sizes
  <2> QED BY <1>3, <1>4, Zenon DEF OpToRel
<1>6. PICK U \in Bad : Cardinality(U) = n
  OBVIOUS
<1>7. PICK x \in U : TRUE
  BY <1>6
<1> DEFINE V == U \ {x}
<1>8. Cardinality(V) \in Nat /\ Cardinality(V) < n /\ V \in SUBSET S
  BY <1>1, <1>6, <1>7, FS_RemoveElement, FS_CardinalityType
<1>9. V \notin Bad
  BY <1>5, <1>8
<1>10. V = {} \/ HasGreatest(V)
  BY <1>8, <1>9
<1>11. HasGreatest(U)
  <2>1. CASE V = {}
    BY <1>7, <2>1 DEF HasGreatest
  <2>2. CASE HasGreatest(V)
    <3>1. PICK y \in V : \A z \in V : z <= y
      BY <2>2 DEF HasGreatest
    <3>2. U \subseteq Nat /\ x \in Nat /\ y \in Nat
      BY <1>6, <1>7, <3>1
    <3>3. CASE x <= y
      BY <3>1, <3>2, <3>3 DEF HasGreatest
    <3>4. CASE y <= x
      <4>1. \A z \in U : z <= x
        BY <3>1, <3>2, <3>4
      <4> QED BY <1>7, <4>1 DEF HasGreatest
    <3> QED BY <3>2, <3>3, <3>4
  <2> QED BY <1>10, <2>1, <2>2
<1> QED BY <1>6, <1>11

\* The values of a function on a finite set are finitely many.
LEMMA FiniteValues ==
  ASSUME NEW G, IsFiniteSet(G), NEW f
  PROVE  IsFiniteSet({f[g] : g \in G})
<1> DEFINE V == {f[g] : g \in G}
           onG == [g \in G |-> f[g]]
<1>1. onG \in Surjection(G, V)
  BY DEF Surjection
<1> QED BY <1>1, FS_Surjection

LEMMA MaxIsGreatest ==
  ASSUME NEW S \in SUBSET Nat, IsFiniteSet(S), S # {}
  PROVE  Max(S) \in S /\ \A y \in S : y <= Max(S)
<1>1. \E x \in S : \A y \in S : x >= y
  BY GreatestExists DEF HasGreatest
<1> QED BY <1>1 DEF Max

(***************************************************************************)
(* Steps.                                                                  *)
(***************************************************************************)
\* Steps that touch neither an upload, a recording nor a deletion, and list or
\* unlist no attempt: the job and the page.
Quiet ==
  /\ UNCHANGED <<upload, audio, deletions>>
  /\ Listed' = Listed

LEMMA JobsAreQuiet ==
  ASSUME TypeOK, NEW h \in Attempts,
         JobStep(h) \/ JobTimeout(h) \/ Poll(h) \/ WorkerStops
  PROVE  Quiet
<1> USE DEF Quiet, Listed, TypeOK
<1>1. CASE StartJob(h)
  BY <1>1 DEF StartJob, deletions, upload
<1>2. CASE GiveUpJob(h) \/ Listen(h) \/ StoreFails(h) \/ FinishJob(h) \/ JobTimeout(h) \/ WorkerStops
  BY <1>2 DEF GiveUpJob, Listen, StoreFails, FinishJob, JobTimeout, WorkerStops, deletions, upload
<1>3. CASE Analyze(h)
  BY <1>2, <1>3 DEF Analyze, deletions, upload
<1>4. CASE StoreResult(h)
  BY <1>4 DEF StoreResult, deletions, upload
<1>5. CASE Poll(h)
  BY <1>5 DEF Poll, deletions, upload
<1> QED BY <1>1, <1>2, <1>3, <1>4, <1>5 DEF JobStep

\* The steps of an upload, and the two deletions.
LEMMA StepCases ==
  ASSUME TypeOK, [Next]_vars
  PROVE  \/ Quiet
         \/ \E h \in Attempts :
              \/ TakeNumber(h) \/ RefuseUpload(h) \/ SaveAttempt(h) \/ EnqueueJob(h)
              \/ CommitAttempt(h) \/ UploadFails(h) \/ UnlinkAudio(h) \/ CommitRemoval(h)
              \/ PurgeAudio(h)
         \/ StartPurge \/ FlushPurge \/ CommitPurge \/ PurgeFails
<1>1. CASE UNCHANGED vars
  BY <1>1 DEF vars, Quiet, Listed, deletions, upload, work
<1>2. CASE WorkerStops
  BY <1>2, JobsAreQuiet DEF WorkerStops
<1>3. ASSUME NEW h \in Attempts, AttemptStep(h)
      PROVE  \/ Quiet
             \/ TakeNumber(h) \/ RefuseUpload(h) \/ SaveAttempt(h) \/ EnqueueJob(h)
             \/ CommitAttempt(h) \/ UploadFails(h) \/ UnlinkAudio(h) \/ CommitRemoval(h)
  BY <1>3, JobsAreQuiet DEF AttemptStep, UploadStep
<1> QED BY <1>1, <1>2, <1>3 DEF Next

(***************************************************************************)
(* Types.                                                                  *)
(***************************************************************************)
\* The highest number of the listed attempts is a number.
LEMMA HighestNumber ==
  ASSUME TypeOK
  PROVE  LET highest == Max({num[g] : g \in Listed} \cup {0})
         IN  highest \in Nat /\ \A g \in Listed : num[g] <= highest
<1> DEFINE S == {num[g] : g \in Listed} \cup {0}
<1>1. IsFiniteSet(Listed)
  BY RehearsalAssumption, FS_Subset DEF Listed
<1>2. IsFiniteSet({num[g] : g \in Listed})
  BY <1>1, FiniteValues
<1>3. IsFiniteSet(S)
  BY <1>2, FS_AddElement
<1>4. S \in SUBSET Nat /\ S # {}
  BY DEF TypeOK, Listed
<1>5. Max(S) \in S /\ \A y \in S : y <= Max(S)
  BY <1>3, <1>4, MaxIsGreatest
<1> QED BY <1>4, <1>5

LEMMA TypeOKInit == Init => TypeOK
  BY RehearsalAssumption DEF Init, TypeOK

LEMMA TypeOKStep == TypeOK /\ [Next]_vars => TypeOK'
<1> SUFFICES ASSUME TypeOK, [Next]_vars PROVE TypeOK'
  OBVIOUS
<1> USE DEF TypeOK, Advance, Proceed, Listed, Running, Outcomes, upload, deletions, work
<1>1. CASE UNCHANGED vars
  BY <1>1 DEF vars
<1>2. ASSUME NEW h \in Attempts, TakeNumber(h) PROVE TypeOK'
  <2> DEFINE highest == Max({num[g] : g \in Listed} \cup {0})
  <2>1. highest \in Nat
    <3> HIDE DEF TypeOK, Listed
    <3> QED BY HighestNumber
  <2> HIDE DEF highest
  <2>2. num' = [num EXCEPT ![h] = highest + 1]
    BY <1>2 DEF TakeNumber, highest
  <2> QED BY <1>2, <2>1, <2>2 DEF TakeNumber
<1>3. ASSUME NEW h \in Attempts,
             RefuseUpload(h) \/ SaveAttempt(h) \/ EnqueueJob(h) \/ CommitAttempt(h) \/ UploadFails(h)
      PROVE  TypeOK'
  BY <1>3 DEF RefuseUpload, SaveAttempt, EnqueueJob, CommitAttempt, UploadFails
<1>4. ASSUME NEW h \in Attempts, UnlinkAudio(h) \/ CommitRemoval(h) PROVE TypeOK'
  BY <1>4 DEF UnlinkAudio, CommitRemoval
<1>5. ASSUME NEW h \in Attempts, StartJob(h) \/ GiveUpJob(h) PROVE TypeOK'
  BY <1>5, RehearsalAssumption DEF StartJob, GiveUpJob
<1>6. ASSUME NEW h \in Attempts,
             Analyze(h) \/ StoreResult(h) \/ StoreFails(h) \/ FinishJob(h) \/ JobTimeout(h) \/ Poll(h)
      PROVE  TypeOK'
  BY <1>6 DEF Analyze, Listen, StoreResult, StoreFails, FinishJob, JobTimeout, Poll
<1>7. CASE (\E h \in Attempts : PurgeAudio(h)) \/ StartPurge \/ FlushPurge \/ CommitPurge \/ PurgeFails
  <2>1. ASSUME NEW h \in Attempts, PurgeAudio(h) PROVE TypeOK'
    BY <2>1 DEF PurgeAudio
  <2>2. CASE StartPurge \/ CommitPurge
    BY <2>2 DEF StartPurge, CommitPurge
  <2>3. CASE FlushPurge \/ PurgeFails
    BY <2>3 DEF FlushPurge, PurgeFails
  <2> QED BY <1>7, <2>1, <2>2, <2>3
<1>8. CASE WorkerStops
  BY <1>8 DEF WorkerStops
<1> QED
  BY <1>1, <1>2, <1>3, <1>4, <1>5, <1>6, <1>7, <1>8 DEF Next, AttemptStep, UploadStep, JobStep

\* The types of the variables of Rehearsals.
THEOREM TypeCorrect == Spec => []TypeOK
  BY TypeOKInit, TypeOKStep, PTL DEF Spec

(***************************************************************************)
(* The invariant.                                                          *)
(***************************************************************************)
\* Only the upload that was accepted is listed, or in the hands of a deletion,
\* and an upload whose recording was written keeps it until it is.
UploadsAreWhole ==
  \A h \in Attempts :
    /\ h \in Listed \cup removal \cup purge.rows => request[h] = "accepted"
    /\ request[h] \in {"saved", "enqueued"} => h \in audio

\* What a deletion has unlinked stays unlinked until it commits.
UnlinkedIsGone ==
  /\ audio \cap removal = {}
  /\ purge.at \in {"unlinking", "deleting"} => audio \cap (purge.rows \ purge.left) = {}
  /\ purge.at = "deleting" => purge.left = {}
  /\ purge.left \subseteq purge.rows
  /\ review = "gone" => purge.at = "over"

\* The attempts that h was numbered after were accepted, with lower numbers.
EarlierAreLower ==
  \A h \in Attempts : \A g \in before[h] : request[g] = "accepted" /\ num[g] < num[h]

FileInv == UploadsAreWhole /\ UnlinkedIsGone /\ AudioIsKept /\ OrphansAreExplained

LEMMA FileInvInit == Init => FileInv
  BY DEF Init, FileInv, UploadsAreWhole, UnlinkedIsGone, AudioIsKept, OrphansAreExplained, Listed

LEMMA FileInvStep ==
  TypeOK /\ FileInv /\ [Next]_vars => FileInv'
<1> SUFFICES ASSUME TypeOK, FileInv, [Next]_vars PROVE FileInv'
  OBVIOUS
<1> USE DEF FileInv, UploadsAreWhole, UnlinkedIsGone, AudioIsKept, OrphansAreExplained
<1>1. CASE Quiet
  BY <1>1 DEF Quiet, upload, deletions
<1> USE DEF TypeOK, Listed, upload, deletions, Advance
<1>2. ASSUME NEW h \in Attempts, TakeNumber(h) \/ RefuseUpload(h) \/ UploadFails(h) PROVE FileInv'
  BY <1>2 DEF TakeNumber, RefuseUpload, UploadFails
<1>3. ASSUME NEW h \in Attempts, SaveAttempt(h) PROVE FileInv'
  BY <1>3 DEF SaveAttempt
<1>4. ASSUME NEW h \in Attempts, EnqueueJob(h) \/ CommitAttempt(h) PROVE FileInv'
  BY <1>4 DEF EnqueueJob, CommitAttempt
<1>5. ASSUME NEW h \in Attempts, UnlinkAudio(h) \/ CommitRemoval(h) PROVE FileInv'
  BY <1>5 DEF UnlinkAudio, CommitRemoval
<1>6. CASE (\E h \in Attempts : PurgeAudio(h)) \/ StartPurge \/ FlushPurge \/ PurgeFails
  <2>1. ASSUME NEW h \in Attempts, PurgeAudio(h) PROVE FileInv'
    <3>1. /\ purge'.at = "unlinking" /\ purge.at = "unlinking" /\ purge'.rows = purge.rows
          /\ purge'.left = purge.left \ {h} /\ audio' = audio \ {h} /\ h \in purge.left
          /\ UNCHANGED <<review, removal, request, status>>
      BY <2>1 DEF PurgeAudio
    <3>2. h \in purge.rows
      BY <3>1
    <3> QED BY <3>1, <3>2
  <2>2. CASE StartPurge
    BY <2>2 DEF StartPurge
  <2>3. CASE FlushPurge \/ PurgeFails
    BY <2>3 DEF FlushPurge, PurgeFails
  <2> QED BY <1>6, <2>1, <2>2, <2>3
<1>7. CASE CommitPurge
  BY <1>7 DEF CommitPurge
<1> QED
  BY <1>1, <1>2, <1>3, <1>4, <1>5, <1>6, <1>7, StepCases

LEMMA FilesCorrect == Spec => [](TypeOK /\ FileInv)
  BY TypeOKInit, TypeOKStep, FileInvInit, FileInvStep, PTL DEF Spec

\* An attempt that is listed can be played, unless somebody has begun to delete
\* it or its review (get_rehearsal_audio beside both deletions).
THEOREM ListedIsPlayable == Spec => []AudioIsKept
  BY FilesCorrect, PTL DEF FileInv

\* Deletions leave no recording behind but that of an upload they never read
\* (delete_rehearsal, delete_review).
THEOREM NoUnexplainedOrphans == Spec => []OrphansAreExplained
  BY FilesCorrect, PTL DEF FileInv

(***************************************************************************)
(* Numbers and the delta.                                                  *)
(***************************************************************************)
LEMMA EarlierAreLowerStep ==
  TypeOK /\ FileInv /\ EarlierAreLower /\ [Next]_vars => EarlierAreLower'
<1> SUFFICES ASSUME TypeOK, FileInv, EarlierAreLower, [Next]_vars PROVE EarlierAreLower'
  OBVIOUS
<1> USE DEF EarlierAreLower
<1>1. CASE Quiet
  BY <1>1 DEF Quiet, upload
<1>2. ASSUME NEW h \in Attempts, TakeNumber(h) PROVE EarlierAreLower'
  <2> DEFINE highest == Max({num[g] : g \in Listed} \cup {0})
  <2>1. highest \in Nat /\ \A g \in Listed : num[g] <= highest
    BY HighestNumber
  <2>2. \A g \in Listed : request[g] = "accepted" /\ g # h
    BY <1>2 DEF FileInv, UploadsAreWhole, TakeNumber, Listed
  <2>3. \A k \in Attempts : h \notin before[k]
    BY <1>2 DEF TakeNumber
  <2> HIDE DEF highest
  <2>4. /\ num' = [num EXCEPT ![h] = highest + 1]
        /\ before' = [before EXCEPT ![h] = Listed]
        /\ request' = [request EXCEPT ![h] = "numbered"]
    BY <1>2 DEF TakeNumber, Advance, highest
  <2> QED BY <2>1, <2>2, <2>3, <2>4 DEF TypeOK, Listed
<1>3. ASSUME NEW h \in Attempts,
             RefuseUpload(h) \/ SaveAttempt(h) \/ EnqueueJob(h) \/ CommitAttempt(h) \/ UploadFails(h)
      PROVE  EarlierAreLower'
  BY <1>3 DEF RefuseUpload, SaveAttempt, EnqueueJob, CommitAttempt, UploadFails, Advance, TypeOK
<1>4. ASSUME NEW h \in Attempts, UnlinkAudio(h) \/ CommitRemoval(h) PROVE EarlierAreLower'
  BY <1>4 DEF UnlinkAudio, CommitRemoval, upload
<1>5. CASE (\E h \in Attempts : PurgeAudio(h)) \/ StartPurge \/ FlushPurge \/ CommitPurge \/ PurgeFails
  BY <1>5 DEF StartPurge, PurgeAudio, FlushPurge, CommitPurge, PurgeFails, upload
<1> QED
  BY <1>1, <1>2, <1>3, <1>4, <1>5, StepCases

LEMMA NumbersCorrect == Spec => [](TypeOK /\ EarlierAreLower)
<1>1. Init => EarlierAreLower
  BY DEF Init, EarlierAreLower
<1> QED
  BY <1>1, FilesCorrect, EarlierAreLowerStep, PTL DEF Spec

\* An attempt has a higher number than all that were listed when it was
\* uploaded, whatever has been deleted since (create_rehearsal).
THEOREM NumbersGrow == Spec => []NumbersFollowUploads
<1>1. EarlierAreLower => NumbersFollowUploads
  BY DEF EarlierAreLower, NumbersFollowUploads, Listed
<1> QED
  BY <1>1, NumbersCorrect, PTL

\* The delta of a finished attempt is taken against an earlier one if there is
\* a finished one, and never against a later one (get_rehearsal_report).
THEOREM DeltaIsAgainstThePast == Spec => []DeltaLooksBack
<1>1. ASSUME TypeOK, EarlierAreLower PROVE DeltaLooksBack
  <2> SUFFICES ASSUME NEW h \in Done, NEW g \in Done \cap before[h]
               PROVE  ComparedWith(h) # {} /\ h \notin ComparedWith(g)
    BY DEF DeltaLooksBack
  <2> DEFINE lower == {k \in Done : num[k] < num[h]}
             numbers == {num[k] : k \in lower}
  <2>1. Done \subseteq Attempts /\ \A k \in Attempts : num[k] \in Nat
    BY <1>1 DEF Done, TypeOK
  <2>2. num[g] < num[h]
    BY <1>1, <2>1 DEF EarlierAreLower
  <2>3. IsFiniteSet(lower)
    BY <2>1, RehearsalAssumption, FS_Subset
  <2>4. IsFiniteSet(numbers)
    <3> HIDE DEF lower
    <3> QED BY <2>3, FiniteValues
  <2>5. numbers \in SUBSET Nat /\ numbers # {}
    BY <2>1, <2>2
  <2>6. HasGreatest(numbers)
    <3> HIDE DEF numbers
    <3> QED BY <2>4, <2>5, GreatestExists
  <2>7. PICK k \in lower : \A m \in lower : num[m] <= num[k]
    BY <2>6 DEF HasGreatest
  <2>8. k \in ComparedWith(h)
    BY <2>7 DEF ComparedWith
  <2>9. h \notin ComparedWith(g)
    BY <2>1, <2>2 DEF ComparedWith
  <2> QED BY <2>8, <2>9
<1> QED
  BY <1>1, NumbersCorrect, PTL

(***************************************************************************)
(* How jobs end.                                                           *)
(***************************************************************************)
\* A job is put into the queue once.
QueuedOnce == \A h \in Attempts : request[h] \in {"idle", "numbered", "saved"} => job[h] = "none"

\* What a job may still do: the runs that it is not started for yet, and the
\* rest of the one under way.
WorkLeft(h) ==
  CASE job[h] \in {"finished", "lost"} -> 0
    [] job[h] = "waiting" -> 5 * (MaxTries - tries[h]) + 1
    [] job[h] = "ended" -> 5 * (MaxTries - tries[h]) + 2
    [] job[h] = "storing" -> 5 * (MaxTries - tries[h]) + 3
    [] OTHER -> 5 * (MaxTries - tries[h]) + 4

\* The job of an attempt only moves towards its end, whatever is deleted beside
\* it and however often the worker stops (process_rehearsal, run by arq).
AttemptsWearOut ==
  [][\A h \in Attempts : job[h] # "none" =>
       (job'[h] = job[h] /\ tries'[h] = tries[h]) \/ WorkLeft(h)' \in 0..(WorkLeft(h) - 1)]_vars

\* There is always a number of steps left.
Counts == \A h \in Attempts : WorkLeft(h) \in Nat

LEMMA WorkIsCounted == TypeOK => Counts
<1> SUFFICES ASSUME TypeOK, NEW h \in Attempts PROVE WorkLeft(h) \in Nat
  BY DEF Counts
<1>1. tries[h] \in 0..MaxTries /\ MaxTries \in Nat
  BY RehearsalAssumption DEF TypeOK
<1> QED BY <1>1 DEF WorkLeft

LEMMA QueuedOnceStep == TypeOK /\ QueuedOnce /\ [Next]_vars => QueuedOnce'
<1> SUFFICES ASSUME TypeOK, QueuedOnce, [Next]_vars PROVE QueuedOnce'
  OBVIOUS
<1> USE DEF QueuedOnce, TypeOK, Advance, Proceed, upload, work
<1>1. ASSUME NEW h \in Attempts, TakeNumber(h) \/ RefuseUpload(h) \/ UploadStep(h) \/ UploadFails(h)
      PROVE  QueuedOnce'
  BY <1>1 DEF TakeNumber, RefuseUpload, UploadStep, SaveAttempt, EnqueueJob, CommitAttempt, UploadFails
<1>2. ASSUME NEW h \in Attempts, JobStep(h) \/ JobTimeout(h)
      PROVE  QueuedOnce'
  <2>1. job[h] # "none"
    BY <1>2 DEF JobStep, StartJob, GiveUpJob, Analyze, Listen, StoreResult, StoreFails, FinishJob, JobTimeout,
       Running
  <2>2. request' = request /\ \A k \in Attempts : k # h => job'[k] = job[k]
    BY <1>2 DEF JobStep, StartJob, GiveUpJob, Analyze, Listen, StoreResult, StoreFails, FinishJob, JobTimeout
  <2> QED BY <2>1, <2>2
<1>3. CASE WorkerStops
  BY <1>3 DEF WorkerStops, Running
<1>4. ASSUME UNCHANGED <<request, job>> PROVE QueuedOnce'
  BY <1>4
<1> QED BY <1>1, <1>2, <1>3, <1>4
        DEF Next, AttemptStep, UnlinkAudio, CommitRemoval, Poll, StartPurge, PurgeAudio, FlushPurge,
            CommitPurge, PurgeFails, vars

\* Steps of other attempts, of uploads, deletions and pages.
LEMMA OtherJobs ==
  ASSUME TypeOK, QueuedOnce, [Next]_vars, NEW h \in Attempts, job[h] # "none",
         ~ JobStep(h), ~ JobTimeout(h), ~ WorkerStops
  PROVE  job'[h] = job[h] /\ tries'[h] = tries[h]
<1> USE DEF TypeOK, Proceed, work
<1>1. ASSUME NEW k \in Attempts, EnqueueJob(k) PROVE job'[h] = job[h] /\ tries'[h] = tries[h]
  BY <1>1 DEF EnqueueJob, QueuedOnce
<1>2. ASSUME NEW k \in Attempts, JobStep(k) \/ JobTimeout(k)
      PROVE  job'[h] = job[h] /\ tries'[h] = tries[h]
  <2>1. k # h
    BY <1>2
  <2> QED BY <1>2, <2>1 DEF JobStep, StartJob, GiveUpJob, Analyze, Listen, StoreResult, StoreFails, FinishJob,
             JobTimeout
<1>3. ASSUME UNCHANGED <<job, tries>> PROVE job'[h] = job[h] /\ tries'[h] = tries[h]
  BY <1>3
<1> QED BY <1>1, <1>2, <1>3
        DEF Next, AttemptStep, UploadStep, TakeNumber, RefuseUpload, SaveAttempt, CommitAttempt, UploadFails,
            UnlinkAudio, CommitRemoval, Poll, StartPurge, PurgeAudio, FlushPurge, CommitPurge,
            PurgeFails, vars

LEMMA OwnJob ==
  ASSUME TypeOK, NEW h \in Attempts,
         JobStep(h) \/ JobTimeout(h) \/ (WorkerStops /\ job[h] \in Running)
  PROVE  WorkLeft(h)' < WorkLeft(h)
<1> DEFINE left == MaxTries - tries[h]
<1>1. tries[h] \in Nat /\ MaxTries \in Nat /\ left \in Nat
  BY RehearsalAssumption DEF TypeOK
<1>2. CASE StartJob(h)
  <2>1. /\ job[h] = "waiting" /\ job'[h] \in {"working", "lost"}
        /\ tries'[h] = tries[h] + 1 /\ tries[h] < MaxTries
    BY <1>2 DEF StartJob, Proceed, TypeOK
  <2>2. WorkLeft(h) = 5 * left + 1
    BY <2>1 DEF WorkLeft
  <2>3. WorkLeft(h)' <= 5 * (MaxTries - (tries[h] + 1)) + 4 /\ WorkLeft(h)' \in Int
    BY <1>1, <2>1 DEF WorkLeft
  <2> QED BY <1>1, <2>2, <2>3
<1>3. CASE ~ StartJob(h)
  <2>1. tries'[h] = tries[h]
    BY <1>3 DEF JobStep, JobTimeout, WorkerStops, GiveUpJob, Analyze, Listen, StoreResult, StoreFails, FinishJob
  <2>2. /\ Running = {"working", "storing", "ended"}
        /\ \/ job[h] \in {"waiting", "ended", "working", "storing"} /\ job'[h] \in {"finished", "lost"}
           \/ job[h] = "working" /\ job'[h] = "storing"
           \/ job[h] \in {"working", "storing"} /\ job'[h] = "ended"
           \/ job[h] \in Running /\ job'[h] = "waiting"
    <3>1. CASE WorkerStops /\ job[h] \in Running
      BY <3>1 DEF WorkerStops, Running
    <3>2. CASE JobStep(h) \/ JobTimeout(h)
      BY <1>3, <3>2 DEF JobStep, JobTimeout, GiveUpJob, Analyze, Listen, StoreResult, StoreFails, FinishJob,
         Proceed, Running, TypeOK
    <3> QED BY <3>1, <3>2
  <2>3. /\ job[h] = "waiting" => WorkLeft(h) = 5 * left + 1
        /\ job[h] = "ended" => WorkLeft(h) = 5 * left + 2
        /\ job[h] = "storing" => WorkLeft(h) = 5 * left + 3
        /\ job[h] = "working" => WorkLeft(h) = 5 * left + 4
    BY DEF WorkLeft
  <2>4. /\ job'[h] \in {"finished", "lost"} => WorkLeft(h)' = 0
        /\ job'[h] = "waiting" => WorkLeft(h)' = 5 * left + 1
        /\ job'[h] = "ended" => WorkLeft(h)' = 5 * left + 2
        /\ job'[h] = "storing" => WorkLeft(h)' = 5 * left + 3
    BY <2>1 DEF WorkLeft
  <2> HIDE DEF left
  <2> QED BY <1>1, <2>2, <2>3, <2>4
<1> QED BY <1>2, <1>3

\* No attempt is listened to for ever, for any number of attempts, tries and
\* faults: its job makes at most five steps a try.
THEOREM AttemptsAlwaysWearOut == Spec => AttemptsWearOut
<1>1. Init => QueuedOnce
  BY DEF Init, QueuedOnce
<1>2. ASSUME TypeOK, QueuedOnce, [Next]_vars, NEW h \in Attempts, job[h] # "none"
      PROVE  (job'[h] = job[h] /\ tries'[h] = tries[h]) \/ WorkLeft(h)' < WorkLeft(h)
  <2>1. CASE WorkerStops /\ job[h] \notin Running
    BY <1>2, <2>1 DEF WorkerStops, TypeOK
  <2>2. CASE JobStep(h) \/ JobTimeout(h) \/ (WorkerStops /\ job[h] \in Running)
    BY <1>2, <2>2, OwnJob
  <2>3. CASE ~ JobStep(h) /\ ~ JobTimeout(h) /\ ~ WorkerStops
    BY <1>2, <2>3, OtherJobs
  <2> QED BY <2>1, <2>2, <2>3
<1>3. TypeOK /\ QueuedOnce /\ [Next]_vars =>
        [\A h \in Attempts : job[h] # "none" =>
           (job'[h] = job[h] /\ tries'[h] = tries[h]) \/ WorkLeft(h)' \in 0..(WorkLeft(h) - 1)]_vars
  <2> SUFFICES ASSUME TypeOK, QueuedOnce, [Next]_vars, NEW h \in Attempts, job[h] # "none"
               PROVE  \/ job'[h] = job[h] /\ tries'[h] = tries[h]
                      \/ WorkLeft(h)' \in 0..(WorkLeft(h) - 1)
    OBVIOUS
  <2>1. TypeOK'
    BY TypeOKStep
  <2>2. Counts /\ Counts'
    BY <2>1, WorkIsCounted, PTL
  <2>3. WorkLeft(h) \in Nat /\ WorkLeft(h)' \in Nat
    BY <2>2 DEF Counts
  <2>4. (job'[h] = job[h] /\ tries'[h] = tries[h]) \/ WorkLeft(h)' < WorkLeft(h)
    BY <1>2
  <2> QED BY <2>3, <2>4
<1> QED BY <1>1, <1>3, TypeOKInit, TypeOKStep, QueuedOnceStep, PTL DEF Spec, AttemptsWearOut
===============================================================================
