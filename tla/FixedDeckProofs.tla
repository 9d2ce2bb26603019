--------------------------- MODULE FixedDeckProofs ----------------------------
(***************************************************************************)
(* What holds of FixedDeck for every set of findings, every number of      *)
(* requests that overlap, and all faults: the types, that a deleted review *)
(* stays deleted, that row locks exclude each other and that nobody waits  *)
(* for them in a circle, and that each step of a request brings it nearer  *)
(* to an answer; then what a request that nobody overtakes leaves behind:  *)
(* flags that agree with the deck, a deck that can be downloaded, and the  *)
(* promise of AppliedFixes.                                                *)
(***************************************************************************)
EXTENDS FixedDeck, FiniteSetTheorems, WellFoundedInduction, TLAPS

\* What PptxFixer.fix returns: edits of findings, and flags of findings that it
\* has looked at.
LEMMA FixOutcomesType ==
  ASSUME NEW f \in Findings, NEW s \in SUBSET Findings, NEW o \in FixOutcomes(f, s)
  PROVE  /\ o \in [deck : Decks, on : SUBSET Findings, off : SUBSET Findings]
         /\ o.on \subseteq {f} /\ \A g \in o.on : Edit[g] # NoEdit
<1>1. CASE EditsOf(s) \notin Unsafe
  <2>1. PICK on \in SUBSET {f} : /\ o = [deck |-> EditsOf(s), on |-> on, off |-> {}]
                                 /\ Edit[f] = NoEdit => on = {}
    BY <1>1 DEF FixOutcomes
  <2>2. EditsOf(s) \in Decks
    BY DEF EditsOf, Decks
  <2> QED BY <1>1, <2>1, <2>2
<1>2. CASE EditsOf(s) \in Unsafe
  <2>1. o = [deck |-> {}, on |-> {}, off |-> s \ {f}]
    BY <1>2 DEF FixOutcomes
  <2>2. {} \in Decks
    BY DEF Decks
  <2> QED BY <2>1, <2>2
<1> QED BY <1>1, <1>2

(***************************************************************************)
(* The order of row locks.                                                 *)
(***************************************************************************)
\* Of the rows c those of s come first.
Ordered(s, c) == \A g \in s, w \in c \ s : Key[g] < Key[w]

\* The next row comes after those that are locked and before the others.
LEMMA NextInOrder ==
  ASSUME NEW c \in SUBSET Findings, NEW s \in SUBSET c, Ordered(s, c), NEW g \in NextRow(c \ s)
  PROVE  g \in c \ s /\ Ordered(s \cup {g}, c)
<1> USE FixedDeckAssumption
<1>1. g \in c \ s /\ \A w \in c \ s : Key[g] <= Key[w]
  BY DEF NextRow
<1>2. \A w \in Findings : Key[w] \in Int
  OBVIOUS
<1>3. ASSUME NEW h \in s \cup {g}, NEW w \in c \ (s \cup {g}) PROVE Key[h] < Key[w]
  <2>1. CASE h \in s
    BY <2>1 DEF Ordered
  <2>2. CASE h = g
    <3>1. Key[g] <= Key[w] /\ Key[g] # Key[w]
      BY <1>1
    <3> QED BY <1>1, <1>2, <2>2, <3>1
  <2> QED BY <2>1, <2>2
<1> QED BY <1>1, <1>3 DEF Ordered

(***************************************************************************)
(* The handlers on their own.                                              *)
(***************************************************************************)
\* A handler at work knows its finding, what it writes is what PptxFixer.fix
\* made of the findings it selected, and it locks the rows of changed flags in
\* the order of their keys.
HandlerGood(h) ==
  /\ h \in Handlers
  /\ h.at \notin {"idle", "answered"} => h.finding \in Findings
  /\ h.at \in {"flushing"} \cup Writing => h.outcome \in FixOutcomes(h.finding, h.selected)
  /\ h.at \notin {"flushing"} \cup Writing => h.held = {}
  /\ h.held \subseteq h.outcome.on \cup h.outcome.off
  /\ Ordered(h.held, h.outcome.on \cup h.outcome.off)

HandlersGood == handler \in [Requests -> Handlers] /\ \A q \in Requests : HandlerGood(handler[q])

LEMMA FreshHandlers == HandlerGood(Idle) /\ HandlerGood(Answered)
<1>1. NoOutcome \in [deck : Decks, on : SUBSET Findings, off : SUBSET Findings]
  BY DEF NoOutcome, Decks
<1>2. Idle \in Handlers /\ Answered \in Handlers /\ Idle.held = {} /\ Answered.held = {}
  BY <1>1 DEF Handlers, Idle, Answered, Writing
<1> QED BY <1>2 DEF HandlerGood, Idle, Answered, Writing, Ordered

\* Every action changes at most one handler; the others are as they were.
LEMMA OneHandler ==
  ASSUME HandlersGood, NEW q \in Requests, NEW h, HandlerGood(h),
         handler' = [handler EXCEPT ![q] = h]
  PROVE  HandlersGood'
<1>1. h \in Handlers
  BY DEF HandlerGood
<1>2. handler' \in [Requests -> Handlers]
  BY <1>1 DEF HandlersGood
<1>3. ASSUME NEW p \in Requests PROVE HandlerGood(handler'[p])
  <2>1. handler'[p] = IF p = q THEN h ELSE handler[p]
    BY DEF HandlersGood
  <2> QED BY <2>1 DEF HandlersGood
<1> QED BY <1>2, <1>3 DEF HandlersGood, HandlerGood, Ordered

LEMMA AnswersGood ==
  ASSUME HandlersGood, NEW q \in Requests, Answer(q)
  PROVE  HandlersGood'
BY FreshHandlers, OneHandler DEF Answer

LEMMA LoadsGood ==
  ASSUME HandlersGood, NEW q \in Requests, LoadFinding(q)
  PROVE  HandlersGood'
<1>1. CASE \E f \in Findings :
             handler' = [handler EXCEPT ![q].at = "loaded", ![q].finding = f]
  <2>1. PICK f \in Findings :
          handler' = [handler EXCEPT ![q].at = "loaded", ![q].finding = f]
    BY <1>1
  <2> DEFINE h == [handler[q] EXCEPT !.at = "loaded", !.finding = f]
  <2>2. HandlerGood(handler[q]) /\ handler[q].at = "idle" /\ handler[q] \in Handlers
    BY DEF HandlersGood, HandlerGood, LoadFinding, At
  <2>3. h \in Handlers /\ h.at = "loaded" /\ h.finding = f /\ h.held = handler[q].held
    BY <2>2 DEF Handlers
  <2>4. handler[q].held = {}
    BY <2>2 DEF HandlerGood, Writing
  <2>5. HandlerGood(h)
    BY <2>3, <2>4 DEF HandlerGood, Writing, Ordered
  <2>6. handler' = [handler EXCEPT ![q] = h]
    BY <2>1 DEF HandlersGood, Handlers
  <2> QED BY <2>5, <2>6, OneHandler
<1> QED BY <1>1, AnswersGood DEF LoadFinding

LEMMA ReadsGood ==
  ASSUME HandlersGood, fixed \subseteq Findings, NEW q \in Requests, ReadSiblings(q)
  PROVE  HandlersGood'
<1>1. CASE handler' = [handler EXCEPT ![q].at = "fixing",
                                      ![q].selected = fixed \cup {handler[q].finding}]
  <2> DEFINE h == [handler[q] EXCEPT !.at = "fixing",
                                     !.selected = fixed \cup {handler[q].finding}]
  <2>1. /\ HandlerGood(handler[q]) /\ handler[q] \in Handlers /\ handler[q].at = "loaded"
        /\ handler[q].finding \in Findings
    BY DEF ReadSiblings, At, HandlersGood, HandlerGood
  <2>2. /\ h \in Handlers /\ h.at = "fixing" /\ h.finding = handler[q].finding
        /\ h.held = handler[q].held
    BY <2>1 DEF Handlers
  <2>3. handler[q].held = {}
    BY <2>1 DEF HandlerGood, Writing
  <2>4. HandlerGood(h)
    BY <2>1, <2>2, <2>3 DEF HandlerGood, Writing, Ordered
  <2>5. handler' = [handler EXCEPT ![q] = h]
    BY <1>1 DEF HandlersGood, Handlers
  <2> QED BY <2>4, <2>5, OneHandler
<1> QED BY <1>1, AnswersGood DEF ReadSiblings

LEMMA RebuildsGood ==
  ASSUME HandlersGood, NEW q \in Requests, Rebuild(q)
  PROVE  HandlersGood'
<1>1. PICK o \in FixOutcomes(handler[q].finding, handler[q].selected) :
        handler' = [handler EXCEPT ![q].at = "flushing", ![q].outcome = o]
  BY DEF Rebuild
<1> DEFINE h == [handler[q] EXCEPT !.at = "flushing", !.outcome = o]
<1>2. /\ HandlerGood(handler[q]) /\ handler[q] \in Handlers /\ handler[q].at = "fixing"
      /\ handler[q].finding \in Findings /\ handler[q].selected \in SUBSET Findings
  BY DEF Rebuild, At, HandlersGood, HandlerGood, Handlers
<1>3. o \in [deck : Decks, on : SUBSET Findings, off : SUBSET Findings]
  BY <1>2, FixOutcomesType
<1>4. /\ h \in Handlers /\ h.at = "flushing" /\ h.finding = handler[q].finding
      /\ h.selected = handler[q].selected /\ h.outcome = o /\ h.held = handler[q].held
  BY <1>2, <1>3 DEF Handlers
<1>5. handler[q].held = {}
  BY <1>2 DEF HandlerGood, Writing
<1>6. HandlerGood(h)
  BY <1>2, <1>4, <1>5 DEF HandlerGood, Writing, Ordered
<1>7. handler' = [handler EXCEPT ![q] = h]
  BY <1>1 DEF HandlersGood, Handlers
<1> QED BY <1>6, <1>7, OneHandler

LEMMA FlushesGood ==
  ASSUME HandlersGood, NEW q \in Requests, FlushFlag(q)
  PROVE  HandlersGood'
<1>1. CASE \E g \in NextRow(Changed(q) \ handler[q].held) :
             handler' = [handler EXCEPT ![q].held = @ \cup {g}]
  <2>1. PICK g \in NextRow(Changed(q) \ handler[q].held) :
          handler' = [handler EXCEPT ![q].held = @ \cup {g}]
    BY <1>1
  <2> DEFINE h == [handler[q] EXCEPT !.held = @ \cup {g}]
  <2>2. HandlerGood(handler[q]) /\ handler[q] \in Handlers /\ handler[q].at = "flushing"
    BY DEF FlushFlag, At, HandlersGood, HandlerGood
  <2>3. /\ Changed(q) \in SUBSET Findings
        /\ handler[q].held \in SUBSET Changed(q) /\ Ordered(handler[q].held, Changed(q))
    BY <2>2 DEF HandlerGood, Changed, Handlers
  <2>4. g \in Changed(q) \ handler[q].held /\ Ordered(handler[q].held \cup {g}, Changed(q))
    BY <2>3, NextInOrder
  <2>5. /\ h \in Handlers /\ h.at = "flushing" /\ h.finding = handler[q].finding
        /\ h.selected = handler[q].selected /\ h.outcome = handler[q].outcome
        /\ h.held = handler[q].held \cup {g}
    BY <2>2, <2>3, <2>4 DEF Handlers
  <2>6. HandlerGood(h)
    BY <2>2, <2>3, <2>4, <2>5 DEF HandlerGood, Changed
  <2>7. handler' = [handler EXCEPT ![q] = h]
    BY <2>1 DEF HandlersGood, Handlers
  <2> QED BY <2>6, <2>7, OneHandler
<1> QED BY <1>1, AnswersGood DEF FlushFlag

LEMMA ReadsRowGood ==
  ASSUME HandlersGood, rows \subseteq Paths, NEW q \in Requests, ReadExisting(q)
  PROVE  HandlersGood'
<1>1. CASE \E row \in rows \cup {NoRow} :
             handler' = [handler EXCEPT ![q].at = "read", ![q].base = row]
  <2>1. PICK row \in rows \cup {NoRow} :
          handler' = [handler EXCEPT ![q].at = "read", ![q].base = row]
    BY <1>1
  <2> DEFINE h == [handler[q] EXCEPT !.at = "read", !.base = row]
  <2>2. HandlerGood(handler[q]) /\ handler[q] \in Handlers /\ handler[q].at = "flushing"
    BY DEF ReadExisting, At, HandlersGood, HandlerGood
  <2>3. /\ h \in Handlers /\ h.at = "read" /\ h.finding = handler[q].finding
        /\ h.selected = handler[q].selected /\ h.outcome = handler[q].outcome
        /\ h.held = handler[q].held
    BY <2>2 DEF Handlers, Writing
  <2>4. HandlerGood(h)
    BY <2>2, <2>3 DEF HandlerGood, Writing
  <2>5. handler' = [handler EXCEPT ![q] = h]
    BY <2>1 DEF HandlersGood, Handlers
  <2> QED BY <2>4, <2>5, OneHandler
<1> QED BY <1>1, AnswersGood DEF ReadExisting

LEMMA WritesGood ==
  ASSUME HandlersGood, NEW q \in Requests, OpenFile(q) \/ WriteFile(q)
  PROVE  HandlersGood'
<1>1. PICK where \in Writing : handler' = [handler EXCEPT ![q].at = where]
  BY DEF OpenFile, WriteFile, Writing
<1> DEFINE h == [handler[q] EXCEPT !.at = where]
<1>2. HandlerGood(handler[q]) /\ handler[q] \in Handlers /\ handler[q].at \in Writing
  BY DEF OpenFile, WriteFile, At, Writing, HandlersGood, HandlerGood
<1>3. /\ h \in Handlers /\ h.at = where /\ h.finding = handler[q].finding
      /\ h.selected = handler[q].selected /\ h.outcome = handler[q].outcome
      /\ h.held = handler[q].held
  BY <1>1, <1>2 DEF Handlers
<1>4. HandlerGood(h)
  BY <1>1, <1>2, <1>3 DEF HandlerGood, Writing
<1>5. handler' = [handler EXCEPT ![q] = h]
  BY <1>1 DEF HandlersGood, Handlers
<1> QED BY <1>4, <1>5, OneHandler

LEMMA HandlersStayGood ==
  ASSUME HandlersGood, fixed \subseteq Findings, rows \subseteq Paths, [Next]_vars
  PROVE  HandlersGood'
<1>1. ASSUME UNCHANGED handler PROVE HandlersGood'
  BY <1>1 DEF HandlersGood, HandlerGood, Ordered
<1>2. ASSUME NEW q \in Requests, CommitFix(q) \/ ApplyCrash(q) PROVE HandlersGood'
  BY <1>2, AnswersGood DEF CommitFix, ApplyCrash
<1>3. ASSUME NEW q \in Requests, ApplyStep(q) \/ ApplyCrash(q) PROVE HandlersGood'
  BY <1>2, <1>3, LoadsGood, ReadsGood, RebuildsGood, FlushesGood, ReadsRowGood, WritesGood
     DEF ApplyStep
<1>4. CASE DeleteStep \/ CleanupStep \/ (\E k \in {"original", "fixed"} : Expire(k))
  BY <1>1, <1>4 DEF DeleteStep, DeleteGoesOn, CleanupStep, DeleteBegins, EraseRow, DeleteFiles,
                    DeleteCommits, DeleteCrash, CleanupUnlinks, CleanupCommits, CleanupCrash,
                    Expire
<1>5. CASE UNCHANGED vars
  BY <1>1, <1>5 DEF vars
<1> QED BY <1>3, <1>4, <1>5 DEF Next

(***************************************************************************)
(* The rows, the files and the locks.                                      *)
(***************************************************************************)
\* What a deleted review leaves: nothing but, perhaps, files.
NothingLeft == review = "deleted" => fixed = {} /\ rows = {} /\ original = "gone"

\* A deletion locks the rows of the findings in the order of their keys.
ErasedInOrder ==
  /\ review \notin {"emptying", "deleting"} => erased = {}
  /\ Ordered(erased, Findings)

Inv == TypeOK /\ HandlersGood /\ NothingLeft /\ ErasedInOrder

LEMMA NewPathType ==
  ASSUME HandlersGood, NEW q \in Requests
  PROVE  NewPath(q) \in Paths /\ NewPath(q)[1] \in Assets
<1>1. handler[q].base \in Paths \cup {NoRow}
  BY DEF HandlersGood, HandlerGood, Handlers
<1>2. CASE handler[q].base = NoRow
  BY <1>2 DEF NewPath, Paths, Assets
<1>3. CASE handler[q].base # NoRow
  BY <1>1, <1>3 DEF NewPath, Paths, Assets
<1> QED BY <1>2, <1>3

\* Files are decks, written whole or in part.
FilesTyped == DOMAIN disk \subseteq Paths /\ disk \in [DOMAIN disk -> Files]

LEMMA Written ==
  ASSUME FilesTyped, NEW path \in Paths, NEW file \in Files, Write(path, file)
  PROVE  FilesTyped'
BY DEF FilesTyped, Write

LEMMA Unlinked ==
  ASSUME FilesTyped, NEW paths, Unlink(paths)
  PROVE  FilesTyped'
BY DEF FilesTyped, Unlink

LEMMA WritesTyped ==
  ASSUME Inv, NEW q \in Requests, OpenFile(q) \/ WriteFile(q)
  PROVE  FilesTyped'
<1> DEFINE d == handler[q].outcome.deck
<1>1. d \in Decks
  BY DEF Inv, HandlersGood, HandlerGood, Handlers
<1>2. Partial \in Files /\ Whole(d) \in Files
  BY <1>1 DEF Partial, Whole, Files, Decks
<1>3. FilesTyped
  BY DEF Inv, TypeOK, FilesTyped
<1>4. UNCHANGED disk \/ \E file \in {Partial, Whole(d)} : Write(NewPath(q), file)
  BY DEF OpenFile, WriteFile
<1> HIDE DEF d
<1>5. CASE UNCHANGED disk
  BY <1>3, <1>5 DEF FilesTyped
<1>6. CASE \E file \in {Partial, Whole(d)} : Write(NewPath(q), file)
  <2>1. PICK file \in {Partial, Whole(d)} : Write(NewPath(q), file)
    BY <1>6
  <2>2. file \in Files /\ NewPath(q) \in Paths
    BY <1>2, <2>1, NewPathType DEF Inv
  <2> QED BY <1>3, <2>1, <2>2, Written
<1> QED BY <1>4, <1>5, <1>6

\* A committed fix adds a row of a known asset and flags of findings; to a
\* deleted review it adds nothing.
LEMMA CommitFixType ==
  ASSUME Inv, NEW q \in Requests, CommitFix(q)
  PROVE  TypeOK' /\ NothingLeft' /\ (review = "deleted" => UNCHANGED <<fixed, rows, original>>)
<1>1. handler[q].outcome.on \subseteq Findings
  BY DEF Inv, HandlersGood, HandlerGood, Handlers
<1>2. handler' \in [Requests -> Handlers]
  BY HandlersStayGood DEF Inv, TypeOK, Next, ApplyStep, HandlersGood
<1>3. CASE StillThere(q)
  <2>1. review # "deleted"
    BY <1>3 DEF Inv, NothingLeft, StillThere
  <2>2. rows' \subseteq Paths /\ fixed' \subseteq Findings /\ expired' \subseteq expired
    BY <1>1, <1>3, NewPathType DEF CommitFix, Store, Inv, TypeOK
  <2>3. overtaken' \subseteq Requests /\ harm' \subseteq {"overlap", "half_deleted"}
    BY <1>3 DEF CommitFix, NoteCommit, InFlight, Inv, TypeOK
  <2> QED BY <1>2, <2>1, <2>2, <2>3 DEF CommitFix, Inv, TypeOK, NothingLeft
<1>4. CASE ~ StillThere(q)
  BY <1>2, <1>4 DEF CommitFix, history, Inv, TypeOK, NothingLeft
<1> QED BY <1>3, <1>4

LEMMA ErasedStaysInOrder ==
  ASSUME Inv, [Next]_vars
  PROVE  ErasedInOrder'
<1>1. ASSUME UNCHANGED <<review, erased>> PROVE ErasedInOrder'
  BY <1>1 DEF Inv, ErasedInOrder, Ordered
<1>2. ASSUME NEW q \in Requests, ApplyStep(q) \/ ApplyCrash(q) PROVE UNCHANGED <<review, erased>>
  BY <1>2 DEF ApplyStep, LoadFinding, ReadSiblings, Rebuild, FlushFlag, ReadExisting, OpenFile,
              WriteFile, CommitFix, ApplyCrash, stored
<1>3. CASE EraseRow
  <2>1. PICK g \in NextRow(Findings \ erased) : erased' = erased \cup {g}
    BY <1>3 DEF EraseRow
  <2>2. Ordered(erased', Findings)
    BY <2>1, NextInOrder DEF Inv, TypeOK, ErasedInOrder
  <2> QED BY <1>3, <2>2 DEF EraseRow, ErasedInOrder, Ordered
<1>4. CASE DeleteBegins \/ DeleteFiles \/ DeleteCommits \/ DeleteCrash
  BY <1>4 DEF DeleteBegins, DeleteFiles, DeleteCommits, DeleteCrash, Inv, TypeOK, ErasedInOrder,
              Ordered
<1>5. CASE CleanupStep \/ (\E k \in {"original", "fixed"} : Expire(k)) \/ UNCHANGED vars
  BY <1>1, <1>5 DEF CleanupStep, CleanupUnlinks, CleanupCommits, CleanupCrash, Expire, vars
<1> QED BY <1>1, <1>2, <1>3, <1>4, <1>5 DEF Next, DeleteStep, DeleteGoesOn

LEMMA InvHolds == Spec => []Inv
<1> USE FixedDeckAssumption
<1>1. Init => Inv
  <2> SUFFICES ASSUME Init PROVE Inv
    OBVIOUS
  <2>1. Whole({}) \in Files /\ rows \subseteq Paths
    BY DEF Init, Whole, Files, Decks, Paths, Assets
  <2>2. HandlersGood
    BY FreshHandlers DEF Init, HandlersGood, HandlerGood
  <2>3. TypeOK
    BY <2>1, <2>2 DEF Init, TypeOK, HandlersGood
  <2>4. NothingLeft /\ ErasedInOrder
    BY DEF Init, NothingLeft, ErasedInOrder, Ordered
  <2> QED BY <2>2, <2>3, <2>4 DEF Inv
<1>2. Inv /\ [Next]_vars => Inv'
  <2> SUFFICES ASSUME Inv, [Next]_vars PROVE Inv'
    OBVIOUS
  <2>1. HandlersGood' /\ ErasedInOrder'
    BY HandlersStayGood, ErasedStaysInOrder DEF Inv, TypeOK
  <2>2. handler' \in [Requests -> Handlers]
    BY <2>1 DEF HandlersGood
  <2>3. ASSUME NEW q \in Requests,
               \/ LoadFinding(q) \/ ReadSiblings(q) \/ Rebuild(q) \/ FlushFlag(q)
               \/ ReadExisting(q) \/ ApplyCrash(q)
        PROVE  TypeOK' /\ NothingLeft'
    <3>1. UNCHANGED <<stored, disk, history>>
      BY <2>3 DEF LoadFinding, ReadSiblings, Rebuild, FlushFlag, ReadExisting, ApplyCrash
    <3> QED BY <2>2, <3>1 DEF stored, history, Inv, TypeOK, NothingLeft
  <2>4. ASSUME NEW q \in Requests, OpenFile(q) \/ WriteFile(q)
        PROVE  TypeOK' /\ NothingLeft'
    <3>1. overtaken' \subseteq Requests /\ harm' \subseteq {"overlap", "half_deleted"}
      BY <2>4 DEF OpenFile, WriteFile, NoteWriting, Rivals, Inv, TypeOK
    <3>2. UNCHANGED stored /\ FilesTyped'
      BY <2>4, WritesTyped DEF OpenFile, WriteFile
    <3> QED BY <2>2, <3>1, <3>2 DEF stored, FilesTyped, Inv, TypeOK, NothingLeft
  <2>5. ASSUME NEW q \in Requests, CommitFix(q)
        PROVE  TypeOK' /\ NothingLeft'
    BY <2>5, CommitFixType
  <2>6. CASE DeleteFiles \/ CleanupUnlinks
    <3>1. \E paths : Unlink(paths)
      BY <2>6 DEF DeleteFiles, CleanupUnlinks
    <3>2. ExpiredAssets \subseteq Assets \cup {"original"}
      BY DEF ExpiredAssets, Inv, TypeOK, Paths
    <3>3. FilesTyped'
      BY <3>1, Unlinked DEF Inv, TypeOK, FilesTyped
    <3>4. TypeOK'
      BY <2>2, <2>6, <3>2, <3>3
         DEF DeleteFiles, CleanupUnlinks, history, FilesTyped, Inv, TypeOK
    <3>5. NothingLeft'
      BY <2>6 DEF DeleteFiles, CleanupUnlinks, ExpiredAssets, Inv, NothingLeft
    <3> QED BY <2>1, <3>4, <3>5 DEF Inv
  <2>7. CASE \/ DeleteBegins \/ DeleteCommits \/ DeleteCrash \/ CleanupCommits \/ CleanupCrash
             \/ \E k \in {"original", "fixed"} : Expire(k)
    BY <2>1, <2>2, <2>7 DEF DeleteBegins, DeleteCommits, DeleteCrash, CleanupCommits, CleanupCrash,
                      Expire, history, Inv, TypeOK, NothingLeft
  <2>8. CASE EraseRow
    BY <2>1, <2>2, <2>8 DEF EraseRow, NextRow, history, Inv, TypeOK, NothingLeft
  <2>9. CASE UNCHANGED vars
    BY <2>1, <2>2, <2>9 DEF vars, Inv, TypeOK, NothingLeft
  <2> QED BY <2>1, <2>3, <2>4, <2>5, <2>6, <2>7, <2>8, <2>9
          DEF Inv, Next, ApplyStep, DeleteStep, DeleteGoesOn, CleanupStep
<1> QED BY <1>1, <1>2, PTL DEF Spec

\* Rows, files, flags and handlers keep their types (entities.py, FileAsset).
THEOREM TypeCorrect == Spec => []TypeOK
BY InvHolds, PTL DEF Inv

\* apply_finding_fix and upsert_fixed_pptx never bring rows of a deleted review
\* back (delete_review).
THEOREM DeletedNeverReturns == Spec => DeletedStaysDeleted
<1>1. Inv /\ [Next]_vars => [review = "deleted" => UNCHANGED <<fixed, rows, original, review>>]_vars
  <2> SUFFICES ASSUME Inv, [Next]_vars, review = "deleted"
               PROVE  UNCHANGED <<fixed, rows, original, review>>
    OBVIOUS
  <2>1. fixed = {} /\ rows = {} /\ original = "gone"
    BY DEF Inv, NothingLeft
  <2>2. ASSUME NEW q \in Requests, ApplyStep(q) \/ ApplyCrash(q)
        PROVE  UNCHANGED <<fixed, rows, original, review>>
    BY <2>2, CommitFixType
       DEF ApplyStep, LoadFinding, ReadSiblings, Rebuild, FlushFlag, ReadExisting, OpenFile,
           WriteFile, ApplyCrash, CommitFix, stored
  <2>3. CASE DeleteStep \/ CleanupStep \/ \E k \in {"original", "fixed"} : Expire(k)
    BY <2>1, <2>3 DEF DeleteStep, DeleteBegins, DeleteGoesOn, EraseRow, DeleteFiles,
                      DeleteCommits, DeleteCrash, CleanupStep, CleanupUnlinks, CleanupCommits,
                      CleanupCrash, Expire, ExpiredAssets
  <2>4. CASE UNCHANGED vars
    BY <2>4 DEF vars
  <2> QED BY <2>2, <2>3, <2>4 DEF Next
<1> QED BY <1>1, InvHolds, PTL DEF Spec, DeletedStaysDeleted

(***************************************************************************)
(* Nobody waits in a circle.                                               *)
(***************************************************************************)
\* Who waits for a row holds only rows that come before it.
LEMMA HeldComeFirst ==
  ASSUME Inv, NEW a \in Actors
  PROVE  /\ Holds(a) \subseteq Findings /\ Awaits(a) \subseteq Findings
         /\ \A g \in Holds(a), w \in Awaits(a) : Key[g] < Key[w]
<1> USE FixedDeckAssumption
<1>1. CASE a = Deletion
  <2>1. Holds(a) = erased /\ Awaits(a) \subseteq Findings \ erased
    BY <1>1 DEF Holds, Awaits, NextRow
  <2> QED BY <2>1 DEF Inv, TypeOK, ErasedInOrder, Ordered
<1>2. CASE a # Deletion
  <2>1. a \in Requests
    BY <1>2 DEF Actors
  <2>2. HandlerGood(handler[a]) /\ handler[a] \in Handlers
    BY <2>1 DEF Inv, HandlersGood, HandlerGood
  <2>3. Holds(a) = handler[a].held /\ Awaits(a) \subseteq Changed(a) \ handler[a].held
    BY <1>2 DEF Holds, Awaits, NextRow
  <2>4. Changed(a) \subseteq Findings /\ Ordered(handler[a].held, Changed(a))
    BY <2>2 DEF HandlerGood, Handlers, Changed
  <2> QED BY <2>2, <2>3, <2>4 DEF Handlers, Ordered
<1> QED BY <1>1, <1>2

\* A set of natural numbers that is not empty has a least element.
LEMMA Least ==
  ASSUME NEW T \in SUBSET Nat, T # {}
  PROVE  \E n \in T : \A m \in T : n <= m
<1>1. PICK n \in T : \A m \in T : ~ (<<m, n>> \in OpToRel(<, Nat))
  BY NatLessThanWellFounded, WFMin
<1>2. ASSUME NEW m \in T PROVE n <= m
  <2>1. ~ (m < n)
    BY <1>1 DEF OpToRel
  <2> QED BY <2>1
<1> QED BY <1>2

\* In a circle the last row that somebody waits for is held by somebody who
\* would wait for a row that comes after it.
LEMMA NoCircle == Inv => NobodyWaitsInACircle
<1> SUFFICES ASSUME Inv, NEW circle \in SUBSET Actors, circle # {},
                    \A a \in circle : \E b \in circle : Awaits(a) \cap Holds(b) # {}
             PROVE  FALSE
  BY DEF NobodyWaitsInACircle
<1> USE FixedDeckAssumption
<1> DEFINE Wanted == {w \in Findings : \E a, b \in circle : w \in Awaits(a) \cap Holds(b)}
           T == {MaxKey - Key[w] : w \in Wanted}
<1>1. Wanted # {}
  BY HeldComeFirst
<1>2. T \in SUBSET Nat /\ T # {}
  BY <1>1
<1>3. PICK w \in Wanted : \A v \in Wanted : MaxKey - Key[w] <= MaxKey - Key[v]
  <2>1. PICK n \in T : \A m \in T : n <= m
    BY <1>2, Least
  <2> QED BY <2>1
<1>4. PICK b \in circle : w \in Holds(b)
  BY <1>3
<1>5. PICK c \in circle : Awaits(b) \cap Holds(c) # {}
  OBVIOUS
<1>6. PICK v \in Awaits(b) : v \in Holds(c)
  BY <1>5
<1>7. v \in Wanted /\ Key[w] < Key[v]
  BY <1>4, <1>5, <1>6, HeldComeFirst
<1>8. Key[w] \in Int /\ Key[v] \in Int /\ MaxKey \in Int
  BY <1>7
<1>9. MaxKey - Key[w] <= MaxKey - Key[v]
  BY <1>3, <1>7
<1> QED BY <1>7, <1>8, <1>9

\* However many requests of apply_finding_fix overlap, among themselves and with
\* delete_review, they never wait for one another's row locks in a circle.
THEOREM NobodyEverWaitsInACircle == Spec => []NobodyWaitsInACircle
BY InvHolds, NoCircle, PTL

(***************************************************************************)
(* Requests that nobody overtakes.                                         *)
(***************************************************************************)
Rebuilding == {"fixing", "flushing"} \cup Writing

\* What such a handler remembers is still so: its finding is not fixed, the
\* findings it selected are that one and the fixed ones, and the row it read is
\* the only one, if it is still there.
UpToDate(q) ==
  /\ handler[q].at = "loaded" => handler[q].finding \notin fixed
  /\ handler[q].at \in Rebuilding /\ review # "deleted"
       => handler[q].finding \notin fixed /\ handler[q].selected = fixed \cup {handler[q].finding}
  /\ handler[q].at \in Writing => rows \subseteq {handler[q].base}

\* Its file is empty, and then holds what it will commit.
Saved(q) ==
  /\ handler[q].at = "saving" => NewPath(q) \in DOMAIN disk /\ disk[NewPath(q)] = Partial
  /\ handler[q].at = "saved" =>
       NewPath(q) \in DOMAIN disk /\ disk[NewPath(q)] = Whole(handler[q].outcome.deck)

OneRow == \A p, r \in rows : p = r
FixedIsEdited == \A g \in fixed : Edit[g] # NoEdit

DeckInv ==
  /\ \A q \in Requests : q \notin overtaken => UpToDate(q) /\ Saved(q)
  /\ FixedIsEdited
  /\ "overlap" \notin harm => OneRow
  /\ FlagsMatchDeck

\* What the outcome of PptxFixer.fix does to the flags and the deck, when f is
\* the one selected finding that is not fixed: one step of AppliedFixes.
LEMMA OutcomeKeepsPromise ==
  ASSUME FixedIsEdited, NEW f \in Findings, f \notin fixed,
         NEW o \in FixOutcomes(f, fixed \cup {f}),
         NEW after, after = (fixed \cup o.on) \ o.off
  PROVE  /\ EditsOf(after) = o.deck
         /\ \/ /\ EditsOf(fixed \cup {f}) \notin Unsafe
               /\ o.deck = EditsOf(fixed \cup {f})
               /\ after \in {fixed, fixed \cup {f}}
            \/ /\ EditsOf(fixed \cup {f}) \in Unsafe
               /\ after = {} /\ o.deck = {}
<1> DEFINE s == fixed \cup {f}
<1>1. CASE EditsOf(s) \notin Unsafe
  <2>1. PICK on \in SUBSET {f} :
          /\ o = [deck |-> EditsOf(s), on |-> on, off |-> {}]
          /\ Edit[f] = NoEdit => on = {}
          /\ EditsOf({f}) \subseteq EditsOf(s \ {f}) \/ on = {f}
    BY <1>1 DEF FixOutcomes
  <2>2. after = fixed \cup on /\ o.deck = EditsOf(s)
    BY <2>1
  <2>3. s \ {f} = fixed
    OBVIOUS
  <2>4. after \in {fixed, s}
    BY <2>1, <2>2
  <2>5. EditsOf(after) = EditsOf(s)
    <3>1. CASE on = {f}
      BY <2>2, <3>1
    <3>2. CASE on # {f}
      <4>1. after = fixed /\ EditsOf({f}) \subseteq EditsOf(fixed)
        BY <2>1, <2>2, <2>3, <3>2
      <4>2. EditsOf(s) = EditsOf(fixed) \cup EditsOf({f})
        BY DEF EditsOf
      <4> QED BY <4>1, <4>2
    <3> QED BY <3>1, <3>2
  <2> QED BY <1>1, <2>2, <2>4, <2>5
<1>2. CASE EditsOf(s) \in Unsafe
  <2>1. o = [deck |-> {}, on |-> {}, off |-> s \ {f}]
    BY <1>2 DEF FixOutcomes
  <2>2. after = {} /\ o.deck = {}
    BY <2>1
  <2>3. EditsOf({}) = {}
    BY DEF EditsOf
  <2> QED BY <1>2, <2>2, <2>3
<1> QED BY <1>1, <1>2

\* The path such a handler writes to is no row's.
LEMMA NewPathIsNew ==
  ASSUME Inv, DeckInv, NEW q \in Requests, q \notin overtaken, handler[q].at \in Writing
  PROVE  NewPath(q) \notin rows
<1> USE FixedDeckAssumption
<1>1. rows \subseteq {handler[q].base} /\ rows \subseteq Paths
  BY DEF DeckInv, UpToDate, Inv, TypeOK
<1>2. handler[q].base \in Paths \cup {NoRow}
  BY DEF Inv, HandlersGood, HandlerGood, Handlers
<1>3. CASE handler[q].base = NoRow
  BY <1>1, <1>3
<1>4. CASE handler[q].base # NoRow
  <2>1. handler[q].base[2] \in Nat /\ NewPath(q)[2] = handler[q].base[2] + 1
    BY <1>2, <1>4 DEF NewPath, Paths
  <2>2. NewPath(q) # handler[q].base
    BY <2>1
  <2> QED BY <1>1, <2>2
<1> QED BY <1>3, <1>4

\* What any commit of a fix does to the flags.
LEMMA FlagsCommitted ==
  ASSUME Inv, DeckInv, NEW q \in Requests, CommitFix(q), StillThere(q)
  PROVE  /\ review # "deleted" /\ review' = review
         /\ fixed' = (fixed \cup handler[q].outcome.on) \ handler[q].outcome.off
         /\ handler[q].finding \in Findings
         /\ fixed' \subseteq fixed \cup {handler[q].finding}
         /\ FixedIsEdited'
<1>1. handler[q].at = "saved" /\ handler[q].at \in Writing
  BY DEF CommitFix, At, Writing
<1>2. review # "deleted" /\ review' = review
  BY DEF Inv, NothingLeft, StillThere, CommitFix
<1>3. fixed' = (fixed \cup handler[q].outcome.on) \ handler[q].outcome.off
  BY DEF CommitFix, Store
<1>4. /\ handler[q].finding \in Findings /\ handler[q].selected \in SUBSET Findings
      /\ handler[q].outcome \in FixOutcomes(handler[q].finding, handler[q].selected)
  BY <1>1 DEF Inv, HandlersGood, HandlerGood, Handlers, Writing
<1>5. /\ handler[q].outcome.on \subseteq {handler[q].finding}
      /\ \A g \in handler[q].outcome.on : Edit[g] # NoEdit
  BY <1>4, FixOutcomesType
<1> QED BY <1>2, <1>3, <1>4, <1>5 DEF DeckInv, FixedIsEdited

\* What the commit of a request does that nobody has overtaken.
LEMMA Committed ==
  ASSUME Inv, DeckInv, NEW q \in Requests, q \notin overtaken, CommitFix(q), StillThere(q)
  PROVE  /\ rows' = {NewPath(q)}
         /\ OnDisk(NewPath(q)) /\ disk[NewPath(q)].deck = handler[q].outcome.deck
         /\ handler[q].finding \notin fixed
         /\ handler[q].outcome \in FixOutcomes(handler[q].finding,
                                               fixed \cup {handler[q].finding})
<1> USE FixedDeckAssumption
<1>1. handler[q].at = "saved" /\ handler[q].at \in Writing /\ handler[q].at \in Rebuilding
  BY DEF CommitFix, At, Writing, Rebuilding
<1>2. UpToDate(q) /\ Saved(q)
  BY DEF DeckInv
<1>3. rows \subseteq {handler[q].base} /\ rows \subseteq Paths
  BY <1>1, <1>2 DEF UpToDate, Inv, TypeOK
<1>4. rows' = {p \in rows : p[1] # NewPath(q)[1]} \cup {NewPath(q)}
  BY DEF CommitFix, Store
<1>5. {p \in rows : p[1] # NewPath(q)[1]} = {}
  <2>1. handler[q].base \in Paths \cup {NoRow}
    BY DEF Inv, HandlersGood, HandlerGood, Handlers
  <2>2. CASE handler[q].base = NoRow
    BY <1>3, <2>2
  <2>3. CASE handler[q].base # NoRow
    <3>1. NewPath(q)[1] = handler[q].base[1]
      BY <2>1, <2>3 DEF NewPath
    <3> QED BY <1>3, <3>1
  <2> QED BY <2>2, <2>3
<1>6. NewPath(q) \in DOMAIN disk /\ disk[NewPath(q)] = Whole(handler[q].outcome.deck)
  BY <1>1, <1>2 DEF Saved
<1>7. /\ handler[q].finding \notin fixed
      /\ handler[q].selected = fixed \cup {handler[q].finding}
  BY <1>1, <1>2, FlagsCommitted DEF UpToDate
<1>8. handler[q].outcome \in FixOutcomes(handler[q].finding, handler[q].selected)
  BY <1>1 DEF Inv, HandlersGood, HandlerGood, Writing
<1> QED BY <1>4, <1>5, <1>6, <1>7, <1>8 DEF OnDisk, Whole

\* Such a commit makes flags and deck agree.
LEMMA CommitMakesMatch ==
  ASSUME Inv, DeckInv, NEW q \in Requests, q \notin overtaken, CommitFix(q), StillThere(q)
  PROVE  /\ OneRow' /\ FlagsMatchDeck'
         /\ EditsOf(fixed') = handler[q].outcome.deck
         /\ LET f == handler[q].finding
            IN  \/ /\ EditsOf(fixed \cup {f}) \notin Unsafe
                   /\ handler[q].outcome.deck = EditsOf(fixed \cup {f})
                   /\ fixed' \in {fixed, fixed \cup {f}}
                \/ /\ EditsOf(fixed \cup {f}) \in Unsafe
                   /\ fixed' = {} /\ handler[q].outcome.deck = {}
<1> DEFINE f == handler[q].finding  o == handler[q].outcome
<1>1. f \in Findings /\ f \notin fixed /\ o \in FixOutcomes(f, fixed \cup {f}) /\ FixedIsEdited
  BY FlagsCommitted, Committed DEF DeckInv
<1>2. PICK after : after = fixed'
  OBVIOUS
<1>3. after = (fixed \cup o.on) \ o.off
  BY <1>2, FlagsCommitted
<1>4. rows' = {NewPath(q)} /\ disk[NewPath(q)].deck = o.deck /\ UNCHANGED disk
  BY Committed DEF CommitFix
<1> HIDE DEF f, o
<1>5. /\ EditsOf(after) = o.deck
      /\ \/ /\ EditsOf(fixed \cup {f}) \notin Unsafe
            /\ o.deck = EditsOf(fixed \cup {f})
            /\ after \in {fixed, fixed \cup {f}}
         \/ /\ EditsOf(fixed \cup {f}) \in Unsafe
            /\ after = {} /\ o.deck = {}
  BY <1>1, <1>3, OutcomeKeepsPromise, Zenon
<1>6. OneRow' /\ FlagsMatchDeck'
  BY <1>2, <1>4, <1>5 DEF OneRow, FlagsMatchDeck, OnDisk, EditsOf
<1> QED BY <1>2, <1>5, <1>6 DEF f, o

(***************************************************************************)
(* DeckInv is inductive, step by step.                                     *)
(***************************************************************************)
\* A step that changes handlers only: what is left to show is about the
\* handlers it changes.
LEMMA HandlerSteps ==
  ASSUME DeckInv, UNCHANGED <<stored, disk, history>>,
         \A p \in Requests \ overtaken : handler'[p] = handler[p] \/ (UpToDate(p)' /\ Saved(p)')
  PROVE  DeckInv'
<1>1. ASSUME NEW p \in Requests, p \notin overtaken PROVE UpToDate(p)' /\ Saved(p)'
  <2>1. CASE handler'[p] = handler[p]
    <3>1. UpToDate(p) /\ Saved(p)
      BY <1>1 DEF DeckInv
    <3> QED BY <2>1, <3>1 DEF UpToDate, Saved, stored, NewPath
  <2> QED BY <1>1, <2>1
<1> QED BY <1>1 DEF DeckInv, stored, history, OneRow, FixedIsEdited, FlagsMatchDeck, OnDisk

\* A handler that has answered remembers nothing.
LEMMA AnswerForgets ==
  ASSUME Inv, NEW q \in Requests, Answer(q)
  PROVE  /\ \A p \in Requests : handler'[p] = IF p = q THEN Answered ELSE handler[p]
         /\ UpToDate(q)' /\ Saved(q)'
<1>1. \A p \in Requests : handler'[p] = IF p = q THEN Answered ELSE handler[p]
  BY DEF Answer, Inv, HandlersGood
<1>2. Answered.at \notin {"loaded", "saving", "saved"} \cup Rebuilding \cup Writing
  BY DEF Answered, Idle, Rebuilding, Writing
<1> QED BY <1>1, <1>2 DEF UpToDate, Saved

LEMMA AnswerStep ==
  ASSUME Inv, DeckInv, NEW q \in Requests, Answer(q), UNCHANGED <<stored, disk, history>>
  PROVE  DeckInv'
BY AnswerForgets, HandlerSteps

LEMMA LoadFindingStep ==
  ASSUME Inv, DeckInv, NEW q \in Requests, LoadFinding(q)
  PROVE  DeckInv'
<1>1. CASE Answer(q)
  BY <1>1, AnswerStep DEF LoadFinding
<1>2. CASE \E f \in Findings \ fixed :
             handler' = [handler EXCEPT ![q].at = "loaded", ![q].finding = f]
  <2>1. PICK f \in Findings \ fixed :
          handler' = [handler EXCEPT ![q].at = "loaded", ![q].finding = f]
    BY <1>2
  <2>2. \A p \in Requests \ {q} : handler'[p] = handler[p]
    BY <2>1 DEF Inv, HandlersGood
  <2>3. handler'[q].at = "loaded" /\ handler'[q].finding = f
    BY <2>1 DEF Inv, HandlersGood, HandlerGood, Handlers
  <2>4. UpToDate(q)' /\ Saved(q)'
    BY <2>1, <2>3 DEF UpToDate, Saved, LoadFinding, stored, Rebuilding, Writing
  <2> QED BY <2>2, <2>4, HandlerSteps DEF LoadFinding
<1> QED BY <1>1, <1>2 DEF LoadFinding

LEMMA ReadSiblingsStep ==
  ASSUME Inv, DeckInv, NEW q \in Requests, ReadSiblings(q)
  PROVE  DeckInv'
<1>1. CASE Answer(q)
  BY <1>1, AnswerStep DEF ReadSiblings
<1>2. CASE handler' = [handler EXCEPT ![q].at = "fixing",
                                      ![q].selected = fixed \cup {handler[q].finding}]
  <2>1. \A p \in Requests \ {q} : handler'[p] = handler[p]
    BY <1>2 DEF Inv, HandlersGood
  <2>2. /\ handler'[q].at = "fixing" /\ handler'[q].finding = handler[q].finding
        /\ handler'[q].selected = fixed \cup {handler[q].finding}
    BY <1>2 DEF Inv, HandlersGood, HandlerGood, Handlers
  <2>3. q \notin overtaken => handler[q].finding \notin fixed
    BY DEF ReadSiblings, At, DeckInv, UpToDate
  <2>4. q \notin overtaken => UpToDate(q)' /\ Saved(q)'
    BY <2>2, <2>3 DEF UpToDate, Saved, ReadSiblings, stored, Writing
  <2> QED BY <2>1, <2>4, HandlerSteps DEF ReadSiblings
<1> QED BY <1>1, <1>2 DEF ReadSiblings

\* A handler goes on with what it remembers and what it has read of the rows.
LEMMA GoesOnStep ==
  ASSUME Inv, DeckInv, NEW q \in Requests, NEW where \in {"flushing", "read"},
         handler[q].at \in {"fixing", "flushing"}, UNCHANGED <<stored, disk, history>>,
         \A p \in Requests \ {q} : handler'[p] = handler[p],
         handler'[q].at = where, handler'[q].finding = handler[q].finding,
         handler'[q].selected = handler[q].selected,
         where = "read" => rows \subseteq {handler'[q].base}
  PROVE  DeckInv'
<1>1. ASSUME q \notin overtaken PROVE UpToDate(q)' /\ Saved(q)'
  <2>1. UpToDate(q) /\ handler[q].at \in Rebuilding
    BY <1>1 DEF DeckInv, Rebuilding
  <2>2. UNCHANGED <<fixed, rows, review>>
    BY DEF stored
  <2>3. handler'[q].at \notin {"loaded", "saving", "saved"}
    OBVIOUS
  <2>4. /\ handler'[q].at \in Rebuilding /\ review' # "deleted" =>
            /\ handler'[q].finding \notin fixed'
            /\ handler'[q].selected = fixed' \cup {handler'[q].finding}
        /\ handler'[q].at \in Writing => rows' \subseteq {handler'[q].base}
    BY <2>1, <2>2 DEF UpToDate, Writing
  <2> QED BY <2>3, <2>4 DEF UpToDate, Saved
<1> QED BY <1>1, HandlerSteps

LEMMA RebuildStep ==
  ASSUME Inv, DeckInv, NEW q \in Requests, Rebuild(q)
  PROVE  DeckInv'
<1>1. PICK o : handler' = [handler EXCEPT ![q].at = "flushing", ![q].outcome = o]
  BY DEF Rebuild
<1>2. /\ \A p \in Requests \ {q} : handler'[p] = handler[p]
      /\ handler'[q].at = "flushing" /\ handler'[q].finding = handler[q].finding
      /\ handler'[q].selected = handler[q].selected
  BY <1>1 DEF Inv, HandlersGood, HandlerGood, Handlers
<1> QED BY <1>2, GoesOnStep DEF Rebuild, At

LEMMA FlushFlagStep ==
  ASSUME Inv, DeckInv, NEW q \in Requests, FlushFlag(q)
  PROVE  DeckInv'
<1>1. CASE Answer(q)
  BY <1>1, AnswerStep DEF FlushFlag
<1>2. CASE \E g : handler' = [handler EXCEPT ![q].held = @ \cup {g}]
  <2>1. PICK g : handler' = [handler EXCEPT ![q].held = @ \cup {g}]
    BY <1>2
  <2>2. /\ \A p \in Requests \ {q} : handler'[p] = handler[p]
        /\ handler'[q].at = handler[q].at /\ handler'[q].finding = handler[q].finding
        /\ handler'[q].selected = handler[q].selected
    BY <2>1 DEF Inv, HandlersGood, HandlerGood, Handlers
  <2> QED BY <2>2, GoesOnStep DEF FlushFlag, At
<1> QED BY <1>1, <1>2 DEF FlushFlag

LEMMA ReadExistingStep ==
  ASSUME Inv, DeckInv, NEW q \in Requests, ReadExisting(q)
  PROVE  DeckInv'
<1>1. CASE Answer(q)
  BY <1>1, AnswerStep DEF ReadExisting
<1>2. CASE \E row : /\ rows \subseteq {row}
                    /\ handler' = [handler EXCEPT ![q].at = "read", ![q].base = row]
  <2>1. PICK row : /\ rows \subseteq {row}
                   /\ handler' = [handler EXCEPT ![q].at = "read", ![q].base = row]
    BY <1>2
  <2>2. /\ \A p \in Requests \ {q} : handler'[p] = handler[p]
        /\ handler'[q].at = "read" /\ handler'[q].finding = handler[q].finding
        /\ handler'[q].selected = handler[q].selected /\ handler'[q].base = row
    BY <2>1 DEF Inv, HandlersGood, HandlerGood, Handlers
  <2>3. rows \subseteq {handler'[q].base}
    BY <2>1, <2>2
  <2> QED BY <2>2, <2>3, GoesOnStep DEF ReadExisting, At
<1> QED BY <1>1, <1>2 DEF ReadExisting

\* A file is written beside the one on offer, unless by a request that was
\* overtaken; and whoever has written the same file is overtaken now.
LEMMA WriteStep ==
  ASSUME Inv, DeckInv, NEW q \in Requests, OpenFile(q) \/ WriteFile(q)
  PROVE  /\ DeckInv' /\ UNCHANGED stored
         /\ \/ "overlap" \in harm'
            \/ /\ harm' = harm
               /\ \A p \in rows : p \in DOMAIN disk' <=> p \in DOMAIN disk
               /\ \A p \in rows \cap DOMAIN disk : disk'[p] = disk[p]
<1>1. /\ handler[q].at \in {"read", "saving"} /\ handler[q].at \in Writing
      /\ handler[q].at \in Rebuilding /\ UNCHANGED stored
      /\ overtaken' = overtaken \cup Rivals(q)
      /\ harm' = IF q \in overtaken /\ NewPath(q) \in rows THEN harm \cup {"overlap"} ELSE harm
  BY DEF OpenFile, WriteFile, At, Writing, Rebuilding, NoteWriting
<1>2. PICK where \in {"saving", "saved"} : handler' = [handler EXCEPT ![q].at = where]
  BY DEF OpenFile, WriteFile
<1>3. \A p \in Requests \ {q} : handler'[p] = handler[p]
  BY <1>2 DEF Inv, HandlersGood
<1>4. /\ handler'[q].at = where /\ handler'[q].finding = handler[q].finding
      /\ handler'[q].selected = handler[q].selected /\ handler'[q].base = handler[q].base
      /\ handler'[q].outcome = handler[q].outcome
  BY <1>2 DEF Inv, HandlersGood, HandlerGood, Handlers
<1>5. \A p \in Requests : NewPath(p)' = NewPath(p)
  BY <1>3, <1>4 DEF NewPath
<1>6. /\ DOMAIN disk \subseteq DOMAIN disk' /\ DOMAIN disk' \subseteq DOMAIN disk \cup {NewPath(q)}
      /\ \A p \in DOMAIN disk : p # NewPath(q) => disk'[p] = disk[p]
  BY DEF OpenFile, WriteFile, Write
<1>7. ASSUME q \notin overtaken PROVE UpToDate(q)' /\ Saved(q)'
  <2>1. UpToDate(q) /\ Saved(q)
    BY <1>7 DEF DeckInv
  <2>2. UpToDate(q)'
    BY <1>1, <1>4, <2>1 DEF UpToDate, stored, Rebuilding, Writing
  <2>3. CASE OpenFile(q)
    <3>1. /\ NewPath(q) \in DOMAIN disk' /\ disk'[NewPath(q)] = Partial
          /\ handler'[q].at = "saving"
      BY <2>3, <1>4 DEF OpenFile, Write, Inv, HandlersGood, Handlers
    <3> QED BY <1>5, <2>2, <3>1 DEF Saved
  <2>4. CASE WriteFile(q)
    <3>1. NewPath(q) \in DOMAIN disk /\ disk[NewPath(q)] = Partial
      BY <2>1, <2>4 DEF Saved, WriteFile, At
    <3>2. ~ disk[NewPath(q)].whole
      BY <3>1 DEF Partial
    <3>3. /\ NewPath(q) \in DOMAIN disk'
          /\ disk'[NewPath(q)] = Whole(handler[q].outcome.deck)
      BY <2>4, <3>1, <3>2 DEF WriteFile, Write
    <3>4. handler'[q].at = "saved"
      BY <2>4 DEF WriteFile, Inv, HandlersGood, Handlers
    <3> QED BY <1>4, <1>5, <2>2, <3>3, <3>4 DEF Saved
  <2> QED BY <2>3, <2>4
<1>8. ASSUME NEW p \in Requests, p \notin overtaken' PROVE UpToDate(p)' /\ Saved(p)'
  <2>1. p \notin overtaken /\ p \notin Rivals(q)
    BY <1>1, <1>8
  <2>2. CASE p = q
    BY <1>7, <2>1, <2>2
  <2>3. CASE p # q
    <3>1. handler'[p] = handler[p] /\ UpToDate(p) /\ Saved(p)
      BY <1>3, <2>1, <2>3 DEF DeckInv
    <3>2. UpToDate(p)'
      BY <1>1, <3>1 DEF UpToDate, stored
    <3>3. handler[p].at \in {"saving", "saved"} => NewPath(p) # NewPath(q)
      BY <2>1, <2>3 DEF Rivals
    <3>4. Saved(p)'
      BY <1>5, <1>6, <3>1, <3>3 DEF Saved
    <3> QED BY <3>2, <3>4
  <2> QED BY <2>2, <2>3
<1>9. CASE q \in overtaken /\ NewPath(q) \in rows
  <2>1. "overlap" \in harm'
    BY <1>1, <1>9
  <2> QED BY <1>1, <1>8, <2>1 DEF DeckInv, stored, FixedIsEdited, FlagsMatchDeck
<1>10. CASE ~ (q \in overtaken /\ NewPath(q) \in rows)
  <2>1. NewPath(q) \notin rows /\ harm' = harm
    BY <1>1, <1>10, NewPathIsNew
  <2>2. /\ \A p \in rows : p \in DOMAIN disk' <=> p \in DOMAIN disk
        /\ \A p \in rows \cap DOMAIN disk : disk'[p] = disk[p]
    BY <1>6, <2>1
  <2>3. FlagsMatchDeck' /\ FixedIsEdited' /\ ("overlap" \notin harm' => OneRow')
    BY <1>1, <2>1, <2>2 DEF DeckInv, stored, FixedIsEdited, FlagsMatchDeck, OnDisk, OneRow
  <2> QED BY <1>1, <1>8, <2>1, <2>2, <2>3 DEF DeckInv
<1> QED BY <1>9, <1>10

LEMMA CommitStep ==
  ASSUME Inv, DeckInv, NEW q \in Requests, CommitFix(q)
  PROVE  DeckInv'
<1>1. Answer(q) /\ UNCHANGED <<disk, review>>
  BY DEF CommitFix
<1>2. \A p \in Requests : handler'[p] = IF p = q THEN Answered ELSE handler[p]
  BY <1>1, AnswerForgets
<1>3. UpToDate(q)' /\ Saved(q)'
  BY <1>1, AnswerForgets
<1>4. CASE StillThere(q)
  <2>1. /\ overtaken' = {p \in InFlight \ {q} :
                           p \in overtaken \/ (At(p, "loaded") => handler[p].finding \in fixed')}
        /\ harm' = IF q \in overtaken THEN harm \cup {"overlap"} ELSE {}
    BY <1>4 DEF CommitFix, NoteCommit
  <2>2. ASSUME NEW p \in Requests, p \notin overtaken' PROVE UpToDate(p)' /\ Saved(p)'
    <3>1. CASE p \notin InFlight \ {q} /\ p # q
      <4>1. handler'[p].at \in {"idle", "answered"}
        BY <1>2, <3>1 DEF InFlight
      <4> QED BY <4>1 DEF UpToDate, Saved, Rebuilding, Writing
    <3>2. CASE p \in InFlight \ {q}
      <4>1. handler[p].at = "loaded" /\ handler[p].finding \notin fixed'
        BY <2>1, <2>2, <3>2 DEF At
      <4>2. handler'[p] = handler[p]
        BY <1>2, <3>2
      <4> QED BY <4>1, <4>2 DEF UpToDate, Saved, Rebuilding, Writing
    <3> QED BY <1>3, <3>1, <3>2
  <2>3. FixedIsEdited'
    BY <1>4, FlagsCommitted
  <2>4. CASE q \in overtaken
    <3>1. "overlap" \in harm'
      BY <2>1, <2>4
    <3> QED BY <2>2, <2>3, <3>1 DEF DeckInv, FlagsMatchDeck
  <2>5. CASE q \notin overtaken
    <3>1. OneRow' /\ FlagsMatchDeck'
      BY <1>4, <2>5, CommitMakesMatch
    <3> QED BY <2>2, <2>3, <3>1 DEF DeckInv
  <2> QED BY <2>4, <2>5
<1>5. CASE ~ StillThere(q)
  <2>1. UNCHANGED <<fixed, rows, overtaken, harm>>
    BY <1>5 DEF CommitFix, history
  <2>2. ASSUME NEW p \in Requests, p \notin overtaken' PROVE UpToDate(p)' /\ Saved(p)'
    <3>1. CASE p # q
      <4>1. handler'[p] = handler[p] /\ UpToDate(p) /\ Saved(p)
        BY <1>2, <2>1, <2>2, <3>1 DEF DeckInv
      <4> QED BY <1>1, <2>1, <4>1 DEF UpToDate, Saved, NewPath
    <3> QED BY <1>3, <3>1
  <2> QED BY <1>1, <2>1, <2>2 DEF DeckInv, OneRow, FixedIsEdited, FlagsMatchDeck, OnDisk
<1> QED BY <1>4, <1>5

\* Deletion and expiry take rows and their files away, and all flags at once.
Withdraws ==
  /\ UNCHANGED <<handler, overtaken>>
  /\ harm' \in {harm, harm \cup {"half_deleted"}}
  /\ rows' \subseteq rows
  /\ \/ UNCHANGED fixed /\ (review' # "deleted" => review # "deleted")
     \/ fixed' = {} /\ rows' = {} /\ review' = "deleted"
  /\ DOMAIN disk' \subseteq DOMAIN disk
  /\ DOMAIN disk \ rows \subseteq DOMAIN disk'
  /\ \A p \in DOMAIN disk' : disk'[p] = disk[p]

LEMMA OthersWithdraw ==
  ASSUME Inv, DeleteStep \/ CleanupStep \/ (\E k \in {"original", "fixed"} : Expire(k))
  PROVE  Withdraws
<1>1. CASE DeleteFiles
  BY <1>1 DEF DeleteFiles, Unlink, Withdraws, history
<1>2. CASE CleanupUnlinks
  BY <1>2 DEF CleanupUnlinks, Unlink, Withdraws, history
<1>3. CASE \/ DeleteBegins \/ EraseRow \/ DeleteCommits \/ DeleteCrash
           \/ CleanupCommits \/ CleanupCrash \/ \E k \in {"original", "fixed"} : Expire(k)
  BY <1>3 DEF DeleteBegins, EraseRow, DeleteCommits, DeleteCrash, CleanupCommits, CleanupCrash,
              Expire, Withdraws, history
<1> QED BY <1>1, <1>2, <1>3 DEF DeleteStep, DeleteGoesOn, CleanupStep

LEMMA WithdrawStep ==
  ASSUME Inv, DeckInv, Withdraws
  PROVE  DeckInv'
<1>1. ASSUME NEW q \in Requests, q \notin overtaken PROVE UpToDate(q)'
  <2>1. UpToDate(q) /\ handler'[q] = handler[q]
    BY <1>1 DEF DeckInv, Withdraws
  <2> QED BY <2>1 DEF UpToDate, Withdraws
<1>2. ASSUME NEW q \in Requests, q \notin overtaken PROVE Saved(q)'
  <2>1. NewPath(q)' = NewPath(q) /\ handler'[q] = handler[q] /\ Saved(q)
    BY <1>2 DEF Withdraws, NewPath, DeckInv
  <2>2. CASE handler[q].at \in {"saving", "saved"}
    <3>1. NewPath(q) \notin rows
      BY <1>2, <2>2, NewPathIsNew DEF Writing
    <3> QED BY <2>1, <2>2, <3>1 DEF Saved, Withdraws
  <2> QED BY <2>1, <2>2 DEF Saved
<1>3. FixedIsEdited' /\ ("overlap" \notin harm' => OneRow')
  BY DEF DeckInv, OneRow, FixedIsEdited, Withdraws
<1>4. FlagsMatchDeck'
  BY DEF DeckInv, FlagsMatchDeck, OnDisk, EditsOf, Withdraws
<1> QED BY <1>1, <1>2, <1>3, <1>4 DEF DeckInv, Withdraws

LEMMA DeckInvHolds == Spec => []DeckInv
<1>1. Init => DeckInv
  BY DEF Init, DeckInv, UpToDate, Saved, OneRow, FixedIsEdited, FlagsMatchDeck, Idle,
         Rebuilding, Writing, EditsOf, Whole
<1>2. Inv /\ DeckInv /\ [Next]_vars => DeckInv'
  <2> SUFFICES ASSUME Inv, DeckInv, [Next]_vars PROVE DeckInv'
    OBVIOUS
  <2>1. ASSUME NEW q \in Requests, ApplyStep(q) PROVE DeckInv'
    BY <2>1, LoadFindingStep, ReadSiblingsStep, RebuildStep, FlushFlagStep, ReadExistingStep,
       WriteStep, CommitStep DEF ApplyStep
  <2>2. ASSUME NEW q \in Requests, ApplyCrash(q) PROVE DeckInv'
    BY <2>2, AnswerStep DEF ApplyCrash
  <2>3. CASE UNCHANGED vars
    <3>1. UNCHANGED <<stored, disk, handler, history>>
      BY <2>3 DEF vars, stored, history
    <3> QED BY <3>1, HandlerSteps
  <2> QED BY <2>1, <2>2, <2>3, OthersWithdraw, WithdrawStep DEF Next
<1> QED BY <1>1, <1>2, InvHolds, PTL DEF Spec

\* However many requests of apply_finding_fix overlap, fail halfway, meet files
\* that expire and a review that is being deleted: the findings shown as fixed
\* are those whose edits are in the deck on offer, unless a request that was
\* overtaken has touched it since it was made.
THEOREM FlagsAlwaysMatchDeck == Spec => []FlagsMatchDeck
BY DeckInvHolds, PTL DEF DeckInv

(***************************************************************************)
(* The deck on offer can be downloaded.                                    *)
(***************************************************************************)
\* Also while a deletion waits for the rows of the findings.
DeckThere ==
  review \in {"done", "emptying"} /\ "fixed" \notin expired /\ harm = {}
    => \A p \in rows : OnDisk(p)

LEMMA DeckStays ==
  ASSUME Inv, DeckInv, DeckThere, [Next]_vars
  PROVE  DeckThere'
<1>1. ASSUME UNCHANGED <<rows, disk, review, harm>>, "fixed" \in expired => "fixed" \in expired'
      PROVE  DeckThere'
  BY <1>1 DEF DeckThere, OnDisk
<1>2. ASSUME NEW q \in Requests,
             \/ LoadFinding(q) \/ ReadSiblings(q) \/ Rebuild(q) \/ FlushFlag(q)
             \/ ReadExisting(q) \/ ApplyCrash(q)
      PROVE  DeckThere'
  <2>1. UNCHANGED <<stored, disk, history>>
    BY <1>2 DEF LoadFinding, ReadSiblings, Rebuild, FlushFlag, ReadExisting, ApplyCrash
  <2> QED BY <1>1, <2>1 DEF stored, history
<1>3. ASSUME NEW q \in Requests, OpenFile(q) \/ WriteFile(q) PROVE DeckThere'
  <2>1. /\ UNCHANGED <<rows, review, expired>>
        /\ \/ "overlap" \in harm'
           \/ /\ harm' = harm
              /\ \A p \in rows : p \in DOMAIN disk' <=> p \in DOMAIN disk
              /\ \A p \in rows \cap DOMAIN disk : disk'[p] = disk[p]
    BY <1>3, WriteStep DEF stored
  <2> QED BY <2>1 DEF DeckThere, OnDisk
<1>4. ASSUME NEW q \in Requests, CommitFix(q) PROVE DeckThere'
  <2>1. UNCHANGED <<review, disk>>
    BY <1>4 DEF CommitFix
  <2>2. CASE StillThere(q) /\ q \notin overtaken
    <3>1. rows' = {NewPath(q)} /\ OnDisk(NewPath(q))
      BY <1>4, <2>2, Committed
    <3> QED BY <2>1, <3>1 DEF DeckThere, OnDisk
  <2>3. CASE StillThere(q) /\ q \in overtaken
    <3>1. harm' # {}
      BY <1>4, <2>3 DEF CommitFix, NoteCommit
    <3> QED BY <3>1 DEF DeckThere
  <2>4. CASE ~ StillThere(q)
    BY <1>1, <1>4, <2>1, <2>4 DEF CommitFix, history
  <2> QED BY <2>2, <2>3, <2>4
<1>5. CASE DeleteStep
  BY <1>5 DEF DeleteStep, DeleteBegins, DeleteGoesOn, EraseRow, DeleteFiles, DeleteCommits,
              DeleteCrash, DeckThere, OnDisk, history
<1>6. CASE CleanupUnlinks
  <2>1. CASE "fixed" \in expired
    BY <1>6, <2>1 DEF CleanupUnlinks, DeckThere
  <2>2. CASE "fixed" \notin expired
    <3>1. ExpiredAssets \subseteq {"original"}
      BY <2>2 DEF ExpiredAssets
    <3>2. ASSUME NEW p \in rows PROVE p[1] \notin ExpiredAssets
      BY <3>1, FixedDeckAssumption DEF Inv, TypeOK, Paths
    <3>3. disk' = [p \in DOMAIN disk |-> disk[p]]
      BY <1>6, <3>2 DEF CleanupUnlinks, Unlink
    <3> QED BY <1>6, <3>3 DEF CleanupUnlinks, DeckThere, OnDisk, history
  <2> QED BY <2>1, <2>2
<1>7. CASE CleanupCommits
  BY <1>7 DEF CleanupCommits, DeckThere, OnDisk, history
<1>8. CASE CleanupCrash \/ \E kind \in {"original", "fixed"} : Expire(kind)
  BY <1>1, <1>8 DEF CleanupCrash, Expire, history
<1>9. CASE UNCHANGED vars
  BY <1>1, <1>9 DEF vars
<1> QED BY <1>2, <1>3, <1>4, <1>5, <1>6, <1>7, <1>8, <1>9 DEF Next, ApplyStep, CleanupStep

\* However many requests of apply_finding_fix overlap and whatever request or
\* run of the cron job dies on the way, a deck that has not expired can be
\* downloaded whole, unless an overtaken request or a deletion that failed after
\* it had unlinked the files has touched it since it was made.
THEOREM DeckAlwaysOnDisk == Spec => []DeckOnDisk
<1>1. Init => DeckThere
  BY DEF Init, DeckThere, OnDisk, Whole
<1>2. Inv /\ DeckInv /\ DeckThere /\ [Next]_vars => DeckThere'
  BY DeckStays
<1>3. DeckThere => DeckOnDisk
  BY DEF DeckThere, DeckOnDisk
<1> QED BY <1>1, <1>2, <1>3, InvHolds, DeckInvHolds, PTL DEF Spec

(***************************************************************************)
(* The requests implement AppliedFixes.                                    *)
(***************************************************************************)
\* The deck on offer is that of the one row, if its file is there.
LEMMA TheDeck ==
  ASSUME OneRow
  PROVE  /\ \A p \in rows : OnDisk(p) => deckOnOffer = disk[p].deck
         /\ (\A p \in rows : ~ OnDisk(p)) => deckOnOffer = NoDeck
<1>1. ASSUME NEW p \in rows, OnDisk(p) PROVE deckOnOffer = disk[p].deck
  <2>1. Offered = {p}
    BY <1>1 DEF OneRow, Offered
  <2>2. (CHOOSE r \in Offered : TRUE) = p
    BY <2>1
  <2> QED BY <2>1, <2>2 DEF deckOnOffer
<1>2. ASSUME \A p \in rows : ~ OnDisk(p) PROVE deckOnOffer = NoDeck
  BY <1>2 DEF Offered, deckOnOffer
<1> QED BY <1>1, <1>2

LEMMA TheDeckNext ==
  ASSUME OneRow'
  PROVE  /\ \A p \in rows' : OnDisk(p)' => deckOnOffer' = disk'[p].deck
         /\ (\A p \in rows' : ~ OnDisk(p)') => deckOnOffer' = NoDeck
<1>1. ASSUME NEW p \in rows', OnDisk(p)' PROVE deckOnOffer' = disk'[p].deck
  <2>1. Offered' = {p}
    BY <1>1 DEF OneRow, Offered
  <2>2. (CHOOSE r \in Offered' : TRUE) = p
    BY <2>1
  <2> QED BY <2>1, <2>2 DEF deckOnOffer
<1>2. ASSUME \A p \in rows' : ~ OnDisk(p)' PROVE deckOnOffer' = NoDeck
  BY <1>2 DEF Offered, deckOnOffer
<1> QED BY <1>1, <1>2

\* A step of AppliedFixes, with the findings it may show as fixed.
PromiseStep == [Promise!AppliedNext /\ Promise!ShownAsEdited']_(Promise!promise)

USE DEF Promise!promise

\* Nothing to see: rows and flags stay, and so do the files of the rows.
LEMMA Unseen ==
  ASSUME UNCHANGED <<fixed, rows, review, harm>>,
         \A p \in rows : p \in DOMAIN disk' <=> p \in DOMAIN disk,
         \A p \in rows \cap DOMAIN disk : disk'[p] = disk[p]
  PROVE  PromiseStep
<1>1. Offered' = Offered
  BY DEF Offered, OnDisk
<1>2. \A p \in Offered : disk'[p] = disk[p]
  BY DEF Offered, OnDisk
<1>3. deckOnOffer' = deckOnOffer
  <2>1. CASE Offered = {}
    BY <1>1, <2>1 DEF deckOnOffer
  <2>2. CASE Offered # {}
    <3>1. (CHOOSE r \in Offered : TRUE) \in Offered
      BY <2>2
    <3> QED BY <1>1, <1>2, <2>2, <3>1 DEF deckOnOffer
  <2> QED BY <2>1, <2>2
<1> QED BY <1>3 DEF PromiseStep

\* A request that was overtaken shows no other finding as fixed than its own.
LEMMA OverlapKeepsPromise ==
  ASSUME Inv, DeckInv, DeckInv', NEW q \in Requests, q \in InFlight,
         review # "deleted", review' = review,
         fixed' \subseteq fixed \cup {handler[q].finding}, "overlap" \in harm'
  PROVE  PromiseStep
<1>1. handler[q].finding \in Findings
  BY DEF Inv, HandlersGood, HandlerGood, InFlight
<1>2. Promise!Overlap(handler[q].finding)
  BY DEF Promise!Overlap
<1>3. Promise!ShownAsEdited'
  BY DEF Promise!ShownAsEdited, DeckInv, FixedIsEdited
<1> QED BY <1>1, <1>2, <1>3 DEF PromiseStep, Promise!AppliedNext

LEMMA CommitKeepsPromise ==
  ASSUME Inv, DeckInv, DeckInv', NEW q \in Requests, CommitFix(q)
  PROVE  PromiseStep
<1>1. CASE StillThere(q) /\ q \notin overtaken
  <2> DEFINE f == handler[q].finding  o == handler[q].outcome
  <2>1. f \in Findings /\ review # "deleted" /\ review' = review
    BY <1>1, FlagsCommitted
  <2>2. EditsOf(fixed') = o.deck /\ OneRow'
    BY <1>1, CommitMakesMatch
  <2>3. \/ /\ EditsOf(fixed \cup {f}) \notin Unsafe
           /\ o.deck = EditsOf(fixed \cup {f})
           /\ fixed' \in {fixed, fixed \cup {f}}
        \/ /\ EditsOf(fixed \cup {f}) \in Unsafe
           /\ fixed' = {} /\ o.deck = {}
    BY <1>1, CommitMakesMatch
  <2>4. deckOnOffer' = o.deck
    <3>1. /\ rows' = {NewPath(q)} /\ disk' = disk
          /\ OnDisk(NewPath(q)) /\ disk[NewPath(q)].deck = o.deck
      BY <1>1, Committed DEF CommitFix
    <3> QED BY <2>2, <3>1, TheDeckNext DEF OnDisk
  <2>5. harm' = {}
    BY <1>1 DEF CommitFix, NoteCommit
  <2>6. Promise!ShownAsEdited'
    BY DEF Promise!ShownAsEdited, DeckInv, FixedIsEdited
  <2> HIDE DEF f, o
  <2>7. Promise!ApplyOne(f) \/ Promise!RollBack(f)
    BY <2>1, <2>2, <2>3, <2>4, <2>5
       DEF Promise!ApplyOne, Promise!RollBack, Promise!EditsOf, EditsOf
  <2> QED BY <2>1, <2>6, <2>7 DEF PromiseStep, Promise!AppliedNext
<1>2. CASE StillThere(q) /\ q \in overtaken
  <2>1. "overlap" \in harm'
    BY <1>2 DEF CommitFix, NoteCommit
  <2>2. q \in InFlight
    BY DEF CommitFix, At, InFlight
  <2> QED BY <1>2, <2>1, <2>2, FlagsCommitted, OverlapKeepsPromise
<1>3. CASE ~ StillThere(q)
  BY <1>3, Unseen DEF CommitFix, history
<1> QED BY <1>1, <1>2, <1>3

LEMMA WriteKeepsPromise ==
  ASSUME Inv, DeckInv, DeckInv', NEW q \in Requests, OpenFile(q) \/ WriteFile(q)
  PROVE  PromiseStep
<1>1. UNCHANGED <<fixed, rows, review>> /\ q \in InFlight
  BY DEF OpenFile, WriteFile, stored, At, InFlight
<1>2. CASE /\ harm' = harm
           /\ \A p \in rows : p \in DOMAIN disk' <=> p \in DOMAIN disk
           /\ \A p \in rows \cap DOMAIN disk : disk'[p] = disk[p]
  BY <1>1, <1>2, Unseen
<1>3. CASE "overlap" \in harm' /\ review # "deleted"
  BY <1>1, <1>3, OverlapKeepsPromise
<1>4. CASE "overlap" \in harm' /\ review = "deleted"
  <2>1. rows = {}
    BY <1>4 DEF Inv, NothingLeft
  <2>2. harm' = harm
    BY <2>1 DEF OpenFile, WriteFile, NoteWriting
  <2> QED BY <1>1, <2>1, <2>2, Unseen
<1> QED BY <1>2, <1>3, <1>4, WriteStep

LEMMA WithdrawKeepsPromise ==
  ASSUME Inv, DeckInv, DeckInv', Withdraws, review' # "deleted" \/ review = "deleted"
  PROVE  PromiseStep
<1>1. (review' # "deleted") = (review # "deleted") /\ fixed' = fixed
  BY DEF Withdraws, Inv, NothingLeft
<1>2. ("overlap" \in harm') = ("overlap" \in harm)
  BY DEF Withdraws
<1>3. Promise!ShownAsEdited'
  BY DEF Promise!ShownAsEdited, DeckInv, FixedIsEdited
<1>4. CASE "overlap" \in harm
  BY <1>1, <1>2, <1>3, <1>4 DEF PromiseStep, Promise!AppliedNext, Promise!Withdraw
<1>5. CASE "overlap" \notin harm
  <2>1. OneRow /\ OneRow'
    BY <1>2, <1>5 DEF DeckInv
  <2>2. CASE \E p \in rows' : OnDisk(p)'
    <3>1. PICK p \in rows' : OnDisk(p)'
      BY <2>2
    <3>2. p \in rows /\ OnDisk(p) /\ disk'[p] = disk[p]
      BY <3>1 DEF Withdraws, OnDisk
    <3>3. deckOnOffer' = deckOnOffer
      BY <2>1, <3>1, <3>2, TheDeck, TheDeckNext
    <3> QED BY <1>1, <1>2, <3>3 DEF PromiseStep
  <2>3. CASE \A p \in rows' : ~ OnDisk(p)'
    <3>1. deckOnOffer' = NoDeck
      BY <2>1, <2>3, TheDeckNext
    <3> QED BY <1>1, <1>2, <1>3, <3>1 DEF PromiseStep, Promise!AppliedNext, Promise!Withdraw
  <2> QED BY <2>2, <2>3
<1> QED BY <1>4, <1>5

LEMMA DeleteKeepsPromise ==
  ASSUME DeleteCommits
  PROVE  PromiseStep
<1>1. fixed' = {} /\ rows' = {} /\ review' = "deleted" /\ harm' = harm
  BY DEF DeleteCommits, history
<1>2. deckOnOffer' = NoDeck
  BY <1>1 DEF deckOnOffer, Offered
<1>3. Promise!ShownAsEdited'
  BY <1>1 DEF Promise!ShownAsEdited
<1> QED BY <1>1, <1>2, <1>3 DEF PromiseStep, Promise!AppliedNext, Promise!Delete

\* However many requests overlap and whatever fails meanwhile: each that nobody
\* has overtaken applies its finding to the deck on offer or rolls all findings
\* back, in one step (apply_finding_fix).
THEOREM PromiseAlwaysKept == Spec => KeepsPromise
<1>1. Init => Promise!AppliedInit
  <2> SUFFICES ASSUME Init PROVE Promise!AppliedInit
    OBVIOUS
  <2>1. OneRow /\ <<Seed, 1>> \in rows /\ OnDisk(<<Seed, 1>>) /\ disk[<<Seed, 1>>].deck = {}
    BY DEF Init, OneRow, OnDisk, Whole
  <2>2. deckOnOffer = {}
    BY <2>1, TheDeck
  <2> QED BY <2>2 DEF Init, Promise!AppliedInit
<1>2. Inv /\ DeckInv /\ DeckInv' /\ [Next]_vars
        => [Promise!AppliedNext /\ Promise!ShownAsEdited']_(Promise!promise)
  <2> SUFFICES ASSUME Inv, DeckInv, DeckInv', [Next]_vars PROVE PromiseStep
    BY DEF PromiseStep
  <2>1. ASSUME NEW q \in Requests,
               \/ LoadFinding(q) \/ ReadSiblings(q) \/ Rebuild(q) \/ FlushFlag(q)
               \/ ReadExisting(q) \/ ApplyCrash(q)
        PROVE  PromiseStep
    <3>1. UNCHANGED <<stored, disk, history>>
      BY <2>1 DEF LoadFinding, ReadSiblings, Rebuild, FlushFlag, ReadExisting, ApplyCrash
    <3> QED BY <3>1, Unseen DEF stored, history
  <2>2. ASSUME NEW q \in Requests, OpenFile(q) \/ WriteFile(q) \/ CommitFix(q) PROVE PromiseStep
    BY <2>2, WriteKeepsPromise, CommitKeepsPromise
  <2>3. CASE DeleteCommits
    BY <2>3, DeleteKeepsPromise
  <2>4. CASE \/ DeleteBegins \/ EraseRow \/ DeleteFiles \/ DeleteCrash \/ CleanupStep
             \/ \E k \in {"original", "fixed"} : Expire(k)
    <3>1. Withdraws
      BY <2>4, OthersWithdraw DEF DeleteStep, DeleteGoesOn
    <3>2. review' # "deleted" \/ review = "deleted"
      BY <2>4 DEF DeleteBegins, EraseRow, DeleteFiles, DeleteCrash, CleanupStep, CleanupUnlinks,
                  CleanupCommits, CleanupCrash, Expire
    <3> QED BY <3>1, <3>2, WithdrawKeepsPromise
  <2>5. CASE UNCHANGED vars
    BY <2>5, Unseen DEF vars
  <2> QED BY <2>1, <2>2, <2>3, <2>4, <2>5 DEF Next, ApplyStep, DeleteStep, DeleteGoesOn
<1> QED BY <1>1, <1>2, InvHolds, DeckInvHolds, PTL DEF Spec, KeepsPromise, Promise!AppliedSpec

(***************************************************************************)
(* The locks, and how many steps a request takes: what, besides fairness,  *)
(* EveryApplyIsAnswered needs of the system.                               *)
(***************************************************************************)
\* The rows of findings are changed by one at a time: no two requests have the
\* same row locked, and none has one that a deletion has erased.
LocksExclude ==
  /\ \A p, q \in Requests : p # q => handler[p].held \cap handler[q].held = {}
  /\ \A q \in Requests : handler[q].held \cap erased = {}

\* Only FlushFlag and EraseRow lock rows, and both wait until they are free.
LEMMA LocksTaken ==
  ASSUME Inv, NEW p \in Requests, ApplyStep(p) \/ ApplyCrash(p)
  PROVE  /\ UNCHANGED erased /\ \A q \in Requests \ {p} : handler'[q] = handler[q]
         /\ \/ handler'[p].held \subseteq handler[p].held
            \/ \E g : /\ handler'[p].held = handler[p].held \cup {g}
                      /\ g \notin erased /\ \A q \in Requests : g \notin handler[q].held
<1>1. handler \in [Requests -> Handlers]
  BY DEF Inv, TypeOK
<1>2. UNCHANGED erased /\ \A q \in Requests \ {p} : handler'[q] = handler[q]
  BY <1>1 DEF ApplyStep, LoadFinding, ReadSiblings, Rebuild, FlushFlag, ReadExisting, OpenFile,
              WriteFile, CommitFix, ApplyCrash, Answer, stored
<1>3. CASE Answer(p)
  <2>1. handler'[p].held = {}
    BY <1>1, <1>3 DEF Answer, Answered, Idle
  <2> QED BY <1>2, <2>1
<1>4. CASE ~ Answer(p) /\ ~ FlushFlag(p)
  <2>1. handler'[p].held = handler[p].held
    BY <1>1, <1>4 DEF ApplyStep, LoadFinding, ReadSiblings, Rebuild, ReadExisting, OpenFile,
                      WriteFile, CommitFix, ApplyCrash, Handlers
  <2> QED BY <1>2, <2>1
<1>5. CASE ~ Answer(p) /\ FlushFlag(p)
  <2>1. PICK g : /\ handler' = [handler EXCEPT ![p].held = @ \cup {g}]
                 /\ g \notin erased /\ \A q \in Requests : g \notin handler[q].held
    BY <1>5 DEF FlushFlag
  <2>2. handler'[p].held = handler[p].held \cup {g}
    BY <1>1, <2>1 DEF Handlers
  <2> QED BY <1>2, <2>1, <2>2
<1> QED BY <1>3, <1>4, <1>5

\* However requests overlap and crash, the flags of one finding are never
\* written by two of them at once, nor by one after a deletion has erased its row
\* (apply_finding_fix, upsert_fixed_pptx, delete_review).
THEOREM LocksAlwaysExclude == Spec => []LocksExclude
<1>1. Init => LocksExclude
  BY DEF Init, LocksExclude, Idle
<1>2. Inv /\ LocksExclude /\ [Next]_vars => LocksExclude'
  <2> SUFFICES ASSUME Inv, LocksExclude, [Next]_vars PROVE LocksExclude'
    OBVIOUS
  <2>1. ASSUME NEW p \in Requests, ApplyStep(p) \/ ApplyCrash(p) PROVE LocksExclude'
    <3>1. /\ UNCHANGED erased /\ \A q \in Requests \ {p} : handler'[q] = handler[q]
          /\ \/ handler'[p].held \subseteq handler[p].held
             \/ \E g : /\ handler'[p].held = handler[p].held \cup {g}
                       /\ g \notin erased /\ \A q \in Requests : g \notin handler[q].held
      BY <2>1, LocksTaken
    <3> QED BY <3>1 DEF LocksExclude
  <2>2. CASE EraseRow
    <3>1. PICK g : erased' = erased \cup {g} /\ \A q \in Requests : g \notin handler[q].held
      BY <2>2 DEF EraseRow
    <3> QED BY <2>2, <3>1 DEF EraseRow, LocksExclude
  <2>3. CASE \/ DeleteBegins \/ DeleteFiles \/ DeleteCommits \/ DeleteCrash \/ CleanupStep
             \/ \E k \in {"original", "fixed"} : Expire(k)
    BY <2>3 DEF DeleteBegins, DeleteFiles, DeleteCommits, DeleteCrash, CleanupStep,
                CleanupUnlinks, CleanupCommits, CleanupCrash, Expire, LocksExclude
  <2>4. CASE UNCHANGED vars
    BY <2>4 DEF vars, LocksExclude
  <2> QED BY <2>1, <2>2, <2>3, <2>4 DEF Next, DeleteStep, DeleteGoesOn
<1> QED BY <1>1, <1>2, InvHolds, PTL DEF Spec

\* The stages a handler has before it: what is left of apply_finding_fix.
StagesLeft(h) ==
  CASE h.at = "loaded" -> 6
    [] h.at = "fixing" -> 5
    [] h.at = "flushing" -> 4
    [] h.at = "read" -> 3
    [] h.at = "saving" -> 2
    [] h.at = "saved" -> 1
    [] OTHER -> 0

\* Of the rows it has to write it has locked one more.
LocksOneMore(h, j) ==
  /\ h.at = "flushing" /\ j.at = "flushing" /\ j.outcome = h.outcome
  /\ h.held # j.held /\ h.held \subseteq j.held
  /\ j.held \subseteq h.outcome.on \cup h.outcome.off

NearerToItsAnswer(q) ==
  /\ handler'[q] # handler[q] /\ q \in InFlight =>
       \/ StagesLeft(handler'[q]) \in 0..(StagesLeft(handler[q]) - 1)
       \/ LocksOneMore(handler[q], handler'[q])
  /\ At(q, "answered") => handler'[q] = handler[q]

\* A request is never set back: whatever fails, expires or is deleted, each
\* change of a handler in flight brings it to a later stage, of which there are
\* six, or locks one more of the rows it has to write; and one that has answered
\* is left alone.
RequestsWearOut == [][\A q \in Requests : NearerToItsAnswer(q)]_vars

LEMMA StepWearsOut ==
  ASSUME Inv, NEW q \in Requests, ApplyStep(q) \/ ApplyCrash(q)
  PROVE  NearerToItsAnswer(q) /\ \A p \in Requests : p # q => handler'[p] = handler[p]
<1>1. handler \in [Requests -> Handlers]
  BY DEF Inv, TypeOK
<1>2. \A p \in Requests : p # q => handler'[p] = handler[p]
  BY LocksTaken
<1>3. ~ At(q, "answered")
  BY DEF ApplyStep, LoadFinding, ReadSiblings, Rebuild, FlushFlag, ReadExisting, OpenFile,
         WriteFile, CommitFix, ApplyCrash, InFlight, At
<1>4. CASE Answer(q) /\ q \in InFlight
  <2>1. handler'[q].at = "answered"
    BY <1>1, <1>4 DEF Answer, Answered, Idle
  <2>2. handler[q].at \in {"loaded", "fixing", "flushing", "read", "saving", "saved"}
    BY <1>1, <1>4 DEF InFlight, Handlers, Writing
  <2>3. StagesLeft(handler'[q]) = 0 /\ StagesLeft(handler[q]) \in 1..6
    BY <2>1, <2>2 DEF StagesLeft
  <2> QED BY <1>2, <1>3, <2>3 DEF NearerToItsAnswer
<1>5. CASE ~ Answer(q) /\ FlushFlag(q)
  <2>1. PICK g \in NextRow(Changed(q) \ handler[q].held) :
          handler' = [handler EXCEPT ![q].held = @ \cup {g}]
    BY <1>5 DEF FlushFlag
  <2>2. /\ handler'[q].at = "flushing" /\ handler[q].at = "flushing"
        /\ handler'[q].outcome = handler[q].outcome
        /\ handler'[q].held = handler[q].held \cup {g}
    BY <1>1, <1>5, <2>1 DEF FlushFlag, At, Handlers
  <2>3. g \in Changed(q) /\ g \notin handler[q].held /\ handler[q].held \subseteq Changed(q)
    BY <2>1 DEF NextRow, Inv, HandlersGood, HandlerGood, Changed
  <2>4. LocksOneMore(handler[q], handler'[q])
    BY <2>2, <2>3 DEF LocksOneMore, Changed
  <2> QED BY <1>2, <1>3, <2>4 DEF NearerToItsAnswer
<1>6. CASE ~ Answer(q) /\ ~ FlushFlag(q)
  <2>1. \/ handler[q].at = "idle"
        \/ handler[q].at = "loaded" /\ handler'[q].at = "fixing"
        \/ handler[q].at = "fixing" /\ handler'[q].at = "flushing"
        \/ handler[q].at = "flushing" /\ handler'[q].at = "read"
        \/ handler[q].at = "read" /\ handler'[q].at = "saving"
        \/ handler[q].at = "saving" /\ handler'[q].at = "saved"
    <3>1. /\ ReadSiblings(q) => handler[q].at = "loaded" /\ handler'[q].at = "fixing"
          /\ Rebuild(q) => handler[q].at = "fixing" /\ handler'[q].at = "flushing"
          /\ ReadExisting(q) => handler[q].at = "flushing" /\ handler'[q].at = "read"
      BY <1>1, <1>6 DEF ReadSiblings, Rebuild, ReadExisting, At, Handlers
    <3>2. /\ OpenFile(q) => handler[q].at = "read" /\ handler'[q].at = "saving"
          /\ WriteFile(q) => handler[q].at = "saving" /\ handler'[q].at = "saved"
      BY <1>1 DEF OpenFile, WriteFile, At, Handlers
    <3>3. (LoadFinding(q) => handler[q].at = "idle") /\ ~ CommitFix(q) /\ ~ ApplyCrash(q)
      BY <1>6 DEF LoadFinding, CommitFix, ApplyCrash, At
    <3> QED BY <1>6, <3>1, <3>2, <3>3 DEF ApplyStep
  <2>2. q \in InFlight => StagesLeft(handler'[q]) \in 0..(StagesLeft(handler[q]) - 1)
    BY <2>1 DEF StagesLeft, InFlight
  <2> QED BY <1>2, <1>3, <2>2 DEF NearerToItsAnswer
<1>7. CASE q \notin InFlight
  BY <1>2, <1>3, <1>7 DEF NearerToItsAnswer
<1> QED BY <1>4, <1>5, <1>6, <1>7

\* No request of apply_finding_fix goes round in circles: with
\* NobodyEverWaitsInACircle the safety half of EveryApplyIsAnswered, for any
\* number of requests.
THEOREM RequestsAlwaysWearOut == Spec => RequestsWearOut
<1>1. Inv /\ [Next]_vars => [\A q \in Requests : NearerToItsAnswer(q)]_vars
  <2> SUFFICES ASSUME Inv, [Next]_vars, NEW q \in Requests PROVE NearerToItsAnswer(q)
    OBVIOUS
  <2>1. ASSUME NEW p \in Requests, ApplyStep(p) \/ ApplyCrash(p) PROVE NearerToItsAnswer(q)
    <3>1. CASE p = q
      BY <2>1, <3>1, StepWearsOut
    <3>2. CASE p # q
      <4>1. handler'[q] = handler[q]
        BY <2>1, <3>2, StepWearsOut
      <4> QED BY <4>1 DEF NearerToItsAnswer
    <3> QED BY <3>1, <3>2
  <2>2. CASE \/ DeleteStep \/ CleanupStep \/ UNCHANGED vars
             \/ \E k \in {"original", "fixed"} : Expire(k)
    <3>1. UNCHANGED handler
      BY <2>2 DEF DeleteStep, DeleteGoesOn, DeleteBegins, EraseRow, DeleteFiles, DeleteCommits,
                  DeleteCrash, CleanupStep, CleanupUnlinks, CleanupCommits, CleanupCrash, Expire,
                  vars
    <3> QED BY <3>1 DEF NearerToItsAnswer
  <2> QED BY <2>1, <2>2 DEF Next
<1> QED BY <1>1, InvHolds, PTL DEF Spec, RequestsWearOut
===============================================================================
