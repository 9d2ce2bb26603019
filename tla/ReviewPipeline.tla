---------------------------- MODULE ReviewPipeline ----------------------------
(***************************************************************************)
(* One run of the review pipeline (worker/tasks.py, _run_pipeline): the    *)
(* deck is ingested, five analyzers take turns, each asking the language   *)
(* model about several slides at once, and the aggregator judges, caps and *)
(* orders what they found.                                                 *)
(*                                                                         *)
(* Every analyzer is isolated: when one of its calls fails it contributes  *)
(* nothing.  asyncio.gather does not cancel the other calls then, so they  *)
(* run on as strays beside the analyzers that follow, holding and taking   *)
(* the semaphore of SlideAnalyzer, until the client is closed.             *)
(*                                                                         *)
(* A task is what one analyzer does about one slide (place 0: about the    *)
(* deck as a whole).  What a call answers is any member of Answers; its    *)
(* retries and its repair are inside the call.                             *)
(***************************************************************************)
EXTENDS Aggregation, FiniteSets, FiniteSetsExt

CONSTANTS
  Concurrency,   \* the semaphore of SlideAnalyzer
  MaxZooms,      \* MAX_ZOOMS_PER_SLIDE
  Answers,       \* what a call about a slide may answer: for each analyzer a
                 \* set of sequences of [box, severity]
  Remarks,       \* what may be said of the deck as a whole: the same, with
                 \* the slides it names, as sequences of [slide, severity]
  Overlapping,   \* the pairs of boxes with IoU above the threshold
  Texts          \* which slides may have text: a set of sets of slides

Slides == 1..NSlides
Parts == 0..(NPlaces - 1)
Analyzers == <<"slide_analyzer", "zoom_agent", "deck_analyzer", "chart_checker",
               "crossmodal_analyzer">>
Names == {Analyzers[i] : i \in DOMAIN Analyzers}

\* A box overlaps itself; "none" is no box.
Boxes == {pair[1] : pair \in Overlapping} \cup {"none"}

ASSUME PipelineAssumption ==
  /\ Concurrency \in Nat \ {0} /\ MaxZooms \in Nat
  /\ Texts \subseteq SUBSET (1..NSlides)
  /\ Answers \in [Names \ {"deck_analyzer"} -> SUBSET Seq([box : Boxes, severity : ToSet(Severities)])]
  /\ Remarks \in [{"deck_analyzer", "crossmodal_analyzer"}
                    -> SUBSET Seq([slide : Parts, severity : ToSet(Severities)])]

VARIABLES
  phase,      \* "ingesting", "analyzing", "judging", "reported" or "failed"
  texts,      \* ctx.meta["slide_texts"]: the slides with text
  audio,      \* is a recording attached?
  turn,       \* the analyzer whose turn it is
  begun,      \* has it started its tasks?
  done,       \* the analyzers that contributed ("analyzer.done")
  task,       \* task[a][p]: what analyzer a does about place p
  flagged,    \* ctx.meta["has_chart"]
  delivery,   \* is ctx.step_results["delivery"] set?
  findings,   \* ctx.findings
  kept,       \* the aggregator's list while it judges
  against,    \* the first of `kept' the next finding was not compared with
  judged      \* how many findings were confirmed as duplicates

vars == <<phase, texts, audio, turn, begun, done, task, flagged, delivery,
          findings, kept, against, judged>>
context == <<texts, audio>>
stepping == <<turn, begun, done, flagged, findings>>
judging == <<kept, against, judged>>

Finding(a, place, box, severity) ==
  [by |-> a, slide |-> place, box |-> box, severity |-> severity, hides |-> 0]
Stamp(a, place, answer) ==
  [i \in DOMAIN answer |-> Finding(a, place, answer[i].box, answer[i].severity)]
StampRemarks(a, answer) ==
  [i \in DOMAIN answer |-> Finding(a, answer[i].slide, "none", answer[i].severity)]

\* calls: how many answers the task still needs (MaxZooms + 1: the screening
\* that says how many crops there will be); chart: did the model see a chart?
NoTask == [at |-> "absent", calls |-> 0, found |-> <<>>, chart |-> FALSE]
Queued(calls) == [NoTask EXCEPT !.at = "queued", !.calls = calls]
Answered(found) == [NoTask EXCEPT !.at = "answered", !.found = found]

Current == Analyzers[turn]
InState(a, state) == {p \in Parts : task[a][p].at = state}
Found(a) == FlattenSeq([i \in 1..Len(Places) |-> task[a][Places[i]].found])

TypeOK ==
  /\ phase \in {"ingesting", "analyzing", "judging", "reported", "failed"}
  /\ texts \subseteq Slides /\ flagged \subseteq Slides
  /\ audio \in BOOLEAN /\ begun \in BOOLEAN /\ delivery \in BOOLEAN
  /\ turn \in 1..(Len(Analyzers) + 1) /\ done \subseteq Names
  /\ \A a \in Names, p \in Parts :
       /\ task[a][p].at \in {"absent", "queued", "asked", "answered", "failed"}
       /\ task[a][p].calls \in 0..(MaxZooms + 2)
  /\ against \in 1..(Len(kept) + 1) /\ judged \in 0..Len(findings)

Init ==
  /\ phase = "ingesting" /\ texts = {} /\ audio \in BOOLEAN
  /\ turn = 1 /\ begun = FALSE /\ done = {} /\ flagged = {} /\ delivery = FALSE
  /\ task = [a \in Names |-> [p \in Parts |-> NoTask]]
  /\ findings = <<>> /\ kept = <<>> /\ against = 1 /\ judged = 0

(***************************************************************************)
(* Ingest: the deck is converted, on the second attempt if need be, and    *)
(* rendered; a PDF has pages but no texts.  Any error ends the run.        *)
(***************************************************************************)
Ingest ==
  /\ phase = "ingesting" /\ phase' = "analyzing"
  /\ texts' \in Texts
  /\ UNCHANGED <<audio, task, delivery, stepping, judging>>

IngestFails ==
  /\ phase = "ingesting" /\ phase' = "failed"
  /\ UNCHANGED <<context, task, delivery, stepping, judging>>

(***************************************************************************)
(* An analyzer's turn.                                                     *)
(***************************************************************************)
Begin(a, tasks) ==
  /\ phase = "analyzing" /\ turn \in DOMAIN Analyzers /\ ~ begun
  /\ Current = a
  /\ begun' = TRUE
  /\ task' = [task EXCEPT ![a] = [p \in Parts |->
                IF p \in DOMAIN tasks THEN tasks[p] ELSE NoTask]]
  /\ UNCHANGED <<phase, context, turn, done, flagged, findings, judging>>

\* One call per slide, a screening per slide, one call about the deck (none
\* when there is no slide), one reading per slide with a chart.
BeginVision ==
  /\ \/ Begin("slide_analyzer", [p \in Slides |-> Queued(1)])
     \/ Begin("zoom_agent", [p \in Slides |-> Queued(MaxZooms + 1)])
     \/ Begin("deck_analyzer", [p \in {0 : s \in Slides} |-> Queued(1)])
     \/ Begin("chart_checker",
              [p \in flagged |-> Queued(IF p \in texts THEN 2 ELSE 1)])
  /\ UNCHANGED delivery

\* Without a recording, or in silence, there is nothing to do.
BeginQuiet ==
  /\ Begin("crossmodal_analyzer", <<>>)
  /\ UNCHANGED delivery

\* The recording is extracted and transcribed: delivery and the pace of slides
\* are measured, and the speech on each slide with text is checked against it.
BeginSpeech ==
  LET a == "crossmodal_analyzer" IN
  /\ audio
  /\ delivery' = TRUE
  /\ \E remarks \in Remarks[a], spoken \in SUBSET texts :
       Begin(a, [p \in spoken \cup {0} |->
                   IF p = 0 THEN Answered(StampRemarks(a, remarks)) ELSE Queued(1)])

\* ffmpeg or the transcription fails.
BeginFails ==
  /\ audio
  /\ Begin("crossmodal_analyzer", [p \in {0} |-> [NoTask EXCEPT !.at = "failed"]])
  /\ UNCHANGED delivery

(***************************************************************************)
(* The calls of a task, in its analyzer's turn or as a stray.              *)
(***************************************************************************)
Advance(a, p, next) ==
  /\ task' = [task EXCEPT ![a][p] = next]
  /\ UNCHANGED <<phase, context, delivery, stepping, judging>>

ClientOpen == phase \in {"analyzing", "judging"}

\* SlideAnalyzer asks about a bounded number of slides at a time.
Ask(a, p) ==
  /\ task[a][p].at = "queued" /\ ClientOpen
  /\ a = "slide_analyzer" => Cardinality(InState(a, "asked")) < Concurrency
  /\ Advance(a, p, [task[a][p] EXCEPT !.at = "asked"])

\* A mutation of Fail: every error is retried.
FailRetries(a, p) ==
  /\ task[a][p].at = "asked"
  /\ Advance(a, p, [task[a][p] EXCEPT !.at = "queued"])

\* An error that outlives the retries, a refusal, an answer that cannot be
\* repaired, a picture or a table that cannot be read, or a client closed
\* meanwhile.
Fail(a, p) ==
  /\ \/ task[a][p].at = "asked"
     \/ task[a][p].at = "queued" /\ ~ ClientOpen
  /\ Advance(a, p, [task[a][p] EXCEPT !.at = "failed", !.calls = 0])

Asked(a, p) == task[a][p].at = "asked" /\ ClientOpen

\* More to ask, or the task's result.
Continued(a, p, found, calls) ==
  [task[a][p] EXCEPT !.found = found, !.calls = calls,
                     !.at = IF calls = 0 THEN "answered" ELSE "asked"]

AnswerSlide(p) ==
  LET a == "slide_analyzer" IN
  /\ Asked(a, p)
  /\ \E answer \in Answers[a], chart \in BOOLEAN :
       Advance(a, p, [Answered(Stamp(a, p, answer)) EXCEPT !.chart = chart])

\* Screening: the regions that are worth a crop.
AnswerScreening(p) ==
  LET a == "zoom_agent" IN
  /\ Asked(a, p) /\ task[a][p].calls = MaxZooms + 1
  /\ \E regions \in 0..MaxZooms : Advance(a, p, Continued(a, p, <<>>, regions))

Overlaps(f, g) ==
  f.box # "none" /\ g.box # "none" /\ <<f.box, g.box>> \in Overlapping

\* A mutation of Accept: an answer is compared with the slide's known findings
\* only.
AcceptRepeats(p, accepted, answer) ==
  LET known == {findings[i] : i \in {j \in DOMAIN findings : findings[j].slide = p}}
  IN  accepted \o Chosen(answer, {i \in DOMAIN answer : ~ \E g \in known : Overlaps(answer[i], g)})

\* The findings of an answer that overlap neither the slide's known findings
\* nor the ones accepted before.
Accept(p, accepted, answer) ==
  LET known == {findings[i] : i \in {j \in DOMAIN findings : findings[j].slide = p}}
      new[n \in 0..Len(answer)] ==
        IF n = 0 THEN accepted
        ELSE IF \E g \in known \cup ToSet(new[n - 1]) : Overlaps(answer[n], g)
             THEN new[n - 1] ELSE Append(new[n - 1], answer[n])
  IN  new[Len(answer)]

AnswerZoom(p) ==
  LET a == "zoom_agent" IN
  /\ Asked(a, p) /\ task[a][p].calls <= MaxZooms
  /\ \E answer \in Answers[a] :
       Advance(a, p, Continued(a, p,
         Accept(p, task[a][p].found, Stamp(a, p, answer)), task[a][p].calls - 1))

\* The model names the slides of its remarks about the deck itself.
AnswerDeck(p) ==
  LET a == "deck_analyzer" IN
  /\ Asked(a, p)
  /\ \E remarks \in Remarks[a] : Advance(a, p, Answered(StampRemarks(a, remarks)))

\* The reading is checked by code, then compared with the slide's text.
AnswerChart(p) ==
  LET a == "chart_checker" IN
  /\ Asked(a, p)
  /\ \E answer \in Answers[a] :
       Advance(a, p, Continued(a, p, task[a][p].found \o Stamp(a, p, answer),
                               task[a][p].calls - 1))

AnswerSpeech(p) ==
  LET a == "crossmodal_analyzer" IN
  /\ Asked(a, p)
  /\ \E answer \in Answers[a] : Advance(a, p, Answered(Stamp(a, p, answer)))

(***************************************************************************)
(* The end of a turn: all tasks answered, or one failed.                   *)
(***************************************************************************)
AnalyzerDone ==
  /\ phase = "analyzing" /\ begun
  /\ \A p \in Parts : task[Current][p].at \in {"absent", "answered"}
  /\ findings' = findings \o Found(Current)
  /\ flagged' = IF Current = "slide_analyzer"
                THEN {p \in Slides : task[Current][p].chart} ELSE flagged
  /\ done' = done \cup {Current}
  /\ turn' = turn + 1 /\ begun' = FALSE
  /\ UNCHANGED <<phase, context, task, delivery, judging>>

\* A mutation of AnalyzerFailed: the findings of the slides that were answered
\* are kept.
AnalyzerFailedPartly ==
  /\ phase = "analyzing" /\ begun
  /\ InState(Current, "failed") # {}
  /\ findings' = findings \o Found(Current)
  /\ turn' = turn + 1 /\ begun' = FALSE
  /\ UNCHANGED <<phase, context, task, delivery, done, flagged, judging>>

\* A mutation of AnalyzerFailed: the charts that were seen are checked.
AnalyzerFailedFlags ==
  /\ phase = "analyzing" /\ begun
  /\ InState(Current, "failed") # {}
  /\ flagged' = flagged \cup {p \in Slides : task[Current][p].chart}
  /\ turn' = turn + 1 /\ begun' = FALSE
  /\ UNCHANGED <<phase, context, task, delivery, done, findings, judging>>

AnalyzerFailed ==
  /\ phase = "analyzing" /\ begun
  /\ InState(Current, "failed") # {}
  /\ turn' = turn + 1 /\ begun' = FALSE
  /\ UNCHANGED <<phase, context, task, delivery, done, flagged, findings, judging>>

(***************************************************************************)
(* The aggregator: each finding is compared with the ones kept so far, and *)
(* the model is asked about those of the same slide that overlap it.       *)
(***************************************************************************)
StartJudging ==
  /\ phase = "analyzing" /\ turn > Len(Analyzers)
  /\ phase' = "judging"
  /\ UNCHANGED <<context, task, delivery, stepping, judging>>

Position == Len(kept) + judged + 1
Rivals ==
  {k \in against..Len(kept) : /\ kept[k].slide = findings[Position].slide
                              /\ Overlaps(findings[Position], kept[k])}

Judging == phase = "judging" /\ Position \in DOMAIN findings

Keep ==
  /\ Judging /\ Rivals = {}
  /\ kept' = Append(kept, findings[Position]) /\ against' = 1
  /\ UNCHANGED <<phase, context, task, delivery, stepping, judged>>

ConfirmSameIssue ==
  /\ Judging /\ Rivals # {}
  /\ judged' = judged + 1 /\ against' = 1
  /\ UNCHANGED <<phase, context, task, delivery, stepping, kept>>

DenySameIssue ==
  /\ Judging /\ Rivals # {}
  /\ against' = Min(Rivals) + 1
  /\ UNCHANGED <<phase, context, task, delivery, stepping, kept, judged>>

\* The judge is not isolated: its failure is the failure of the review.
JudgeFails ==
  /\ Judging /\ Rivals # {}
  /\ phase' = "failed"
  /\ UNCHANGED <<context, task, delivery, stepping, judging>>

\* The findings of the report: ctx.findings once the aggregator has run.
report == Ordered(kept)

\* The client is closed, and the report drawn and exported ...
Report ==
  /\ phase = "judging" /\ Position > Len(findings)
  /\ phase' = "reported"
  /\ UNCHANGED <<context, task, delivery, stepping, judging>>

\* ... or not.
ReportFails ==
  /\ phase = "judging" /\ Position > Len(findings)
  /\ phase' = "failed"
  /\ UNCHANGED <<context, task, delivery, stepping, judging>>

TaskStep(a, p) ==
  \/ Ask(a, p) \/ Fail(a, p)
  \/ a = "slide_analyzer" /\ AnswerSlide(p)
  \/ a = "zoom_agent" /\ (AnswerScreening(p) \/ AnswerZoom(p))
  \/ a = "deck_analyzer" /\ AnswerDeck(p)
  \/ a = "chart_checker" /\ AnswerChart(p)
  \/ a = "crossmodal_analyzer" /\ AnswerSpeech(p)

RunStep ==
  \/ Ingest \/ IngestFails
  \/ BeginVision \/ BeginQuiet \/ BeginSpeech \/ BeginFails
  \/ AnalyzerDone \/ AnalyzerFailed
  \/ StartJudging \/ Keep \/ ConfirmSameIssue \/ DenySameIssue \/ JudgeFails
  \/ Report \/ ReportFails

Next == RunStep \/ \E a \in Names, p \in Parts : TaskStep(a, p)

Spec == Init /\ [][Next]_vars

\* Something goes on for as long as anything can: a call is answered or times
\* out, and the run awaits nothing else.  No fairness between calls is needed,
\* for no step can be repeated for ever.
FairSpec == Spec /\ WF_vars(Next)

(***************************************************************************)
(* Properties.                                                             *)
(***************************************************************************)

\* What an analyzer contributed is all it will ever know: the calls that are
\* cut off when the client is closed belong to analyzers that were skipped
\* (asyncio.gather in slide.py, zoom.py, charts.py and crossmodal.py).
DoneIsSettled ==
  \A a \in done, p \in Parts : task[a][p].at \in {"absent", "answered"}

\* A chart is checked only on a slide whose own analysis saw it, and only when
\* the analysis of every other slide succeeded as well (charts.py).
ChartsAreSeen ==
  \A p \in Parts : task["chart_checker"][p].at # "absent" =>
    "slide_analyzer" \in done /\ task["slide_analyzer"][p].chart

\* A zoom adds nothing that overlaps what the slide analysis has found on the
\* slide or what an earlier zoom has added (zoom.py), and this stays so when
\* the findings of several slides are merged.
ZoomAddsNew ==
  \A i, j \in DOMAIN findings :
    /\ i < j /\ findings[i].by \in {"slide_analyzer", "zoom_agent"}
    /\ findings[j].by = "zoom_agent" /\ findings[i].slide = findings[j].slide
    => ~ Overlaps(findings[j], findings[i])

Shown(list) == Chosen(list, {i \in DOMAIN list : list[i].by # "aggregator"})
Hidden(list) == Chosen(list, {i \in DOMAIN list : list[i].by = "aggregator"})
AtLeast(list, place, severities) ==
  Len(Chosen(list, {i \in DOMAIN list :
                      list[i].slide = place /\ list[i].severity \in severities}))

\* A finding is in the report, was confirmed to repeat another one, or is
\* counted under "Прочее" (aggregate.py).
NothingVanishes ==
  phase = "reported" =>
    LET list == report
        hidden == Hidden(list)
    IN Len(findings) = judged + Len(Shown(list)) + Sum([i \in DOMAIN hidden |-> hidden[i].hides])

\* The cap never hides a finding while it shows a milder one of its slide.
ShowsTheWorst ==
  phase = "reported" =>
    LET list == report
        shown == Shown(list)
    IN \A p \in Parts, severities \in {{"critical"}, {"critical", "major"}} :
         AtLeast(shown, p, severities) = Min({MaxPerSlide, AtLeast(kept, p, severities)})

\* A crowded slide is never scored worse for its "Прочее" than for the
\* findings this line stands for (aggregate.py, DeckScorer over the report).
CapNeverLowersScore == phase = "reported" => Score(report) >= Score(kept)

\* base.py: "a failing analyzer is skipped and logged, the Review continues".
\* Whatever fails, in a turn or after it, each analyzer contributes all of its
\* findings in its turn, or none ever.
Steps == INSTANCE AnalyzerSteps
         WITH taken <- done, found <- findings,
              answers <- [a \in Names |-> Found(a)]
DegradesBySteps == Steps!StepsSpec

\* However many calls fail, the run ends with a report or an error, and no
\* stray waits for ever for the semaphore.
RunEnds == <>[](/\ phase \in {"reported", "failed"}
                /\ \A a \in Names, p \in Parts :
                     task[a][p].at \in {"absent", "answered", "failed"})
==============================================================================
