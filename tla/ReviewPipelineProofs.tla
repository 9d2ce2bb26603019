------------------------- MODULE ReviewPipelineProofs -------------------------
(***************************************************************************)
(* What holds of ReviewPipeline for every number of slides and all answers *)
(* of the language model.  In this order: only skipped analyzers leave     *)
(* strays behind and only charts that were seen are checked; the run       *)
(* implements AnalyzerSteps; what the recursive definitions of the         *)
(* aggregator compute (sums, flattened sequences), shown through the partial *)
(* results they go through; what the report is worth by any table of       *)
(* weights, and so that nothing vanishes from it, that the cap never lowers *)
(* the score and that the worst findings are shown; and that the findings  *)
(* which get there are what the analyzers found, each zoom new; at last,   *)
(* the types, and that every step of a run leaves less of it.              *)
(***************************************************************************)
EXTENDS ReviewPipeline, TLAPS, SequenceTheorems, WellFoundedInduction

States == {"absent", "queued", "asked", "answered", "failed"}

IsTask(t) ==
  /\ DOMAIN t = {"at", "calls", "found", "chart"}
  /\ t.at \in States

TasksGood ==
  /\ task = [a \in Names |-> [p \in Parts |-> task[a][p]]]
  /\ \A a \in Names, p \in Parts : IsTask(task[a][p])

TurnGood ==
  /\ turn \in 1..6 /\ begun \in BOOLEAN
  /\ begun => turn \in 1..5

\* Analyzers contribute in their turn, and have no tasks before it.
DoneBefore == \A a \in done : \E i \in 1..5 : i < turn /\ Analyzers[i] = a
NotYetBegun ==
  \A i \in 1..5 : i > turn \/ (i = turn /\ ~ begun) =>
    \A p \in Parts : task[Analyzers[i]][p] = NoTask

FlaggedAreSeen ==
  \A p \in flagged : /\ p \in Slides /\ "slide_analyzer" \in done
                     /\ task["slide_analyzer"][p].chart

PipelineInv ==
  /\ TasksGood /\ TurnGood /\ DoneBefore /\ NotYetBegun
  /\ FlaggedAreSeen /\ DoneIsSettled /\ ChartsAreSeen

\* The analyzers and their turns.
LEMMA TheAnalyzers ==
  /\ DOMAIN Analyzers = 1..5 /\ Len(Analyzers) = 5
  /\ \A i \in 1..5 : Analyzers[i] \in Names
  /\ \A i, j \in 1..5 : Analyzers[i] = Analyzers[j] => i = j
  /\ \A a \in Names : \E i \in 1..5 : Analyzers[i] = a
  /\ Analyzers[1] = "slide_analyzer" /\ Analyzers[2] = "zoom_agent"
  /\ Analyzers[3] = "deck_analyzer" /\ Analyzers[4] = "chart_checker"
  /\ Analyzers[5] = "crossmodal_analyzer"
<1>1. DOMAIN Analyzers = 1..5 /\ Len(Analyzers) = 5
  BY DEF Analyzers
<1>2. /\ Analyzers[1] = "slide_analyzer" /\ Analyzers[2] = "zoom_agent"
      /\ Analyzers[3] = "deck_analyzer" /\ Analyzers[4] = "chart_checker"
      /\ Analyzers[5] = "crossmodal_analyzer"
  BY DEF Analyzers
<1>3. \A i, j \in 1..5 : Analyzers[i] = Analyzers[j] => i = j
  BY <1>2
<1> QED BY <1>1, <1>2, <1>3 DEF Names

\* The tasks a turn begins with are tasks.
LEMMA FreshTasks ==
  ASSUME NEW calls, NEW found
  PROVE  /\ IsTask(NoTask) /\ NoTask.at = "absent"
         /\ IsTask(Queued(calls)) /\ Queued(calls).at = "queued"
         /\ IsTask(Answered(found)) /\ Answered(found).at = "answered"
BY DEF IsTask, NoTask, Queued, Answered, States

\* The invariant holds at first ...
THEOREM InitGood == Init => PipelineInv
<1> SUFFICES ASSUME Init PROVE PipelineInv
  OBVIOUS
<1>1. \A a \in Names, p \in Parts : task[a][p] = NoTask
  BY DEF Init
<1>2. TasksGood
  BY <1>1, FreshTasks DEF Init, TasksGood
<1>3. NotYetBegun
  BY <1>1, TheAnalyzers DEF NotYetBegun
<1>4. ChartsAreSeen
  BY <1>1, FreshTasks, TheAnalyzers DEF ChartsAreSeen
<1>5. TurnGood
  <2>1. turn = 1 /\ begun = FALSE
    BY DEF Init
  <2>2. 1 \in 1..6
    OBVIOUS
  <2> QED BY Zenon, <2>1, <2>2 DEF TurnGood
<1>6. DoneBefore /\ FlaggedAreSeen /\ DoneIsSettled
  BY Zenon DEF Init, DoneBefore, FlaggedAreSeen, DoneIsSettled
<1> QED BY <1>2, <1>3, <1>4, <1>5, <1>6 DEF PipelineInv

(***************************************************************************)
(* The steps, by what they do to the tasks.                                *)
(***************************************************************************)
\* A step of a task replaces that task, which was at work.
LEMMA TaskStepAdvances ==
  ASSUME PipelineInv, NEW a \in Names, NEW p \in Parts, TaskStep(a, p)
  PROVE  /\ task[a][p].at \in {"queued", "asked"}
         /\ \E next : IsTask(next) /\ next.at # "absent" /\ Advance(a, p, next)
<1>1. IsTask(task[a][p])
  BY DEF PipelineInv, TasksGood
<1> DEFINE Good(next) == IsTask(next) /\ next.at # "absent"
<1>2. \A at \in States \ {"absent"} : \A calls :
        /\ Good([task[a][p] EXCEPT !.at = at])
        /\ Good([task[a][p] EXCEPT !.at = at, !.calls = calls])
  BY <1>1 DEF IsTask, States
<1>3. \A found, calls : Good(Continued(a, p, found, calls))
  BY <1>1 DEF IsTask, States, Continued
<1>4. \A found, chart : Good(Answered(found)) /\ Good([Answered(found) EXCEPT !.chart = chart])
  BY DEF IsTask, States, Answered, NoTask
<1>5. ASSUME Ask(a, p) PROVE task[a][p].at = "queued" /\ \E next : Good(next) /\ Advance(a, p, next)
  BY <1>2, <1>5 DEF Ask, States
<1>6. ASSUME Fail(a, p) PROVE task[a][p].at \in {"queued", "asked"} /\ \E next : Good(next) /\ Advance(a, p, next)
  BY <1>2, <1>6 DEF Fail, States
<1>7. ASSUME AnswerSlide(p), a = "slide_analyzer" PROVE task[a][p].at = "asked" /\ \E next : Good(next) /\ Advance(a, p, next)
  BY <1>4, <1>7 DEF AnswerSlide, Asked
<1>8. ASSUME AnswerScreening(p), a = "zoom_agent" PROVE task[a][p].at = "asked" /\ \E next : Good(next) /\ Advance(a, p, next)
  BY <1>3, <1>8 DEF AnswerScreening, Asked
<1>9. ASSUME AnswerZoom(p), a = "zoom_agent" PROVE task[a][p].at = "asked" /\ \E next : Good(next) /\ Advance(a, p, next)
  BY <1>3, <1>9 DEF AnswerZoom, Asked
<1>10. ASSUME AnswerDeck(p), a = "deck_analyzer" PROVE task[a][p].at = "asked" /\ \E next : Good(next) /\ Advance(a, p, next)
  BY <1>4, <1>10 DEF AnswerDeck, Asked
<1>11. ASSUME AnswerChart(p), a = "chart_checker" PROVE task[a][p].at = "asked" /\ \E next : Good(next) /\ Advance(a, p, next)
  BY <1>3, <1>11 DEF AnswerChart, Asked
<1>12. ASSUME AnswerSpeech(p), a = "crossmodal_analyzer" PROVE task[a][p].at = "asked" /\ \E next : Good(next) /\ Advance(a, p, next)
  BY <1>4, <1>12 DEF AnswerSpeech, Asked
<1> QED
  BY <1>5, <1>6, <1>7, <1>8, <1>9, <1>10, <1>11, <1>12 DEF TaskStep

\* What a step of the current analyzer, or of a stray, leaves true.
LEMMA AdvanceKeeps ==
  ASSUME PipelineInv, NEW a \in Names, NEW p \in Parts, NEW next,
         IsTask(next), next.at # "absent", Advance(a, p, next),
         task[a][p].at \in {"queued", "asked"}
  PROVE  PipelineInv'
<1>1. \A b \in Names, q \in Parts :
        task'[b][q] = IF b = a /\ q = p THEN next ELSE task[b][q]
  BY DEF PipelineInv, TasksGood, Advance
<1>2. UNCHANGED <<turn, begun, done, flagged>>
  BY DEF Advance, stepping
<1>3. a \notin done
  BY DEF PipelineInv, DoneIsSettled
<1>4. TasksGood'
  <2>1. task' = [b \in Names |-> [q \in Parts |-> task'[b][q]]]
    <3>1. task' = [task EXCEPT ![a][p] = next]
      BY DEF Advance
    <3>2. task = [b \in Names |-> [q \in Parts |-> task[b][q]]]
      BY DEF PipelineInv, TasksGood
    <3> QED BY <3>1, <3>2
  <2> QED BY <1>1, <2>1 DEF PipelineInv, TasksGood
<1>5. NotYetBegun'
  <2>1. task[a][p] # NoTask
    BY DEF NoTask
  <2> QED BY <1>1, <1>2, <2>1, TheAnalyzers DEF PipelineInv, NotYetBegun
<1>6. FlaggedAreSeen'
  <2>1. \A q \in Slides : q \in Parts
    BY BoundsAssumption DEF Slides, Parts, NPlaces
  <2> QED BY <1>1, <1>2, <1>3, <2>1, TheAnalyzers DEF PipelineInv, FlaggedAreSeen
<1>7. DoneIsSettled'
  <2>1. done \subseteq Names
    BY TheAnalyzers DEF PipelineInv, DoneBefore
  <2> QED BY <1>1, <1>2, <1>3, <2>1 DEF PipelineInv, DoneIsSettled
<1>8. ChartsAreSeen'
  BY <1>1, <1>2, <1>3, TheAnalyzers DEF PipelineInv, ChartsAreSeen
<1>9. TurnGood' /\ DoneBefore'
  BY <1>2 DEF PipelineInv, TurnGood, DoneBefore
<1> QED BY <1>4, <1>5, <1>6, <1>7, <1>8, <1>9 DEF PipelineInv

\* The tasks an analyzer begins with, and nothing else that matters here.
LEMMA BeginKeeps ==
  ASSUME PipelineInv, NEW a \in Names, NEW tasks, Begin(a, tasks),
         \A p \in DOMAIN tasks : IsTask(tasks[p]),
         a = "chart_checker" => DOMAIN tasks \subseteq flagged
  PROVE  PipelineInv'
<1>1. \A b \in Names, p \in Parts :
        task'[b][p] = IF b = a THEN IF p \in DOMAIN tasks THEN tasks[p] ELSE NoTask
                      ELSE task[b][p]
  BY DEF PipelineInv, TasksGood, Begin
<1>2. turn' = turn /\ done' = done /\ flagged' = flagged /\ begun' = TRUE
  BY DEF Begin
<1>3. turn \in 1..5 /\ Analyzers[turn] = a
  BY TheAnalyzers DEF Begin, Current
<1>4. a \notin done
  BY <1>3, TheAnalyzers DEF PipelineInv, DoneBefore
<1>5. TasksGood'
  <2>1. task' = [b \in Names |-> [p \in Parts |-> task'[b][p]]]
    <3>1. task' = [task EXCEPT ![a] = [p \in Parts |->
                     IF p \in DOMAIN tasks THEN tasks[p] ELSE NoTask]]
      BY DEF Begin
    <3>2. task = [b \in Names |-> [q \in Parts |-> task[b][q]]]
      BY DEF PipelineInv, TasksGood
    <3> QED BY <3>1, <3>2
  <2> QED BY <1>1, <2>1, FreshTasks DEF PipelineInv, TasksGood
<1>6. NotYetBegun'
  BY <1>1, <1>2, <1>3, TheAnalyzers DEF PipelineInv, NotYetBegun
<1>7. FlaggedAreSeen'
  <2>1. \A q \in Slides : q \in Parts
    BY BoundsAssumption DEF Slides, Parts, NPlaces
  <2> QED BY <1>1, <1>2, <1>4, <2>1, TheAnalyzers DEF PipelineInv, FlaggedAreSeen
<1>8. DoneIsSettled'
  <2>1. done \subseteq Names
    BY TheAnalyzers DEF PipelineInv, DoneBefore
  <2> QED BY <1>1, <1>2, <1>4, <2>1 DEF PipelineInv, DoneIsSettled
<1>9. ChartsAreSeen'
  <2> SUFFICES ASSUME NEW p \in Parts, task'["chart_checker"][p].at # "absent"
               PROVE "slide_analyzer" \in done' /\ task'["slide_analyzer"][p].chart
    BY DEF ChartsAreSeen
  <2>1. CASE a = "chart_checker"
    <3>1. p \in flagged
      BY <1>1, <2>1, FreshTasks
    <3> QED BY <1>1, <1>2, <2>1, <3>1, TheAnalyzers DEF PipelineInv, FlaggedAreSeen
  <2>2. CASE a # "chart_checker"
    BY <1>1, <1>2, <1>4, <2>2, TheAnalyzers DEF PipelineInv, ChartsAreSeen
  <2> QED BY <2>1, <2>2
<1>10. TurnGood' /\ DoneBefore'
  BY <1>2, <1>3 DEF PipelineInv, TurnGood, DoneBefore
<1> QED BY <1>5, <1>6, <1>7, <1>8, <1>9, <1>10 DEF PipelineInv

\* The analyzers that look at the pictures begin.
LEMMA BeginVisionKeeps == PipelineInv /\ BeginVision => PipelineInv'
<1> SUFFICES ASSUME PipelineInv, BeginVision PROVE PipelineInv'
  OBVIOUS
<1>1. CASE Begin("slide_analyzer", [p \in Slides |-> Queued(1)])
  BY <1>1, BeginKeeps, FreshTasks, TheAnalyzers
<1>2. CASE Begin("zoom_agent", [p \in Slides |-> Queued(MaxZooms + 1)])
  BY <1>2, BeginKeeps, FreshTasks, TheAnalyzers
<1>3. CASE Begin("deck_analyzer", [p \in {0 : s \in Slides} |-> Queued(1)])
  BY <1>3, BeginKeeps, FreshTasks, TheAnalyzers
<1>4. CASE Begin("chart_checker",
                 [p \in flagged |-> Queued(IF p \in texts THEN 2 ELSE 1)])
  BY <1>4, BeginKeeps, FreshTasks, TheAnalyzers
<1> QED BY <1>1, <1>2, <1>3, <1>4 DEF BeginVision

\* The analyzer of the recording begins.
LEMMA BeginCrossmodalKeeps ==
  PipelineInv /\ (BeginQuiet \/ BeginSpeech \/ BeginFails) => PipelineInv'
<1> SUFFICES ASSUME PipelineInv, BeginQuiet \/ BeginSpeech \/ BeginFails
             PROVE PipelineInv'
  OBVIOUS
<1> DEFINE a == "crossmodal_analyzer"
<1>1. a \in Names /\ a # "chart_checker"
  BY TheAnalyzers
<1>2. CASE BeginQuiet
  <2>1. Begin(a, <<>>)
    BY <1>2 DEF BeginQuiet
  <2>2. DOMAIN <<>> = {}
    OBVIOUS
  <2> HIDE DEF a
  <2> QED BY <1>1, <2>1, <2>2, BeginKeeps
<1>3. CASE BeginSpeech
  <2> DEFINE Tasks(remarks, spoken) ==
        [p \in spoken \cup {0} |->
           IF p = 0 THEN Answered(StampRemarks(a, remarks)) ELSE Queued(1)]
  <2>1. PICK remarks \in Remarks[a], spoken \in SUBSET texts :
          Begin(a, Tasks(remarks, spoken))
    BY <1>3 DEF BeginSpeech
  <2>2. \A p \in DOMAIN Tasks(remarks, spoken) : IsTask(Tasks(remarks, spoken)[p])
    BY FreshTasks
  <2> HIDE DEF a, Tasks
  <2> QED BY <1>1, <2>1, <2>2, BeginKeeps
<1>4. CASE BeginFails
  <2> DEFINE tasks == [p \in {0} |-> [NoTask EXCEPT !.at = "failed"]]
  <2>1. Begin(a, tasks)
    BY <1>4 DEF BeginFails
  <2>2. \A p \in DOMAIN tasks : IsTask(tasks[p])
    BY DEF IsTask, NoTask, States
  <2> HIDE DEF a, tasks
  <2> QED BY <1>1, <2>1, <2>2, BeginKeeps
<1> QED BY <1>2, <1>3, <1>4

\* What the end of a turn leaves true, whichever it is.
LEMMA TurnEndKeeps ==
  ASSUME PipelineInv, turn \in 1..5, turn' = turn + 1, begun' = FALSE, UNCHANGED task,
         \/ done' = done /\ flagged' = flagged
         \/ /\ \A p \in Parts : task[Current][p].at \in {"absent", "answered"}
            /\ flagged' = IF Current = "slide_analyzer"
                          THEN {p \in Slides : task[Current][p].chart} ELSE flagged
            /\ done' = done \cup {Current}
  PROVE  PipelineInv'
<1>1. Current \in Names /\ done \subseteq done' /\ done' \subseteq done \cup {Current}
  BY TheAnalyzers DEF Current
<1>2. TasksGood' /\ TurnGood'
  <2>1. TasksGood'
    BY DEF PipelineInv, TasksGood
  <2>2. turn' \in 1..6
    OBVIOUS
  <2> QED BY Zenon, <2>1, <2>2 DEF TurnGood
<1>3. DoneBefore'
  BY <1>1, TheAnalyzers DEF PipelineInv, DoneBefore, Current
<1>4. NotYetBegun'
  BY DEF PipelineInv, NotYetBegun, TurnGood
<1>5. FlaggedAreSeen'
  BY <1>1 DEF PipelineInv, FlaggedAreSeen
<1>6. DoneIsSettled'
  BY DEF PipelineInv, DoneIsSettled
<1>7. ChartsAreSeen'
  BY <1>1 DEF PipelineInv, ChartsAreSeen
<1> QED BY <1>2, <1>3, <1>4, <1>5, <1>6, <1>7 DEF PipelineInv

\* The other steps of the run.
LEMMA IdleKeeps ==
  ASSUME PipelineInv, UNCHANGED <<task, turn, begun, done, flagged>>
  PROVE  PipelineInv'
BY DEF PipelineInv, TasksGood, TurnGood, DoneBefore, NotYetBegun, FlaggedAreSeen,
       DoneIsSettled, ChartsAreSeen

\* ... and after every step ...
THEOREM StepGood == PipelineInv /\ [Next]_vars => PipelineInv'
<1> SUFFICES ASSUME PipelineInv, [Next]_vars PROVE PipelineInv'
  OBVIOUS
<1>1. CASE BeginVision
  BY <1>1, BeginVisionKeeps
<1>2. CASE BeginQuiet \/ BeginSpeech \/ BeginFails
  BY <1>2, BeginCrossmodalKeeps
<1>3. CASE AnalyzerDone
  <2>1. turn \in 1..5
    BY <1>3 DEF AnalyzerDone, PipelineInv, TurnGood
  <2> QED BY <1>3, <2>1, TurnEndKeeps DEF AnalyzerDone
<1>4. CASE AnalyzerFailed
  <2>1. turn \in 1..5
    BY <1>4 DEF AnalyzerFailed, PipelineInv, TurnGood
  <2> QED BY <1>4, <2>1, TurnEndKeeps DEF AnalyzerFailed
<1>5. CASE Ingest \/ IngestFails \/ StartJudging \/ Keep \/ ConfirmSameIssue
           \/ DenySameIssue \/ JudgeFails \/ Report \/ ReportFails
  BY <1>5, IdleKeeps DEF Ingest, IngestFails, StartJudging, Keep, ConfirmSameIssue,
     DenySameIssue, JudgeFails, Report, ReportFails, stepping
<1>6. ASSUME NEW a \in Names, NEW p \in Parts, TaskStep(a, p) PROVE PipelineInv'
  <2>1. task[a][p].at \in {"queued", "asked"}
    BY <1>6, TaskStepAdvances
  <2>2. PICK next : IsTask(next) /\ next.at # "absent" /\ Advance(a, p, next)
    BY <1>6, TaskStepAdvances
  <2> QED BY <2>1, <2>2, AdvanceKeeps
<1>7. CASE UNCHANGED vars
  BY <1>7, IdleKeeps DEF vars
<1> QED BY <1>1, <1>2, <1>3, <1>4, <1>5, <1>6, <1>7 DEF Next, RunStep

\* ... so always.
THEOREM InvHolds == Spec => []PipelineInv
BY InitGood, StepGood, PTL DEF Spec

\* Only an analyzer that was skipped leaves calls behind.
THEOREM DoneIsAlwaysSettled == Spec => []DoneIsSettled
<1>1. PipelineInv => DoneIsSettled
  BY DEF PipelineInv
<1> QED BY <1>1, InvHolds, PTL

\* Charts are checked only on slides whose own analysis saw one, and only when
\* the analysis of all slides has succeeded.
THEOREM ChartsAreAlwaysSeen == Spec => []ChartsAreSeen
<1>1. PipelineInv => ChartsAreSeen
  BY DEF PipelineInv
<1> QED BY <1>1, InvHolds, PTL

(***************************************************************************)
(* The run implements AnalyzerSteps.                                       *)
(***************************************************************************)
answers == [a \in Names |-> Found(a)]

\* The abstract machine has the same analyzers.
LEMMA StepsNames == Steps!Names = Names
BY DEF Steps!Names, Names

\* What an analyzer has found depends on its own tasks only.
LEMMA FoundOfTasks ==
  ASSUME NEW a \in Names, task'[a] = task[a]
  PROVE  Found(a)' = Found(a)
BY DEF Found

\* While an analyzer that has not contributed works, the others find nothing.
LEMMA WorkIsLearning ==
  ASSUME PipelineInv, NEW a \in Names, a \notin done,
         \E i \in 1..5 : i <= turn /\ Analyzers[i] = a,
         \A b \in Names \ {a} : task'[b] = task[b],
         UNCHANGED <<turn, done, findings>>
  PROVE  Steps!Learn(a)
<1>1. \A b \in Names \ {a} : Found(b)' = Found(b)
  BY FoundOfTasks
<1>2. answers' = [answers EXCEPT ![a] = answers'[a]]
  BY <1>1 DEF answers
<1> QED BY <1>2, TheAnalyzers DEF Steps!Learn, answers

\* To begin is to learn something in the abstract machine ...
LEMMA BeginIsLearning ==
  ASSUME PipelineInv, NEW a \in Names, NEW tasks, Begin(a, tasks)
  PROVE  Steps!Learn(a)
<1>1. turn \in 1..5 /\ Analyzers[turn] = a
  BY TheAnalyzers DEF Begin, Current
<1>2. a \notin done
  BY <1>1, TheAnalyzers DEF PipelineInv, DoneBefore
<1>3. \A b \in Names \ {a} : task'[b] = task[b]
  BY DEF Begin, PipelineInv, TasksGood
<1>4. UNCHANGED <<turn, done, findings>>
  BY DEF Begin
<1> QED BY <1>1, <1>2, <1>3, <1>4, WorkIsLearning

\* ... and so is a step of a task.
LEMMA TaskStepIsLearning ==
  ASSUME PipelineInv, NEW a \in Names, NEW p \in Parts, TaskStep(a, p)
  PROVE  Steps!Learn(a)
<1>1. task[a][p].at \in {"queued", "asked"}
  BY TaskStepAdvances
<1>2. PICK next : Advance(a, p, next)
  BY TaskStepAdvances
<1>3. a \notin done
  BY <1>1 DEF PipelineInv, DoneIsSettled
<1>4. \E i \in 1..5 : i <= turn /\ Analyzers[i] = a
  <2>1. PICK i \in 1..5 : Analyzers[i] = a
    BY TheAnalyzers
  <2>2. task[a][p] # NoTask
    BY <1>1 DEF NoTask
  <2> QED BY <2>1, <2>2 DEF PipelineInv, NotYetBegun, TurnGood
<1>5. \A b \in Names \ {a} : task'[b] = task[b]
  BY <1>2 DEF Advance, PipelineInv, TasksGood
<1>6. UNCHANGED <<turn, done, findings>>
  BY <1>2 DEF Advance, stepping
<1> QED BY <1>3, <1>4, <1>5, <1>6, WorkIsLearning

\* The other steps are none of the abstract machine.
LEMMA IdleIsStutter ==
  ASSUME UNCHANGED <<task, turn, done, findings>>
  PROVE  UNCHANGED Steps!vars
<1>1. \A a \in Names : Found(a)' = Found(a)
  BY FoundOfTasks
<1> QED BY <1>1 DEF Steps!vars

\* Each step of the run is a step of the abstract machine, or none.
LEMMA StepIsStep == PipelineInv /\ [Next]_vars => [Steps!StepsNext]_Steps!vars
<1> SUFFICES ASSUME PipelineInv, [Next]_vars
             PROVE  Steps!StepsNext \/ UNCHANGED Steps!vars
  OBVIOUS
<1>1. CASE BeginVision
  <2>1. \E a \in Names : \E tasks : Begin(a, tasks)
    BY <1>1, TheAnalyzers DEF BeginVision
  <2> QED BY <2>1, BeginIsLearning, StepsNames DEF Steps!StepsNext
<1>2. CASE BeginQuiet \/ BeginSpeech \/ BeginFails
  <2>1. PICK tasks : Begin("crossmodal_analyzer", tasks)
    BY <1>2 DEF BeginQuiet, BeginSpeech, BeginFails
  <2> QED BY <2>1, TheAnalyzers, BeginIsLearning, StepsNames DEF Steps!StepsNext
<1>3. CASE AnalyzerDone
  <2>1. turn \in 1..5
    BY <1>3 DEF AnalyzerDone, PipelineInv, TurnGood
  <2>2. \A a \in Names : Found(a)' = Found(a)
    BY <1>3, FoundOfTasks DEF AnalyzerDone
  <2>3. Current \in Names
    BY <2>1, TheAnalyzers DEF Current
  <2>4. Steps!Contribute
    BY <1>3, <2>1, <2>2, <2>3, TheAnalyzers DEF AnalyzerDone, Steps!Contribute, Current
  <2> QED BY <2>4 DEF Steps!StepsNext
<1>4. CASE AnalyzerFailed
  <2>1. turn \in 1..5
    BY <1>4 DEF AnalyzerFailed, PipelineInv, TurnGood
  <2>2. \A a \in Names : Found(a)' = Found(a)
    BY <1>4, FoundOfTasks DEF AnalyzerFailed
  <2>3. Steps!Skip
    BY <1>4, <2>1, <2>2, TheAnalyzers DEF AnalyzerFailed, Steps!Skip
  <2> QED BY <2>3 DEF Steps!StepsNext
<1>5. CASE Ingest \/ IngestFails \/ StartJudging \/ Keep \/ ConfirmSameIssue
           \/ DenySameIssue \/ JudgeFails \/ Report \/ ReportFails
  BY <1>5, IdleIsStutter DEF Ingest, IngestFails, StartJudging, Keep, ConfirmSameIssue,
     DenySameIssue, JudgeFails, Report, ReportFails, stepping
<1>6. ASSUME NEW a \in Names, NEW p \in Parts, TaskStep(a, p) PROVE Steps!StepsNext
  BY <1>6, TaskStepIsLearning, StepsNames DEF Steps!StepsNext
<1>7. CASE UNCHANGED vars
  BY <1>7, IdleIsStutter DEF vars
<1> QED BY <1>1, <1>2, <1>3, <1>4, <1>5, <1>6, <1>7 DEF Next, RunStep

\* Whatever call fails and whenever, each analyzer contributes all it found in
\* its turn, in order, or nothing.
THEOREM AnalyzersDegradeBySteps == Spec => DegradesBySteps
<1>1. Init => Steps!StepsInit
  BY StepsNames DEF Init, Steps!StepsInit
<1> QED BY <1>1, InvHolds, StepIsStep, PTL DEF Spec, DegradesBySteps, Steps!StepsSpec

(***************************************************************************)
(* Induction over the numbers, for sets instead of predicates: the library's *)
(* theorem has an operator for a parameter, which no prover here can be    *)
(* given.                                                                  *)
(***************************************************************************)
\* A set of naturals has a least member.
LEMMA WellOrdered ==
  ASSUME NEW T \in SUBSET Nat, T # {}
  PROVE  \E x \in T : \A y \in T : x <= y
<1> DEFINE R == OpToRel(<, Nat)
<1>1. IsWellFoundedOn(R, Nat)
  BY NatLessThanWellFounded
<1>2. PICK x \in T : \A y \in T : <<y, x>> \notin R
  <2> HIDE DEF R
  <2> QED BY <1>1, WFMin
<1>3. \A y \in T : ~ (y < x)
  BY <1>2 DEF OpToRel
<1> HIDE DEF R
<1>4. \A y \in T : x <= y
  BY <1>3
<1> QED BY <1>4

\* What holds at 0, and at n + 1 when it holds at n.
LEMMA Induction ==
  ASSUME NEW N \in Nat, NEW P, 0 \in P, \A n \in 0..N - 1 : n \in P => n + 1 \in P
  PROVE  \A n \in 0..N : n \in P
<1> DEFINE T == 0..N \ P
<1>1. CASE T # {}
  <2>1. PICK x \in T : \A y \in T : x <= y
    <3>1. T \in SUBSET Nat
      OBVIOUS
    <3> HIDE DEF T
    <3> QED BY <1>1, <3>1, WellOrdered
  <2>2. x # 0 /\ x - 1 \in 0..N - 1 /\ x - 1 \notin T
    BY <2>1
  <2>3. (x - 1) + 1 = x
    BY <2>1
  <2> QED BY <2>1, <2>2, <2>3
<1>2. CASE T = {}
  BY <1>2
<1> QED BY <1>1, <1>2

\* A function can be defined by what it is at 0 and how it goes on.
Continues(H, V, N) == \A v \in V, n \in 1..N : H[<<v, n>>] \in V
Iterated(f, b, H, V, N) ==
  /\ f \in [0..N -> V] /\ f[0] = b
  /\ \A n \in 1..N : f[n] = H[<<f[n-1], n>>]

\* There is such a function.
LEMMA Recursion ==
  ASSUME NEW V, NEW b \in V, NEW N \in Nat, NEW H, Continues(H, V, N)
  PROVE  \E f : Iterated(f, b, H, V, N)
<1> USE DEF Continues, Iterated
<1> DEFINE Good(f, m) == f \in [0..m -> V] /\ f[0] = b /\ \A n \in 1..m : f[n] = H[<<f[n-1], n>>]
           P == {m \in 0..N : \E f : Good(f, m)}
<1>1. 0 \in P
  <2>1. Good([k \in 0..0 |-> b], 0) /\ 0 \in 0..N
    OBVIOUS
  <2> HIDE DEF Good
  <2> QED BY <2>1
<1>2. ASSUME NEW m \in 0..N - 1, m \in P PROVE m + 1 \in P
  <2>1. PICK f : Good(f, m)
    BY <1>2
  <2> DEFINE g == [k \in 0..m + 1 |-> IF k = m + 1 THEN H[<<f[m], m + 1>>] ELSE f[k]]
  <2>2. H[<<f[m], m + 1>>] \in V
    <3>1. f[m] \in V /\ m + 1 \in 1..N
      BY <2>1
    <3> QED BY <3>1
  <2>3. g \in [0..m + 1 -> V]
    BY <2>1, <2>2
  <2>4. g[0] = b
    BY <2>1
  <2>5. ASSUME NEW n \in 1..m + 1 PROVE g[n] = H[<<g[n-1], n>>]
    <3>1. CASE n = m + 1
      <4>1. g[n] = H[<<f[m], m + 1>>] /\ g[n - 1] = f[m]
        BY <3>1
      <4> QED BY <3>1, <4>1
    <3>2. CASE n # m + 1
      <4>1. n \in 1..m /\ n - 1 \in 0..m /\ n - 1 # m + 1
        BY <3>2
      <4>2. g[n] = f[n] /\ g[n - 1] = f[n - 1]
        BY <3>2, <4>1
      <4> QED BY <2>1, <4>1, <4>2
    <3> QED BY <3>1, <3>2
  <2>6. Good(g, m + 1)
    BY <2>3, <2>4, <2>5
  <2>7. m + 1 \in 0..N
    OBVIOUS
  <2> HIDE DEF g, Good
  <2> QED BY <2>6, <2>7
<1>3. N \in P
  <2> HIDE DEF P
  <2>1. \A n \in 0..N : n \in P
    BY <1>1, <1>2, Induction
  <2> QED BY <2>1
<1> QED BY <1>3

(***************************************************************************)
(* Sums.                                                                   *)
(***************************************************************************)
\* total: the sums of the first numbers of a sequence.
Totals(numbers, total) ==
  /\ total \in [0..Len(numbers) -> Nat] /\ total[0] = 0
  /\ \A n \in 1..Len(numbers) : total[n] = total[n - 1] + numbers[n]

\* Sum is the last of the totals.
LEMMA SumTotals ==
  ASSUME NEW numbers \in Seq(Nat)
  PROVE  \E total : Totals(numbers, total) /\ Sum(numbers) = total[Len(numbers)]
<1> DEFINE N == Len(numbers)
           Good(sum) == sum = [n \in 0..N |-> IF n = 0 THEN 0 ELSE sum[n - 1] + numbers[n]]
           H == [p \in Nat \X (1..N) |-> p[1] + numbers[p[2]]]
<1>1. N \in Nat /\ \A n \in 1..N : numbers[n] \in Nat
  OBVIOUS
<1>2. \A m \in Nat, n \in 1..N : H[<<m, n>>] = m + numbers[n] /\ m + numbers[n] \in Nat
  BY <1>1
<1> HIDE DEF H, N
<1>3. PICK f \in [0..N -> Nat] : f[0] = 0 /\ \A n \in 1..N : f[n] = H[<<f[n-1], n>>]
  <2>1. Continues(H, Nat, N)
    BY <1>1, <1>2 DEF Continues
  <2>2. \E f : Iterated(f, 0, H, Nat, N)
    BY <1>1, <2>1, Recursion
  <2> QED BY <2>2 DEF Iterated
<1>4. \A n \in 1..N : f[n] = f[n - 1] + numbers[n]
  <2> TAKE n \in 1..N
  <2>1. n - 1 \in 0..N
    BY <1>1
  <2>2. f[n - 1] \in Nat
    BY <2>1
  <2> QED BY <1>2, <1>3, <2>2
<1>5. Good(f)
  <2>1. \A n \in 0..N : f[n] = IF n = 0 THEN 0 ELSE f[n - 1] + numbers[n]
    BY <1>1, <1>3, <1>4
  <2> QED BY <2>1
<1> DEFINE total == CHOOSE sum : Good(sum)
<1>6. Good(total)
  BY <1>5
<1>7. Sum(numbers) = total[N]
  BY DEF Sum, N
<1> HIDE DEF total
<1>8. /\ total[0] = 0
      /\ \A n \in 1..N : total[n] = total[n - 1] + numbers[n]
      /\ DOMAIN total = 0..N
  <2>1. total = [n \in 0..N |-> IF n = 0 THEN 0 ELSE total[n - 1] + numbers[n]]
    BY <1>6
  <2> HIDE DEF Good
  <2>2. DOMAIN total = 0..N
    BY <2>1
  <2>3. total[0] = 0
    BY <1>1, <2>1
  <2>4. ASSUME NEW n \in 1..N PROVE total[n] = total[n - 1] + numbers[n]
    <3>1. n \in 0..N /\ n # 0
      BY <1>1
    <3> QED BY <2>1, <3>1
  <2> QED BY <2>2, <2>3, <2>4
<1>9. total \in [0..N -> Nat]
  <2> DEFINE P == {n \in 0..N : total[n] \in Nat}
  <2>1. 0 \in P
    BY <1>1, <1>8
  <2>2. ASSUME NEW n \in 0..N - 1, n \in P PROVE n + 1 \in P
    <3>1. n + 1 \in 1..N /\ (n + 1) - 1 = n
      BY <1>1
    <3>2. total[n + 1] = total[n] + numbers[n + 1]
      BY <1>8, <3>1
    <3> QED BY SMTT(30), <1>1, <2>2, <3>1, <3>2
  <2>3. \A n \in 0..N : n \in P
    <3> HIDE DEF P
    <3> QED BY <1>1, <2>1, <2>2, Induction
  <2>4. total = [n \in 0..N |-> total[n]]
    <3>1. total = [n \in 0..N |-> IF n = 0 THEN 0 ELSE total[n - 1] + numbers[n]]
      BY <1>6
    <3> QED BY <3>1
  <2> QED BY <2>3, <2>4
<1> QED BY <1>7, <1>8, <1>9 DEF Totals, N

\* There is one way to add up.
LEMMA SumUnique ==
  ASSUME NEW numbers \in Seq(Nat), NEW total, Totals(numbers, total)
  PROVE  Sum(numbers) = total[Len(numbers)]
<1>1. PICK other : Totals(numbers, other) /\ Sum(numbers) = other[Len(numbers)]
  BY SumTotals
<1>2. PICK N \in Nat : N = Len(numbers)
  OBVIOUS
<1> DEFINE P == {n \in 0..N : other[n] = total[n]}
<1>3. 0 \in P
  BY <1>1, <1>2 DEF Totals
<1>4. ASSUME NEW n \in 0..N - 1, n \in P PROVE n + 1 \in P
  <2>1. n + 1 \in 1..N /\ (n + 1) - 1 = n /\ n + 1 \in 0..N
    OBVIOUS
  <2>2. other[n + 1] = other[n] + numbers[n + 1] /\ total[n + 1] = total[n] + numbers[n + 1]
    BY <1>1, <1>2, <2>1 DEF Totals
  <2> QED BY <1>4, <2>1, <2>2
<1>5. \A n \in 0..N : n \in P
  <2> HIDE DEF P
  <2> QED BY <1>3, <1>4, Induction
<1>6. N \in P
  BY <1>5
<1> QED BY <1>1, <1>2, <1>6

\* A sum of naturals is one.
LEMMA SumNat == ASSUME NEW numbers \in Seq(Nat) PROVE Sum(numbers) \in Nat
<1>1. PICK total : Totals(numbers, total) /\ Sum(numbers) = total[Len(numbers)]
  BY SumTotals
<1>2. Len(numbers) \in 0..Len(numbers)
  OBVIOUS
<1> QED BY <1>1, <1>2 DEF Totals

\* The sum of nothing.
LEMMA SumNone == Sum(<<>>) = 0
<1>1. <<>> \in Seq(Nat) /\ Len(<<>>) = 0
  OBVIOUS
<1>2. PICK total : Totals(<<>>, total) /\ Sum(<<>>) = total[Len(<<>>)]
  BY <1>1, SumTotals
<1> QED BY <1>1, <1>2 DEF Totals

\* The sum of two sequences, item by item.
LEMMA SumAdd ==
  ASSUME NEW s \in Seq(Nat), NEW t \in Seq(Nat), NEW u, Len(s) = Len(t),
         u = [i \in 1..Len(s) |-> s[i] + t[i]]
  PROVE  u \in Seq(Nat) /\ Len(u) = Len(s) /\ Sum(u) = Sum(s) + Sum(t)
<1>1. PICK N \in Nat : N = Len(s)
  OBVIOUS
<1>2. \A i \in 1..N : s[i] \in Nat /\ t[i] \in Nat /\ u[i] = s[i] + t[i]
  BY <1>1
<1>3. u \in Seq(Nat) /\ Len(u) = N
  <2>1. u \in [1..N -> Nat]
    BY <1>1, <1>2
  <2> QED BY <2>1
<1>4. PICK S : Totals(s, S) /\ Sum(s) = S[N]
  BY <1>1, SumTotals
<1>5. PICK T : Totals(t, T) /\ Sum(t) = T[N]
  BY <1>1, SumTotals
<1> DEFINE U == [n \in 0..N |-> S[n] + T[n]]
<1>6. /\ S \in [0..N -> Nat] /\ T \in [0..N -> Nat] /\ S[0] = 0 /\ T[0] = 0
      /\ \A n \in 1..N : S[n] = S[n - 1] + s[n] /\ T[n] = T[n - 1] + t[n]
  BY <1>1, <1>4, <1>5 DEF Totals
<1>7. Totals(u, U)
  <2>1. U \in [0..N -> Nat] /\ U[0] = 0
    BY <1>6
  <2>2. ASSUME NEW n \in 1..N PROVE U[n] = U[n - 1] + u[n]
    <3>1. n \in 0..N /\ n - 1 \in 0..N
      OBVIOUS
    <3>2. S[n - 1] \in Nat /\ T[n - 1] \in Nat /\ s[n] \in Nat /\ t[n] \in Nat
      BY <1>2, <1>6, <3>1
    <3>3. U[n] = (S[n - 1] + s[n]) + (T[n - 1] + t[n]) /\ U[n - 1] = S[n - 1] + T[n - 1]
      BY <1>6, <3>1
    <3> HIDE DEF U
    <3>4. u[n] = s[n] + t[n]
      BY <1>2
    <3> QED BY ONLY SMTT(30), <3>2, <3>3, <3>4
  <2> HIDE DEF U
  <2> QED BY <1>3, <2>1, <2>2 DEF Totals
<1>8. Sum(u) = U[N]
  <2> HIDE DEF U
  <2> QED BY <1>3, <1>7, SumUnique
<1> QED BY <1>1, <1>3, <1>4, <1>5, <1>8

\* The sum of two sequences, one after the other.
LEMMA SumConcat ==
  ASSUME NEW s \in Seq(Nat), NEW t \in Seq(Nat)
  PROVE  s \o t \in Seq(Nat) /\ Sum(s \o t) = Sum(s) + Sum(t)
<1>1. PICK N \in Nat, M \in Nat : N = Len(s) /\ M = Len(t)
  OBVIOUS
<1>2. s \o t \in Seq(Nat) /\ Len(s \o t) = N + M
  BY <1>1
<1>3. \A i \in 1..N : (s \o t)[i] = s[i] /\ s[i] \in Nat
  BY <1>1
<1>4. \A i \in N + 1..N + M : (s \o t)[i] = t[i - N] /\ t[i - N] \in Nat
  BY <1>1
<1>5. PICK S : Totals(s, S) /\ Sum(s) = S[N]
  BY <1>1, SumTotals
<1>6. PICK T : Totals(t, T) /\ Sum(t) = T[M]
  BY <1>1, SumTotals
<1>7. /\ S \in [0..N -> Nat] /\ T \in [0..M -> Nat] /\ S[0] = 0 /\ T[0] = 0
      /\ \A n \in 1..N : S[n] = S[n - 1] + s[n]
      /\ \A n \in 1..M : T[n] = T[n - 1] + t[n]
  BY <1>1, <1>5, <1>6 DEF Totals
<1> DEFINE U == [n \in 0..N + M |-> IF n <= N THEN S[n] ELSE S[N] + T[n - N]]
<1>8. Totals(s \o t, U)
  <2>1. U \in [0..N + M -> Nat] /\ U[0] = 0
    BY SMTT(30), <1>7
  <2>2. ASSUME NEW n \in 1..N + M PROVE U[n] = U[n - 1] + (s \o t)[n]
    <3>1. CASE n <= N
      <4>1. n \in 1..N /\ n \in 0..N + M /\ n - 1 \in 0..N + M /\ n - 1 <= N
        BY <3>1
      <4>2. U[n] = S[n] /\ U[n - 1] = S[n - 1]
        BY <3>1, <4>1
      <4> HIDE DEF U
      <4> QED BY <1>3, <1>7, <4>1, <4>2
    <3>2. CASE n = N + 1
      <4>1. n \in 0..N + M /\ n - 1 = N /\ n - 1 \in 0..N + M /\ n - N = 1 /\ 1 \in 1..M /\ ~ n <= N
        BY <3>2
      <4>2. U[n] = S[N] + T[1] /\ U[n - 1] = S[N]
        BY <4>1
      <4> HIDE DEF U
      <4>3. T[1] = T[1 - 1] + t[1] /\ t[1] \in Nat
        BY <1>1, <1>7, <4>1
      <4>4. (s \o t)[n] = t[1]
        <5>1. n \in N + 1..N + M
          BY <3>2
        <5> QED BY <1>4, <4>1, <5>1
      <4> QED BY <1>7, <4>2, <4>3, <4>4
    <3>3. CASE n > N + 1
      <4>1. PICK m \in 1..M : n = N + m /\ m - 1 \in 0..M
        <5>1. n - N \in 1..M /\ n = N + (n - N) /\ (n - N) - 1 \in 0..M
          BY <3>3
        <5> QED BY <5>1
      <4>2. n - 1 = N + (m - 1) /\ ~ n <= N /\ ~ n - 1 <= N /\ n \in 0..N + M /\ n - 1 \in 0..N + M
            /\ n - N = m /\ (n - 1) - N = m - 1
        BY <3>3, <4>1
      <4>3. U[n] = S[N] + T[m] /\ U[n - 1] = S[N] + T[m - 1]
        BY <4>2
      <4> HIDE DEF U
      <4>4. S[N] \in Nat /\ T[m - 1] \in Nat /\ T[m] = T[m - 1] + t[m]
        BY <1>7, <4>1
      <4>5. t[m] \in Nat
        BY <1>1
      <4>6. (s \o t)[n] = t[m]
        <5>1. n \in N + 1..N + M
          BY <3>3
        <5> QED BY <1>4, <4>2, <5>1
      <4> QED BY ONLY SMTT(30), <4>3, <4>4, <4>5, <4>6
    <3>4. n <= N \/ n = N + 1 \/ n > N + 1
      OBVIOUS
    <3> HIDE DEF U
    <3> QED BY ONLY <3>1, <3>2, <3>3, <3>4
  <2> HIDE DEF U
  <2> QED BY <1>2, <2>1, <2>2 DEF Totals
<1>9. Sum(s \o t) = U[N + M]
  <2> HIDE DEF U
  <2> QED BY <1>2, <1>8, SumUnique
<1>10. U[N + M] = S[N] + T[M]
  <2>1. CASE M = 0
    BY <1>7, <2>1
  <2>2. CASE M # 0
    BY <1>7, <2>2
  <2> QED BY <2>1, <2>2
<1> QED BY <1>2, <1>5, <1>6, <1>9, <1>10

\* Sums grow with the sequence.
LEMMA TotalsGrow ==
  ASSUME NEW numbers \in Seq(Nat), NEW total, Totals(numbers, total),
         NEW n \in 0..Len(numbers), NEW m \in n..Len(numbers)
  PROVE  total[n] <= total[m]
<1>1. PICK N \in Nat : N = Len(numbers)
  OBVIOUS
<1>2. /\ total \in [0..N -> Nat]
      /\ \A k \in 1..N : total[k] = total[k - 1] + numbers[k] /\ numbers[k] \in Nat
  BY <1>1 DEF Totals
<1> DEFINE P == {k \in 0..N : n <= k => total[n] <= total[k]}
<1>3. 0 \in P
  BY <1>1, <1>2
<1>4. ASSUME NEW k \in 0..N - 1, k \in P PROVE k + 1 \in P
  <2>1. k + 1 \in 1..N /\ k + 1 \in 0..N /\ (k + 1) - 1 = k
    OBVIOUS
  <2>2. total[k + 1] = total[k] + numbers[k + 1] /\ numbers[k + 1] \in Nat /\ total[k] \in Nat
    BY <1>2, <2>1
  <2>5. total[n] \in Nat
    BY <1>1, <1>2
  <2>3. CASE n <= k
    <3>1. total[n] <= total[k]
      BY <1>4, <2>3
    <3>2. total[n] <= total[k + 1]
      BY <2>2, <2>5, <3>1
    <3> QED BY <2>1, <3>2
  <2>4. CASE n = k + 1
    BY <2>1, <2>4, <2>5
  <2> QED BY <1>1, <2>1, <2>3, <2>4
<1>5. \A k \in 0..N : k \in P
  <2> HIDE DEF P
  <2> QED BY <1>3, <1>4, Induction
<1> QED BY <1>1, <1>5

\* The sum of the first numbers.
LEMMA SumFirst ==
  ASSUME NEW numbers \in Seq(Nat), NEW total, Totals(numbers, total), NEW n \in 0..Len(numbers)
  PROVE  SubSeq(numbers, 1, n) \in Seq(Nat) /\ Sum(SubSeq(numbers, 1, n)) = total[n]
<1>1. PICK N \in Nat : N = Len(numbers)
  OBVIOUS
<1> DEFINE s == SubSeq(numbers, 1, n)
           S == [k \in 0..n |-> total[k]]
<1>2. s \in Seq(Nat) /\ Len(s) = n /\ \A k \in 1..n : s[k] = numbers[k]
  BY <1>1
<1>3. /\ total \in [0..N -> Nat] /\ total[0] = 0
      /\ \A k \in 1..N : total[k] = total[k - 1] + numbers[k]
  BY <1>1 DEF Totals
<1> HIDE DEF s
<1>4. Totals(s, S)
  <2>1. S \in [0..n -> Nat] /\ S[0] = 0
    BY <1>1, <1>3
  <2>2. ASSUME NEW k \in 1..n PROVE S[k] = S[k - 1] + s[k]
    <3>1. k \in 0..n /\ k - 1 \in 0..n /\ k \in 1..N
      BY <1>1
    <3> QED BY <1>2, <1>3, <3>1
  <2> HIDE DEF S
  <2> QED BY <1>2, <2>1, <2>2 DEF Totals
<1>5. Sum(s) = S[n]
  <2> HIDE DEF S
  <2> QED BY <1>2, <1>4, SumUnique
<1> QED BY <1>1, <1>2, <1>5 DEF s

\* Smaller numbers have a smaller sum.
LEMMA SumLess ==
  ASSUME NEW s \in Seq(Nat), NEW t \in Seq(Nat), Len(s) = Len(t),
         \A i \in 1..Len(s) : s[i] <= t[i]
  PROVE  Sum(s) <= Sum(t)
<1>1. PICK N \in Nat : N = Len(s)
  OBVIOUS
<1>2. PICK S : Totals(s, S) /\ Sum(s) = S[N]
  BY <1>1, SumTotals
<1>3. PICK T : Totals(t, T) /\ Sum(t) = T[N]
  BY <1>1, SumTotals
<1>4. /\ S \in [0..N -> Nat] /\ T \in [0..N -> Nat] /\ S[0] = 0 /\ T[0] = 0
      /\ \A n \in 1..N : S[n] = S[n - 1] + s[n] /\ T[n] = T[n - 1] + t[n]
  BY <1>1, <1>2, <1>3 DEF Totals
<1>5. \A n \in 1..N : s[n] \in Nat /\ t[n] \in Nat /\ s[n] <= t[n]
  BY <1>1
<1> DEFINE P == {n \in 0..N : S[n] <= T[n]}
<1>6. 0 \in P
  BY <1>4
<1>7. ASSUME NEW n \in 0..N - 1, n \in P PROVE n + 1 \in P
  <2>1. n + 1 \in 1..N /\ (n + 1) - 1 = n /\ n + 1 \in 0..N
    OBVIOUS
  <2>2. S[n + 1] = S[n] + s[n + 1] /\ T[n + 1] = T[n] + t[n + 1]
    BY <1>4, <2>1
  <2>3. S[n] \in Nat /\ T[n] \in Nat /\ S[n] <= T[n]
    BY <1>4, <1>7
  <2>4. S[n + 1] <= T[n + 1]
    BY SMTT(30), <1>5, <2>1, <2>2, <2>3
  <2> QED BY <2>1, <2>4
<1>8. \A n \in 0..N : n \in P
  <2> HIDE DEF P
  <2> QED BY <1>6, <1>7, Induction
<1>9. N \in P
  BY <1>8
<1> QED BY <1>2, <1>3, <1>9

\* A sum of one number, and zeros.
LEMMA SumSingle ==
  ASSUME NEW s \in Seq(Nat), NEW k \in 1..Len(s), \A i \in 1..Len(s) : i # k => s[i] = 0
  PROVE  Sum(s) = s[k]
<1>1. PICK N \in Nat : N = Len(s)
  OBVIOUS
<1>2. s[k] \in Nat /\ k \in 1..N
  BY <1>1
<1> DEFINE T == [n \in 0..N |-> IF n < k THEN 0 ELSE s[k]]
<1>3. Totals(s, T)
  <2>1. T \in [0..N -> Nat] /\ T[0] = 0
    BY <1>2
  <2>2. ASSUME NEW n \in 1..N PROVE T[n] = T[n - 1] + s[n]
    <3>1. n \in 0..N /\ n - 1 \in 0..N
      OBVIOUS
    <3>2. CASE n = k
      BY <1>2, <3>1, <3>2
    <3>3. CASE n # k
      <4>1. s[n] = 0 /\ (n < k <=> n - 1 < k)
        BY <1>1, <1>2, <3>3
      <4> QED BY <1>2, <3>1, <4>1
    <3> QED BY <3>2, <3>3
  <2> HIDE DEF T
  <2> QED BY <1>1, <2>1, <2>2 DEF Totals
<1>4. Sum(s) = T[N]
  <2> HIDE DEF T
  <2> QED BY <1>1, <1>3, SumUnique
<1>5. N \in 0..N /\ ~ N < k
  BY <1>2
<1> QED BY <1>4, <1>5

\* Ones.
LEMMA SumOfOnes ==
  ASSUME NEW s \in Seq(Nat), \A i \in 1..Len(s) : s[i] = 1
  PROVE  Sum(s) = Len(s)
<1>1. PICK N \in Nat : N = Len(s)
  OBVIOUS
<1> DEFINE T == [n \in 0..N |-> n]
<1>2. Totals(s, T)
  <2>1. T \in [0..N -> Nat] /\ T[0] = 0
    OBVIOUS
  <2>2. ASSUME NEW n \in 1..N PROVE T[n] = T[n - 1] + s[n]
    BY <1>1
  <2> HIDE DEF T
  <2> QED BY <1>1, <2>1, <2>2 DEF Totals
<1>3. Sum(s) = T[N]
  <2> HIDE DEF T
  <2> QED BY <1>1, <1>2, SumUnique
<1> QED BY <1>1, <1>3

\* One number more.
LEMMA SumAppend ==
  ASSUME NEW s \in Seq(Nat), NEW n \in Nat
  PROVE  Append(s, n) \in Seq(Nat) /\ Sum(Append(s, n)) = Sum(s) + n
<1>1. <<n>> \in Seq(Nat) /\ Len(<<n>>) = 1 /\ <<n>>[1] = n
  OBVIOUS
<1>2. Sum(<<n>>) = n
  <2>1. \E s1 : s1 = <<n>>
    OBVIOUS
  <2>2. PICK s1 : s1 = <<n>>
    BY <2>1
  <2>3. s1 \in Seq(Nat) /\ 1 \in 1..Len(s1) /\ s1[1] = n /\ \A i \in 1..Len(s1) : i = 1
    BY <1>1, <2>2
  <2>4. Sum(s1) = s1[1]
    BY <2>3, SumSingle
  <2> QED BY <2>2, <2>3, <2>4
<1>3. Append(s, n) = s \o <<n>>
  OBVIOUS
<1> QED BY <1>1, <1>2, <1>3, SumConcat

\* Zeros.
LEMMA SumOfZeros ==
  ASSUME NEW s \in Seq(Nat), \A i \in 1..Len(s) : s[i] = 0
  PROVE  Sum(s) = 0
<1>1. PICK N \in Nat : N = Len(s)
  OBVIOUS
<1> DEFINE T == [n \in 0..N |-> 0]
<1>2. Totals(s, T)
  <2>1. T \in [0..N -> Nat] /\ T[0] = 0
    OBVIOUS
  <2>2. ASSUME NEW n \in 1..N PROVE T[n] = T[n - 1] + s[n]
    BY <1>1
  <2> HIDE DEF T
  <2> QED BY <1>1, <2>1, <2>2 DEF Totals
<1>3. Sum(s) = T[N]
  <2> HIDE DEF T
  <2> QED BY <1>1, <1>2, SumUnique
<1> QED BY <1>3

\* The numbers of a table can be summed by rows or by columns.
LEMMA SumSwap ==
  ASSUME NEW N \in Nat, NEW M \in Nat, NEW table, \A i \in 1..N, k \in 1..M : table[<<i, k>>] \in Nat
  PROVE  /\ [i \in 1..N |-> Sum([k \in 1..M |-> table[<<i, k>>]])] \in Seq(Nat)
         /\ [k \in 1..M |-> Sum([i \in 1..N |-> table[<<i, k>>]])] \in Seq(Nat)
         /\ Sum([i \in 1..N |-> Sum([k \in 1..M |-> table[<<i, k>>]])])
              = Sum([k \in 1..M |-> Sum([i \in 1..N |-> table[<<i, k>>]])])
<1> DEFINE Row(i) == [k \in 1..M |-> table[<<i, k>>]]
           Column(n, k) == [i \in 1..n |-> table[<<i, k>>]]
           Columns(n) == [k \in 1..M |-> Sum(Column(n, k))]
           rows == [i \in 1..N |-> Sum(Row(i))]
           T == [n \in 0..N |-> Sum(Columns(n))]
<1>1. \A i \in 1..N : Row(i) \in Seq(Nat) /\ Len(Row(i)) = M
  OBVIOUS
<1>2. \A n \in 0..N, k \in 1..M : Column(n, k) \in Seq(Nat) /\ Len(Column(n, k)) = n
  OBVIOUS
<1>3. \A n \in 0..N : Columns(n) \in Seq(Nat) /\ Len(Columns(n)) = M
  <2> TAKE n \in 0..N
  <2>1. \A k \in 1..M : Sum(Column(n, k)) \in Nat
    BY <1>2, SumNat
  <2> HIDE DEF Column
  <2> QED BY <2>1
<1>4. rows \in Seq(Nat) /\ Len(rows) = N
  <2>1. \A i \in 1..N : Sum(Row(i)) \in Nat
    BY <1>1, SumNat
  <2> HIDE DEF Row
  <2> QED BY <2>1
<1>5. T[0] = 0
  <2>1. \A k \in 1..M : Column(0, k) = <<>>
    OBVIOUS
  <2>2. \A k \in 1..M : Columns(0)[k] = 0
    BY <2>1, SumNone
  <2>3. 0 \in 0..N
    OBVIOUS
  <2> HIDE DEF Columns
  <2>4. Columns(0) \in Seq(Nat) /\ Len(Columns(0)) = M
    BY <1>3, <2>3
  <2>5. Sum(Columns(0)) = 0
    BY <2>2, <2>4, SumOfZeros
  <2> QED BY <2>3, <2>5
<1>6. ASSUME NEW n \in 1..N PROVE Sum(Columns(n)) = Sum(Columns(n - 1)) + Sum(Row(n))
  <2>1. n \in 0..N /\ n - 1 \in 0..N
    OBVIOUS
  <2>2. ASSUME NEW k \in 1..M PROVE Columns(n)[k] = Columns(n - 1)[k] + Row(n)[k]
    <3>1. Column(n, k) = Append(Column(n - 1, k), table[<<n, k>>])
      <4>1. Len(Append(Column(n - 1, k), table[<<n, k>>])) = n
        BY <1>2, <2>1
      <4>2. \A i \in 1..n : Append(Column(n - 1, k), table[<<n, k>>])[i] = table[<<i, k>>]
        BY <1>2, <2>1
      <4>3. Append(Column(n - 1, k), table[<<n, k>>]) \in Seq(Nat)
        <5>1. Column(n - 1, k) \in Seq(Nat) /\ table[<<n, k>>] \in Nat
          BY <1>2, <2>1
        <5> HIDE DEF Column
        <5> QED BY <5>1
      <4> QED BY <4>1, <4>2, <4>3
    <3>2. \A j \in 1..M : Column(n - 1, j) \in Seq(Nat)
      BY <1>2, <2>1
    <3>3. Sum(Column(n, k)) = Sum(Column(n - 1, k)) + table[<<n, k>>]
      <4>1. Column(n - 1, k) \in Seq(Nat) /\ table[<<n, k>>] \in Nat
        BY <1>2, <2>1
      <4> HIDE DEF Column
      <4> QED BY <3>1, <4>1, SumAppend
    <3> HIDE DEF Column
    <3> QED BY <3>3
  <2>3. Columns(n) = [k \in 1..M |-> Columns(n - 1)[k] + Row(n)[k]]
    <3>1. Columns(n) = [k \in 1..M |-> Columns(n)[k]]
      OBVIOUS
    <3> HIDE DEF Columns, Row
    <3> QED BY <2>2, <3>1
  <2>4. /\ Columns(n - 1) \in Seq(Nat) /\ Len(Columns(n - 1)) = M
        /\ Row(n) \in Seq(Nat) /\ Len(Row(n)) = M
    <3> HIDE DEF Columns, Row
    <3> QED BY <1>1, <1>3, <2>1
  <2> HIDE DEF Columns, Row
  <2> QED BY <2>3, <2>4, SumAdd
<1>7. Totals(rows, T)
  <2>1. T \in [0..N -> Nat]
    <3>1. \A n \in 0..N : Sum(Columns(n)) \in Nat
      <4> HIDE DEF Columns
      <4> QED BY <1>3, SumNat
    <3> HIDE DEF Columns
    <3> QED BY <3>1
  <2>2. ASSUME NEW n \in 1..N PROVE T[n] = T[n - 1] + rows[n]
    <3>1. n \in 0..N /\ n - 1 \in 0..N
      OBVIOUS
    <3> HIDE DEF Columns, Row
    <3> QED BY <1>6, <3>1
  <2> HIDE DEF rows, T
  <2> QED BY <1>4, <1>5, <2>1, <2>2 DEF Totals
<1>8. Sum(rows) = T[N]
  <2> HIDE DEF rows, T
  <2> QED BY <1>4, <1>7, SumUnique
<1>9. T[N] = Sum(Columns(N)) /\ Columns(N) \in Seq(Nat)
  <2>1. N \in 0..N
    OBVIOUS
  <2> HIDE DEF Columns
  <2> QED BY <1>3, <2>1
<1> QED BY <1>4, <1>8, <1>9

(***************************************************************************)
(* FlattenSeq appends its parts one by one.                                *)
(***************************************************************************)
\* sofar: what the first parts make.
Flattening(parts, sofar, S) ==
  /\ sofar \in [0..Len(parts) -> Seq(S)] /\ sofar[0] = <<>>
  /\ \A n \in 1..Len(parts) : sofar[n] = sofar[n - 1] \o parts[n]

\* FlattenSeq is the last of what the parts make.
LEMMA Flattens ==
  ASSUME NEW S, NEW parts \in Seq(Seq(S))
  PROVE  \E sofar : Flattening(parts, sofar, S) /\ FlattenSeq(parts) = sofar[Len(parts)]
<1>1. PICK N \in Nat : N = Len(parts) /\ parts \in [1..N -> Seq(S)]
  OBVIOUS
<1> DEFINE Good(f) == f = [i \in 1..N |-> IF i = 1 THEN parts[i] ELSE f[i - 1] \o parts[i]]
           H == [p \in Seq(S) \X (1..N) |-> p[1] \o parts[p[2]]]
           flatten == CHOOSE f : Good(f)
<1>2. ASSUME NEW v \in Seq(S), NEW n \in 1..N
      PROVE  H[<<v, n>>] = v \o parts[n] /\ v \o parts[n] \in Seq(S)
  <2>1. parts[n] \in Seq(S)
    BY <1>1
  <2>2. v \o parts[n] \in Seq(S)
    BY <2>1
  <2>3. <<v, n>> \in Seq(S) \X (1..N)
    OBVIOUS
  <2>4. H[<<v, n>>] = <<v, n>>[1] \o parts[<<v, n>>[2]]
    BY <2>3
  <2> HIDE DEF H
  <2> QED BY <2>2, <2>4
<1>3. PICK sofar : Iterated(sofar, <<>>, H, Seq(S), N)
  <2> HIDE DEF H
  <2>1. Continues(H, Seq(S), N)
    BY <1>2 DEF Continues
  <2>2. <<>> \in Seq(S)
    OBVIOUS
  <2> QED BY <1>1, <2>1, <2>2, Recursion
<1>4. /\ sofar \in [0..N -> Seq(S)] /\ sofar[0] = <<>>
      /\ \A n \in 1..N : sofar[n] = sofar[n - 1] \o parts[n]
  <2> HIDE DEF H
  <2>1. ASSUME NEW n \in 1..N PROVE sofar[n] = sofar[n - 1] \o parts[n]
    <3>1. n - 1 \in 0..N
      OBVIOUS
    <3>2. sofar[n - 1] \in Seq(S)
      BY <1>3, <3>1 DEF Iterated
    <3> QED BY <1>2, <1>3, <3>2 DEF Iterated
  <2> QED BY <1>3, <2>1 DEF Iterated
<1> HIDE DEF H
<1>5. Flattening(parts, sofar, S)
  BY <1>1, <1>4 DEF Flattening
<1>6. CASE N = 0
  <2>1. parts = <<>>
    BY <1>1, <1>6
  <2>2. FlattenSeq(parts) = <<>>
    BY <1>1, <1>6, <2>1 DEF FlattenSeq
  <2> QED BY <1>1, <1>4, <1>5, <1>6, <2>2
<1>7. CASE N # 0
  <2>1. FlattenSeq(parts) = flatten[N]
    BY <1>1, <1>7 DEF FlattenSeq
  <2>2. Good(flatten)
    <3> DEFINE g == [n \in 1..N |-> sofar[n]]
    <3>1. ASSUME NEW n \in 1..N PROVE g[n] = IF n = 1 THEN parts[n] ELSE g[n - 1] \o parts[n]
      <4>1. CASE n = 1
        <5>1. parts[n] \in Seq(S) /\ <<>> \o parts[n] = parts[n]
          BY <1>1
        <5>2. n - 1 = 0
          BY <4>1
        <5> QED BY <1>4, <4>1, <5>1, <5>2
      <4>2. CASE n # 1
        <5>1. n - 1 \in 1..N
          BY <4>2
        <5> QED BY <1>4, <4>2, <5>1
      <4> QED BY <4>1, <4>2
    <3>2. Good(g)
      <4>1. g = [n \in 1..N |-> g[n]]
        OBVIOUS
      <4> HIDE DEF g
      <4> QED BY <3>1, <4>1
    <3> HIDE DEF g, Good
    <3> QED BY <3>2
  <2> HIDE DEF flatten
  <2>3. \A n \in 1..N : flatten[n] = IF n = 1 THEN parts[n] ELSE flatten[n - 1] \o parts[n]
    <3> DEFINE h == [i \in 1..N |-> IF i = 1 THEN parts[i] ELSE flatten[i - 1] \o parts[i]]
    <3>1. flatten = h
      BY <2>2
    <3>2. \A n \in 1..N : h[n] = IF n = 1 THEN parts[n] ELSE flatten[n - 1] \o parts[n]
      OBVIOUS
    <3> HIDE DEF h
    <3> QED BY <3>1, <3>2
  <2> DEFINE P == {n \in 0..N : n = 0 \/ flatten[n] = sofar[n]}
  <2>4. 0 \in P
    BY <1>1
  <2>5. ASSUME NEW n \in 0..N - 1, n \in P PROVE n + 1 \in P
    <3>1. n + 1 \in 1..N /\ n + 1 \in 0..N /\ (n + 1) - 1 = n
      BY <1>1
    <3>2. CASE n = 0
      <4>1. parts[1] \in Seq(S) /\ <<>> \o parts[1] = parts[1] /\ 1 \in 1..N /\ 1 - 1 = 0
        BY <1>1, <1>7
      <4>2. flatten[1] = parts[1] /\ sofar[1] = parts[1]
        BY <1>4, <2>3, <4>1
      <4> QED BY <3>1, <3>2, <4>2
    <3>3. CASE n # 0
      <4>1. flatten[n] = sofar[n] /\ n + 1 # 1
        BY <2>5, <3>3
      <4>2. flatten[n + 1] = flatten[n] \o parts[n + 1] /\ sofar[n + 1] = sofar[n] \o parts[n + 1]
        BY <1>4, <2>3, <3>1, <4>1
      <4> QED BY <3>1, <4>1, <4>2
    <3> QED BY <3>2, <3>3
  <2>6. \A n \in 0..N : n \in P
    <3> HIDE DEF P
    <3> QED BY <1>1, <2>4, <2>5, Induction
  <2>7. flatten[N] = sofar[N]
    BY <1>1, <1>7, <2>6
  <2> QED BY <1>1, <1>5, <2>1, <2>7
<1> QED BY <1>6, <1>7

(***************************************************************************)
(* What the members of a sequence are worth, by a table of weights.        *)
(***************************************************************************)
Worths(s, w) == [i \in DOMAIN s |-> w[s[i]]]
Worth(s, w) == Sum(Worths(s, w))

\* The weights of the members.
LEMMA WorthsAre ==
  ASSUME NEW S, NEW s \in Seq(S), NEW w \in [S -> Nat]
  PROVE  /\ Worths(s, w) \in Seq(Nat) /\ Len(Worths(s, w)) = Len(s)
         /\ \A i \in 1..Len(s) : Worths(s, w)[i] = w[s[i]] /\ w[s[i]] \in Nat
         /\ Worth(s, w) \in Nat
<1>1. PICK N \in Nat : N = Len(s)
  OBVIOUS
<1>2. \A i \in 1..N : s[i] \in S /\ w[s[i]] \in Nat
  BY <1>1
<1>3. Worths(s, w) = [i \in 1..N |-> w[s[i]]]
  BY <1>1 DEF Worths
<1>4. Worths(s, w) \in Seq(Nat) /\ Len(Worths(s, w)) = N
  <2>1. Worths(s, w) \in [1..N -> Nat]
    BY <1>2, <1>3
  <2> QED BY <1>1, <2>1, <1>3
<1>5. Worth(s, w) \in Nat
  BY <1>4, SumNat DEF Worth
<1> QED BY <1>1, <1>2, <1>3, <1>4, <1>5

\* A concatenation, member by member.
LEMMA ConcatIs ==
  ASSUME NEW S, NEW s \in Seq(S), NEW t \in Seq(S), NEW N, N = Len(s), NEW M, M = Len(t)
  PROVE  /\ s \o t \in Seq(S) /\ Len(s \o t) = N + M /\ N \in Nat /\ M \in Nat
         /\ \A i \in 1..N : (s \o t)[i] = s[i]
         /\ \A i \in N + 1..N + M : (s \o t)[i] = t[i - N]
OBVIOUS

\* Two sequences are worth what each of them is.
LEMMA WorthConcat ==
  ASSUME NEW S, NEW s \in Seq(S), NEW t \in Seq(S), NEW w \in [S -> Nat]
  PROVE  Worth(s \o t, w) = Worth(s, w) + Worth(t, w)
<1>1. PICK N \in Nat, M \in Nat : N = Len(s) /\ M = Len(t)
  OBVIOUS
<1>2. /\ s \o t \in Seq(S) /\ Len(s \o t) = N + M
      /\ \A i \in 1..N : (s \o t)[i] = s[i]
      /\ \A i \in N + 1..N + M : (s \o t)[i] = t[i - N]
  BY <1>1, ConcatIs
<1>3. PICK ws \in Seq(Nat) : ws = Worths(s, w) /\ Len(ws) = N /\ \A i \in 1..N : ws[i] = w[s[i]]
  BY <1>1, WorthsAre
<1>4. PICK wt \in Seq(Nat) : wt = Worths(t, w) /\ Len(wt) = M /\ \A i \in 1..M : wt[i] = w[t[i]]
  BY <1>1, WorthsAre
<1>5. PICK wst \in Seq(Nat) : /\ wst = Worths(s \o t, w) /\ Len(wst) = N + M
                              /\ \A i \in 1..N + M : wst[i] = w[(s \o t)[i]]
  <2>1. PICK st : st = s \o t
    OBVIOUS
  <2>2. st \in Seq(S) /\ Len(st) = N + M
    BY <1>2, <2>1
  <2>3. /\ Worths(st, w) \in Seq(Nat) /\ Len(Worths(st, w)) = Len(st)
        /\ \A i \in 1..Len(st) : Worths(st, w)[i] = w[st[i]]
    BY <2>2, WorthsAre
  <2> QED BY <2>1, <2>2, <2>3
<1>6. wst = ws \o wt
  <2>1. PICK both : both = ws \o wt
    OBVIOUS
  <2>2. /\ both \in Seq(Nat) /\ Len(both) = N + M
        /\ \A i \in 1..N : both[i] = ws[i]
        /\ \A i \in N + 1..N + M : both[i] = wt[i - N]
    <3>1. ws \in Seq(Nat) /\ wt \in Seq(Nat) /\ N = Len(ws) /\ M = Len(wt)
      BY <1>3, <1>4
    <3>2. /\ ws \o wt \in Seq(Nat) /\ Len(ws \o wt) = N + M
          /\ \A i \in 1..N : (ws \o wt)[i] = ws[i]
          /\ \A i \in N + 1..N + M : (ws \o wt)[i] = wt[i - N]
      BY ONLY <3>1, ConcatIs
    <3> QED BY <2>1, <3>2
  <2>3. ASSUME NEW i \in 1..N + M PROVE wst[i] = both[i]
    <3>1. CASE i \in 1..N
      <4>1. wst[i] = w[(s \o t)[i]] /\ (s \o t)[i] = s[i] /\ ws[i] = w[s[i]] /\ both[i] = ws[i]
        BY <1>2, <1>3, <1>5, <2>2, <3>1
      <4> QED BY <4>1
    <3>2. CASE i \in N + 1..N + M
      <4>1. PICK k \in 1..M : k = i - N
        BY <3>2
      <4>2. /\ wst[i] = w[(s \o t)[i]] /\ (s \o t)[i] = t[k]
            /\ wt[k] = w[t[k]] /\ both[i] = wt[k]
        BY <1>2, <1>4, <1>5, <2>2, <3>2, <4>1
      <4> QED BY <4>2
    <3> QED BY <3>1, <3>2
  <2> QED BY <1>5, <2>1, <2>2, <2>3, SeqEqual
<1> QED BY <1>3, <1>4, <1>5, <1>6, SumConcat DEF Worth

\* A flattened sequence is worth what its parts are worth.
LEMMA WorthFlat ==
  ASSUME NEW S, NEW parts \in Seq(Seq(S)), NEW w \in [S -> Nat]
  PROVE  /\ FlattenSeq(parts) \in Seq(S)
         /\ [n \in 1..Len(parts) |-> Worth(parts[n], w)] \in Seq(Nat)
         /\ Worth(FlattenSeq(parts), w) = Sum([n \in 1..Len(parts) |-> Worth(parts[n], w)])
<1>1. PICK N \in Nat : N = Len(parts) /\ \A n \in 1..N : parts[n] \in Seq(S)
  OBVIOUS
<1>2. PICK sofar : Flattening(parts, sofar, S) /\ FlattenSeq(parts) = sofar[N]
  BY <1>1, Flattens
<1>3. /\ sofar \in [0..N -> Seq(S)] /\ sofar[0] = <<>>
      /\ \A n \in 1..N : sofar[n] = sofar[n - 1] \o parts[n]
  BY <1>1, <1>2 DEF Flattening
<1>4. FlattenSeq(parts) \in Seq(S)
  BY <1>2, <1>3
<1> DEFINE worths == [n \in 1..N |-> Worth(parts[n], w)]
           T == [n \in 0..N |-> Worth(sofar[n], w)]
<1>5. worths \in Seq(Nat) /\ Len(worths) = N
  <2>1. \A n \in 1..N : Worth(parts[n], w) \in Nat
    BY <1>1, WorthsAre
  <2> QED BY <2>1
<1>6. Totals(worths, T)
  <2>1. T \in [0..N -> Nat]
    <3>1. \A n \in 0..N : Worth(sofar[n], w) \in Nat
      BY <1>3, WorthsAre
    <3> QED BY <3>1
  <2>2. T[0] = 0
    <3>1. Worths(<<>>, w) = <<>>
      BY DEF Worths
    <3>2. Worth(<<>>, w) = 0
      BY <3>1, SumNone DEF Worth
    <3> QED BY <1>3, <3>2
  <2>3. ASSUME NEW n \in 1..N PROVE T[n] = T[n - 1] + worths[n]
    <3>1. n \in 0..N /\ n - 1 \in 0..N
      OBVIOUS
    <3>2. sofar[n - 1] \in Seq(S) /\ parts[n] \in Seq(S)
      BY <1>1, <1>3, <3>1
    <3>3. Worth(sofar[n - 1] \o parts[n], w) = Worth(sofar[n - 1], w) + Worth(parts[n], w)
      BY <3>2, WorthConcat
    <3> QED BY <1>3, <3>1, <3>3
  <2> HIDE DEF T, worths
  <2> QED BY <1>5, <2>1, <2>2, <2>3 DEF Totals
<1>7. Sum(worths) = T[N]
  <2> HIDE DEF T, worths
  <2> QED BY <1>5, <1>6, SumUnique
<1> QED BY <1>1, <1>2, <1>4, <1>5, <1>7

\* The chosen members.
LEMMA ChosenWorth ==
  ASSUME NEW S, NEW s \in Seq(S), NEW w \in [S -> Nat], NEW P
  PROVE  /\ Chosen(s, P) \in Seq(S)
         /\ [i \in 1..Len(s) |-> IF i \in P THEN w[s[i]] ELSE 0] \in Seq(Nat)
         /\ Worth(Chosen(s, P), w) = Sum([i \in 1..Len(s) |-> IF i \in P THEN w[s[i]] ELSE 0])
<1>1. PICK N \in Nat : N = Len(s) /\ \A i \in 1..N : s[i] \in S /\ w[s[i]] \in Nat
  OBVIOUS
<1> DEFINE parts == [i \in 1..N |-> IF i \in P THEN <<s[i]>> ELSE <<>>]
<1>2. Chosen(s, P) = FlattenSeq(parts)
  <2>1. DOMAIN s = 1..N
    BY <1>1
  <2> QED BY <2>1 DEF Chosen
<1>3. parts \in Seq(Seq(S)) /\ Len(parts) = N
  <2>1. \A i \in 1..N : parts[i] \in Seq(S)
    BY <1>1
  <2> QED BY <2>1
<1>4. ASSUME NEW i \in 1..N PROVE Worth(parts[i], w) = IF i \in P THEN w[s[i]] ELSE 0
  <2>1. CASE i \in P
    <3>1. PICK single : single = <<s[i]>>
      OBVIOUS
    <3>2. single \in Seq(S) /\ Len(single) = 1 /\ single[1] = s[i]
      BY <1>1, <3>1
    <3>6. PICK one : one = Worths(single, w)
      OBVIOUS
    <3>3. one \in Seq(Nat) /\ Len(one) = 1 /\ one[1] = w[s[i]]
      <4>1. 1 \in 1..Len(single)
        BY <3>2
      <4>2. /\ Worths(single, w) \in Seq(Nat) /\ Len(Worths(single, w)) = Len(single)
            /\ \A k \in 1..Len(single) : Worths(single, w)[k] = w[single[k]]
        BY <3>2, WorthsAre
      <4> QED BY <3>2, <3>6, <4>1, <4>2
    <3>4. 1 \in 1..Len(one) /\ \A k \in 1..Len(one) : k = 1
      BY <3>3
    <3>5. Sum(one) = one[1]
      BY <3>3, <3>4, SumSingle
    <3> QED BY <2>1, <3>1, <3>3, <3>5, <3>6 DEF Worth
  <2>2. CASE i \notin P
    <3>1. Worths(<<>>, w) = <<>>
      BY DEF Worths
    <3> QED BY <2>2, <3>1, SumNone DEF Worth
  <2> QED BY <2>1, <2>2
<1>5. [i \in 1..Len(parts) |-> Worth(parts[i], w)] = [i \in 1..N |-> IF i \in P THEN w[s[i]] ELSE 0]
  <2> HIDE DEF parts
  <2> QED BY <1>3, <1>4
<1>6. /\ FlattenSeq(parts) \in Seq(S)
      /\ [i \in 1..Len(parts) |-> Worth(parts[i], w)] \in Seq(Nat)
      /\ Worth(FlattenSeq(parts), w) = Sum([i \in 1..Len(parts) |-> Worth(parts[i], w)])
  <2> HIDE DEF parts
  <2> QED BY <1>3, WorthFlat
<1> HIDE DEF parts
<1> QED BY <1>1, <1>2, <1>5, <1>6

\* A function on 1..n is a sequence.
LEMMA FunctionIsSeq ==
  ASSUME NEW S, NEW n \in Nat, NEW f \in [1..n -> S]
  PROVE  f \in Seq(S) /\ Len(f) = n
OBVIOUS

\* The members of a flattened sequence are members of its parts.
LEMMA FlatType ==
  ASSUME NEW S, NEW parts \in Seq(Seq(S)) PROVE FlattenSeq(parts) \in Seq(S)
<1>1. PICK sofar : Flattening(parts, sofar, S) /\ FlattenSeq(parts) = sofar[Len(parts)]
  BY Flattens
<1>2. Len(parts) \in 0..Len(parts)
  OBVIOUS
<1> QED BY <1>1, <1>2 DEF Flattening

\* What is true of the chosen members.
LEMMA ChosenType ==
  ASSUME NEW S, NEW s \in Seq(S), NEW P, NEW Q, \A i \in 1..Len(s) : i \in P => s[i] \in Q
  PROVE  Chosen(s, P) \in Seq(Q)
<1>1. PICK N \in Nat : N = Len(s) /\ DOMAIN s = 1..N
  OBVIOUS
<1> DEFINE parts == [i \in 1..N |-> IF i \in P THEN <<s[i]>> ELSE <<>>]
<1>2. Chosen(s, P) = FlattenSeq(parts)
  BY <1>1 DEF Chosen
<1>3. parts \in Seq(Seq(Q))
  <2>1. \A i \in 1..N : i \in P => <<s[i]>> \in Seq(Q)
    BY <1>1
  <2>2. <<>> \in Seq(Q)
    OBVIOUS
  <2>3. \A i \in 1..N : parts[i] \in Seq(Q)
    BY <2>1, <2>2
  <2> QED BY <2>3
<1> HIDE DEF parts
<1> QED BY <1>2, <1>3, FlatType

\* Every index is in one of the sets.
Partition(P, N, K) ==
  \A i \in 1..N : \E k \in 1..K : i \in P[k] /\ \A m \in 1..K : i \in P[m] => m = k

\* Chosen part by part, a sequence keeps what it is worth.
LEMMA PartitionWorth ==
  ASSUME NEW S, NEW s \in Seq(S), NEW w \in [S -> Nat], NEW K \in Nat, NEW P,
         Partition(P, Len(s), K)
  PROVE  /\ [k \in 1..K |-> Worth(Chosen(s, P[k]), w)] \in Seq(Nat)
         /\ Sum([k \in 1..K |-> Worth(Chosen(s, P[k]), w)]) = Worth(s, w)
<1>1. PICK N \in Nat : N = Len(s)
  OBVIOUS
<1> DEFINE Cell(i, k) == IF i \in P[k] THEN w[s[i]] ELSE 0
           table == [q \in (1..N) \X (1..K) |-> Cell(q[1], q[2])]
           rows == [i \in 1..N |-> Sum([k \in 1..K |-> table[<<i, k>>]])]
           columns == [k \in 1..K |-> Sum([i \in 1..N |-> table[<<i, k>>]])]
<1>2. \A i \in 1..N : s[i] \in S /\ w[s[i]] \in Nat
  BY <1>1
<1>3. ASSUME NEW i \in 1..N, NEW k \in 1..K PROVE table[<<i, k>>] = Cell(i, k) /\ Cell(i, k) \in Nat
  <2>1. <<i, k>> \in (1..N) \X (1..K) /\ <<i, k>>[1] = i /\ <<i, k>>[2] = k
    OBVIOUS
  <2>2. table[<<i, k>>] = Cell(<<i, k>>[1], <<i, k>>[2])
    BY <2>1
  <2>3. Cell(i, k) \in Nat
    BY <1>2
  <2> HIDE DEF table
  <2> QED BY <2>1, <2>2, <2>3
<1> HIDE DEF table
<1>4. rows \in Seq(Nat) /\ columns \in Seq(Nat) /\ Sum(rows) = Sum(columns)
  <2>1. \A i \in 1..N, k \in 1..K : table[<<i, k>>] \in Nat
    <3> HIDE DEF Cell
    <3> QED BY <1>3
  <2> QED BY ZenonT(30), <2>1, SumSwap
<1>5. ASSUME NEW i \in 1..N PROVE rows[i] = w[s[i]]
  <2>1. PICK k \in 1..K : i \in P[k] /\ \A m \in 1..K : i \in P[m] => m = k
    BY <1>1 DEF Partition
  <2> DEFINE row == [m \in 1..K |-> table[<<i, m>>]]
  <2>2. \A m \in 1..K : row[m] = Cell(i, m) /\ row[m] \in Nat
    <3> HIDE DEF Cell
    <3> QED BY <1>3
  <2>3. row \in Seq(Nat) /\ Len(row) = K
    BY <2>2
  <2>4. \A m \in 1..K : m # k => row[m] = 0
    BY <2>1, <2>2
  <2>5. row[k] = w[s[i]]
    BY <2>1, <2>2
  <2>6. rows[i] = Sum(row)
    OBVIOUS
  <2> HIDE DEF row, rows
  <2>7. Sum(row) = row[k]
    BY <2>3, <2>4, SumSingle
  <2> QED BY <2>5, <2>6, <2>7
<1>6. Sum(rows) = Worth(s, w)
  <2>1. Worths(s, w) \in Seq(Nat) /\ Len(Worths(s, w)) = N /\ \A i \in 1..N : Worths(s, w)[i] = w[s[i]]
    BY <1>1, WorthsAre
  <2>2. Len(rows) = N
    OBVIOUS
  <2> HIDE DEF rows
  <2>3. rows = Worths(s, w)
    BY <1>4, <1>5, <2>1, <2>2, SeqEqual
  <2> QED BY <2>3 DEF Worth
<1>7. ASSUME NEW k \in 1..K PROVE columns[k] = Worth(Chosen(s, P[k]), w)
  <2>1. [i \in 1..N |-> table[<<i, k>>]] = [i \in 1..N |-> Cell(i, k)]
    <3> HIDE DEF Cell
    <3> QED BY <1>3
  <2>2. Worth(Chosen(s, P[k]), w) = Sum([i \in 1..N |-> Cell(i, k)])
    BY <1>1, ChosenWorth
  <2> HIDE DEF Cell
  <2> QED BY <2>1, <2>2
<1>8. columns = [k \in 1..K |-> Worth(Chosen(s, P[k]), w)]
  <2>1. columns = [k \in 1..K |-> columns[k]]
    OBVIOUS
  <2> HIDE DEF columns
  <2> QED BY <1>7, <2>1
<1> QED BY <1>4, <1>6, <1>8

(***************************************************************************)
(* Sorting by severity.                                                    *)
(***************************************************************************)
SeverityNames == {"critical", "major", "minor"}

\* a sequence of findings, the criticals up to a, the majors up to b.
SortedAt(s, a, b) ==
  /\ a \in 0..b /\ b \in 0..Len(s)
  /\ \A i \in 1..Len(s) : s[i].severity = IF i <= a THEN "critical"
                                          ELSE IF i <= b THEN "major" ELSE "minor"

\* Sorting keeps the findings and puts the worst ones first.
LEMMA SortedIs ==
  ASSUME NEW S, NEW s \in Seq(S), \A f \in S : f.severity \in SeverityNames
  PROVE  /\ WorstFirst(s) \in Seq(S)
         /\ \A w \in [S -> Nat] : Worth(WorstFirst(s), w) = Worth(s, w)
         /\ \E a, b : SortedAt(WorstFirst(s), a, b)
<1>1. PICK N \in Nat : N = Len(s) /\ DOMAIN s = 1..N /\ \A i \in 1..N : s[i] \in S
  OBVIOUS
<1>2. /\ Len(Severities) = 3 /\ Severities[1] = "critical" /\ Severities[2] = "major"
      /\ Severities[3] = "minor"
  BY DEF Severities
<1> DEFINE P == [k \in 1..3 |-> {i \in DOMAIN s : s[i].severity = Severities[k]}]
           parts == [k \in 1..3 |-> Chosen(s, P[k])]
           Of3(k) == {f \in S : f.severity = Severities[k]}
<1>3. WorstFirst(s) = FlattenSeq(parts)
  <2>1. \A k \in 1..3 : With(s, Severities[k]) = parts[k]
    BY DEF With
  <2> HIDE DEF parts
  <2>2. [k \in 1..3 |-> With(s, Severities[k])] = [k \in 1..3 |-> parts[k]]
    BY <2>1
  <2>3. parts = [k \in 1..3 |-> parts[k]]
    BY DEF parts
  <2> QED BY <1>2, <2>2, <2>3 DEF WorstFirst
<1>4. ASSUME NEW k \in 1..3 PROVE parts[k] \in Seq(Of3(k)) /\ parts[k] \in Seq(S)
  <2>1. \A i \in 1..Len(s) : i \in P[k] => s[i] \in Of3(k)
    BY <1>1
  <2>2. parts[k] = Chosen(s, P[k])
    OBVIOUS
  <2>3. parts[k] \in Seq(Of3(k))
    <3> HIDE DEF Of3, P, parts
    <3> QED BY <2>1, <2>2, ChosenType
  <2>4. Of3(k) \subseteq S
    OBVIOUS
  <2> HIDE DEF Of3, P, parts
  <2> QED BY <2>3, <2>4, SeqMonotonic
<1>5. parts \in Seq(Seq(S)) /\ Len(parts) = 3
  <2>1. Len(parts) = 3
    OBVIOUS
  <2>2. parts = [k \in 1..3 |-> parts[k]]
    OBVIOUS
  <2> HIDE DEF parts, Of3
  <2>3. parts \in [1..3 -> Seq(S)]
    BY <1>4, <2>2
  <2>4. parts \in Seq(Seq(S))
    BY <2>3, FunctionIsSeq
  <2> QED BY <2>1, <2>4
<1>6. Partition(P, Len(s), 3)
  <2> SUFFICES ASSUME NEW i \in 1..N
               PROVE \E k \in 1..3 : i \in P[k] /\ \A m \in 1..3 : i \in P[m] => m = k
    BY <1>1 DEF Partition
  <2>1. s[i].severity \in SeverityNames
    BY <1>1
  <2>2. PICK k \in 1..3 : s[i].severity = Severities[k]
    BY <1>2, <2>1 DEF SeverityNames
  <2>3. \A m \in 1..3 : Severities[m] = Severities[k] => m = k
    BY <1>2
  <2> QED BY <1>1, <2>2, <2>3
<1>7. ASSUME NEW w \in [S -> Nat] PROVE Worth(WorstFirst(s), w) = Worth(s, w)
  <2>1. Sum([k \in 1..3 |-> Worth(Chosen(s, P[k]), w)]) = Worth(s, w)
    <3> HIDE DEF P
    <3>1. 3 \in Nat
      OBVIOUS
    <3> QED BY <1>6, <3>1, PartitionWorth
  <2>2. Worth(FlattenSeq(parts), w) = Sum([k \in 1..Len(parts) |-> Worth(parts[k], w)])
    <3> HIDE DEF parts
    <3> QED BY <1>5, WorthFlat
  <2>3. [k \in 1..3 |-> Worth(parts[k], w)] = [k \in 1..3 |-> Worth(Chosen(s, P[k]), w)]
    <3>1. \A k \in 1..3 : parts[k] = Chosen(s, P[k])
      OBVIOUS
    <3> HIDE DEF parts, P
    <3> QED BY <3>1
  <2> HIDE DEF parts, P
  <2> QED BY <1>3, <1>5, <2>1, <2>2, <2>3
<1>8. \E a, b : SortedAt(WorstFirst(s), a, b)
  <2>1. PICK sofar : Flattening(parts, sofar, S) /\ FlattenSeq(parts) = sofar[3]
    <3> HIDE DEF parts
    <3> QED BY <1>5, Flattens
  <2>2. PICK p1, p2, p3 : p1 = parts[1] /\ p2 = parts[2] /\ p3 = parts[3]
    OBVIOUS
  <2>3. p1 \in Seq(S) /\ p2 \in Seq(S) /\ p3 \in Seq(S)
    <3> HIDE DEF parts, Of3
    <3> QED BY <1>4, <2>2
  <2>4. FlattenSeq(parts) = (p1 \o p2) \o p3
    <3> HIDE DEF parts
    <3>1. sofar[0] = <<>> /\ \A n \in 1..3 : sofar[n] = sofar[n - 1] \o parts[n]
      BY <1>5, <2>1 DEF Flattening
    <3>2. /\ sofar[1] = sofar[1 - 1] \o parts[1] /\ sofar[2] = sofar[2 - 1] \o parts[2]
          /\ sofar[3] = sofar[3 - 1] \o parts[3]
      <4>1. 1 \in 1..3 /\ 2 \in 1..3 /\ 3 \in 1..3
        OBVIOUS
      <4> QED BY <3>1, <4>1
    <3>4. 1 - 1 = 0 /\ 2 - 1 = 1 /\ 3 - 1 = 2
      OBVIOUS
    <3>3. <<>> \o p1 = p1
      BY <2>3, ConcatEmptySeq
    <3> QED BY <2>1, <2>2, <3>1, <3>2, <3>3, <3>4
  <2>5. /\ \A i \in 1..Len(p1) : p1[i].severity = "critical"
        /\ \A i \in 1..Len(p2) : p2[i].severity = "major"
        /\ \A i \in 1..Len(p3) : p3[i].severity = "minor"
    <3>1. p1 \in Seq(Of3(1)) /\ p2 \in Seq(Of3(2)) /\ p3 \in Seq(Of3(3))
      <4> HIDE DEF parts, Of3
      <4> QED BY <1>4, <2>2
    <3>2. /\ \A f \in Of3(1) : f.severity = "critical"
          /\ \A f \in Of3(2) : f.severity = "major"
          /\ \A f \in Of3(3) : f.severity = "minor"
      BY <1>2
    <3> HIDE DEF parts, Of3
    <3> QED BY <3>1, <3>2, ElementOfSeq
  <2>6. PICK A \in Nat, B \in Nat, C \in Nat : A = Len(p1) /\ B = Len(p2) /\ C = Len(p3)
    BY <2>3
  <2>7. /\ p1 \o p2 \in Seq(S) /\ Len(p1 \o p2) = A + B
        /\ \A i \in 1..A + B : (p1 \o p2)[i] = IF i <= A THEN p1[i] ELSE p2[i - A]
    BY <2>3, <2>6, ConcatProperties
  <2>8. PICK p12 : p12 = p1 \o p2
    OBVIOUS
  <2>9. /\ Len(p12 \o p3) = A + B + C
        /\ \A i \in 1..A + B + C : (p12 \o p3)[i] = IF i <= A + B THEN p12[i] ELSE p3[i - (A + B)]
    BY <2>3, <2>6, <2>7, <2>8, ConcatProperties
  <2>10. PICK r : r = WorstFirst(s)
    OBVIOUS
  <2>11. r = p12 \o p3
    <3> HIDE DEF parts
    <3> QED BY <1>3, <2>4, <2>8, <2>10
  <2>12. ASSUME NEW i \in 1..A + B + C
         PROVE  r[i].severity = IF i <= A THEN "critical" ELSE IF i <= A + B THEN "major" ELSE "minor"
    <3>1. CASE i <= A
      <4>1. i \in 1..A /\ i \in 1..A + B /\ i <= A + B
        BY <3>1
      <4>2. r[i] = p1[i]
        BY <2>7, <2>8, <2>9, <2>11, <3>1, <4>1
      <4> QED BY <2>5, <2>6, <3>1, <4>1, <4>2
    <3>2. CASE ~ i <= A /\ i <= A + B
      <4>1. i - A \in 1..B /\ i \in 1..A + B
        BY <3>2
      <4>2. r[i] = p2[i - A]
        BY <2>7, <2>8, <2>9, <2>11, <3>2, <4>1
      <4> QED BY <2>5, <2>6, <3>2, <4>1, <4>2
    <3>3. CASE ~ i <= A + B
      <4>1. i - (A + B) \in 1..C /\ ~ i <= A
        BY <3>3
      <4>2. r[i] = p3[i - (A + B)]
        BY <2>9, <2>11, <3>3
      <4> QED BY <2>5, <2>6, <3>3, <4>1, <4>2
    <3> QED BY <3>1, <3>2, <3>3
  <2>13. Len(r) = A + B + C
    BY <2>9, <2>11
  <2>14. A \in 0..A + B /\ A + B \in 0..Len(r)
    BY <2>13
  <2>15. SortedAt(r, A, A + B)
    BY <2>12, <2>13, <2>14 DEF SortedAt
  <2> QED BY <2>10, <2>15
<1>9. WorstFirst(s) \in Seq(S)
  <2> HIDE DEF parts
  <2> QED BY <1>3, <1>5, FlatType
<1> QED BY <1>7, <1>8, <1>9

\* Ones, and then zeros.
LEMMA SumOfStep ==
  ASSUME NEW s \in Seq(Nat), NEW c \in Nat,
         \A i \in 1..Len(s) : s[i] = IF i <= c THEN 1 ELSE 0
  PROVE  Sum(s) = IF Len(s) <= c THEN Len(s) ELSE c
<1>1. PICK N \in Nat : N = Len(s)
  OBVIOUS
<1> DEFINE T == [n \in 0..N |-> IF n <= c THEN n ELSE c]
<1>2. Totals(s, T)
  <2>1. T \in [0..N -> Nat] /\ T[0] = 0
    OBVIOUS
  <2>2. ASSUME NEW n \in 1..N PROVE T[n] = T[n - 1] + s[n]
    <3>1. n \in 0..N /\ n - 1 \in 0..N
      OBVIOUS
    <3>2. s[n] = IF n <= c THEN 1 ELSE 0
      BY <1>1
    <3>3. T[n] = (IF n <= c THEN n ELSE c) /\ T[n - 1] = (IF n - 1 <= c THEN n - 1 ELSE c)
      BY <3>1
    <3> HIDE DEF T
    <3> QED BY <3>2, <3>3
  <2> HIDE DEF T
  <2> QED BY <1>1, <2>1, <2>2 DEF Totals
<1>3. Sum(s) = T[N]
  <2> HIDE DEF T
  <2> QED BY <1>1, <1>2, SumUnique
<1> QED BY <1>1, <1>3

\* What the first members are worth.
LEMMA FirstWorth ==
  ASSUME NEW S, NEW s \in Seq(S), NEW w \in [S -> Nat], NEW n \in 0..Len(s)
  PROVE  /\ SubSeq(s, 1, n) \in Seq(S) /\ Len(SubSeq(s, 1, n)) = n
         /\ \A i \in 1..n : SubSeq(s, 1, n)[i] = s[i]
         /\ \E total : /\ Totals(Worths(s, w), total) /\ Worth(s, w) = total[Len(s)]
                       /\ Worth(SubSeq(s, 1, n), w) = total[n]
<1>1. PICK N \in Nat : N = Len(s) /\ n \in 0..N /\ \A i \in 1..N : s[i] \in S
  OBVIOUS
<1>2. PICK t : t = SubSeq(s, 1, n)
  OBVIOUS
<1>3. t \in Seq(S) /\ Len(t) = n /\ \A i \in 1..n : t[i] = s[i]
  <2>1. \A i \in 1..n : s[i] \in S
    BY <1>1
  <2>2. /\ t \in Seq(S) /\ Len(t) = IF 1 <= n THEN n - 1 + 1 ELSE 0
        /\ \A i \in 1..n - 1 + 1 : t[i] = s[1 + i - 1]
    BY <1>1, <1>2, <2>1, SubSeqProperties
  <2>3. n - 1 + 1 = n /\ \A i \in 1..n : 1 + i - 1 = i
    BY <1>1
  <2> QED BY <1>1, <2>2, <2>3
<1>4. PICK ws \in Seq(Nat) : ws = Worths(s, w) /\ Len(ws) = N /\ \A i \in 1..N : ws[i] = w[s[i]]
  BY <1>1, WorthsAre
<1>5. PICK wt \in Seq(Nat) : wt = Worths(t, w) /\ Len(wt) = n /\ \A i \in 1..n : wt[i] = w[t[i]]
  <2>1. /\ Worths(t, w) \in Seq(Nat) /\ Len(Worths(t, w)) = Len(t)
        /\ \A i \in 1..Len(t) : Worths(t, w)[i] = w[t[i]]
    BY ZenonT(30), <1>3, WorthsAre
  <2> QED BY <1>3, <2>1
<1>6. PICK total : Totals(ws, total) /\ Sum(ws) = total[N]
  BY <1>4, SumTotals
<1>7. PICK wu : wu = SubSeq(ws, 1, n)
  OBVIOUS
<1>8. wu \in Seq(Nat) /\ Sum(wu) = total[n]
  BY <1>1, <1>4, <1>6, <1>7, SumFirst
<1>9. wt = wu
  <2>1. \A i \in 1..n : ws[i] \in Nat
    BY <1>1, <1>4
  <2>2. /\ wu \in Seq(Nat) /\ Len(wu) = IF 1 <= n THEN n - 1 + 1 ELSE 0
        /\ \A i \in 1..n - 1 + 1 : wu[i] = ws[1 + i - 1]
    BY <1>1, <1>7, <2>1, SubSeqProperties
  <2>3. n - 1 + 1 = n /\ \A i \in 1..n : 1 + i - 1 = i
    BY <1>1
  <2>4. Len(wu) = n /\ \A i \in 1..n : wu[i] = ws[i]
    BY <1>1, <2>2, <2>3
  <2>5. ASSUME NEW i \in 1..n PROVE wu[i] = wt[i]
    <3>1. i \in 1..N /\ wu[i] = ws[i] /\ wt[i] = w[t[i]] /\ t[i] = s[i]
      BY <1>1, <1>3, <1>5, <2>4
    <3>2. ws[i] = w[s[i]]
      BY <1>4, <3>1
    <3> QED BY <3>1, <3>2
  <2> QED BY <1>5, <2>2, <2>4, <2>5, SeqEqual
<1> QED BY <1>1, <1>2, <1>3, <1>4, <1>5, <1>6, <1>8, <1>9 DEF Worth

\* One member more.
LEMMA AppendWorth ==
  ASSUME NEW S, NEW s \in Seq(S), NEW f \in S, NEW w \in [S -> Nat]
  PROVE  Append(s, f) \in Seq(S) /\ Worth(Append(s, f), w) = Worth(s, w) + w[f]
<1>1. PICK t : t = <<f>>
  OBVIOUS
<1>2. t \in Seq(S) /\ Len(t) = 1 /\ t[1] = f /\ Append(s, f) = s \o t
  BY <1>1
<1>3. Worth(s \o t, w) = Worth(s, w) + Worth(t, w)
  BY <1>2, WorthConcat
<1>4. /\ Worths(t, w) \in Seq(Nat) /\ Len(Worths(t, w)) = Len(t)
      /\ \A i \in 1..Len(t) : Worths(t, w)[i] = w[t[i]]
  BY <1>2, WorthsAre
<1>5. 1 \in 1..Len(t) /\ \A i \in 1..Len(t) : i = 1
  BY <1>2
<1>6. Worth(t, w) = Worths(t, w)[1]
  BY <1>4, <1>5, SumSingle DEF Worth
<1> QED BY <1>2, <1>3, <1>4, <1>5, <1>6

(***************************************************************************)
(* The findings of the analyzers, and the lines of the report.             *)
(***************************************************************************)
Bare == [by : Names, slide : Parts, box : Boxes, severity : SeverityNames, hides : {0}]
BareAt(place) == {f \in Bare : f.slide = place}
Line(place, extra) ==
  [by |-> "aggregator", slide |-> place, box |-> "none", severity |-> "minor", hides |-> extra]
Lines == {Line(p, n) : p \in Parts, n \in Nat}
Reported == Bare \cup Lines

\* Lines are told from findings by their author.
LEMMA ReportedAre ==
  /\ \A f \in Bare : /\ f.by # "aggregator" /\ f.slide \in Parts /\ f.severity \in SeverityNames
                     /\ f \in Reported /\ f \in BareAt(f.slide)
  /\ \A f \in Lines : f.by = "aggregator" /\ f.hides \in Nat /\ f.slide \in Parts /\ f.severity = "minor"
  /\ \A f \in Reported : f.severity \in SeverityNames /\ f.slide \in Parts
<1>1. \A a \in Names : a # "aggregator"
  BY DEF Names, Analyzers
<1>2. \A f \in Bare : /\ f.by # "aggregator" /\ f.slide \in Parts /\ f.severity \in SeverityNames
                      /\ f \in Reported /\ f \in BareAt(f.slide)
  BY <1>1 DEF Bare, BareAt, Reported
<1>3. \A f \in Lines : f.by = "aggregator" /\ f.hides \in Nat /\ f.slide \in Parts /\ f.severity = "minor"
  BY DEF Lines, Line
<1>4. \A f \in Reported : f.severity \in SeverityNames /\ f.slide \in Parts
  BY <1>2, <1>3 DEF Reported, SeverityNames
<1> QED BY <1>2, <1>3, <1>4

\* Every slide number has its place.
LEMMA ThePlaces ==
  /\ Len(Places) = NPlaces /\ NPlaces \in Nat
  /\ \A k \in 1..NPlaces : Places[k] = k - 1 /\ Places[k] \in Parts
  /\ \A p \in Parts : p + 1 \in 1..NPlaces /\ Places[p + 1] = p
<1>1. NSlides \in Nat /\ NMissing \in Nat /\ NPlaces \in Nat
  BY BoundsAssumption DEF NPlaces
<1> QED BY <1>1 DEF Places, Parts

\* The findings of a place, worst first.
LEMMA GroupIs ==
  ASSUME NEW s \in Seq(Bare), NEW place \in Parts
  PROVE  /\ Of(s, place) \in Seq(BareAt(place))
         /\ WorstFirst(Of(s, place)) \in Seq(BareAt(place))
         /\ WorstFirst(Of(s, place)) \in Seq(Reported)
         /\ \A w \in [Reported -> Nat] : Worth(WorstFirst(Of(s, place)), w) = Worth(Of(s, place), w)
         /\ \E a, b : SortedAt(WorstFirst(Of(s, place)), a, b)
<1> DEFINE P == {i \in DOMAIN s : s[i].slide = place}
<1>1. Of(s, place) = Chosen(s, P)
  BY DEF Of
<1>2. \A i \in 1..Len(s) : i \in P => s[i] \in BareAt(place)
  BY DEF BareAt
<1>3. Of(s, place) \in Seq(BareAt(place))
  <2> HIDE DEF P
  <2> QED BY <1>1, <1>2, ChosenType
<1>4. BareAt(place) \subseteq Reported /\ \A f \in BareAt(place) : f.severity \in SeverityNames
  BY ReportedAre DEF BareAt
<1>5. PICK g : g = Of(s, place)
  OBVIOUS
<1>6. g \in Seq(BareAt(place)) /\ g \in Seq(Reported)
  BY <1>3, <1>4, <1>5, SeqMonotonic
<1>7. WorstFirst(g) \in Seq(BareAt(place))
  BY <1>4, <1>6, SortedIs
<1>8. /\ WorstFirst(g) \in Seq(Reported)
      /\ \A w \in [Reported -> Nat] : Worth(WorstFirst(g), w) = Worth(g, w)
      /\ \E a, b : SortedAt(WorstFirst(g), a, b)
  <2>1. \A f \in Reported : f.severity \in SeverityNames
    BY ReportedAre
  <2> QED BY <1>6, <2>1, SortedIs
<1> QED BY <1>5, <1>6, <1>7, <1>8

\* They are all of a place's findings, or the worst of them and a line.
LEMMA CappedIs ==
  ASSUME NEW s \in Seq(Bare), NEW place \in Parts, NEW g, g = WorstFirst(Of(s, place))
  PROVE  /\ Capped(s, place) \in Seq(Reported)
         /\ Len(g) <= MaxPerSlide => Capped(s, place) = g
         /\ ~ Len(g) <= MaxPerSlide =>
              /\ Capped(s, place) = Append(SubSeq(g, 1, MaxPerSlide), Line(place, Len(g) - MaxPerSlide))
              /\ Line(place, Len(g) - MaxPerSlide) \in Lines
              /\ MaxPerSlide \in 1..Len(g) - 1
<1>1. g \in Seq(Reported) /\ Len(g) \in Nat
  BY GroupIs
<1>2. MaxPerSlide \in Nat \ {0}
  BY BoundsAssumption
<1>3. CASE Len(g) <= MaxPerSlide
  <2>1. Len(g) - MaxPerSlide <= 0
    BY <1>1, <1>2, <1>3
  <2> QED BY <1>1, <1>3, <2>1 DEF Capped
<1>4. CASE ~ Len(g) <= MaxPerSlide
  <2>1. ~ Len(g) - MaxPerSlide <= 0 /\ Len(g) - MaxPerSlide \in Nat /\ MaxPerSlide \in 1..Len(g) - 1
    BY <1>1, <1>2, <1>4
  <2>2. Capped(s, place) = Append(SubSeq(g, 1, MaxPerSlide), Line(place, Len(g) - MaxPerSlide))
    BY <2>1 DEF Capped, Line
  <2>3. Line(place, Len(g) - MaxPerSlide) \in Lines
    BY <2>1 DEF Lines
  <2>4. SubSeq(g, 1, MaxPerSlide) \in Seq(Reported)
    <3>1. \A i \in 1..MaxPerSlide : g[i] \in Reported
      BY <1>1, <2>1
    <3> QED BY <1>2, <3>1, SubSeqProperties
  <2>5. Capped(s, place) \in Seq(Reported)
    BY <2>2, <2>3, <2>4, AppendProperties DEF Reported
  <2> QED BY <1>4, <2>1, <2>2, <2>3, <2>5
<1> QED BY <1>3, <1>4

\* What the report is worth, and what was kept, place by place.
LEMMA PlacesWorth ==
  ASSUME NEW s \in Seq(Bare), NEW w \in [Reported -> Nat], NEW N, N = NPlaces
  PROVE  /\ Ordered(s) \in Seq(Reported)
         /\ [k \in 1..N |-> Worth(Capped(s, Places[k]), w)] \in Seq(Nat)
         /\ Worth(Ordered(s), w) = Sum([k \in 1..N |-> Worth(Capped(s, Places[k]), w)])
         /\ [k \in 1..N |-> Worth(Of(s, Places[k]), w)] \in Seq(Nat)
         /\ Worth(s, w) = Sum([k \in 1..N |-> Worth(Of(s, Places[k]), w)])
<1>1. N \in Nat /\ N = Len(Places) /\ \A k \in 1..N : Places[k] \in Parts
  BY ThePlaces
<1>2. s \in Seq(Reported)
  <2>1. Bare \subseteq Reported
    BY DEF Reported
  <2> QED BY <2>1, SeqMonotonic
<1> DEFINE parts == [k \in 1..N |-> Capped(s, Places[k])]
           P == [k \in 1..N |-> {i \in DOMAIN s : s[i].slide = Places[k]}]
<1>3. parts \in Seq(Seq(Reported)) /\ Len(parts) = N
  <2>1. \A k \in 1..N : Capped(s, Places[k]) \in Seq(Reported)
    BY <1>1, CappedIs
  <2>2. parts \in [1..N -> Seq(Reported)]
    BY <2>1
  <2> HIDE DEF parts
  <2> QED BY <1>1, <2>2, FunctionIsSeq
<1>4. CapPerSlide(s) = FlattenSeq(parts)
  BY <1>1 DEF CapPerSlide
<1>5. /\ CapPerSlide(s) \in Seq(Reported)
      /\ [k \in 1..N |-> Worth(parts[k], w)] \in Seq(Nat)
      /\ Worth(CapPerSlide(s), w) = Sum([k \in 1..N |-> Worth(parts[k], w)])
  <2> HIDE DEF parts
  <2> QED BY ZenonT(30), <1>3, <1>4, WorthFlat
<1>6. [k \in 1..N |-> Worth(parts[k], w)] = [k \in 1..N |-> Worth(Capped(s, Places[k]), w)]
  <2>1. \A k \in 1..N : parts[k] = Capped(s, Places[k])
    OBVIOUS
  <2> HIDE DEF parts
  <2> QED BY <2>1
<1>7. Ordered(s) \in Seq(Reported) /\ Worth(Ordered(s), w) = Worth(CapPerSlide(s), w)
  <2>1. \A f \in Reported : f.severity \in SeverityNames
    BY ReportedAre
  <2> QED BY <1>5, <2>1, SortedIs DEF Ordered
<1>8. Partition(P, Len(s), N)
  <2> SUFFICES ASSUME NEW i \in 1..Len(s)
               PROVE \E k \in 1..N : i \in P[k] /\ \A m \in 1..N : i \in P[m] => m = k
    BY DEF Partition
  <2>1. i \in DOMAIN s /\ s[i].slide \in Parts
    BY ReportedAre
  <2>2. PICK k \in 1..N : s[i].slide = Places[k]
    BY <2>1, ThePlaces
  <2>3. \A m \in 1..N : Places[m] = Places[k] => m = k
    BY ThePlaces
  <2> QED BY <2>1, <2>2, <2>3
<1>9. /\ [k \in 1..N |-> Worth(Chosen(s, P[k]), w)] \in Seq(Nat)
      /\ Sum([k \in 1..N |-> Worth(Chosen(s, P[k]), w)]) = Worth(s, w)
  <2> HIDE DEF P
  <2> QED BY <1>1, <1>2, <1>8, PartitionWorth
<1>10. [k \in 1..N |-> Worth(Chosen(s, P[k]), w)] = [k \in 1..N |-> Worth(Of(s, Places[k]), w)]
  <2>1. \A k \in 1..N : Of(s, Places[k]) = Chosen(s, P[k])
    BY DEF Of
  <2> HIDE DEF P
  <2> QED BY <2>1
<1> HIDE DEF parts, P
<1> QED BY <1>5, <1>6, <1>7, <1>9, <1>10

\* When every member is worth one.
LEMMA WorthOfOnes ==
  ASSUME NEW S, NEW s \in Seq(S), NEW w \in [S -> Nat], \A i \in 1..Len(s) : w[s[i]] = 1
  PROVE  Worth(s, w) = Len(s)
<1>1. /\ Worths(s, w) \in Seq(Nat) /\ Len(Worths(s, w)) = Len(s)
      /\ \A i \in 1..Len(s) : Worths(s, w)[i] = w[s[i]]
  BY WorthsAre
<1>2. \A i \in 1..Len(Worths(s, w)) : Worths(s, w)[i] = 1
  BY <1>1
<1>3. Sum(Worths(s, w)) = Len(Worths(s, w))
  BY <1>1, <1>2, SumOfOnes
<1> QED BY <1>1, <1>3 DEF Worth

(***************************************************************************)
(* Nothing vanishes.                                                       *)
(***************************************************************************)
StandsFor == [f \in Reported |-> IF f.by = "aggregator" THEN f.hides ELSE 1]

\* A place of the report stands for all of its findings.
LEMMA StandsForAll ==
  ASSUME NEW s \in Seq(Bare), NEW place \in Parts
  PROVE  Worth(Capped(s, place), StandsFor) = Worth(Of(s, place), StandsFor)
<1>1. StandsFor \in [Reported -> Nat]
  BY ReportedAre DEF StandsFor, Reported
<1>2. PICK g : g = WorstFirst(Of(s, place))
  OBVIOUS
<1>3. /\ g \in Seq(BareAt(place)) /\ g \in Seq(Reported)
      /\ Worth(g, StandsFor) = Worth(Of(s, place), StandsFor)
  BY <1>1, <1>2, GroupIs
<1>4. \A f \in BareAt(place) : StandsFor[f] = 1
  BY ReportedAre DEF StandsFor, BareAt
<1>5. CASE Len(g) <= MaxPerSlide
  BY <1>2, <1>3, <1>5, CappedIs
<1>6. CASE ~ Len(g) <= MaxPerSlide
  <2>1. PICK line, t : line = Line(place, Len(g) - MaxPerSlide) /\ t = SubSeq(g, 1, MaxPerSlide)
    OBVIOUS
  <2>2. Capped(s, place) = Append(t, line) /\ line \in Lines /\ MaxPerSlide \in 1..Len(g) - 1
    BY <1>2, <1>6, <2>1, CappedIs
  <2>3. MaxPerSlide \in 0..Len(g) /\ MaxPerSlide \in Nat /\ Len(g) \in Nat
    BY <1>3, <2>2
  <2>4. t \in Seq(Reported) /\ Len(t) = MaxPerSlide /\ \A i \in 1..MaxPerSlide : t[i] = g[i]
    BY <1>1, <1>3, <2>1, <2>3, FirstWorth
  <2>5. \A i \in 1..Len(t) : StandsFor[t[i]] = 1
    BY <1>3, <1>4, <2>3, <2>4
  <2>6. Worth(t, StandsFor) = MaxPerSlide
    BY <1>1, <2>4, <2>5, WorthOfOnes
  <2>7. StandsFor[line] = Len(g) - MaxPerSlide /\ line \in Reported
    BY <2>1, <2>2 DEF StandsFor, Line, Reported
  <2>8. Worth(Capped(s, place), StandsFor) = MaxPerSlide + (Len(g) - MaxPerSlide)
    BY <1>1, <2>2, <2>4, <2>6, <2>7, AppendWorth
  <2>9. \A i \in 1..Len(g) : StandsFor[g[i]] = 1
    BY <1>3, <1>4
  <2>10. Worth(g, StandsFor) = Len(g)
    BY <1>1, <1>3, <2>9, WorthOfOnes
  <2> QED BY <1>3, <2>3, <2>8, <2>10
<1> QED BY <1>5, <1>6

\* The findings shown and the ones counted make up what the report stands for.
LEMMA ShownAndHidden ==
  ASSUME NEW list \in Seq(Reported)
  PROVE  /\ Len(Shown(list)) \in Nat
         /\ Sum([i \in DOMAIN Hidden(list) |-> Hidden(list)[i].hides]) \in Nat
         /\ Worth(list, StandsFor)
              = Len(Shown(list)) + Sum([i \in DOMAIN Hidden(list) |-> Hidden(list)[i].hides])
<1>1. PICK N \in Nat : N = Len(list) /\ DOMAIN list = 1..N /\ \A i \in 1..N : list[i] \in Reported
  OBVIOUS
<1> DEFINE A == {i \in DOMAIN list : list[i].by = "aggregator"}
           B == {i \in DOMAIN list : list[i].by # "aggregator"}
           shown == [i \in 1..N |-> IF i \in B THEN StandsFor[list[i]] ELSE 0]
           hidden == [i \in 1..N |-> IF i \in A THEN StandsFor[list[i]] ELSE 0]
           both == [i \in 1..N |-> shown[i] + hidden[i]]
<1>2. StandsFor \in [Reported -> Nat]
  BY ReportedAre DEF StandsFor, Reported
<1>3. /\ shown \in Seq(Nat) /\ Shown(list) \in Seq(Reported)
      /\ Worth(Shown(list), StandsFor) = Sum(shown)
  <2> HIDE DEF B
  <2>1. /\ Chosen(list, B) \in Seq(Reported)
        /\ [i \in 1..Len(list) |-> IF i \in B THEN StandsFor[list[i]] ELSE 0] \in Seq(Nat)
        /\ Worth(Chosen(list, B), StandsFor)
             = Sum([i \in 1..Len(list) |-> IF i \in B THEN StandsFor[list[i]] ELSE 0])
    <3>1. list \in Seq(Reported)
      OBVIOUS
    <3> QED BY ONLY SMTT(30), <1>2, <3>1, ChosenWorth
  <2>2. Shown(list) = Chosen(list, B)
    BY DEF Shown, B
  <2>3. shown = [i \in 1..Len(list) |-> IF i \in B THEN StandsFor[list[i]] ELSE 0]
    BY <1>1
  <2> HIDE DEF shown
  <2> QED BY <2>1, <2>2, <2>3
<1>4. /\ hidden \in Seq(Nat) /\ Hidden(list) \in Seq(Reported)
      /\ Worth(Hidden(list), StandsFor) = Sum(hidden)
  <2> HIDE DEF A
  <2>1. /\ Chosen(list, A) \in Seq(Reported)
        /\ [i \in 1..Len(list) |-> IF i \in A THEN StandsFor[list[i]] ELSE 0] \in Seq(Nat)
        /\ Worth(Chosen(list, A), StandsFor)
             = Sum([i \in 1..Len(list) |-> IF i \in A THEN StandsFor[list[i]] ELSE 0])
    <3>1. list \in Seq(Reported)
      OBVIOUS
    <3> QED BY ONLY SMTT(30), <1>2, <3>1, ChosenWorth
  <2>2. Hidden(list) = Chosen(list, A)
    BY DEF Hidden, A
  <2>3. hidden = [i \in 1..Len(list) |-> IF i \in A THEN StandsFor[list[i]] ELSE 0]
    BY <1>1
  <2> HIDE DEF hidden
  <2> QED BY <2>1, <2>2, <2>3
<1>5. Len(shown) = N /\ Len(hidden) = N
  OBVIOUS
<1>6. Sum(both) = Sum(shown) + Sum(hidden)
  <2> HIDE DEF shown, hidden
  <2> QED BY ZenonT(60), <1>3, <1>4, <1>5, SumAdd
<1>7. both = Worths(list, StandsFor)
  <2>1. \A i \in 1..N : StandsFor[list[i]] \in Nat /\ (i \in A <=> ~ i \in B)
    BY <1>1, <1>2
  <2>2. \A i \in 1..N : both[i] = StandsFor[list[i]]
    BY <2>1
  <2>3. both = [i \in 1..N |-> both[i]]
    OBVIOUS
  <2> HIDE DEF both
  <2> QED BY <1>1, <2>2, <2>3 DEF Worths
<1>8. Worth(Shown(list), StandsFor) = Len(Shown(list))
  <2>1. \A i \in 1..Len(list) : i \in B => list[i] \in {f \in Reported : f.by # "aggregator"}
    BY <1>1
  <2>2. Shown(list) \in Seq({f \in Reported : f.by # "aggregator"})
    <3> HIDE DEF B
    <3>1. Chosen(list, B) \in Seq({f \in Reported : f.by # "aggregator"})
      BY <2>1, ChosenType
    <3> QED BY <3>1 DEF Shown, B
  <2>3. \A f \in {f \in Reported : f.by # "aggregator"} : StandsFor[f] = 1
    BY DEF StandsFor
  <2>4. \A i \in 1..Len(Shown(list)) : StandsFor[Shown(list)[i]] = 1
    BY <2>2, <2>3, ElementOfSeq
  <2> QED BY <1>2, <1>3, <2>4, WorthOfOnes
<1>9. Worths(Hidden(list), StandsFor) = [i \in DOMAIN Hidden(list) |-> Hidden(list)[i].hides]
  <2>1. \A i \in 1..Len(list) : i \in A => list[i] \in {f \in Reported : f.by = "aggregator"}
    BY <1>1
  <2>2. Hidden(list) \in Seq({f \in Reported : f.by = "aggregator"})
    <3> HIDE DEF A
    <3>1. Chosen(list, A) \in Seq({f \in Reported : f.by = "aggregator"})
      BY <2>1, ChosenType
    <3> QED BY <3>1 DEF Hidden, A
  <2>3. \A f \in {f \in Reported : f.by = "aggregator"} : StandsFor[f] = f.hides
    BY DEF StandsFor
  <2>4. \A i \in DOMAIN Hidden(list) : StandsFor[Hidden(list)[i]] = Hidden(list)[i].hides
    BY <2>2, <2>3, ElementOfSeq, LenProperties
  <2> QED BY <2>4 DEF Worths
<1>10. Len(Shown(list)) \in Nat /\ Worth(Hidden(list), StandsFor) \in Nat
  BY <1>2, <1>3, <1>4, WorthsAre
<1> HIDE DEF shown, hidden, both
<1> QED BY <1>3, <1>4, <1>6, <1>7, <1>8, <1>9, <1>10 DEF Worth

\* The report shows or counts all that was kept.
LEMMA NothingLost ==
  ASSUME NEW s \in Seq(Bare), NEW list, list = Ordered(s)
  PROVE  /\ Len(Shown(list)) \in Nat
         /\ Sum([i \in DOMAIN Hidden(list) |-> Hidden(list)[i].hides]) \in Nat
         /\ Len(s) = Len(Shown(list)) + Sum([i \in DOMAIN Hidden(list) |-> Hidden(list)[i].hides])
<1>1. PICK N : N = NPlaces
  OBVIOUS
<1>2. StandsFor \in [Reported -> Nat]
  BY ReportedAre DEF StandsFor, Reported
<1>3. /\ list \in Seq(Reported)
      /\ Worth(list, StandsFor) = Sum([k \in 1..N |-> Worth(Capped(s, Places[k]), StandsFor)])
      /\ Worth(s, StandsFor) = Sum([k \in 1..N |-> Worth(Of(s, Places[k]), StandsFor)])
  BY <1>1, <1>2, PlacesWorth
<1>4. [k \in 1..N |-> Worth(Capped(s, Places[k]), StandsFor)]
        = [k \in 1..N |-> Worth(Of(s, Places[k]), StandsFor)]
  <2>1. \A k \in 1..N : Places[k] \in Parts
    BY <1>1, ThePlaces
  <2> QED BY <2>1, StandsForAll
<1>5. Worth(s, StandsFor) = Len(s)
  <2>1. Bare \subseteq Reported /\ \A f \in Bare : StandsFor[f] = 1
    BY ReportedAre DEF StandsFor, Reported
  <2>2. s \in Seq(Reported) /\ \A i \in 1..Len(s) : StandsFor[s[i]] = 1
    BY <2>1, SeqMonotonic
  <2> QED BY <1>2, <2>2, WorthOfOnes
<1> QED BY <1>3, <1>4, <1>5, ShownAndHidden

(***************************************************************************)
(* The cap never lowers the score.                                         *)
(***************************************************************************)
Weighs == [f \in Reported |-> Weight[f.severity]]

\* Everything in a report weighs something, a line the least.
LEMMA WeightsAre ==
  /\ Weighs \in [Reported -> Nat] /\ \A f \in Reported : Weighs[f] >= 1
  /\ \A f \in Lines : Weighs[f] = 1
  /\ \A s \in Seq(Reported) : TotalWeight(s) = Worth(s, Weighs)
<1>1. \A v \in SeverityNames : Weight[v] \in Nat /\ Weight[v] >= 1
  BY DEF SeverityNames, Weight
<1>2. \A f \in Reported : Weighs[f] = Weight[f.severity] /\ Weighs[f] \in Nat /\ Weighs[f] >= 1
  BY <1>1, ReportedAre DEF Weighs
<1>3. Weighs \in [Reported -> Nat]
  BY <1>2 DEF Weighs
<1>4. \A f \in Lines : Weighs[f] = 1
  <2>1. \A f \in Lines : f \in Reported /\ f.severity = "minor"
    BY ReportedAre DEF Reported
  <2>2. Weight["minor"] = 1
    BY DEF Weight
  <2> QED BY <1>2, <2>1, <2>2
<1>5. ASSUME NEW s \in Seq(Reported) PROVE TotalWeight(s) = Worth(s, Weighs)
  <2>1. \A i \in DOMAIN s : Weighs[s[i]] = Weight[s[i].severity]
    BY <1>2
  <2> QED BY <2>1 DEF TotalWeight, Worth, Worths
<1> QED BY <1>2, <1>3, <1>4, <1>5

\* A line weighs no more than one of the findings it stands for.
LEMMA CapWeighsLess ==
  ASSUME NEW s \in Seq(Bare), NEW place \in Parts
  PROVE  Worth(Capped(s, place), Weighs) <= Worth(Of(s, place), Weighs)
<1>1. Weighs \in [Reported -> Nat]
  BY WeightsAre
<1>2. PICK g : g = WorstFirst(Of(s, place))
  OBVIOUS
<1>3. g \in Seq(Reported) /\ Worth(g, Weighs) = Worth(Of(s, place), Weighs) /\ Worth(g, Weighs) \in Nat
  BY <1>1, <1>2, GroupIs, WorthsAre
<1>4. CASE Len(g) <= MaxPerSlide
  BY <1>2, <1>3, <1>4, CappedIs
<1>5. CASE ~ Len(g) <= MaxPerSlide
  <2>1. PICK line, t : line = Line(place, Len(g) - MaxPerSlide) /\ t = SubSeq(g, 1, MaxPerSlide)
    OBVIOUS
  <2>2. Capped(s, place) = Append(t, line) /\ line \in Lines /\ MaxPerSlide \in 1..Len(g) - 1
    BY <1>2, <1>5, <2>1, CappedIs
  <2>3. PICK M, N : M = MaxPerSlide /\ N = Len(g)
    OBVIOUS
  <2>11. N \in Nat /\ M \in Nat /\ M \in 0..N /\ M + 1 \in 1..N /\ M + 1 <= N
    BY <1>3, <2>2, <2>3
  <2>4. PICK total : /\ t \in Seq(Reported)
                     /\ Totals(Worths(g, Weighs), total) /\ Worth(g, Weighs) = total[N]
                     /\ Worth(t, Weighs) = total[M]
    <3>1. M \in 0..Len(g)
      BY <2>3, <2>11
    <3>2. /\ SubSeq(g, 1, M) \in Seq(Reported)
          /\ \E total : /\ Totals(Worths(g, Weighs), total) /\ Worth(g, Weighs) = total[Len(g)]
                        /\ Worth(SubSeq(g, 1, M), Weighs) = total[M]
      BY ONLY <1>1, <1>3, <3>1, FirstWorth
    <3> QED BY <2>1, <2>3, <3>2
  <2>5. /\ Worths(g, Weighs) \in Seq(Nat) /\ Len(Worths(g, Weighs)) = N
        /\ \A i \in 1..N : Worths(g, Weighs)[i] = Weighs[g[i]]
    BY <1>1, <1>3, <2>3, <2>11, WorthsAre
  <2>6. Worths(g, Weighs)[M + 1] >= 1 /\ Worths(g, Weighs)[M + 1] \in Nat
    <3>1. g[M + 1] \in Reported
      BY <1>3, <2>3, <2>11
    <3>2. Weighs[g[M + 1]] \in Nat /\ Weighs[g[M + 1]] >= 1
      BY <3>1, WeightsAre
    <3> QED BY <2>3, <2>11, <2>5, <3>2
  <2>7. total[M + 1] <= total[N]
    <3>1. M + 1 \in 0..N /\ N \in M + 1..N
      BY <2>3, <2>11
    <3> QED BY <2>4, <2>5, <3>1, TotalsGrow
  <2>8. total[M + 1] = total[M] + Worths(g, Weighs)[M + 1] /\ total[M] \in Nat /\ total[N] \in Nat
    <3>1. /\ total \in [0..N -> Nat]
          /\ \A n \in 1..N : total[n] = total[n - 1] + Worths(g, Weighs)[n]
      BY <2>4, <2>5 DEF Totals
    <3>2. (M + 1) - 1 = M /\ N \in 0..N
      BY <2>3, <2>11
    <3> QED BY <2>3, <2>11, <3>1, <3>2
  <2>9. Worth(Capped(s, place), Weighs) = total[M] + 1
    <3>1. line \in Reported /\ Weighs[line] = 1
      BY <2>2, WeightsAre DEF Reported
    <3> QED BY <1>1, <2>2, <2>4, <3>1, AppendWorth
  <2>10. total[M] + 1 <= total[N]
    BY <2>6, <2>7, <2>8
  <2> QED BY <1>3, <2>4, <2>9, <2>10
<1> QED BY <1>4, <1>5

\* So the report weighs no more than what was kept ...
LEMMA ReportWeighsLess ==
  ASSUME NEW s \in Seq(Bare)
  PROVE  /\ TotalWeight(Ordered(s)) \in Nat /\ TotalWeight(s) \in Nat
         /\ TotalWeight(Ordered(s)) <= TotalWeight(s)
<1>1. PICK N : N = NPlaces
  OBVIOUS
<1>2. Weighs \in [Reported -> Nat]
  BY WeightsAre
<1> DEFINE capped == [k \in 1..N |-> Worth(Capped(s, Places[k]), Weighs)]
           all == [k \in 1..N |-> Worth(Of(s, Places[k]), Weighs)]
<1>3. /\ Ordered(s) \in Seq(Reported) /\ capped \in Seq(Nat) /\ all \in Seq(Nat)
      /\ Worth(Ordered(s), Weighs) = Sum(capped) /\ Worth(s, Weighs) = Sum(all)
  BY <1>1, <1>2, PlacesWorth
<1>4. Len(capped) = Len(all) /\ \A k \in 1..Len(capped) : capped[k] <= all[k]
  <2>1. N \in Nat /\ \A k \in 1..N : Places[k] \in Parts
    BY <1>1, ThePlaces
  <2>2. \A k \in 1..N : capped[k] <= all[k]
    BY <2>1, CapWeighsLess
  <2>3. Len(capped) = N /\ Len(all) = N
    BY <2>1
  <2> HIDE DEF capped, all
  <2> QED BY <2>2, <2>3
<1>5. Sum(capped) <= Sum(all)
  <2> HIDE DEF capped, all
  <2> QED BY <1>3, <1>4, SumLess
<1>6. s \in Seq(Reported)
  <2>1. Bare \subseteq Reported
    BY DEF Reported
  <2> QED BY <2>1, SeqMonotonic
<1>7. TotalWeight(Ordered(s)) = Worth(Ordered(s), Weighs) /\ TotalWeight(s) = Worth(s, Weighs)
  BY <1>3, <1>6, WeightsAre
<1>8. Sum(capped) \in Nat /\ Sum(all) \in Nat
  <2> HIDE DEF capped, all
  <2> QED BY <1>3, SumNat
<1> HIDE DEF capped, all
<1> QED BY <1>3, <1>5, <1>7, <1>8

\* Quotients and remainders.
LEMMA Division ==
  ASSUME NEW n \in Int, NEW d \in Nat \ {0}
  PROVE  n \div d \in Int /\ n % d \in 0..d - 1 /\ n = d * (n \div d) + (n % d)
OBVIOUS

\* The multiples of a number are that far apart.
LEMMA Multiples ==
  ASSUME NEW d \in Nat \ {0}, NEW a \in Int, NEW b \in Int, a + 1 <= b
  PROVE  d * a + d <= d * b
<1>1. PICK c \in Nat : b = a + 1 + c
  <2>1. b - (a + 1) \in Nat /\ b = a + 1 + (b - (a + 1))
    OBVIOUS
  <2> QED BY <2>1
<1>2. d * b = d * a + d + d * c
  BY <1>1
<1>3. d * c >= 0 /\ d * c \in Int /\ d * a \in Int
  BY <1>1
<1> QED BY <1>2, <1>3

\* Rounding half to even keeps the order of fractions.
LEMMA RoundingGrows ==
  ASSUME NEW m \in Int, NEW n \in Int, m <= n, NEW d \in Nat \ {0}
  PROVE  RoundedQuotient(m, d) <= RoundedQuotient(n, d)
<1>1. PICK p \in Int, r \in 0..d - 1 : p = m \div d /\ r = m % d /\ m = d * p + r
  BY Division
<1>2. PICK q \in Int, t \in 0..d - 1 : q = n \div d /\ t = n % d /\ n = d * q + t
  BY Division
<1>3. p <= q
  <2>1. CASE q + 1 <= p
    <3>1. d * q + d <= d * p
      BY <2>1, Multiples
    <3>2. d * p \in Int /\ d * q \in Int
      OBVIOUS
    <3> QED BY <1>1, <1>2, <3>1, <3>2
  <2> QED BY <2>1
<1> DEFINE R(v, w) == IF 2 * w < d \/ (2 * w = d /\ v % 2 = 0) THEN v ELSE v + 1
<1>4. RoundedQuotient(m, d) = R(p, r) /\ RoundedQuotient(n, d) = R(q, t)
  BY <1>1, <1>2 DEF RoundedQuotient
<1>5. CASE p = q
  <2>1. r <= t
    <3>1. d * p \in Int /\ d * p + r <= d * p + t
      BY <1>1, <1>2, <1>5
    <3> QED BY <3>1
  <2> QED BY <1>4, <1>5, <2>1
<1>6. CASE p + 1 <= q
  <2>1. R(p, r) \in Int /\ R(q, t) \in Int /\ R(p, r) <= p + 1 /\ q <= R(q, t)
    OBVIOUS
  <2> HIDE DEF R
  <2> QED BY <1>4, <1>6, <2>1
<1> QED BY <1>3, <1>5, <1>6

\* ... and its score is no lower.
LEMMA ScoreOfReport ==
  ASSUME NEW s \in Seq(Bare) PROVE Score(Ordered(s)) >= Score(s)
<1>1. PICK a \in Nat, b \in Nat : a = TotalWeight(Ordered(s)) /\ b = TotalWeight(s) /\ a <= b
  BY ReportWeighsLess
<1>2. PICK slides \in Nat \ {0} : slides = IF NSlides = 0 THEN 1 ELSE NSlides
  BY BoundsAssumption
<1>3. 100 * slides - b \in Int /\ 100 * slides - a \in Int /\ 100 * slides - b <= 100 * slides - a
  BY <1>1
<1>4. PICK x, y : x = RoundedQuotient(100 * slides - b, slides) /\ y = RoundedQuotient(100 * slides - a, slides)
  OBVIOUS
<1>5. x <= y
  BY <1>3, <1>4, RoundingGrows
<1>6. x \in Int /\ y \in Int
  <2>1. \A n \in Int : RoundedQuotient(n, slides) \in Int
    BY Division DEF RoundedQuotient
  <2> QED BY <1>3, <1>4, <2>1
<1>7. Score(s) = Clamp(ScoreFloor, x, 100) /\ Score(Ordered(s)) = Clamp(ScoreFloor, y, 100)
  BY <1>1, <1>2, <1>4 DEF Score
<1> QED BY <1>5, <1>6, <1>7, BoundsAssumption DEF Clamp

(***************************************************************************)
(* The worst findings are shown.                                           *)
(***************************************************************************)
SeveritySets == {{"critical"}, {"critical", "major"}}
CountsAs(place, severities) ==
  [f \in Reported |-> IF f.by # "aggregator" /\ f.slide = place /\ f.severity \in severities
                      THEN 1 ELSE 0]

\* The table that counts the findings of a slide as a weight of one each.
LEMMA CountsAre ==
  ASSUME NEW place, NEW severities
  PROVE  /\ CountsAs(place, severities) \in [Reported -> Nat]
         /\ \A f \in Reported : CountsAs(place, severities)[f]
              = IF f.by # "aggregator" /\ f.slide = place /\ f.severity \in severities THEN 1 ELSE 0
BY DEF CountsAs

\* Counting the findings that are shown.
LEMMA AtLeastCounts ==
  ASSUME NEW s \in Seq(Bare), NEW place, NEW severities, NEW w, w = CountsAs(place, severities)
  PROVE  AtLeast(s, place, severities) = Worth(s, w)
<1>1. w \in [Reported -> Nat] /\ \A f \in Bare : w[f] = IF f.slide = place /\ f.severity \in severities THEN 1 ELSE 0
  BY CountsAre, ReportedAre
<1>2. PICK N \in Nat : N = Len(s) /\ DOMAIN s = 1..N /\ \A i \in 1..N : s[i] \in Bare
  OBVIOUS
<1>3. s \in Seq(Reported)
  <2>1. Bare \subseteq Reported
    BY DEF Reported
  <2> QED BY <2>1, SeqMonotonic
<1> DEFINE P == {i \in DOMAIN s : s[i].slide = place /\ s[i].severity \in severities}
           Q == {f \in Reported : w[f] = 1}
<1>4. Chosen(s, P) \in Seq(Q) /\ Chosen(s, P) \in Seq(Reported)
  <2>1. \A i \in 1..Len(s) : i \in P => s[i] \in Q
    BY <1>1, <1>2, ReportedAre
  <2>2. \A i \in 1..Len(s) : i \in P => s[i] \in Reported
    BY <1>3
  <2> HIDE DEF P, Q
  <2> QED BY <2>1, <2>2, ChosenType
<1>5. Worth(Chosen(s, P), w) = Len(Chosen(s, P))
  <2>1. \A i \in 1..Len(Chosen(s, P)) : w[Chosen(s, P)[i]] = 1
    <3>1. \A f \in Q : w[f] = 1
      OBVIOUS
    <3> HIDE DEF P, Q
    <3> QED BY <1>4, <3>1, ElementOfSeq
  <2> HIDE DEF P, Q
  <2> QED BY <1>1, <1>4, <2>1, WorthOfOnes
<1>6. Worth(Chosen(s, P), w) = Sum([i \in 1..N |-> IF i \in P THEN w[s[i]] ELSE 0])
  <2> HIDE DEF P
  <2> QED BY <1>1, <1>2, <1>3, ChosenWorth
<1>7. [i \in 1..N |-> IF i \in P THEN w[s[i]] ELSE 0] = Worths(s, w)
  <2>1. \A i \in 1..N : (IF i \in P THEN w[s[i]] ELSE 0) = w[s[i]]
    BY <1>1, <1>2
  <2> HIDE DEF P
  <2> QED BY <1>2, <2>1 DEF Worths
<1> HIDE DEF P
<1> QED BY <1>5, <1>6, <1>7 DEF AtLeast, P, Worth

\* What is shown counts as the whole report does.
LEMMA ShownCounts ==
  ASSUME NEW list \in Seq(Reported), NEW place, NEW severities, NEW w, w = CountsAs(place, severities)
  PROVE  Shown(list) \in Seq(Bare) /\ Worth(Shown(list), w) = Worth(list, w)
<1>1. /\ w \in [Reported -> Nat]
      /\ \A f \in Reported : f.by = "aggregator" => w[f] = 0
  BY CountsAre
<1>2. PICK N \in Nat : N = Len(list) /\ DOMAIN list = 1..N /\ \A i \in 1..N : list[i] \in Reported
  OBVIOUS
<1> DEFINE B == {i \in DOMAIN list : list[i].by # "aggregator"}
<1>3. Shown(list) \in Seq(Bare)
  <2>1. \A i \in 1..Len(list) : i \in B => list[i] \in Bare
    BY <1>2, ReportedAre DEF Reported
  <2>2. Chosen(list, B) \in Seq(Bare)
    <3> HIDE DEF B
    <3> QED BY <2>1, ChosenType
  <2> QED BY <2>2 DEF Shown
<1>4. Worth(Chosen(list, B), w) = Sum([i \in 1..N |-> IF i \in B THEN w[list[i]] ELSE 0])
  <2> HIDE DEF B
  <2> QED BY <1>1, <1>2, ChosenWorth
<1>5. [i \in 1..N |-> IF i \in B THEN w[list[i]] ELSE 0] = Worths(list, w)
  <2>1. \A i \in 1..N : (IF i \in B THEN w[list[i]] ELSE 0) = w[list[i]]
    BY <1>1, <1>2
  <2> HIDE DEF B
  <2> QED BY <1>2, <2>1 DEF Worths
<1> HIDE DEF B
<1> QED BY <1>3, <1>4, <1>5 DEF Shown, B, Worth

\* Of the worst findings of a place, the cap shows as many as it can.
LEMMA CapCountsMost ==
  ASSUME NEW s \in Seq(Bare), NEW place \in Parts, NEW severities \in SeveritySets,
         NEW w, w = CountsAs(place, severities), NEW n, n = Worth(Of(s, place), w)
  PROVE  Worth(Capped(s, place), w) = IF MaxPerSlide <= n THEN MaxPerSlide ELSE n
<1>1. w \in [Reported -> Nat] /\ MaxPerSlide \in Nat \ {0}
  BY CountsAre, BoundsAssumption
<1>2. PICK g : g = WorstFirst(Of(s, place))
  OBVIOUS
<1>3. /\ g \in Seq(BareAt(place)) /\ g \in Seq(Reported)
      /\ Worth(g, w) = n /\ \E a, b : SortedAt(g, a, b)
  BY <1>1, <1>2, GroupIs
<1>4. PICK c \in 0..Len(g) : \A i \in 1..Len(g) : w[g[i]] = IF i <= c THEN 1 ELSE 0
  <2>1. PICK a, b : SortedAt(g, a, b)
    BY <1>3
  <2>2. ASSUME NEW i \in 1..Len(g) PROVE w[g[i]] = IF g[i].severity \in severities THEN 1 ELSE 0
    <3>1. g[i] \in BareAt(place)
      BY <1>3
    <3>2. g[i] \in Reported /\ g[i].by # "aggregator" /\ g[i].slide = place
      BY <3>1, ReportedAre DEF BareAt
    <3> QED BY <3>2, CountsAre
  <2>3. CASE severities = {"critical"}
    <3>1. a \in 0..Len(g) /\ \A i \in 1..Len(g) : w[g[i]] = IF i <= a THEN 1 ELSE 0
      BY <1>3, <2>1, <2>2, <2>3 DEF SortedAt
    <3> QED BY <3>1
  <2>4. CASE severities = {"critical", "major"}
    <3>1. b \in 0..Len(g) /\ \A i \in 1..Len(g) : w[g[i]] = IF i <= b THEN 1 ELSE 0
      BY <1>3, <2>1, <2>2, <2>4 DEF SortedAt
    <3> QED BY <3>1
  <2> QED BY <2>3, <2>4 DEF SeveritySets
<1>5. n = c
  <2>1. /\ Worths(g, w) \in Seq(Nat) /\ Len(Worths(g, w)) = Len(g)
        /\ \A i \in 1..Len(g) : Worths(g, w)[i] = w[g[i]]
    BY <1>1, <1>3, WorthsAre
  <2>2. \A i \in 1..Len(Worths(g, w)) : Worths(g, w)[i] = IF i <= c THEN 1 ELSE 0
    BY <1>4, <2>1
  <2>3. c \in Nat
    BY <1>3
  <2>4. Sum(Worths(g, w)) = IF Len(Worths(g, w)) <= c THEN Len(Worths(g, w)) ELSE c
    BY <2>1, <2>2, <2>3, SumOfStep
  <2> QED BY <1>3, <2>1, <2>3, <2>4 DEF Worth
<1>6. CASE Len(g) <= MaxPerSlide
  <2>1. Capped(s, place) = g
    BY <1>2, <1>6, CappedIs
  <2>2. n <= MaxPerSlide /\ n \in Nat
    BY <1>1, <1>3, <1>5, <1>6
  <2> QED BY <1>1, <1>3, <2>1, <2>2
<1>7. CASE ~ Len(g) <= MaxPerSlide
  <2>1. PICK line, t : line = Line(place, Len(g) - MaxPerSlide) /\ t = SubSeq(g, 1, MaxPerSlide)
    OBVIOUS
  <2>2. Capped(s, place) = Append(t, line) /\ line \in Lines /\ MaxPerSlide \in 1..Len(g) - 1
    BY <1>2, <1>7, <2>1, CappedIs
  <2>3. MaxPerSlide \in 0..Len(g) /\ Len(g) \in Nat
    BY <1>3, <2>2
  <2>4. t \in Seq(Reported) /\ Len(t) = MaxPerSlide /\ \A i \in 1..MaxPerSlide : t[i] = g[i]
    BY <1>1, <1>3, <2>1, <2>3, FirstWorth
  <2>5. /\ Worths(t, w) \in Seq(Nat) /\ Len(Worths(t, w)) = Len(t)
        /\ \A i \in 1..Len(t) : Worths(t, w)[i] = w[t[i]]
    BY ZenonT(30), <1>1, <2>4, WorthsAre
  <2>6. \A i \in 1..Len(Worths(t, w)) : Worths(t, w)[i] = IF i <= c THEN 1 ELSE 0
    <3> SUFFICES ASSUME NEW i \in 1..Len(Worths(t, w)) PROVE Worths(t, w)[i] = IF i <= c THEN 1 ELSE 0
      OBVIOUS
    <3>1. i \in 1..MaxPerSlide /\ i \in 1..Len(g)
      BY <2>3, <2>4, <2>5
    <3>2. Worths(t, w)[i] = w[t[i]] /\ t[i] = g[i]
      BY <2>4, <2>5, <3>1
    <3> QED BY <1>4, <3>1, <3>2
  <2>7. Worth(t, w) = IF MaxPerSlide <= c THEN MaxPerSlide ELSE c
    <3>1. c \in Nat
      BY <1>3
    <3>2. Sum(Worths(t, w)) = IF Len(Worths(t, w)) <= c THEN Len(Worths(t, w)) ELSE c
      BY <2>5, <2>6, <3>1, SumOfStep
    <3> QED BY <2>4, <2>5, <3>2 DEF Worth
  <2>8. w[line] = 0 /\ line \in Reported
    BY <2>2, ReportedAre, CountsAre DEF Reported
  <2>9. Worth(Capped(s, place), w) = Worth(t, w) + 0
    BY <1>1, <2>2, <2>4, <2>8, AppendWorth
  <2>10. Worth(t, w) \in Nat
    BY <1>1, <2>4, WorthsAre
  <2> QED BY <1>5, <2>7, <2>9, <2>10
<1> QED BY <1>6, <1>7

\* A place counts for itself only.
LEMMA OthersCountNothing ==
  ASSUME NEW s \in Seq(Bare), NEW place \in Parts, NEW other \in Parts, other # place,
         NEW severities, NEW w, w = CountsAs(place, severities)
  PROVE  Worth(Capped(s, other), w) = 0 /\ Worth(Of(s, other), w) = 0
<1>1. w \in [Reported -> Nat] /\ MaxPerSlide \in Nat \ {0}
  BY CountsAre, BoundsAssumption
<1> DEFINE Z == {f \in Reported : w[f] = 0}
<1>2. ASSUME NEW t \in Seq(Z) PROVE Worth(t, w) = 0
  <2>1. t \in Seq(Reported)
    <3>1. Z \subseteq Reported
      OBVIOUS
    <3> HIDE DEF Z
    <3> QED BY <3>1, SeqMonotonic
  <2>2. /\ Worths(t, w) \in Seq(Nat) /\ Len(Worths(t, w)) = Len(t)
        /\ \A i \in 1..Len(t) : Worths(t, w)[i] = w[t[i]]
    BY <1>1, <2>1, WorthsAre
  <2>3. \A i \in 1..Len(t) : w[t[i]] = 0
    OBVIOUS
  <2>4. \A i \in 1..Len(Worths(t, w)) : Worths(t, w)[i] = 0
    BY <2>2, <2>3
  <2> QED BY <2>2, <2>4, SumOfZeros DEF Worth
<1>3. BareAt(other) \subseteq Z /\ Lines \subseteq Z
  BY CountsAre, ReportedAre DEF BareAt, Reported
<1>4. PICK g : g = WorstFirst(Of(s, other))
  OBVIOUS
<1>5. g \in Seq(Z) /\ Of(s, other) \in Seq(Z)
  <2> HIDE DEF Z
  <2>1. g \in Seq(BareAt(other)) /\ Of(s, other) \in Seq(BareAt(other))
    BY <1>4, GroupIs
  <2> QED BY <1>3, <2>1, SeqMonotonic
<1>6. Capped(s, other) \in Seq(Z)
  <2> HIDE DEF Z
  <2>1. CASE Len(g) <= MaxPerSlide
    BY <1>4, <1>5, <2>1, CappedIs
  <2>2. CASE ~ Len(g) <= MaxPerSlide
    <3>1. PICK line : line = Line(other, Len(g) - MaxPerSlide)
      OBVIOUS
    <3>2. Capped(s, other) = Append(SubSeq(g, 1, MaxPerSlide), line) /\ line \in Z /\ MaxPerSlide \in 1..Len(g) - 1
      BY <1>3, <1>4, <2>2, <3>1, CappedIs
    <3>3. SubSeq(g, 1, MaxPerSlide) \in Seq(Z)
      <4>1. \A i \in 1..MaxPerSlide : g[i] \in Z
        BY <1>5, <3>2
      <4> QED BY <1>1, <4>1, SubSeqProperties
    <3> QED BY <3>2, <3>3, AppendProperties
  <2> QED BY <2>1, <2>2
<1> HIDE DEF Z
<1> QED BY <1>2, <1>5, <1>6

\* The report shows as many of the worst findings as the cap allows.
LEMMA WorstAreShown ==
  ASSUME NEW s \in Seq(Bare), NEW place \in Parts, NEW severities \in SeveritySets
  PROVE  /\ AtLeast(s, place, severities) \in Nat
         /\ AtLeast(Shown(Ordered(s)), place, severities)
              = IF MaxPerSlide <= AtLeast(s, place, severities) THEN MaxPerSlide
                ELSE AtLeast(s, place, severities)
<1>1. PICK w : w = CountsAs(place, severities)
  OBVIOUS
<1>2. PICK N, K : N = NPlaces /\ K = place + 1
  OBVIOUS
<1>3. w \in [Reported -> Nat]
  BY <1>1, CountsAre
<1> DEFINE capped == [k \in 1..N |-> Worth(Capped(s, Places[k]), w)]
           all == [k \in 1..N |-> Worth(Of(s, Places[k]), w)]
<1>4. /\ Ordered(s) \in Seq(Reported) /\ capped \in Seq(Nat) /\ all \in Seq(Nat)
      /\ Worth(Ordered(s), w) = Sum(capped) /\ Worth(s, w) = Sum(all)
  BY <1>2, <1>3, PlacesWorth
<1>5. /\ K \in 1..N /\ Places[K] = place /\ N \in Nat
      /\ \A k \in 1..N : Places[k] \in Parts /\ (k # K => Places[k] # place)
  BY <1>2, ThePlaces DEF Parts
<1>6. Len(capped) = N /\ Len(all) = N
  BY <1>5
<1>7. \A k \in 1..N : k # K => capped[k] = 0 /\ all[k] = 0
  BY <1>1, <1>5, OthersCountNothing
<1>8. capped[K] = Worth(Capped(s, place), w) /\ all[K] = Worth(Of(s, place), w)
  BY <1>5
<1> HIDE DEF capped, all
<1>9. Sum(capped) = capped[K] /\ Sum(all) = all[K]
  BY <1>4, <1>5, <1>6, <1>7, SumSingle
<1>10. capped[K] = IF MaxPerSlide <= all[K] THEN MaxPerSlide ELSE all[K]
  BY <1>1, <1>8, CapCountsMost
<1>11. AtLeast(s, place, severities) = all[K]
  BY <1>1, <1>4, <1>9, AtLeastCounts
<1>12. AtLeast(Shown(Ordered(s)), place, severities) = capped[K]
  BY <1>1, <1>4, <1>9, ShownCounts, AtLeastCounts
<1>13. all[K] \in Nat
  BY <1>4, <1>5, <1>6
<1> QED BY <1>10, <1>11, <1>12, <1>13

(***************************************************************************)
(* What the analyzers found is typed, stays with them until their turn ends, *)
(* and the zooms of a slide overlap nothing that was known when they began. *)
(* This, with PipelineInv, is inductive.                                   *)
(***************************************************************************)
\* The severities.
LEMMA SeverityToSet == ToSet(Severities) = SeverityNames
<1>1. /\ DOMAIN Severities = 1..3 /\ Severities[1] = "critical" /\ Severities[2] = "major"
      /\ Severities[3] = "minor"
  BY DEF Severities
<1> QED BY <1>1 DEF ToSet, SeverityNames

FindingsOf(a, p) == {f \in Bare : f.by = a /\ (a = "zoom_agent" => f.slide = p)}

\* Findings that overlap neither each other nor what is known of the slide.
NewOn(found, p) ==
  /\ \A k \in DOMAIN found, i \in DOMAIN findings :
       findings[i].slide = p => ~ Overlaps(found[k], findings[i])
  /\ \A k, l \in DOMAIN found : k < l => ~ Overlaps(found[l], found[k])

FoundGood == \A a \in Names, p \in Parts : task[a][p].found \in Seq(FindingsOf(a, p))
ZoomsGood == turn <= 2 => \A p \in Parts : NewOn(task["zoom_agent"][p].found, p)
FindingsGood ==
  /\ findings \in Seq(Bare)
  /\ \A i \in DOMAIN findings : \E k \in 1..5 : k < turn /\ Analyzers[k] = findings[i].by
JudgedGood ==
  /\ kept \in Seq(Bare) /\ judged \in Nat /\ Len(kept) + judged <= Len(findings)
  /\ phase = "reported" => Len(kept) + judged = Len(findings)
ContentInv == FoundGood /\ ZoomsGood /\ FindingsGood /\ JudgedGood /\ ZoomAddsNew

\* What an answer about a slide becomes.
LEMMA StampIs ==
  ASSUME NEW a \in Names, NEW p \in Parts,
         NEW answer \in Seq([box : Boxes, severity : ToSet(Severities)])
  PROVE  Stamp(a, p, answer) \in Seq(FindingsOf(a, p))
<1>1. PICK N \in Nat : N = Len(answer) /\ DOMAIN answer = 1..N
  OBVIOUS
<1>2. ASSUME NEW i \in 1..N PROVE Finding(a, p, answer[i].box, answer[i].severity) \in FindingsOf(a, p)
  <2>1. answer[i].box \in Boxes /\ answer[i].severity \in SeverityNames
    <3>1. answer[i] \in [box : Boxes, severity : ToSet(Severities)]
      BY <1>1, ElementOfSeq
    <3> QED BY <3>1, SeverityToSet
  <2> QED BY <2>1 DEF Finding, FindingsOf, Bare
<1>3. Stamp(a, p, answer) \in [1..N -> FindingsOf(a, p)]
  BY <1>1, <1>2 DEF Stamp
<1> QED BY <1>3, FunctionIsSeq

\* What remarks about the deck become.
LEMMA StampRemarksIs ==
  ASSUME NEW a \in Names, a # "zoom_agent", NEW p,
         NEW answer \in Seq([slide : Parts, severity : ToSet(Severities)])
  PROVE  StampRemarks(a, answer) \in Seq(FindingsOf(a, p))
<1>1. PICK N \in Nat : N = Len(answer) /\ DOMAIN answer = 1..N
  OBVIOUS
<1>2. ASSUME NEW i \in 1..N PROVE Finding(a, answer[i].slide, "none", answer[i].severity) \in FindingsOf(a, p)
  <2>1. answer[i].slide \in Parts /\ answer[i].severity \in SeverityNames /\ "none" \in Boxes
    <3>1. answer[i] \in [slide : Parts, severity : ToSet(Severities)]
      BY <1>1, ElementOfSeq
    <3> QED BY <3>1, SeverityToSet DEF Boxes
  <2> QED BY <2>1 DEF Finding, FindingsOf, Bare
<1>3. StampRemarks(a, answer) \in [1..N -> FindingsOf(a, p)]
  BY <1>1, <1>2 DEF StampRemarks
<1> QED BY <1>3, FunctionIsSeq

\* What is accepted is new.
LEMMA AcceptIs ==
  ASSUME NEW p, NEW S, NEW accepted \in Seq(S), NEW answer \in Seq(S)
  PROVE  /\ Accept(p, accepted, answer) \in Seq(S)
         /\ NewOn(accepted, p) => NewOn(Accept(p, accepted, answer), p)
<1> DEFINE N == Len(answer)
           known == {findings[i] : i \in {j \in DOMAIN findings : findings[j].slide = p}}
           Old(v, n) == \E g \in known \cup ToSet(v) : Overlaps(answer[n], g)
           Longer(v, n) == IF Old(v, n) THEN v ELSE Append(v, answer[n])
           Good(f) == f = [n \in 0..N |-> IF n = 0 THEN accepted ELSE Longer(f[n - 1], n)]
           H == [q \in Seq(S) \X (1..N) |-> Longer(q[1], q[2])]
           new == CHOOSE f : Good(f)
<1>1. N \in Nat /\ \A n \in 1..N : answer[n] \in S
  OBVIOUS
<1>2. Accept(p, accepted, answer) = new[N]
  BY DEF Accept
<1>3. ASSUME NEW v \in Seq(S), NEW n \in 1..N PROVE H[<<v, n>>] = Longer(v, n) /\ Longer(v, n) \in Seq(S)
  <2>1. Longer(v, n) \in Seq(S)
    <3>1. Append(v, answer[n]) \in Seq(S)
      BY <1>1
    <3> HIDE DEF Old
    <3> QED BY <3>1
  <2>2. <<v, n>> \in Seq(S) \X (1..N) /\ <<v, n>>[1] = v /\ <<v, n>>[2] = n
    OBVIOUS
  <2> HIDE DEF Longer
  <2>3. H[<<v, n>>] = Longer(<<v, n>>[1], <<v, n>>[2])
    BY <2>2
  <2> HIDE DEF H
  <2> QED BY <2>1, <2>2, <2>3
<1> HIDE DEF H, N, Longer
<1>4. PICK g : Iterated(g, accepted, H, Seq(S), N)
  <2>1. Continues(H, Seq(S), N)
    BY <1>3 DEF Continues
  <2> QED BY <1>1, <2>1, Recursion
<1>5. /\ g \in [0..N -> Seq(S)] /\ g[0] = accepted
      /\ \A n \in 1..N : g[n] = Longer(g[n - 1], n)
  <2>1. g \in [0..N -> Seq(S)] /\ g[0] = accepted /\ \A n \in 1..N : g[n] = H[<<g[n - 1], n>>]
    BY <1>4 DEF Iterated
  <2>2. ASSUME NEW n \in 1..N PROVE g[n] = Longer(g[n - 1], n)
    <3>1. n - 1 \in 0..N
      BY <1>1
    <3>2. g[n - 1] \in Seq(S)
      BY <2>1, <3>1
    <3> QED BY <1>3, <2>1, <3>2
  <2> QED BY <2>1, <2>2
<1>6. Good(g)
  <2>1. g = [n \in 0..N |-> g[n]]
    BY <1>5
  <2>2. \A n \in 0..N : g[n] = IF n = 0 THEN accepted ELSE Longer(g[n - 1], n)
    BY <1>1, <1>5
  <2> QED BY <2>1, <2>2
<1>7. Good(new)
  <2> HIDE DEF Good
  <2> QED BY <1>6
<1> HIDE DEF new
<1>8. new[0] = accepted /\ \A n \in 1..N : new[n] = Longer(new[n - 1], n)
  <2> DEFINE f == [n \in 0..N |-> IF n = 0 THEN accepted ELSE Longer(new[n - 1], n)]
  <2>1. new = f
    BY <1>7
  <2>2. f[0] = accepted /\ \A n \in 1..N : f[n] = Longer(new[n - 1], n)
    BY <1>1
  <2> HIDE DEF f
  <2> QED BY <2>1, <2>2
<1> DEFINE P == {n \in 0..N : new[n] \in Seq(S) /\ (NewOn(accepted, p) => NewOn(new[n], p))}
<1>9. 0 \in P
  BY <1>1, <1>8
<1>10. ASSUME NEW n \in 0..N - 1, n \in P PROVE n + 1 \in P
  <2>1. n + 1 \in 1..N /\ (n + 1) - 1 = n /\ n + 1 \in 0..N
    BY <1>1
  <2>2. new[n + 1] = Longer(new[n], n + 1) /\ new[n] \in Seq(S)
    BY <1>8, <1>10, <2>1
  <2>3. new[n + 1] \in Seq(S)
    BY <1>3, <2>1, <2>2
  <2>4. CASE Old(new[n], n + 1)
    <3>1. new[n + 1] = new[n]
      BY <2>2, <2>4 DEF Longer
    <3> QED BY <1>10, <2>1, <3>1
  <2>5. CASE ~ Old(new[n], n + 1)
    <3>1. PICK v, x : v = new[n] /\ x = answer[n + 1]
      OBVIOUS
    <3>2. new[n + 1] = Append(v, x) /\ v \in Seq(S)
      BY <2>2, <2>5, <3>1 DEF Longer
    <3>3. /\ \A i \in DOMAIN findings : findings[i].slide = p => ~ Overlaps(x, findings[i])
          /\ \A k \in DOMAIN v : ~ Overlaps(x, v[k])
      BY <2>5, <3>1 DEF ToSet
    <3>4. ASSUME NewOn(v, p) PROVE NewOn(Append(v, x), p)
      <4>1. PICK L \in Nat : L = Len(v) /\ DOMAIN v = 1..L /\ DOMAIN Append(v, x) = 1..L + 1
        BY <3>2
      <4>2. /\ \A k \in 1..L : Append(v, x)[k] = v[k]
            /\ Append(v, x)[L + 1] = x
        BY <3>2, <4>1
      <4>3. \A k \in 1..L + 1 : k \in 1..L \/ k = L + 1
        BY <4>1
      <4>4. PICK u : u = Append(v, x)
        OBVIOUS
      <4>5. ASSUME NEW k \in 1..L + 1, NEW i \in DOMAIN findings, findings[i].slide = p
            PROVE  ~ Overlaps(u[k], findings[i])
        <5>1. CASE k \in 1..L
          BY <3>4, <4>1, <4>2, <4>4, <4>5, <5>1 DEF NewOn
        <5>2. CASE k = L + 1
          BY <3>3, <4>2, <4>4, <4>5, <5>2
        <5> QED BY <4>3, <5>1, <5>2
      <4>6. ASSUME NEW k \in 1..L + 1, NEW l \in 1..L + 1, k < l PROVE ~ Overlaps(u[l], u[k])
        <5>1. CASE l \in 1..L
          <6>1. k \in 1..L
            BY <4>1, <4>6, <5>1
          <6> QED BY <3>4, <4>1, <4>2, <4>4, <4>6, <5>1, <6>1 DEF NewOn
        <5>2. CASE l = L + 1
          <6>1. k \in 1..L
            BY <4>1, <4>6, <5>2
          <6> QED BY <3>3, <4>1, <4>2, <4>4, <5>2, <6>1
        <5> QED BY <4>3, <5>1, <5>2
      <4> QED BY <4>1, <4>4, <4>5, <4>6 DEF NewOn
    <3> HIDE DEF Old
    <3> QED BY <1>10, <2>1, <2>3, <3>1, <3>2, <3>4
  <2> QED BY <2>4, <2>5
<1>11. \A n \in 0..N : n \in P
  <2> HIDE DEF P
  <2> QED BY <1>1, <1>9, <1>10, Induction
<1> QED BY <1>1, <1>2, <1>11

\* What an analyzer has found is its own.
LEMMA FoundIs ==
  ASSUME FoundGood, NEW a \in Names
  PROVE  Found(a) \in Seq({f \in Bare : f.by = a})
<1> DEFINE parts == [k \in 1..Len(Places) |-> task[a][Places[k]].found]
           S == {f \in Bare : f.by = a}
<1>1. ASSUME NEW k \in 1..Len(Places) PROVE task[a][Places[k]].found \in Seq(S)
  <2>1. Places[k] \in Parts
    BY ThePlaces
  <2>2. task[a][Places[k]].found \in Seq(FindingsOf(a, Places[k]))
    BY <2>1 DEF FoundGood
  <2>3. FindingsOf(a, Places[k]) \subseteq S
    BY DEF FindingsOf
  <2> HIDE DEF S
  <2> QED BY <2>2, <2>3, SeqMonotonic
<1>2. parts \in Seq(Seq(S))
  <2> HIDE DEF S
  <2>1. parts \in [1..Len(Places) -> Seq(S)]
    BY <1>1
  <2>2. Len(Places) \in Nat
    BY ThePlaces
  <2> QED BY <2>1, <2>2, FunctionIsSeq
<1>3. FlattenSeq(parts) \in Seq(S)
  <2> HIDE DEF S, parts
  <2> QED BY <1>2, FlatType
<1> QED BY <1>3 DEF Found

\* The answers of the model.
LEMMA AnswersAre ==
  /\ \A a \in Names \ {"deck_analyzer"} : \A answer \in Answers[a] :
       answer \in Seq([box : Boxes, severity : ToSet(Severities)])
  /\ \A a \in {"deck_analyzer", "crossmodal_analyzer"} : \A answer \in Remarks[a] :
       answer \in Seq([slide : Parts, severity : ToSet(Severities)])
<1>1. /\ Answers \in [Names \ {"deck_analyzer"} -> SUBSET Seq([box : Boxes, severity : ToSet(Severities)])]
      /\ Remarks \in [{"deck_analyzer", "crossmodal_analyzer"}
                        -> SUBSET Seq([slide : Parts, severity : ToSet(Severities)])]
  BY PipelineAssumption
<1> QED BY <1>1

\* A task begins with nothing found.
LEMMA NothingFound ==
  ASSUME NEW p, NEW a
  PROVE  <<>> \in Seq(FindingsOf(a, p)) /\ NewOn(<<>>, p) /\ NoTask.found = <<>>
<1>1. DOMAIN <<>> = {}
  OBVIOUS
<1>2. NoTask.found = <<>>
  BY DEF NoTask
<1> QED BY <1>1, <1>2 DEF NewOn

\* What a task has found after a step of it.
FoundNext(a, p, next) ==
  /\ Advance(a, p, next)
  /\ next.found \in Seq(FindingsOf(a, p))
  /\ a = "zoom_agent" /\ NewOn(task[a][p].found, p) => NewOn(next.found, p)

\* Every step of a task finds what it may.
LEMMA TaskContent ==
  ASSUME PipelineInv, ContentInv, NEW a \in Names, NEW p \in Parts, TaskStep(a, p)
  PROVE  \E next : FoundNext(a, p, next)
<1>1. /\ DOMAIN task[a][p] = {"at", "calls", "found", "chart"}
      /\ task[a][p].found \in Seq(FindingsOf(a, p))
  BY DEF PipelineInv, TasksGood, IsTask, ContentInv, FoundGood
<1>2. CASE Ask(a, p)
  <2>1. Advance(a, p, [task[a][p] EXCEPT !.at = "asked"])
    BY <1>2 DEF Ask
  <2>2. PICK next : next = [task[a][p] EXCEPT !.at = "asked"]
    OBVIOUS
  <2>3. next.found = task[a][p].found
    BY <1>1, <2>2
  <2> QED BY <1>1, <2>1, <2>2, <2>3 DEF FoundNext
<1>3. CASE Fail(a, p)
  <2>1. Advance(a, p, [task[a][p] EXCEPT !.at = "failed", !.calls = 0])
    BY <1>3 DEF Fail
  <2>2. PICK next : next = [task[a][p] EXCEPT !.at = "failed", !.calls = 0]
    OBVIOUS
  <2>3. next.found = task[a][p].found
    BY <1>1, <2>2
  <2> QED BY <1>1, <2>1, <2>2, <2>3 DEF FoundNext
<1>4. ASSUME NEW found, NEW chart
      PROVE  Answered(found).found = found /\ [Answered(found) EXCEPT !.chart = chart].found = found
  BY DEF Answered, NoTask
<1>5. ASSUME NEW found, NEW calls PROVE Continued(a, p, found, calls).found = found
  BY <1>1 DEF Continued
<1>6. ASSUME AnswerSlide(p), a = "slide_analyzer" PROVE \E next : FoundNext(a, p, next)
  <2>1. PICK answer \in Answers[a], chart \in BOOLEAN :
          Advance(a, p, [Answered(Stamp(a, p, answer)) EXCEPT !.chart = chart])
    BY <1>6 DEF AnswerSlide
  <2>2. Stamp(a, p, answer) \in Seq(FindingsOf(a, p))
    BY <1>6, AnswersAre, StampIs
  <2>3. PICK next : next = [Answered(Stamp(a, p, answer)) EXCEPT !.chart = chart]
    OBVIOUS
  <2>4. next.found = Stamp(a, p, answer)
    BY <1>4, <2>3
  <2>5. a # "zoom_agent"
    BY <1>6
  <2>6. FoundNext(a, p, next)
    BY <2>1, <2>2, <2>3, <2>4, <2>5 DEF FoundNext
  <2> QED BY <2>6
<1>7. ASSUME AnswerScreening(p), a = "zoom_agent" PROVE \E next : FoundNext(a, p, next)
  <2>1. PICK regions : Advance(a, p, Continued(a, p, <<>>, regions))
    BY <1>7 DEF AnswerScreening
  <2> QED BY <1>5, <2>1, NothingFound DEF FoundNext
<1>8. ASSUME AnswerZoom(p), a = "zoom_agent" PROVE \E next : FoundNext(a, p, next)
  <2>1. PICK answer \in Answers[a] :
          Advance(a, p, Continued(a, p,
            Accept(p, task[a][p].found, Stamp(a, p, answer)), task[a][p].calls - 1))
    BY <1>8 DEF AnswerZoom
  <2>2. Stamp(a, p, answer) \in Seq(FindingsOf(a, p))
    BY <1>8, AnswersAre, StampIs
  <2>3. PICK found : found = Accept(p, task[a][p].found, Stamp(a, p, answer))
    OBVIOUS
  <2>4. found \in Seq(FindingsOf(a, p)) /\ (NewOn(task[a][p].found, p) => NewOn(found, p))
    BY <1>1, <2>2, <2>3, AcceptIs
  <2> QED BY <1>5, <2>1, <2>3, <2>4 DEF FoundNext
<1>9. ASSUME AnswerDeck(p), a = "deck_analyzer" PROVE \E next : FoundNext(a, p, next)
  <2>1. PICK remarks \in Remarks[a] : Advance(a, p, Answered(StampRemarks(a, remarks)))
    BY <1>9 DEF AnswerDeck
  <2>2. StampRemarks(a, remarks) \in Seq(FindingsOf(a, p))
    BY <1>9, AnswersAre, StampRemarksIs
  <2> QED BY <1>4, <1>9, <2>1, <2>2 DEF FoundNext
<1>10. ASSUME AnswerChart(p), a = "chart_checker" PROVE \E next : FoundNext(a, p, next)
  <2>1. PICK answer \in Answers[a] :
          Advance(a, p, Continued(a, p, task[a][p].found \o Stamp(a, p, answer), task[a][p].calls - 1))
    BY <1>10 DEF AnswerChart
  <2>2. Stamp(a, p, answer) \in Seq(FindingsOf(a, p))
    BY <1>10, AnswersAre, StampIs
  <2>3. task[a][p].found \o Stamp(a, p, answer) \in Seq(FindingsOf(a, p))
    BY <1>1, <2>2, ConcatProperties
  <2> QED BY <1>5, <1>10, <2>1, <2>3 DEF FoundNext
<1>11. ASSUME AnswerSpeech(p), a = "crossmodal_analyzer" PROVE \E next : FoundNext(a, p, next)
  <2>1. PICK answer \in Answers[a] : Advance(a, p, Answered(Stamp(a, p, answer)))
    BY <1>11 DEF AnswerSpeech
  <2>2. Stamp(a, p, answer) \in Seq(FindingsOf(a, p))
    BY <1>11, AnswersAre, StampIs
  <2> QED BY <1>4, <1>11, <2>1, <2>2 DEF FoundNext
<1> QED
  BY <1>2, <1>3, <1>6, <1>7, <1>8, <1>9, <1>10, <1>11 DEF TaskStep

\* What only changes what is found keeps the rest.
LEMMA FindingKeeps ==
  ASSUME ContentInv, UNCHANGED <<findings, turn, kept, judged, phase>>, FoundGood', ZoomsGood'
  PROVE  ContentInv'
BY DEF ContentInv, FindingsGood, JudgedGood, ZoomAddsNew, Overlaps

\* So the tasks keep the invariant, ...
LEMMA AdvanceContent ==
  ASSUME PipelineInv, ContentInv, NEW a \in Names, NEW p \in Parts, TaskStep(a, p)
  PROVE  ContentInv'
<1>1. PICK next : FoundNext(a, p, next)
  BY TaskContent
<1>2. \A b \in Names, q \in Parts :
        task'[b][q] = IF b = a /\ q = p THEN next ELSE task[b][q]
  BY <1>1 DEF PipelineInv, TasksGood, Advance, FoundNext
<1>3. UNCHANGED <<findings, turn, kept, judged, phase>>
  BY <1>1 DEF FoundNext, Advance, stepping, judging
<1>4. FoundGood'
  BY <1>1, <1>2 DEF ContentInv, FoundGood, FoundNext
<1>5. \A found, q : NewOn(found, q)' <=> NewOn(found, q)
  BY <1>3 DEF NewOn, Overlaps
<1>6. ZoomsGood'
  <2> SUFFICES ASSUME turn <= 2, NEW q \in Parts PROVE NewOn(task'["zoom_agent"][q].found, q)
    BY <1>3 DEF ZoomsGood, NewOn
  <2>1. NewOn(task["zoom_agent"][q].found, q)
    BY DEF ContentInv, ZoomsGood
  <2>2. "zoom_agent" \in Names
    BY TheAnalyzers
  <2>3. CASE a = "zoom_agent" /\ q = p
    BY <1>1, <1>2, <2>1, <2>2, <2>3 DEF FoundNext
  <2>4. CASE ~ (a = "zoom_agent" /\ q = p)
    BY <1>2, <2>1, <2>2, <2>4
  <2> QED BY <2>3, <2>4
<1> QED BY <1>3, <1>4, <1>6, FindingKeeps

\* ... a turn that begins does, ...
LEMMA BeginContent ==
  ASSUME PipelineInv, ContentInv, NEW a \in Names, NEW tasks, Begin(a, tasks),
         \A p \in Parts : p \in DOMAIN tasks =>
           /\ tasks[p].found \in Seq(FindingsOf(a, p))
           /\ a = "zoom_agent" => tasks[p].found = <<>>
  PROVE  ContentInv'
<1>1. \A b \in Names, p \in Parts :
        task'[b][p] = IF b = a THEN IF p \in DOMAIN tasks THEN tasks[p] ELSE NoTask
                      ELSE task[b][p]
  BY DEF PipelineInv, TasksGood, Begin
<1>2. UNCHANGED <<findings, turn, kept, judged, phase>>
  BY DEF Begin, judging
<1>3. FoundGood'
  <2> SUFFICES ASSUME NEW b \in Names, NEW p \in Parts
               PROVE task'[b][p].found \in Seq(FindingsOf(b, p))
    BY DEF FoundGood
  <2>1. task[b][p].found \in Seq(FindingsOf(b, p))
    BY DEF ContentInv, FoundGood
  <2> QED BY <1>1, <2>1, NothingFound
<1>4. ZoomsGood'
  <2> SUFFICES ASSUME turn <= 2, NEW p \in Parts PROVE NewOn(task'["zoom_agent"][p].found, p)
    BY <1>2 DEF ZoomsGood, NewOn
  <2>1. NewOn(task["zoom_agent"][p].found, p)
    BY DEF ContentInv, ZoomsGood
  <2>2. "zoom_agent" \in Names
    BY TheAnalyzers
  <2>3. task'["zoom_agent"][p].found \in {<<>>, task["zoom_agent"][p].found}
    BY <1>1, <2>2, NothingFound
  <2> QED BY <2>1, <2>3, NothingFound
<1> QED BY <1>2, <1>3, <1>4, FindingKeeps

\* (most begin with nothing found)
LEMMA BeginEmptyContent ==
  ASSUME PipelineInv, ContentInv, NEW a \in Names, NEW tasks, Begin(a, tasks),
         \A p \in DOMAIN tasks : tasks[p].found = <<>>
  PROVE  ContentInv'
<1>1. \A p \in Parts : p \in DOMAIN tasks =>
        /\ tasks[p].found \in Seq(FindingsOf(a, p))
        /\ a = "zoom_agent" => tasks[p].found = <<>>
  BY NothingFound
<1> QED BY <1>1, BeginContent

\* ... whichever analyzer ...
LEMMA BeginVisionContent == PipelineInv /\ ContentInv /\ BeginVision => ContentInv'
<1> SUFFICES ASSUME PipelineInv, ContentInv, BeginVision PROVE ContentInv'
  OBVIOUS
<1>1. \A calls : Queued(calls).found = <<>>
  BY DEF Queued, NoTask
<1>2. CASE Begin("slide_analyzer", [p \in Slides |-> Queued(1)])
  BY <1>1, <1>2, BeginEmptyContent, TheAnalyzers
<1>3. CASE Begin("zoom_agent", [p \in Slides |-> Queued(MaxZooms + 1)])
  BY <1>1, <1>3, BeginEmptyContent, TheAnalyzers
<1>4. CASE Begin("deck_analyzer", [p \in {0 : s \in Slides} |-> Queued(1)])
  BY <1>1, <1>4, BeginEmptyContent, TheAnalyzers
<1>5. CASE Begin("chart_checker",
                 [p \in flagged |-> Queued(IF p \in texts THEN 2 ELSE 1)])
  BY <1>1, <1>5, BeginEmptyContent, TheAnalyzers
<1> QED BY <1>2, <1>3, <1>4, <1>5 DEF BeginVision

\* ... begins it, ...
LEMMA BeginCrossmodalContent ==
  PipelineInv /\ ContentInv /\ (BeginQuiet \/ BeginSpeech \/ BeginFails) => ContentInv'
<1> SUFFICES ASSUME PipelineInv, ContentInv, BeginQuiet \/ BeginSpeech \/ BeginFails
             PROVE ContentInv'
  OBVIOUS
<1> DEFINE a == "crossmodal_analyzer"
<1>1. a \in Names /\ a # "zoom_agent" /\ a \in {"deck_analyzer", "crossmodal_analyzer"}
  BY TheAnalyzers
<1>2. CASE BeginQuiet
  <2>1. Begin(a, <<>>)
    BY <1>2 DEF BeginQuiet
  <2>2. DOMAIN <<>> = {}
    OBVIOUS
  <2> HIDE DEF a
  <2> QED BY <1>1, <2>1, <2>2, BeginContent
<1>3. CASE BeginSpeech
  <2> DEFINE Tasks(remarks, spoken) ==
        [p \in spoken \cup {0} |->
           IF p = 0 THEN Answered(StampRemarks(a, remarks)) ELSE Queued(1)]
  <2>1. PICK remarks \in Remarks[a], spoken \in SUBSET texts :
          Begin(a, Tasks(remarks, spoken))
    BY <1>3 DEF BeginSpeech
  <2>2. ASSUME NEW p \in Parts, p \in DOMAIN Tasks(remarks, spoken)
        PROVE  Tasks(remarks, spoken)[p].found \in Seq(FindingsOf(a, p))
    <3>1. StampRemarks(a, remarks) \in Seq(FindingsOf(a, p))
      <4> HIDE DEF a
      <4> QED BY <1>1, <2>1, AnswersAre, StampRemarksIs
    <3>2. Answered(StampRemarks(a, remarks)).found = StampRemarks(a, remarks)
      BY DEF Answered, NoTask
    <3>3. Queued(1).found = <<>>
      BY DEF Queued, NoTask
    <3> HIDE DEF a
    <3>4. p \in spoken \cup {0}
      BY <2>2
    <3>5. Tasks(remarks, spoken)[p].found \in {StampRemarks(a, remarks), <<>>}
      BY <3>2, <3>3, <3>4
    <3> HIDE DEF Tasks
    <3> QED BY <3>1, <3>5, NothingFound
  <2> HIDE DEF a, Tasks
  <2> QED BY <1>1, <2>1, <2>2, BeginContent
<1>4. CASE BeginFails
  <2> DEFINE tasks == [p \in {0} |-> [NoTask EXCEPT !.at = "failed"]]
  <2>1. Begin(a, tasks)
    BY <1>4 DEF BeginFails
  <2>2. \A p \in DOMAIN tasks : tasks[p].found = <<>>
    BY DEF NoTask
  <2> HIDE DEF a, tasks
  <2> QED BY <1>1, <2>1, <2>2, BeginEmptyContent
<1> QED BY <1>2, <1>3, <1>4

\* Nothing overlaps an earlier finding of its slide.
Clean(s) ==
  \A k, l \in DOMAIN s : k < l /\ s[k].slide = s[l].slide => ~ Overlaps(s[l], s[k])

\* Two clean sequences that do not meet.
LEMMA ConcatClean ==
  ASSUME NEW S, NEW s \in Seq(S), NEW t \in Seq(S), Clean(s), Clean(t),
         \A k \in DOMAIN s, l \in DOMAIN t : s[k].slide = t[l].slide => ~ Overlaps(t[l], s[k])
  PROVE  Clean(s \o t)
<1>1. PICK N \in Nat, M \in Nat : N = Len(s) /\ M = Len(t) /\ DOMAIN s = 1..N /\ DOMAIN t = 1..M
  OBVIOUS
<1>2. PICK u : u = s \o t
  OBVIOUS
<1>3. /\ u \in Seq(S) /\ Len(u) = N + M
      /\ \A i \in 1..N : u[i] = s[i]
      /\ \A i \in N + 1..N + M : u[i] = t[i - N]
  BY <1>1, <1>2, ConcatIs
<1>4. DOMAIN u = 1..N + M
  BY <1>3
<1>5. ASSUME NEW k \in 1..N + M, NEW l \in 1..N + M, k < l, u[k].slide = u[l].slide
      PROVE  ~ Overlaps(u[l], u[k])
  <2>1. CASE l \in 1..N
    <3>1. k \in 1..N
      BY <1>5, <2>1
    <3> QED BY <1>1, <1>3, <1>5, <2>1, <3>1 DEF Clean
  <2>2. CASE k \in 1..N /\ l \in N + 1..N + M
    <3>1. l - N \in 1..M
      BY <2>2
    <3>2. u[k] = s[k] /\ u[l] = t[l - N]
      BY <1>3, <2>2
    <3> QED BY <1>1, <1>5, <2>2, <3>1, <3>2
  <2>3. CASE k \in N + 1..N + M /\ l \in N + 1..N + M
    <3>1. k - N \in 1..M /\ l - N \in 1..M /\ k - N < l - N
      BY <1>5, <2>3
    <3>2. PICK x, y : x = k - N /\ y = l - N
      OBVIOUS
    <3>3. u[k] = t[x] /\ u[l] = t[y] /\ x \in 1..M /\ y \in 1..M /\ x < y
      BY <1>3, <2>3, <3>1, <3>2
    <3> QED BY <1>1, <1>5, <3>3 DEF Clean
  <2>4. l \in 1..N \/ (k \in 1..N /\ l \in N + 1..N + M) \/ (k \in N + 1..N + M /\ l \in N + 1..N + M)
    BY <1>5
  <2> QED BY <2>1, <2>2, <2>3, <2>4
<1> QED BY <1>2, <1>4, <1>5 DEF Clean

\* The findings of several slides, slide by slide.
LEMMA FlatClean ==
  ASSUME NEW S, NEW parts \in Seq(Seq(S)),
         \A n \in 1..Len(parts) :
           Clean(parts[n]) /\ \A k \in DOMAIN parts[n] : parts[n][k].slide = n - 1
  PROVE  Clean(FlattenSeq(parts))
<1>1. PICK N \in Nat : N = Len(parts) /\ \A n \in 1..N : parts[n] \in Seq(S)
  OBVIOUS
<1>2. PICK sofar : Flattening(parts, sofar, S) /\ FlattenSeq(parts) = sofar[N]
  BY <1>1, Flattens
<1>3. /\ sofar \in [0..N -> Seq(S)] /\ sofar[0] = <<>>
      /\ \A n \in 1..N : sofar[n] = sofar[n - 1] \o parts[n]
  BY <1>1, <1>2 DEF Flattening
<1> DEFINE Before(n) == {m - 1 : m \in 1..n}
           P == {n \in 0..N : /\ Clean(sofar[n])
                              /\ \A k \in DOMAIN sofar[n] : sofar[n][k].slide \in Before(n)}
<1>4. 0 \in P
  <2>1. DOMAIN sofar[0] = {}
    BY <1>3
  <2> QED BY <1>1, <2>1 DEF Clean
<1>5. ASSUME NEW n \in 0..N - 1, n \in P PROVE n + 1 \in P
  <2>1. n + 1 \in 1..N /\ (n + 1) - 1 = n /\ n + 1 \in 0..N /\ n \in 0..N
    BY <1>1
  <2>2. PICK s, t : s = sofar[n] /\ t = parts[n + 1]
    OBVIOUS
  <2>3. /\ sofar[n + 1] = s \o t /\ s \in Seq(S) /\ t \in Seq(S) /\ Clean(s) /\ Clean(t)
        /\ \A k \in DOMAIN t : t[k].slide = n
        /\ \A k \in DOMAIN s : s[k].slide \in Before(n)
    BY <1>1, <1>3, <1>5, <2>1, <2>2
  <2>4. ~ n \in Before(n) /\ n \in Before(n + 1) /\ Before(n) \subseteq Before(n + 1)
    <3>1. n = (n + 1) - 1 /\ n + 1 \in 1..n + 1
      OBVIOUS
    <3> QED BY <3>1
  <2> HIDE DEF Before
  <2>5. Clean(s \o t)
    <3>1. \A k \in DOMAIN s, l \in DOMAIN t : s[k].slide # t[l].slide
      BY <2>3, <2>4
    <3> QED BY <2>3, <3>1, ConcatClean
  <2>6. \A k \in DOMAIN (s \o t) : (s \o t)[k].slide \in Before(n + 1)
    <3>1. PICK K, M : K = Len(s) /\ M = Len(t)
      OBVIOUS
    <3>2. /\ Len(s \o t) = K + M /\ s \o t \in Seq(S) /\ K \in Nat /\ M \in Nat
          /\ \A i \in 1..K : (s \o t)[i] = s[i]
          /\ \A i \in K + 1..K + M : (s \o t)[i] = t[i - K]
      BY <2>3, <3>1, ConcatIs
    <3>3. DOMAIN (s \o t) = 1..K + M /\ DOMAIN s = 1..K /\ DOMAIN t = 1..M
      BY <2>3, <3>1, <3>2
    <3>4. ASSUME NEW i \in 1..K + M PROVE (s \o t)[i].slide \in Before(n + 1)
      <4>1. CASE i \in 1..K
        BY <2>3, <2>4, <3>2, <3>3, <4>1
      <4>2. CASE i \in K + 1..K + M
        <5>1. i - K \in 1..M
          BY <3>2, <4>2
        <5> QED BY ZenonT(30), <2>3, <2>4, <3>2, <3>3, <4>2, <5>1
      <4> QED BY <3>2, <4>1, <4>2
    <3> QED BY <3>3, <3>4
  <2> QED BY <2>1, <2>3, <2>5, <2>6
<1>6. \A n \in 0..N : n \in P
  <2> HIDE DEF P
  <2> QED BY <1>1, <1>4, <1>5, Induction
<1> QED BY <1>1, <1>2, <1>6

\* The zooms of all slides together add nothing that overlaps.
LEMMA ZoomsMerge ==
  ASSUME ContentInv, turn = 2
  PROVE  /\ Clean(Found("zoom_agent"))
         /\ \A k \in DOMAIN Found("zoom_agent"), i \in DOMAIN findings :
              findings[i].slide = Found("zoom_agent")[k].slide
              => ~ Overlaps(Found("zoom_agent")[k], findings[i])
<1> DEFINE a == "zoom_agent"
           parts == [n \in 1..Len(Places) |-> task[a][Places[n]].found]
           S == {f \in Bare : \A i \in DOMAIN findings :
                                findings[i].slide = f.slide => ~ Overlaps(f, findings[i])}
<1>1. a \in Names
  BY TheAnalyzers
<1>2. PICK N \in Nat : N = Len(Places) /\ \A n \in 1..N : Places[n] = n - 1 /\ Places[n] \in Parts
  BY ThePlaces
<1>3. ASSUME NEW n \in 1..N
      PROVE  /\ parts[n] \in Seq(S) /\ Clean(parts[n])
             /\ \A k \in DOMAIN parts[n] : parts[n][k].slide = n - 1
  <2>1. PICK p \in Parts : p = Places[n] /\ p = n - 1
    BY <1>2
  <2>2. PICK found : found = task[a][p].found
    OBVIOUS
  <2>3. found \in Seq(FindingsOf(a, p)) /\ NewOn(found, p)
    BY <1>1, <2>2 DEF ContentInv, FoundGood, ZoomsGood
  <2>4. PICK L \in Nat : L = Len(found) /\ DOMAIN found = 1..L
    BY <2>3
  <2>5. \A k \in 1..L : found[k] \in Bare /\ found[k].slide = p
    BY <2>3, <2>4 DEF FindingsOf
  <2>6. \A k \in 1..L : found[k] \in S
    BY <2>3, <2>4, <2>5 DEF NewOn
  <2>7. found \in Seq(S)
    <3>1. found \in [1..L -> S]
      <4>1. found = [k \in 1..L |-> found[k]]
        BY <2>3, <2>4
      <4> HIDE DEF S
      <4> QED BY <2>6, <4>1
    <3> HIDE DEF S
    <3> QED BY <3>1, FunctionIsSeq
  <2>8. Clean(found)
    BY <2>3 DEF NewOn, Clean
  <2>9. parts[n] = found
    BY <1>2, <2>1, <2>2
  <2> HIDE DEF parts, S
  <2> QED BY <2>1, <2>4, <2>5, <2>7, <2>8, <2>9
<1>4. parts \in Seq(Seq(S)) /\ Len(parts) = N
  <2>1. parts = [n \in 1..N |-> parts[n]]
    BY <1>2
  <2> HIDE DEF parts, S
  <2>2. parts \in [1..N -> Seq(S)]
    BY <1>3, <2>1
  <2> QED BY <2>2, FunctionIsSeq
<1>5. Found(a) = FlattenSeq(parts)
  BY DEF Found
<1>6. Clean(FlattenSeq(parts)) /\ FlattenSeq(parts) \in Seq(S)
  <2> HIDE DEF parts, S
  <2> QED BY <1>3, <1>4, FlatClean, FlatType
<1>7. \A k \in DOMAIN Found(a) : Found(a)[k] \in S
  <2> HIDE DEF parts, S
  <2> QED BY <1>5, <1>6, ElementOfSeq, LenProperties
<1> QED BY <1>5, <1>6, <1>7

\* ... the findings of a turn that succeeds are merged, ...
LEMMA DoneContent ==
  ASSUME PipelineInv, ContentInv, AnalyzerDone PROVE ContentInv'
<1>1. turn \in 1..5 /\ turn' = turn + 1 /\ UNCHANGED <<task, kept, judged, phase>> /\ phase = "analyzing"
  BY DEF AnalyzerDone, PipelineInv, TurnGood, judging
<1>2. PICK a \in Names : a = Current /\ a = Analyzers[turn]
  BY <1>1, TheAnalyzers DEF Current
<1>3. PICK F : F = Found(a)
  OBVIOUS
<1>4. F \in Seq({f \in Bare : f.by = a}) /\ F \in Seq(Bare)
  <2>1. F \in Seq({f \in Bare : f.by = a})
    BY <1>3, FoundIs DEF ContentInv
  <2>2. {f \in Bare : f.by = a} \subseteq Bare
    OBVIOUS
  <2> QED BY <2>1, <2>2, SeqMonotonic
<1>5. findings' = findings \o F /\ findings \in Seq(Bare)
  BY <1>2, <1>3 DEF AnalyzerDone, ContentInv, FindingsGood
<1>6. PICK N \in Nat, M \in Nat : /\ N = Len(findings) /\ M = Len(F)
                                  /\ DOMAIN findings = 1..N /\ DOMAIN F = 1..M
  BY <1>4, <1>5
<1>7. /\ findings' \in Seq(Bare) /\ Len(findings') = N + M
      /\ \A i \in 1..N : findings'[i] = findings[i]
      /\ \A i \in N + 1..N + M : findings'[i] = F[i - N]
  BY <1>4, <1>5, <1>6, ConcatIs
<1>8. DOMAIN findings' = 1..N + M
  BY <1>7
<1>9. \A i \in N + 1..N + M : i - N \in 1..M /\ findings'[i].by = a
  BY <1>4, <1>6, <1>7
<1>10. FoundGood'
  BY <1>1 DEF ContentInv, FoundGood
<1>11. FindingsGood'
  <2>1. ASSUME NEW i \in 1..N + M PROVE \E k \in 1..5 : k < turn' /\ Analyzers[k] = findings'[i].by
    <3>1. CASE i \in 1..N
      <4>1. PICK k \in 1..5 : k < turn /\ Analyzers[k] = findings[i].by
        BY <1>6, <3>1 DEF ContentInv, FindingsGood
      <4> QED BY <1>1, <1>7, <3>1, <4>1
    <3>2. CASE i \in N + 1..N + M
      BY <1>1, <1>2, <1>9, <3>2
    <3> QED BY <3>1, <3>2
  <2> QED BY <1>7, <1>8, <2>1 DEF FindingsGood
<1>12. JudgedGood'
  <2>1. kept \in Seq(Bare) /\ Len(kept) \in Nat /\ judged \in Nat /\ Len(kept) + judged <= N
    BY <1>6 DEF ContentInv, JudgedGood
  <2> QED BY <1>1, <1>7, <2>1 DEF JudgedGood
<1>13. ZoomsGood'
  <2> SUFFICES ASSUME turn' <= 2, NEW p \in Parts PROVE NewOn(task["zoom_agent"][p].found, p)'
    BY <1>1 DEF ZoomsGood
  <2>1. turn = 1 /\ Analyzers[2] = "zoom_agent"
    BY <1>1, TheAnalyzers
  <2>2. task["zoom_agent"][p] = NoTask
    BY <2>1 DEF PipelineInv, NotYetBegun
  <2>3. task'["zoom_agent"][p].found = <<>>
    BY <1>1, <2>2, NothingFound
  <2> QED BY <2>3 DEF NewOn
<1>14. ZoomAddsNew'
  <2>1. ZoomAddsNew
    BY DEF ContentInv
  <2> SUFFICES ASSUME NEW i \in 1..N + M, NEW j \in 1..N + M, i < j,
                      findings'[i].by \in {"slide_analyzer", "zoom_agent"},
                      findings'[j].by = "zoom_agent", findings'[i].slide = findings'[j].slide
               PROVE  ~ Overlaps(findings'[j], findings'[i])
    BY <1>8 DEF ZoomAddsNew, Overlaps
  <2>2. CASE j \in 1..N
    <3>1. i \in 1..N
      BY <2>2
    <3> QED BY <1>6, <1>7, <2>1, <2>2, <3>1 DEF ZoomAddsNew
  <2>3. CASE j \in N + 1..N + M
    <3>1. a = "zoom_agent" /\ turn = 2
      BY <1>1, <1>2, <1>9, <2>3, TheAnalyzers
    <3>2. /\ Clean(F)
          /\ \A k \in DOMAIN F, l \in DOMAIN findings :
               findings[l].slide = F[k].slide => ~ Overlaps(F[k], findings[l])
      BY <1>3, <3>1, ZoomsMerge
    <3>3. j - N \in 1..M /\ findings'[j] = F[j - N]
      BY <1>7, <1>9, <2>3
    <3>4. CASE i \in 1..N
      BY <1>6, <1>7, <3>2, <3>3, <3>4
    <3>5. CASE i \in N + 1..N + M
      <4>1. i - N \in 1..M /\ findings'[i] = F[i - N] /\ i - N < j - N
        BY <1>7, <1>9, <3>5
      <4> QED BY <1>6, <3>2, <3>3, <4>1 DEF Clean
    <3> QED BY <3>4, <3>5
  <2> QED BY <2>2, <2>3
<1> QED BY <1>10, <1>11, <1>12, <1>13, <1>14 DEF ContentInv

\* ... those of a turn that fails are dropped, ...
LEMMA FailedContent ==
  ASSUME PipelineInv, ContentInv, AnalyzerFailed PROVE ContentInv'
<1>1. turn \in 1..5 /\ turn' = turn + 1 /\ UNCHANGED <<task, findings, kept, judged, phase>>
  BY DEF AnalyzerFailed, PipelineInv, TurnGood, judging
<1>2. FoundGood' /\ JudgedGood' /\ ZoomAddsNew'
  BY <1>1 DEF ContentInv, FoundGood, JudgedGood, ZoomAddsNew, Overlaps
<1>3. FindingsGood'
  BY <1>1 DEF ContentInv, FindingsGood
<1>4. ZoomsGood'
  <2> SUFFICES ASSUME turn' <= 2, NEW p \in Parts
               PROVE  NewOn(task["zoom_agent"][p].found, p)'
    BY DEF ZoomsGood
  <2>1. NewOn(task["zoom_agent"][p].found, p)
    BY <1>1 DEF ContentInv, ZoomsGood
  <2> QED BY <1>1, <2>1 DEF NewOn, Overlaps
<1> QED BY <1>2, <1>3, <1>4 DEF ContentInv

\* What only judges keeps the rest.
LEMMA JudgingKeeps ==
  ASSUME ContentInv, UNCHANGED <<task, turn, findings>>, JudgedGood'
  PROVE  ContentInv'
BY DEF ContentInv, FoundGood, ZoomsGood, NewOn, FindingsGood, ZoomAddsNew, Overlaps

\* ... the aggregator keeps a finding or counts it as a repetition, ...
LEMMA JudgingContent ==
  ASSUME ContentInv, Keep \/ ConfirmSameIssue \/ DenySameIssue \/ JudgeFails \/ Report \/ ReportFails
  PROVE  ContentInv'
<1>1. UNCHANGED <<task, turn, findings>>
  BY DEF Keep, ConfirmSameIssue, DenySameIssue, JudgeFails, Report, ReportFails, stepping
<1>2. PICK K \in Nat, N \in Nat : K = Len(kept) /\ N = Len(findings) /\ DOMAIN findings = 1..N
  BY DEF ContentInv, JudgedGood, FindingsGood
<1>3. /\ kept \in Seq(Bare) /\ findings \in Seq(Bare) /\ judged \in Nat /\ K + judged <= N
      /\ Position = K + judged + 1
  BY <1>2 DEF ContentInv, JudgedGood, FindingsGood, Position
<1>4. CASE Keep
  <2>1. Position \in 1..N /\ kept' = Append(kept, findings[Position]) /\ judged' = judged /\ phase' = "judging"
    BY <1>2, <1>4 DEF Keep, Judging
  <2>2. findings[Position] \in Bare
    BY <1>2, <1>3, <2>1
  <2>3. kept' \in Seq(Bare) /\ Len(kept') = K + 1
    BY <1>2, <1>3, <2>1, <2>2, AppendProperties
  <2>4. JudgedGood'
    BY <1>1, <1>2, <1>3, <2>1, <2>3 DEF JudgedGood
  <2> QED BY <1>1, <2>4, JudgingKeeps
<1>5. CASE ConfirmSameIssue
  <2>1. Position \in 1..N /\ kept' = kept /\ judged' = judged + 1 /\ phase' = "judging"
    BY <1>2, <1>5 DEF ConfirmSameIssue, Judging
  <2>2. JudgedGood'
    BY <1>1, <1>2, <1>3, <2>1 DEF JudgedGood
  <2> QED BY <1>1, <2>2, JudgingKeeps
<1>6. CASE DenySameIssue
  <2>1. kept' = kept /\ judged' = judged /\ phase' = "judging"
    BY <1>6 DEF DenySameIssue, Judging
  <2>2. JudgedGood'
    BY <1>1, <1>2, <1>3, <2>1 DEF JudgedGood
  <2> QED BY <1>1, <2>2, JudgingKeeps
<1>7. CASE JudgeFails \/ ReportFails
  <2>1. kept' = kept /\ judged' = judged /\ phase' = "failed"
    BY <1>7 DEF JudgeFails, ReportFails, judging
  <2>2. JudgedGood'
    BY <1>1, <1>2, <1>3, <2>1 DEF JudgedGood
  <2> QED BY <1>1, <2>2, JudgingKeeps
<1>8. CASE Report
  <2>1. kept' = kept /\ judged' = judged /\ Position > N
    BY <1>2, <1>8 DEF Report, judging
  <2>2. JudgedGood'
    BY <1>1, <1>2, <1>3, <2>1 DEF JudgedGood
  <2> QED BY <1>1, <2>2, JudgingKeeps
<1> QED BY <1>4, <1>5, <1>6, <1>7, <1>8

\* ... and the rest changes none of this.
LEMMA OtherContent ==
  ASSUME ContentInv, Ingest \/ IngestFails \/ StartJudging \/ UNCHANGED vars
  PROVE  ContentInv'
<1>1. UNCHANGED <<task, turn, findings, kept, judged>>
  BY DEF Ingest, IngestFails, StartJudging, vars, stepping, judging
<1>2. phase' = "reported" => phase = "reported"
  BY DEF Ingest, IngestFails, StartJudging, vars
<1>3. JudgedGood'
  BY <1>1, <1>2 DEF ContentInv, JudgedGood
<1> QED BY <1>1, <1>3, JudgingKeeps

\* At first nothing is found.
THEOREM ContentInit == Init => ContentInv
<1> SUFFICES ASSUME Init PROVE ContentInv
  OBVIOUS
<1>1. findings = <<>> /\ kept = <<>> /\ judged = 0 /\ phase = "ingesting"
  BY DEF Init
<1>2. \A a \in Names, p \in Parts : task[a][p].found = <<>>
  BY NothingFound DEF Init
<1>3. FoundGood
  BY <1>2, NothingFound DEF FoundGood
<1>4. ZoomsGood
  BY <1>2, NothingFound, TheAnalyzers DEF ZoomsGood
<1>5. FindingsGood /\ ZoomAddsNew
  <2>1. <<>> \in Seq(Bare) /\ DOMAIN <<>> = {}
    OBVIOUS
  <2> QED BY <1>1, <2>1 DEF FindingsGood, ZoomAddsNew
<1>6. JudgedGood
  BY <1>1 DEF JudgedGood
<1> QED BY <1>3, <1>4, <1>5, <1>6 DEF ContentInv

\* Every step keeps what is known of the findings ...
THEOREM ContentStep == PipelineInv /\ ContentInv /\ [Next]_vars => ContentInv'
<1> SUFFICES ASSUME PipelineInv, ContentInv, [Next]_vars PROVE ContentInv'
  OBVIOUS
<1>1. CASE BeginVision
  BY <1>1, BeginVisionContent
<1>2. CASE BeginQuiet \/ BeginSpeech \/ BeginFails
  BY <1>2, BeginCrossmodalContent
<1>3. CASE AnalyzerDone
  BY <1>3, DoneContent
<1>4. CASE AnalyzerFailed
  BY <1>4, FailedContent
<1>5. CASE Keep \/ ConfirmSameIssue \/ DenySameIssue \/ JudgeFails \/ Report \/ ReportFails
  BY <1>5, JudgingContent
<1>6. CASE Ingest \/ IngestFails \/ StartJudging \/ UNCHANGED vars
  BY <1>6, OtherContent
<1>7. ASSUME NEW a \in Names, NEW p \in Parts, TaskStep(a, p) PROVE ContentInv'
  BY <1>7, AdvanceContent
<1> QED BY <1>1, <1>2, <1>3, <1>4, <1>5, <1>6, <1>7 DEF Next, RunStep

\* ... so it is always true.
THEOREM ContentHolds == Spec => []ContentInv
BY InvHolds, ContentInit, ContentStep, PTL DEF Spec

(***************************************************************************)
(* The properties of the runs.                                             *)
(***************************************************************************)
\* However the calls about several slides are interleaved, a zoom never adds what
\* overlaps a finding of the slide analysis or of an earlier zoom (zoom.py).
THEOREM ZoomsAlwaysAddNew == Spec => []ZoomAddsNew
<1>1. ContentInv => ZoomAddsNew
  BY DEF ContentInv
<1> QED BY <1>1, ContentHolds, PTL

\* Every finding of the analyzers is shown in the report, was confirmed to repeat
\* another, or is counted in the line of its slide (aggregate.py).
THEOREM NothingEverVanishes == Spec => []NothingVanishes
<1>1. ContentInv => NothingVanishes
  <2> SUFFICES ASSUME ContentInv, phase = "reported" PROVE NothingVanishes
    BY DEF NothingVanishes
  <2>1. PICK list : list = report
    OBVIOUS
  <2>2. kept \in Seq(Bare) /\ list = Ordered(kept) /\ Len(findings) = Len(kept) + judged /\ judged \in Nat
    BY <2>1 DEF ContentInv, JudgedGood, report
  <2>3. /\ Len(Shown(list)) \in Nat
        /\ Sum([i \in DOMAIN Hidden(list) |-> Hidden(list)[i].hides]) \in Nat
        /\ Len(kept) = Len(Shown(list)) + Sum([i \in DOMAIN Hidden(list) |-> Hidden(list)[i].hides])
    BY <2>2, NothingLost
  <2>5. Len(findings) = judged + Len(Shown(list))
          + Sum([i \in DOMAIN Hidden(list) |-> Hidden(list)[i].hides])
    BY <2>2, <2>3
  <2> QED BY <2>1, <2>5 DEF NothingVanishes
<1> QED BY <1>1, ContentHolds, PTL

\* The smaller of two numbers.
LEMMA MinIs ==
  ASSUME NEW a \in Nat, NEW b \in Nat PROVE Min({a, b}) = IF a <= b THEN a ELSE b
<1>1. PICK m \in {a, b} : (m = IF a <= b THEN a ELSE b) /\ \A y \in {a, b} : m <= y
  OBVIOUS
<1>2. \A x \in {a, b} : (\A y \in {a, b} : x <= y) => x = m
  BY <1>1
<1> QED BY <1>1, <1>2 DEF Min

\* A crowded slide shows as many of its worst findings as the cap allows: none is
\* hidden behind a milder one (aggregate.py).
THEOREM WorstIsAlwaysShown == Spec => []ShowsTheWorst
<1>1. ContentInv => ShowsTheWorst
  <2> SUFFICES ASSUME ContentInv, phase = "reported",
                      NEW p \in Parts, NEW severities \in SeveritySets
               PROVE  AtLeast(Shown(report), p, severities) = Min({MaxPerSlide, AtLeast(kept, p, severities)})
    BY DEF ShowsTheWorst, SeveritySets
  <2>1. PICK n : n = AtLeast(kept, p, severities)
    OBVIOUS
  <2>2. n \in Nat /\ AtLeast(Shown(report), p, severities) = IF MaxPerSlide <= n THEN MaxPerSlide ELSE n
    BY <2>1, WorstAreShown DEF ContentInv, JudgedGood, report
  <2>3. Min({MaxPerSlide, n}) = IF MaxPerSlide <= n THEN MaxPerSlide ELSE n
    BY <2>2, MinIs, BoundsAssumption
  <2> QED BY <2>1, <2>2, <2>3
<1> QED BY <1>1, ContentHolds, PTL

\* The line that stands for the rest never costs a report more than the rest
\* would (aggregate.py, DeckScorer).
THEOREM CapIsNeverHarsher == Spec => []CapNeverLowersScore
<1>1. ContentInv => CapNeverLowersScore
  BY ScoreOfReport DEF ContentInv, JudgedGood, CapNeverLowersScore, report
<1> QED BY <1>1, ContentHolds, PTL

(***************************************************************************)
(* Types: a task never counts more calls than the analyzers make of it,    *)
(* nor below none, and the judge is never past what there is to judge.     *)
(***************************************************************************)
\* A task that waits still has answers to get.
IsCounted(t) ==
  /\ t.at \in States /\ t.calls \in 0..MaxZooms + 2
  /\ t.at \in {"queued", "asked"} => t.calls # 0

Counted == \A a \in Names, p \in Parts : IsCounted(task[a][p])

\* Every step of a task counts its calls.
LEMMA TaskCounts ==
  ASSUME PipelineInv, Counted, NEW a \in Names, NEW p \in Parts, TaskStep(a, p)
  PROVE  \E next : Advance(a, p, next) /\ IsCounted(next)
<1>1. /\ DOMAIN task[a][p] = {"at", "calls", "found", "chart"} /\ IsCounted(task[a][p])
      /\ MaxZooms \in Nat
  BY PipelineAssumption DEF PipelineInv, TasksGood, IsTask, Counted
<1>2. CASE Ask(a, p)
  <2>1. PICK next : next = [task[a][p] EXCEPT !.at = "asked"] /\ Advance(a, p, next)
    BY <1>2 DEF Ask
  <2>2. next.at = "asked" /\ next.calls = task[a][p].calls /\ task[a][p].at = "queued"
    BY <1>1, <1>2, <2>1 DEF Ask
  <2>3. IsCounted(next)
    BY <1>1, <2>2 DEF IsCounted, States
  <2> QED BY <2>1, <2>3
<1>3. CASE Fail(a, p)
  <2>1. PICK next : next = [task[a][p] EXCEPT !.at = "failed", !.calls = 0] /\ Advance(a, p, next)
    BY <1>3 DEF Fail
  <2>2. next.at = "failed" /\ next.calls = 0
    BY <1>1, <2>1
  <2>3. IsCounted(next)
    BY <1>1, <2>2 DEF IsCounted, States
  <2> QED BY <2>1, <2>3
<1>4. ASSUME NEW found, NEW chart
      PROVE  IsCounted(Answered(found)) /\ IsCounted([Answered(found) EXCEPT !.chart = chart])
  BY <1>1 DEF IsCounted, Answered, NoTask, States
<1>5. ASSUME NEW found, NEW calls \in 0..MaxZooms + 2 PROVE IsCounted(Continued(a, p, found, calls))
  <2>1. PICK next : next = Continued(a, p, found, calls)
    OBVIOUS
  <2>2. next.calls = calls /\ next.at = IF calls = 0 THEN "answered" ELSE "asked"
    BY <1>1, <2>1 DEF Continued
  <2>3. IsCounted(next)
    BY <2>2 DEF IsCounted, States
  <2> QED BY <2>1, <2>3
<1>6. ASSUME AnswerSlide(p), a = "slide_analyzer" PROVE \E next : Advance(a, p, next) /\ IsCounted(next)
  <2>1. PICK answer \in Answers[a], chart \in BOOLEAN :
          Advance(a, p, [Answered(Stamp(a, p, answer)) EXCEPT !.chart = chart])
    BY <1>6 DEF AnswerSlide
  <2> QED BY <1>4, <2>1
<1>7. ASSUME AnswerScreening(p), a = "zoom_agent" PROVE \E next : Advance(a, p, next) /\ IsCounted(next)
  <2>1. PICK regions \in 0..MaxZooms : Advance(a, p, Continued(a, p, <<>>, regions))
    BY <1>7 DEF AnswerScreening
  <2>2. regions \in 0..MaxZooms + 2
    BY <1>1
  <2> QED BY <1>5, <2>1, <2>2
<1>8. ASSUME AnswerZoom(p), a = "zoom_agent" PROVE \E next : Advance(a, p, next) /\ IsCounted(next)
  <2>1. PICK found : Advance(a, p, Continued(a, p, found, task[a][p].calls - 1))
    BY <1>8 DEF AnswerZoom
  <2>2. task[a][p].calls - 1 \in 0..MaxZooms + 2
    BY <1>1, <1>8 DEF AnswerZoom, Asked, IsCounted
  <2> QED BY <1>5, <2>1, <2>2
<1>9. ASSUME AnswerDeck(p), a = "deck_analyzer" PROVE \E next : Advance(a, p, next) /\ IsCounted(next)
  BY <1>4, <1>9 DEF AnswerDeck
<1>10. ASSUME AnswerChart(p), a = "chart_checker" PROVE \E next : Advance(a, p, next) /\ IsCounted(next)
  <2>1. PICK found : Advance(a, p, Continued(a, p, found, task[a][p].calls - 1))
    BY <1>10 DEF AnswerChart
  <2>2. task[a][p].calls - 1 \in 0..MaxZooms + 2
    BY <1>1, <1>10 DEF AnswerChart, Asked, IsCounted
  <2> QED BY <1>5, <2>1, <2>2
<1>11. ASSUME AnswerSpeech(p), a = "crossmodal_analyzer" PROVE \E next : Advance(a, p, next) /\ IsCounted(next)
  BY <1>4, <1>11 DEF AnswerSpeech
<1> QED
  BY <1>2, <1>3, <1>6, <1>7, <1>8, <1>9, <1>10, <1>11 DEF TaskStep

\* What the tasks do not disturb.
TypeRest ==
  /\ phase \in {"ingesting", "analyzing", "judging", "reported", "failed"}
  /\ texts \subseteq Slides /\ flagged \subseteq Slides
  /\ audio \in BOOLEAN /\ begun \in BOOLEAN /\ delivery \in BOOLEAN
  /\ turn \in 1..6 /\ done \subseteq Names
  /\ against \in 1..(Len(kept) + 1) /\ judged \in 0..Len(findings)

TypeInv == TypeRest /\ Counted

\* The parts make the type invariant.
LEMMA TypeInvTypes ==
  ASSUME TypeInv
  PROVE  TypeOK
<1>1. Len(Analyzers) + 1 = 6
  BY TheAnalyzers
<1> QED BY <1>1 DEF TypeInv, TypeOK, TypeRest, Counted, IsCounted, States

\* What all steps keep of the rest.
LEMMA RestSteps ==
  ASSUME PipelineInv, ContentInv, ContentInv', PipelineInv', TypeRest,
         phase' \in {"ingesting", "analyzing", "judging", "reported", "failed"},
         texts' \subseteq Slides, UNCHANGED audio, delivery' \in BOOLEAN, against' \in 1..(Len(kept') + 1)
  PROVE  TypeRest'
<1>1. turn' \in 1..6 /\ begun' \in BOOLEAN
  BY DEF PipelineInv, TurnGood
<1>2. flagged' \subseteq Slides
  BY DEF PipelineInv, FlaggedAreSeen
<1>3. done' \subseteq Names
  BY TheAnalyzers DEF PipelineInv, DoneBefore
<1>4. judged' \in 0..Len(findings')
  <2>1. Len(kept') \in Nat /\ Len(findings') \in Nat /\ judged' \in Nat /\ Len(kept') + judged' <= Len(findings')
    BY DEF ContentInv, JudgedGood, FindingsGood
  <2> QED BY <2>1
<1> QED BY <1>1, <1>2, <1>3, <1>4 DEF TypeRest

\* An analyzer begins with tasks that are counted, and disturbs no others.
LEMMA BeginCounts ==
  ASSUME PipelineInv, Counted, NEW a, NEW tasks, Begin(a, tasks),
         \A p \in DOMAIN tasks : IsCounted(tasks[p])
  PROVE  Counted'
<1>1. \A b \in Names, p \in Parts :
        task'[b][p] \in {task[b][p], NoTask} \/ (p \in DOMAIN tasks /\ task'[b][p] = tasks[p])
  BY DEF PipelineInv, TasksGood, Begin
<1>2. IsCounted(NoTask)
  BY PipelineAssumption DEF IsCounted, NoTask, States
<1>3. \A b \in Names, p \in Parts : IsCounted(task'[b][p])
  BY <1>1, <1>2 DEF Counted
<1> QED BY <1>3 DEF Counted, IsCounted

\* No analyzer begins with more calls than it may make.
LEMMA BeginsCounted ==
  ASSUME PipelineInv, Counted, BeginVision \/ BeginQuiet \/ BeginSpeech \/ BeginFails
  PROVE  Counted'
<1>1. \A calls \in 1..MaxZooms + 2 : IsCounted(Queued(calls))
  BY PipelineAssumption DEF IsCounted, Queued, NoTask, States
<1>2. 1 \in 1..MaxZooms + 2 /\ 2 \in 1..MaxZooms + 2 /\ MaxZooms + 1 \in 1..MaxZooms + 2
  BY PipelineAssumption
<1>3. IsCounted(Queued(1)) /\ IsCounted(Queued(2)) /\ IsCounted(Queued(MaxZooms + 1))
  BY <1>1, <1>2
<1>4. CASE BeginVision
  <2>1. CASE Begin("slide_analyzer", [p \in Slides |-> Queued(1)])
    BY <1>3, <2>1, BeginCounts
  <2>2. CASE Begin("zoom_agent", [p \in Slides |-> Queued(MaxZooms + 1)])
    BY <1>3, <2>2, BeginCounts
  <2>3. CASE Begin("deck_analyzer", [p \in {0 : s \in Slides} |-> Queued(1)])
    BY <1>3, <2>3, BeginCounts
  <2>4. CASE Begin("chart_checker",
                   [p \in flagged |-> Queued(IF p \in texts THEN 2 ELSE 1)])
    BY <1>3, <2>4, BeginCounts
  <2> QED BY <1>4, <2>1, <2>2, <2>3, <2>4 DEF BeginVision
<1>5. CASE BeginQuiet
  <2>1. Begin("crossmodal_analyzer", <<>>)
    BY <1>5 DEF BeginQuiet
  <2>2. DOMAIN <<>> = {}
    OBVIOUS
  <2> QED BY <2>1, <2>2, BeginCounts
<1>6. CASE BeginSpeech
  <2>1. PICK found, spoken :
          Begin("crossmodal_analyzer",
                [p \in spoken \cup {0} |-> IF p = 0 THEN Answered(found) ELSE Queued(1)])
    BY <1>6 DEF BeginSpeech
  <2>2. IsCounted(Answered(found))
    BY PipelineAssumption DEF IsCounted, Answered, NoTask, States
  <2>3. PICK tasks : tasks = [p \in spoken \cup {0} |-> IF p = 0 THEN Answered(found) ELSE Queued(1)]
    OBVIOUS
  <2>4. \A p \in DOMAIN tasks : IsCounted(tasks[p])
    BY <1>3, <2>2, <2>3
  <2> QED BY <2>1, <2>3, <2>4, BeginCounts
<1>7. CASE BeginFails
  <2>1. PICK tasks : Begin("crossmodal_analyzer", tasks)
                     /\ tasks = [p \in {0} |-> [NoTask EXCEPT !.at = "failed"]]
    BY <1>7 DEF BeginFails
  <2>2. IsCounted([NoTask EXCEPT !.at = "failed"])
    BY PipelineAssumption DEF IsCounted, NoTask, States
  <2>3. \A p \in DOMAIN tasks : IsCounted(tasks[p])
    BY <2>1, <2>2
  <2> QED BY <2>1, <2>3, BeginCounts
<1> QED BY <1>4, <1>5, <1>6, <1>7

\* The next rival of a finding is one that was kept.
LEMMA RivalsMin ==
  ASSUME ContentInv, TypeRest, Rivals # {}
  PROVE  Min(Rivals) + 1 \in 1..(Len(kept) + 1)
<1>1. Len(kept) \in Nat /\ against \in Nat
  BY DEF ContentInv, JudgedGood, TypeRest
<1>2. Rivals \in SUBSET (1..Len(kept)) /\ Rivals \in SUBSET Nat
  BY <1>1 DEF Rivals, TypeRest
<1>3. PICK x \in Rivals : \A y \in Rivals : x <= y
  BY <1>2, WellOrdered
<1>4. Min(Rivals) \in Rivals
  <2> HIDE DEF Rivals
  <2> QED BY <1>3 DEF Min
<1>5. PICK m : m = Min(Rivals)
  OBVIOUS
<1>6. m \in 1..Len(kept)
  BY <1>2, <1>4, <1>5
<1>7. m + 1 \in 1..(Len(kept) + 1)
  BY <1>1, <1>6
<1> QED BY <1>5, <1>7

\* Every step keeps the types.
THEOREM TypeStep == PipelineInv /\ ContentInv /\ TypeInv /\ [Next]_vars => TypeInv'
<1> SUFFICES ASSUME PipelineInv, ContentInv, TypeRest, Counted, [Next]_vars
             PROVE TypeRest' /\ Counted'
  BY DEF TypeInv
<1>1. PipelineInv' /\ ContentInv'
  BY StepGood, ContentStep
<1>2. phase \in {"ingesting", "analyzing", "judging", "reported", "failed"} /\ texts \subseteq Slides
      /\ delivery \in BOOLEAN /\ against \in 1..(Len(kept) + 1)
  BY DEF TypeRest
<1>3. CASE BeginVision \/ BeginQuiet \/ BeginSpeech \/ BeginFails
  <2>1. UNCHANGED <<phase, texts, audio, kept, against>> /\ delivery' \in BOOLEAN
    BY <1>2, <1>3 DEF BeginVision, BeginQuiet, BeginSpeech, BeginFails, Begin, context, judging
  <2> QED BY <1>1, <1>2, <1>3, <2>1, RestSteps, BeginsCounted
<1>4. CASE AnalyzerDone \/ AnalyzerFailed \/ Ingest \/ IngestFails \/ StartJudging \/ JudgeFails
           \/ Report \/ ReportFails \/ UNCHANGED vars
  <2>1. UNCHANGED <<task, audio, delivery, kept, against>>
    BY <1>4 DEF AnalyzerDone, AnalyzerFailed, Ingest, IngestFails, StartJudging, JudgeFails, Report,
       ReportFails, vars, context, judging
  <2>2. phase' \in {"ingesting", "analyzing", "judging", "reported", "failed"}
    BY <1>2, <1>4 DEF AnalyzerDone, AnalyzerFailed, Ingest, IngestFails, StartJudging, JudgeFails, Report,
       ReportFails, vars
  <2>3. texts' \subseteq Slides
    BY <1>2, <1>4, PipelineAssumption DEF AnalyzerDone, AnalyzerFailed, Ingest, IngestFails,
       StartJudging, JudgeFails, Report, ReportFails, vars, context, Slides
  <2>4. Counted'
    BY <2>1 DEF Counted, IsCounted
  <2> QED BY <1>1, <1>2, <2>1, <2>2, <2>3, <2>4, RestSteps
<1>5. CASE Keep \/ ConfirmSameIssue \/ DenySameIssue
  <2>1. UNCHANGED <<task, audio, delivery, texts, phase>>
    BY <1>5 DEF Keep, ConfirmSameIssue, DenySameIssue, context
  <2>2. against' \in 1..(Len(kept') + 1)
    <3>1. CASE Keep \/ ConfirmSameIssue
      <4>1. against' = 1 /\ Len(kept') \in Nat
        BY <1>1, <3>1 DEF Keep, ConfirmSameIssue, ContentInv, JudgedGood
      <4> QED BY <4>1
    <3>2. CASE DenySameIssue
      BY <3>2, RivalsMin DEF DenySameIssue
    <3> QED BY <1>5, <3>1, <3>2
  <2>3. Counted'
    BY <2>1 DEF Counted, IsCounted
  <2> QED BY <1>1, <1>2, <2>1, <2>2, <2>3, RestSteps
<1>6. ASSUME NEW a \in Names, NEW p \in Parts, TaskStep(a, p) PROVE TypeRest' /\ Counted'
  <2>1. PICK next : Advance(a, p, next) /\ IsCounted(next)
    BY <1>1, <1>6, TaskCounts
  <2>2. UNCHANGED <<phase, texts, audio, delivery, kept, against>>
    BY <2>1 DEF Advance, context, judging
  <2>3. \A b \in Names, q \in Parts : task'[b][q] \in {next, task[b][q]}
    BY <2>1 DEF PipelineInv, TasksGood, Advance
  <2>4. \A b \in Names, q \in Parts : IsCounted(task'[b][q])
    BY <2>1, <2>3 DEF Counted
  <2>5. Counted'
    BY <2>4 DEF Counted, IsCounted
  <2> QED BY <1>1, <1>2, <2>2, <2>5, RestSteps
<1> QED BY <1>3, <1>4, <1>5, <1>6 DEF Next, RunStep

\* The types hold at first, and so always.
LEMMA InitTypes == Init => TypeInv
<1> SUFFICES ASSUME Init PROVE TypeRest /\ Counted
  BY DEF TypeInv
<1>1. IsCounted(NoTask)
  BY PipelineAssumption DEF IsCounted, NoTask, States
<1>2. Counted
  BY <1>1 DEF Init, Counted
<1>3. Len(kept) = 0 /\ Len(findings) = 0
  BY DEF Init
<1>4. phase = "ingesting" /\ texts = {} /\ flagged = {} /\ done = {} /\ turn = 1
      /\ against = 1 /\ judged = 0
  BY DEF Init
<1>5. audio \in BOOLEAN /\ begun \in BOOLEAN /\ delivery \in BOOLEAN
  BY DEF Init
<1>6. turn \in 1..6 /\ against \in 1..(Len(kept) + 1) /\ judged \in 0..Len(findings)
  BY <1>3, <1>4
<1>7. phase \in {"ingesting", "analyzing", "judging", "reported", "failed"}
      /\ texts \subseteq Slides /\ flagged \subseteq Slides /\ done \subseteq Names
  BY <1>4
<1>8. TypeRest
  BY <1>5, <1>6, <1>7 DEF TypeRest
<1> QED BY <1>2, <1>8

LEMMA TypeInvHolds == Spec => []TypeInv
BY InitTypes, InvHolds, ContentHolds, TypeStep, PTL DEF Spec

\* The type invariant of the pipeline: in particular the tasks' calls stay within
\* 0..MaxZooms + 2, though every answer changes them by what the model said
\* (zoom_agent.py, chart_checker.py).
THEOREM TypesHold == Spec => []TypeOK
<1>1. TypeInv => TypeOK
  BY TypeInvTypes
<1> QED BY <1>1, TypeInvHolds, PTL

(***************************************************************************)
(* Why the run ends: what is left of it becomes less at every step.        *)
(***************************************************************************)
\* What is left of the run: its stages, the beginnings and ends of turns, the
\* findings to judge, and those kept with which one of them may be compared.
StagesLeft ==
  CASE phase = "ingesting" -> 3 [] phase = "analyzing" -> 2 [] phase = "judging" -> 1 [] OTHER -> 0
TurnsLeft == 2 * (6 - turn) + (IF begun THEN 0 ELSE 1)
ToJudge == Len(findings) - Len(kept) - judged
ToCompare == Len(kept) + 1 - against

\* What is left of a task: its answers, and the slot it waits for.
CallsLeft(t) ==
  CASE t.at = "queued" -> t.calls + 1 [] t.at = "asked" -> t.calls [] OTHER -> 0

\* All of these are counts, so none becomes less for ever.
Counts ==
  /\ StagesLeft \in Nat /\ TurnsLeft \in Nat /\ ToJudge \in Nat /\ ToCompare \in Nat
  /\ \A a \in Names, p \in Parts : CallsLeft(task[a][p]) \in Nat

\* The run advances: the first of its counts to change is lower.
RunAdvances ==
  \/ StagesLeft' < StagesLeft
  \/ StagesLeft' = StagesLeft /\ TurnsLeft' < TurnsLeft
  \/ StagesLeft' = StagesLeft /\ TurnsLeft' = TurnsLeft /\ ToJudge' < ToJudge
  \/ /\ StagesLeft' = StagesLeft /\ TurnsLeft' = TurnsLeft /\ ToJudge' = ToJudge
     /\ ToCompare' < ToCompare

\* Or one task does, and neither the run nor any other task is set back.
TaskAdvances ==
  /\ StagesLeft' = StagesLeft /\ TurnsLeft' = TurnsLeft
  /\ ToJudge' = ToJudge /\ ToCompare' = ToCompare
  /\ \E a \in Names, p \in Parts :
       /\ CallsLeft(task'[a][p]) < CallsLeft(task[a][p])
       /\ \A b \in Names, q \in Parts : b # a \/ q # p => task'[b][q] = task[b][q]

\* No step of a run, nor of the strays beside and after it, can be repeated for
\* ever: what FairSpec takes for granted, and the safety half of RunEnds.
RunsWearOut == [][Counts /\ Counts' /\ (RunAdvances \/ TaskAdvances)]_vars

LEMMA TheCounts ==
  ASSUME PipelineInv, ContentInv, TypeInv
  PROVE  Counts
<1>1. StagesLeft \in Nat
  BY DEF StagesLeft
<1>2. TurnsLeft \in Nat
  BY DEF TurnsLeft, TypeInv, TypeRest
<1>3. Len(findings) \in Nat /\ Len(kept) \in Nat /\ judged \in Nat /\ Len(kept) + judged <= Len(findings)
  BY DEF ContentInv, JudgedGood, FindingsGood
<1>4. ToJudge \in Nat
  BY <1>3 DEF ToJudge
<1>5. against \in 1..(Len(kept) + 1)
  BY DEF TypeInv, TypeRest
<1>6. ToCompare \in Nat
  BY <1>3, <1>5 DEF ToCompare
<1>7. \A a \in Names, p \in Parts : CallsLeft(task[a][p]) \in Nat
  <2> SUFFICES ASSUME NEW a \in Names, NEW p \in Parts PROVE CallsLeft(task[a][p]) \in Nat
    OBVIOUS
  <2>1. task[a][p].calls \in Nat
    BY PipelineAssumption DEF TypeInv, Counted, IsCounted
  <2> QED BY <2>1 DEF CallsLeft
<1> QED BY <1>1, <1>2, <1>4, <1>6, <1>7 DEF Counts

\* Every step of a task uses up one of its calls, or the slot it waited for.
LEMMA TaskWearsOut ==
  ASSUME PipelineInv, Counted, NEW a \in Names, NEW p \in Parts, TaskStep(a, p)
  PROVE  \E next : Advance(a, p, next) /\ CallsLeft(next) < CallsLeft(task[a][p])
<1>1. /\ DOMAIN task[a][p] = {"at", "calls", "found", "chart"} /\ IsCounted(task[a][p])
      /\ MaxZooms \in Nat
  BY PipelineAssumption DEF PipelineInv, TasksGood, IsTask, Counted
<1>2. task[a][p].calls \in Nat
  BY <1>1 DEF IsCounted
<1>3. task[a][p].at = "queued" => CallsLeft(task[a][p]) = task[a][p].calls + 1
  BY DEF CallsLeft
<1>4. task[a][p].at = "asked" => CallsLeft(task[a][p]) = task[a][p].calls /\ task[a][p].calls > 0
  BY <1>1, <1>2 DEF CallsLeft, IsCounted
<1>5. CASE Ask(a, p)
  <2>1. PICK next : next = [task[a][p] EXCEPT !.at = "asked"] /\ Advance(a, p, next)
    BY <1>5 DEF Ask
  <2>2. next.at = "asked" /\ next.calls = task[a][p].calls /\ task[a][p].at = "queued"
    BY <1>1, <1>5, <2>1 DEF Ask
  <2>3. CallsLeft(next) < CallsLeft(task[a][p])
    BY <1>2, <1>3, <2>2 DEF CallsLeft
  <2> QED BY <2>1, <2>3
<1>6. task[a][p].at \in {"queued", "asked"} => CallsLeft(task[a][p]) > 0
  BY <1>2, <1>3, <1>4
<1>7. CASE Fail(a, p)
  <2>1. PICK next : next = [task[a][p] EXCEPT !.at = "failed", !.calls = 0] /\ Advance(a, p, next)
    BY <1>7 DEF Fail
  <2>2. next.at = "failed" /\ task[a][p].at \in {"queued", "asked"}
    BY <1>1, <1>7, <2>1 DEF Fail
  <2>3. CallsLeft(next) = 0
    BY <2>2 DEF CallsLeft
  <2> QED BY <1>6, <2>1, <2>2, <2>3
<1>8. ASSUME NEW found, NEW chart
      PROVE  CallsLeft(Answered(found)) = 0 /\ CallsLeft([Answered(found) EXCEPT !.chart = chart]) = 0
  BY DEF CallsLeft, Answered, NoTask
<1>9. ASSUME NEW found, NEW calls \in Nat PROVE CallsLeft(Continued(a, p, found, calls)) = calls
  <2>1. PICK next : next = Continued(a, p, found, calls)
    OBVIOUS
  <2>2. next.calls = calls /\ next.at = IF calls = 0 THEN "answered" ELSE "asked"
    BY <1>1, <2>1 DEF Continued
  <2> QED BY <2>1, <2>2 DEF CallsLeft
<1>10. CASE a = "slide_analyzer" /\ AnswerSlide(p)
  <2>1. PICK answer \in Answers[a], chart \in BOOLEAN :
          Advance(a, p, [Answered(Stamp(a, p, answer)) EXCEPT !.chart = chart])
    BY <1>10 DEF AnswerSlide
  <2>2. task[a][p].at = "asked"
    BY <1>10 DEF AnswerSlide, Asked
  <2> QED BY <1>6, <1>8, <2>1, <2>2
<1>11. CASE a = "zoom_agent" /\ AnswerScreening(p)
  <2>1. PICK regions \in 0..MaxZooms : Advance(a, p, Continued(a, p, <<>>, regions))
    BY <1>11 DEF AnswerScreening
  <2>2. task[a][p].at = "asked" /\ task[a][p].calls = MaxZooms + 1
    BY <1>11 DEF AnswerScreening, Asked
  <2>3. regions \in Nat /\ regions < task[a][p].calls
    BY <1>1, <2>2
  <2>4. CallsLeft(Continued(a, p, <<>>, regions)) = regions
    BY <1>9, <2>3
  <2> QED BY <1>4, <2>1, <2>2, <2>3, <2>4
<1>12. CASE \/ a = "zoom_agent" /\ AnswerZoom(p)
            \/ a = "chart_checker" /\ AnswerChart(p)
  <2>1. PICK found : Advance(a, p, Continued(a, p, found, task[a][p].calls - 1))
    BY <1>12 DEF AnswerZoom, AnswerChart
  <2>2. task[a][p].at = "asked"
    BY <1>12 DEF AnswerZoom, AnswerChart, Asked
  <2>3. task[a][p].calls - 1 \in Nat /\ task[a][p].calls - 1 < task[a][p].calls
    BY <1>2, <1>4, <2>2
  <2>4. CallsLeft(Continued(a, p, found, task[a][p].calls - 1)) = task[a][p].calls - 1
    BY <1>9, <2>3
  <2> QED BY <1>4, <2>1, <2>2, <2>3, <2>4
<1>13. CASE \/ a = "deck_analyzer" /\ AnswerDeck(p)
            \/ a = "crossmodal_analyzer" /\ AnswerSpeech(p)
  <2>1. PICK found : Advance(a, p, Answered(found))
    BY <1>13 DEF AnswerDeck, AnswerSpeech
  <2>2. task[a][p].at = "asked"
    BY <1>13 DEF AnswerDeck, AnswerSpeech, Asked
  <2> QED BY <1>6, <1>8, <2>1, <2>2
<1> QED BY <1>5, <1>7, <1>10, <1>11, <1>12, <1>13 DEF TaskStep

\* A turn begins, and has an end before it.
LEMMA BeginAdvances ==
  ASSUME PipelineInv, NEW a, NEW tasks, Begin(a, tasks)
  PROVE  RunAdvances
<1>1. UNCHANGED <<phase, turn>> /\ begun' = TRUE /\ begun = FALSE /\ turn \in 1..6
  BY DEF Begin, PipelineInv, TurnGood
<1>2. StagesLeft' = StagesLeft
  BY <1>1 DEF StagesLeft
<1>3. TurnsLeft' < TurnsLeft
  BY <1>1 DEF TurnsLeft
<1> QED BY <1>2, <1>3 DEF RunAdvances

\* The judge never turns back among the findings kept.
LEMMA DenyAdvances ==
  ASSUME ContentInv, TypeRest, DenySameIssue
  PROVE  RunAdvances
<1>1. UNCHANGED <<phase, turn, begun, findings, kept, judged>> /\ against' = Min(Rivals) + 1
  BY DEF DenySameIssue, stepping
<1>2. Len(kept) \in Nat /\ against \in Nat
  BY DEF ContentInv, JudgedGood, TypeRest
<1>3. Rivals \in SUBSET (against..Len(kept)) /\ Rivals \in SUBSET Nat /\ Rivals # {}
  BY <1>2 DEF Rivals, DenySameIssue
<1>4. PICK x \in Rivals : \A y \in Rivals : x <= y
  BY <1>3, WellOrdered
<1>5. Min(Rivals) \in Rivals
  <2> HIDE DEF Rivals
  <2> QED BY <1>4 DEF Min
<1>6. PICK m : m = Min(Rivals)
  OBVIOUS
<1>7. m \in against..Len(kept)
  BY <1>3, <1>5, <1>6
<1>8. ToCompare' < ToCompare
  BY <1>1, <1>2, <1>6, <1>7 DEF ToCompare
<1>9. StagesLeft' = StagesLeft /\ TurnsLeft' = TurnsLeft /\ ToJudge' = ToJudge
  BY <1>1 DEF StagesLeft, TurnsLeft, ToJudge
<1> QED BY <1>8, <1>9 DEF RunAdvances

\* Each step of the run is a step towards its end.
LEMMA RunStepAdvances ==
  ASSUME PipelineInv, ContentInv, TypeRest, RunStep
  PROVE  RunAdvances
<1>1. CASE Ingest \/ IngestFails \/ StartJudging \/ JudgeFails \/ Report \/ ReportFails
  <2>1. \/ phase = "ingesting" /\ phase' \in {"analyzing", "failed"}
        \/ phase = "analyzing" /\ phase' = "judging"
        \/ phase = "judging" /\ phase' \in {"reported", "failed"}
    BY <1>1 DEF Ingest, IngestFails, StartJudging, JudgeFails, Judging, Report, ReportFails
  <2> QED BY <2>1 DEF RunAdvances, StagesLeft
<1>2. CASE BeginVision \/ BeginQuiet \/ BeginSpeech \/ BeginFails
  <2>1. \E a, tasks : Begin(a, tasks)
    BY <1>2 DEF BeginVision, BeginQuiet, BeginSpeech, BeginFails
  <2> QED BY <2>1, BeginAdvances
<1>3. CASE AnalyzerDone \/ AnalyzerFailed
  <2>1. UNCHANGED phase /\ turn' = turn + 1 /\ begun' = FALSE /\ begun = TRUE /\ turn \in 1..6
    BY <1>3 DEF AnalyzerDone, AnalyzerFailed, PipelineInv, TurnGood
  <2>2. StagesLeft' = StagesLeft
    BY <2>1 DEF StagesLeft
  <2>3. TurnsLeft' < TurnsLeft
    BY <2>1 DEF TurnsLeft
  <2> QED BY <2>2, <2>3 DEF RunAdvances
<1>4. CASE Keep \/ ConfirmSameIssue
  <2>1. UNCHANGED <<phase, turn, begun, findings>>
    BY <1>4 DEF Keep, ConfirmSameIssue, stepping
  <2>2. StagesLeft' = StagesLeft /\ TurnsLeft' = TurnsLeft
    BY <2>1 DEF StagesLeft, TurnsLeft
  <2>3. /\ kept \in Seq(Bare) /\ Len(kept) \in Nat /\ judged \in Nat /\ Len(findings) \in Nat
    BY DEF ContentInv, JudgedGood, FindingsGood
  <2>4. \/ Len(kept') = Len(kept) + 1 /\ judged' = judged
        \/ Len(kept') = Len(kept) /\ judged' = judged + 1
    BY <1>4, <2>3 DEF Keep, ConfirmSameIssue
  <2>5. ToJudge' < ToJudge
    BY <2>1, <2>3, <2>4 DEF ToJudge
  <2> QED BY <2>2, <2>5 DEF RunAdvances
<1>5. CASE DenySameIssue
  BY <1>5, DenyAdvances
<1> QED BY <1>1, <1>2, <1>3, <1>4, <1>5 DEF RunStep

\* However many calls fail, and whatever the model answers, every step leaves
\* less to do: no analyzer, no judge and no stray goes round in circles
\* (orchestrator.py, aggregate.py; zoom.py for the calls of a task).
THEOREM RunsAlwaysWearOut == Spec => RunsWearOut
<1>1. PipelineInv /\ ContentInv /\ TypeInv /\ [Next]_vars
        => [Counts /\ Counts' /\ (RunAdvances \/ TaskAdvances)]_vars
  <2> SUFFICES ASSUME PipelineInv, ContentInv, TypeInv, Next
               PROVE  Counts /\ Counts' /\ (RunAdvances \/ TaskAdvances)
    OBVIOUS
  <2>1. PipelineInv' /\ ContentInv' /\ TypeInv'
    BY StepGood, ContentStep, TypeStep
  <2>2. Counts /\ Counts'
    BY <2>1, TheCounts, PTL
  <2>3. ASSUME NEW a \in Names, NEW p \in Parts, TaskStep(a, p) PROVE TaskAdvances
    <3>1. PICK next : Advance(a, p, next) /\ CallsLeft(next) < CallsLeft(task[a][p])
      BY <2>3, TaskWearsOut DEF TypeInv
    <3>2. \A b \in Names, q \in Parts :
            task'[b][q] = IF b = a /\ q = p THEN next ELSE task[b][q]
      BY <3>1 DEF Advance, PipelineInv, TasksGood
    <3>3. UNCHANGED <<phase, turn, begun, findings, kept, judged, against>>
      BY <3>1 DEF Advance, stepping, judging
    <3>4. StagesLeft' = StagesLeft /\ TurnsLeft' = TurnsLeft /\ ToJudge' = ToJudge /\ ToCompare' = ToCompare
      BY <3>3 DEF StagesLeft, TurnsLeft, ToJudge, ToCompare
    <3> QED BY <3>1, <3>2, <3>4 DEF TaskAdvances
  <2> QED BY <2>2, <2>3, RunStepAdvances DEF Next, TypeInv
<1> QED BY <1>1, TypeInvHolds, InvHolds, ContentHolds, PTL DEF Spec, RunsWearOut
==============================================================================
