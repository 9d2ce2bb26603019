--------------------------- MODULE RehearsalRecorder ---------------------------
(***************************************************************************)
(* The page that records a rehearsal: the question for the microphone, the *)
(* recorders, the tracker of slide timings, the upload, and what           *)
(* analyze_rehearsal and the report make of an uploaded recording.         *)
(*                                                                         *)
(* One step is one event of the page: a click, a key, the answer of the    *)
(* browser or of the server, or a second that passes.                      *)
(***************************************************************************)
EXTENDS SpeechAnalysis

CONSTANTS
  Slides,       \* the number of slides of the deck
  MaxSeconds,   \* bound: the length of a recording
  MaxEntries,   \* bound: the visits of slides in one recording
  MaxStarts,    \* bound: clicks on the start button
  MaxStops,     \* bound: clicks on the stop button
  MaxSlips,     \* bound: awkward moments
  Transcripts   \* what may be heard in a recording

Segments == [start : Nat, end : Nat, words : Nat, fillers : Nat]

ASSUME RecorderAssumption ==
  /\ {Slides, MaxSeconds, MaxEntries, MaxStarts, MaxStops, MaxSlips} \subseteq Nat \ {0}
  /\ Transcripts \subseteq Seq(Segments)

VARIABLES
  page,       \* "open" or "left"
  phase,      \* the state of that name
  slide,      \* the slide on the screen, slides[currentIndex]
  clicks,     \* clicks on start so far; they number the recorders
  asks,       \* getUserMedia calls without answer, with the slide of the click
  recorder,   \* mediaRecorderRef, 0 for null
  mics,       \* recorders whose microphone is live
  chunks,     \* chunksRef, the recorders whose sound is in it
  timer,      \* tickRef, 0 for null
  timers,     \* recorders whose interval is running
  timings,    \* the entries of the tracker
  screen,     \* history: the slide on the screen in each second since start
  stopping,   \* for each recorder its listeners for "stop" that have not fired
  uploads,    \* the POSTs of recordings, in order
  slips       \* history: what the user did at an awkward moment

vars == <<page, phase, slide, clicks, asks, recorder, mics, chunks, timer, timers,
          timings, screen, stopping, uploads, slips>>
sound == <<recorder, mics, chunks, timer, timers>>

Elapsed == Len(screen)
Open == MaxSeconds + 1   \* the end of the entry that is open
Entries == [slide : 1..Slides, start : 0..MaxSeconds, end : 0..Open]

TypeOK ==
  /\ page \in {"open", "left"} /\ phase \in {"idle", "recording", "uploading"}
  /\ slide \in 1..Slides /\ clicks \in 0..MaxStarts
  /\ asks \subseteq [rec : 1..MaxStarts, slide : 1..Slides]
  /\ {recorder, timer} \subseteq 0..MaxStarts
  /\ mics \cup chunks \cup timers \subseteq 1..MaxStarts
  /\ ToSet(timings) \subseteq Entries
  /\ ToSet(screen) \subseteq 1..Slides /\ Len(screen) <= MaxSeconds
  /\ DOMAIN stopping = 1..MaxStarts
  /\ \A rec \in 1..MaxStarts : \A l \in ToSet(stopping[rec]) :
       l.seconds \in 0..MaxSeconds /\ ToSet(l.timings) \subseteq Entries
  /\ \A u \in ToSet(uploads) :
       /\ u.rec \in 1..MaxStarts /\ u.state \in {"sent", "failed", "stored", "analysed"}
       /\ u.seconds \in 0..MaxSeconds /\ ToSet(u.timings) \subseteq Entries
       /\ u.audio \subseteq 1..MaxStarts
  /\ slips \subseteq {"started_twice", "stopped_twice", "paged_while_asking", "left_while_asking"}

Init ==
  /\ page = "open" /\ phase = "idle" /\ slide = 1 /\ clicks = 0
  /\ asks = {} /\ recorder = 0 /\ mics = {} /\ chunks = {} /\ timer = 0 /\ timers = {}
  /\ timings = <<>> /\ screen = <<>> /\ uploads = <<>>
  /\ stopping = [rec \in 1..MaxStarts |-> <<>>]
  /\ slips = {}

Slip(happened, what) == slips' = IF happened THEN slips \cup {what} ELSE slips

(***************************************************************************)
(* The tracker.                                                            *)
(***************************************************************************)
\* switchTo ends the last entry, even one that has ended already.
Switched(s) ==
  LET last == Len(timings)
  IN Append([timings EXCEPT ![last].end = Elapsed],
            [slide |-> s, start |-> Elapsed, end |-> Open])

\* stop ends the last entry if it is open.
Stopped ==
  LET last == Len(timings)
  IN [timings EXCEPT ![last].end = IF @ = Open THEN Elapsed ELSE @]

(***************************************************************************)
(* The page.                                                               *)
(***************************************************************************)
\* startRecording up to its await: the button stays there, the phase idle.
Start ==
  /\ page = "open" /\ phase = "idle" /\ clicks < MaxStarts
  /\ clicks' = clicks + 1
  /\ asks' = asks \cup {[rec |-> clicks', slide |-> slide]}
  /\ Slip(asks # {}, "started_twice")
  /\ UNCHANGED <<page, phase, slide, sound, timings, screen, stopping, uploads>>

Deny(a) ==
  /\ a \in asks
  /\ asks' = asks \ {a}
  /\ UNCHANGED <<page, phase, slide, clicks, sound, timings, screen, stopping, uploads, slips>>

\* What startRecording does with a recorder of its own.
Recorders(a) ==
  /\ a \in asks
  /\ asks' = asks \ {a}
  /\ recorder' = a.rec /\ mics' = mics \cup {a.rec}
  /\ timer' = a.rec /\ timers' = timers \cup {a.rec}
  /\ timings' = <<[slide |-> a.slide, start |-> 0, end |-> Open]>>
  /\ screen' = <<>>
  /\ phase' = IF page = "open" THEN "recording" ELSE phase
  /\ slips' = slips \cup {what \in {"left_while_asking", "paged_while_asking"} :
                            IF what = "left_while_asking" THEN page = "left" ELSE slide # a.slide}
  /\ UNCHANGED <<page, slide, clicks, stopping, uploads>>

\* A mutation of Grant: what was recorded before stays.
GrantKeepsChunks(a) == Recorders(a) /\ UNCHANGED chunks

\* The rest of startRecording, with the slide of the click, whether the page is
\* still there or not.  All recorders share the list of chunks.
Grant(a) == Recorders(a) /\ chunks' = {}

\* goToSlide, by the buttons or the arrow keys.
GoToSlide(s) ==
  /\ page = "open" /\ s \in {slide - 1, slide + 1} \cap 1..Slides
  /\ slide' = s
  /\ IF phase = "recording"
     THEN Len(timings) < MaxEntries /\ timings' = Switched(s)
     ELSE UNCHANGED timings
  /\ UNCHANGED <<page, phase, clicks, asks, sound, screen, stopping, uploads, slips>>

Second ==
  /\ page = "open" /\ phase = "recording" /\ Elapsed < MaxSeconds
  /\ screen' = Append(screen, slide)
  /\ UNCHANGED <<page, phase, slide, clicks, asks, sound, timings, stopping, uploads, slips>>

\* How much a recorder has recorded: a second click on stop finds it stopped
\* already.
Recorded(rec) == IF stopping[rec] = <<>> THEN Elapsed ELSE Head(stopping[rec]).seconds

\* A click on stop adds a listener.
Listened(rec) ==
  [stopping EXCEPT ![rec] =
     Append(@, [timings |-> Stopped, screen |-> screen, seconds |-> Recorded(rec)])]

\* The clicks on stop that are bounded.
Stops ==
  Len(uploads) + Cardinality({p \in (1..MaxStarts) \X (1..MaxStops) : p[2] \in DOMAIN stopping[p[1]]})

\* A mutation of Stop: the interval goes on.
StopKeepsTimer ==
  /\ page = "open" /\ phase = "recording" /\ Stops < MaxStops
  /\ timings' = Stopped
  /\ stopping' = Listened(recorder)
  /\ Slip(stopping[recorder] # <<>>, "stopped_twice")
  /\ UNCHANGED <<page, phase, slide, clicks, asks, sound, screen, uploads>>

\* stopRecording: the phase changes only with the event that follows.
Stop ==
  /\ page = "open" /\ phase = "recording" /\ Stops < MaxStops
  /\ timers' = timers \ {timer} /\ timer' = 0
  /\ timings' = Stopped
  /\ stopping' = Listened(recorder)
  /\ Slip(stopping[recorder] # <<>>, "stopped_twice")
  /\ UNCHANGED <<page, phase, slide, clicks, asks, recorder, mics, chunks, screen, uploads>>

Upload(rec, l, audio) == [rec |-> rec, timings |-> l.timings, screen |-> l.screen,
                          seconds |-> l.seconds, audio |-> audio,
                          state |-> "sent", speech |-> <<>>, delivery |-> {}, pacing |-> {}]

\* The last data of a recorder, which it gives as it stops, and its "stop" event:
\* each listener uploads all the chunks there are.
StopEvent(rec) ==
  /\ stopping[rec] # <<>>
  /\ chunks' = chunks \cup {rec}
  /\ uploads' = uploads \o [i \in DOMAIN stopping[rec] |-> Upload(rec, stopping[rec][i], chunks')]
  /\ stopping' = [stopping EXCEPT ![rec] = <<>>]
  /\ mics' = mics \ {rec}
  /\ phase' = IF page = "open" THEN "uploading" ELSE phase
  /\ UNCHANGED <<page, slide, clicks, asks, recorder, timer, timers, timings, screen, slips>>

\* The cleanup of the page.  A recorder that loses its microphone stops too, and
\* its data may come before the events of one that was stopped earlier.
Unmount ==
  /\ page' = "left"
  /\ timers' = timers \ {timer}
  /\ mics' = mics \ {recorder}
  /\ chunks' \in {chunks, chunks \cup {rec \in mics : rec = recorder /\ stopping[rec] = <<>>}}

Leave ==
  /\ page = "open"
  /\ Unmount
  /\ UNCHANGED <<phase, slide, clicks, asks, recorder, timer, timings, screen, stopping, uploads, slips>>

\* The server keeps nothing of an upload that failed.
Answered(u, state) ==
  IF state = "stored" THEN [u EXCEPT !.state = state]
  ELSE [u EXCEPT !.state = state, !.timings = <<>>, !.screen = <<>>, !.seconds = 0]

\* A mutation of UploadAnswered: the page waits on after an error.
UploadAnsweredOnly(i, state) ==
  /\ uploads[i].state = "sent"
  /\ uploads' = [uploads EXCEPT ![i] = Answered(@, state)]
  /\ IF state = "stored" /\ page = "open" THEN Unmount ELSE UNCHANGED <<page, timers, mics, chunks>>
  /\ UNCHANGED <<phase, slide, clicks, asks, recorder, timer, timings, screen, stopping, slips>>

\* A mutation of UploadAnswered: an upload that failed is sent once more.
UploadResent(i, state) ==
  /\ uploads[i].state = "sent"
  /\ IF state = "stored" THEN Unmount ELSE UNCHANGED <<page, timers, mics, chunks>>
  /\ uploads' = IF state = "failed" /\ Len(uploads) < MaxStops
                THEN Append([uploads EXCEPT ![i].state = state], uploads[i])
                ELSE [uploads EXCEPT ![i].state = state]
  /\ UNCHANGED <<phase, slide, clicks, asks, recorder, timer, timings, screen, stopping, slips>>

\* Only the latest call of a mutation hook gets its callbacks: onRecorded takes
\* the user to the attempt, onError lets them record again.
UploadAnswered(i, state) ==
  /\ uploads[i].state = "sent"
  /\ uploads' = [uploads EXCEPT ![i] = Answered(@, state)]
  /\ LET told == page = "open" /\ i = Len(uploads)
     IN /\ phase' = IF told /\ state = "failed" THEN "idle" ELSE phase
        /\ IF told /\ state = "stored" THEN Unmount ELSE UNCHANGED <<page, timers, mics, chunks>>
  /\ UNCHANGED <<slide, clicks, asks, recorder, timer, timings, screen, stopping, slips>>

\* analyze_rehearsal, without its calls of the language model: what is heard
\* lies in the recording, if it is of the recorder that was stopped.
Analyze(i, speech) ==
  /\ uploads[i].state = "stored"
  /\ uploads[i].audio = {uploads[i].rec} => \A seg \in ToSet(speech) : seg.start < uploads[i].seconds
  /\ uploads' = [uploads EXCEPT
       ![i].state = "analysed", ![i].speech = speech,
       ![i].delivery = DeliveryFindings(speech),
       ![i].pacing = PacingFindings(WindowsFromTimings(uploads[i].timings))]
  /\ UNCHANGED <<page, phase, slide, clicks, asks, sound, timings, screen, stopping, slips>>

Event ==
  \/ Start \/ \E a \in asks : Deny(a) \/ Grant(a)
  \/ \E s \in 1..Slides : GoToSlide(s)
  \/ Second \/ Stop \/ Leave
  \/ \E rec \in 1..MaxStarts : StopEvent(rec)
  \/ \E i \in DOMAIN uploads : \/ \E state \in {"stored", "failed"} : UploadAnswered(i, state)
                               \/ \E speech \in Transcripts : Analyze(i, speech)

Next == Event /\ Cardinality(slips') <= MaxSlips

Spec == Init /\ [][Next]_vars

\* The browser stops a recorder, and every request is answered.
FairSpec ==
  /\ Spec
  /\ WF_vars(\E rec \in 1..MaxStarts : StopEvent(rec))
  /\ WF_vars(\E i \in DOMAIN uploads : \E state \in {"stored", "failed"} : UploadAnswered(i, state))

(***************************************************************************)
(* Properties.                                                             *)
(***************************************************************************)
Analysed == {u \in ToSet(uploads) : u.state = "analysed"}
Visits(u, s) == Cardinality({i \in DOMAIN u.timings : u.timings[i].slide = s})

\* What is heard in the window of a slide was said while the slide was on the
\* screen, and everything said there is heard if the slide was visited once,
\* unless the slide was changed while the microphone was being asked for, or the
\* sound is that of another recorder
\* (slideTimingTracker, windows_from_slide_timings, _check_speech_mismatch_text).
WordsMeetTheirSlide ==
  "paged_while_asking" \notin slips =>
    \A u \in {v \in Analysed : v.audio = {v.rec}} : LET windows == WindowsFromTimings(u.timings) IN
      \A s \in DOMAIN windows : LET heard == Heard(u.speech, windows[s]) IN
        \A seg \in ToSet(u.speech) :
          /\ seg \in heard => u.screen[seg.start + 1] = s
          /\ u.screen[seg.start + 1] = s /\ Visits(u, s) = 1 => seg \in heard

\* What the findings say of the pacing of a slide, the timing map of the report
\* says of one of its visits (_pacing_findings and classify_slide_pacing state
\* the thresholds twice).
PacingIsInTheMap ==
  \A u \in Analysed : \A f \in u.pacing :
    \E e \in ToSet(u.timings) : e.slide = f.slide /\ SlidePacing(e.end - e.start) = f.kind

\* An upload has the sound of the recorder it belongs to and no other, also
\* after recordings whose upload failed, unless the recording was started twice:
\* then the second upload can carry both (chunksRef is shared by the recorders).
SoundIsOfItsRecorder ==
  "started_twice" \in slips \/ \A u \in ToSet(uploads) : u.audio = {u.rec}

\* No microphone or interval is left behind when nothing is recorded, even when
\* the page is left before a recorder has stopped, unless the recording was
\* started twice or the page left while the microphone was being asked for
\* (startRecording awaits with the phase still idle).
MicIsReleased ==
  (page = "left" \/ phase = "idle") /\ slips \cap {"started_twice", "left_while_asking"} = {}
  => mics = {} /\ timers = {}

\* A recording makes one attempt, unless stop was clicked again before the
\* recorder had stopped (stopRecording adds a listener per click).
OneAttemptPerRecording ==
  "stopped_twice" \in slips \/ IsInjective([i \in DOMAIN uploads |-> uploads[i].rec])

\* The page does not hang in an upload (the callbacks of createRehearsal).
UploadEnds == phase = "uploading" ~> phase # "uploading" \/ page = "left"
===============================================================================
