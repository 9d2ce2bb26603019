----------------------- MODULE RehearsalRecorderProofs ------------------------
(***************************************************************************)
(* What holds of RehearsalRecorder for every deck, any number and length   *)
(* of recordings, and any number of awkward moments: what the microphone   *)
(* and the uploads do, and that the slide timings tell what was on the     *)
(* screen.                                                                 *)
(***************************************************************************)
EXTENDS RehearsalRecorder, FiniteSetTheorems, WellFoundedInduction, TLAPS

Listeners == [timings : Seq(Entries), screen : Seq(1..Slides), seconds : 0..MaxSeconds]
Findings == [slide : 1..Slides, kind : {"swamp", "stub"}]
Uploads ==
  [rec : 1..MaxStarts, timings : Seq(Entries), screen : Seq(1..Slides), seconds : 0..MaxSeconds,
   audio : SUBSET (1..MaxStarts), state : {"sent", "failed", "stored", "analysed"}, speech : Transcripts \cup {<<>>},
   delivery : SUBSET {"rate", "fillers", "pauses"}, pacing : SUBSET Findings]

Typed ==
  /\ page \in {"open", "left"} /\ phase \in {"idle", "recording", "uploading"}
  /\ slide \in 1..Slides /\ clicks \in 0..MaxStarts
  /\ asks \subseteq [rec : 1..MaxStarts, slide : 1..Slides]
  /\ recorder \in 0..MaxStarts /\ timer \in 0..MaxStarts
  /\ mics \subseteq 1..MaxStarts /\ chunks \subseteq 1..MaxStarts /\ timers \subseteq 1..MaxStarts
  /\ timings \in Seq(Entries)
  /\ screen \in Seq(1..Slides) /\ Len(screen) <= MaxSeconds
  /\ stopping \in [1..MaxStarts -> Seq(Listeners)]
  /\ uploads \in Seq(Uploads)
  /\ slips \subseteq {"started_twice", "stopped_twice", "paged_while_asking", "left_while_asking"}

Recording == page = "open" /\ phase = "recording"

\* A click numbers one recorder, which is asked for before it is used.
Asked(rec) == \E a \in asks : a.rec = rec
Uploaded(rec) == \E i \in DOMAIN uploads : uploads[i].rec = rec
Used(rec) == rec = recorder \/ stopping[rec] # <<>> \/ Uploaded(rec)
Numbered ==
  /\ \A rec \in 1..MaxStarts : Asked(rec) \/ Used(rec) => rec <= clicks
  /\ \A rec \in 1..MaxStarts : Asked(rec) => ~ Used(rec)
  /\ \A a, b \in asks : a.rec = b.rec => a = b
  /\ Recording => recorder # 0 /\ timings # <<>>

\* What is recorded has not been uploaded.
Once ==
  "stopped_twice" \notin slips =>
    /\ \A rec \in 1..MaxStarts : /\ Len(stopping[rec]) <= 1
                                 /\ stopping[rec] # <<>> => ~ Uploaded(rec)
    /\ Recording => ~ Uploaded(recorder)
    /\ \A i, j \in DOMAIN uploads : uploads[i].rec = uploads[j].rec => i = j

\* The page has one recording at a time.
Clean == slips \cap {"started_twice", "left_while_asking"} = {}
Alone ==
  Clean =>
    /\ \A a, b \in asks : a = b
    /\ asks # {} => phase = "idle"
    /\ mics \subseteq {recorder} /\ timers \subseteq {timer}
    /\ page = "left" \/ phase # "recording" => mics = {} /\ timers = {}
    /\ \A rec \in 1..MaxStarts : stopping[rec] # <<>> =>
         rec = recorder /\ timers = {} /\ phase = "recording"
    /\ page = "open" /\ uploads # <<>> /\ uploads[Len(uploads)].state = "sent" => phase = "uploading"

\* The chunks are those of the one recorder there is.
Sole ==
  "started_twice" \notin slips =>
    /\ \A a, b \in asks : a = b
    /\ asks # {} => phase = "idle"
    /\ \A rec \in 1..MaxStarts : stopping[rec] # <<>> => rec = recorder /\ phase = "recording"
    /\ page = "open" /\ uploads # <<>> /\ uploads[Len(uploads)].state = "sent" => phase = "uploading"
    /\ chunks \subseteq {recorder}
    /\ \A i \in DOMAIN uploads : uploads[i].audio = {uploads[i].rec}

\* Up to the second end the entries are those of the slides on the screen.
Tells(entries, shown, end) ==
  /\ end <= Len(shown)
  /\ \A k \in DOMAIN entries : \A sec \in 0..MaxSeconds :
       sec < end /\ entries[k].start <= sec /\ sec < entries[k].end => shown[sec + 1] = entries[k].slide
  /\ \A sec \in 0..MaxSeconds :
       sec < end => \E k \in DOMAIN entries : entries[k].start <= sec /\ sec < entries[k].end

\* The tracker follows the slide on the screen.
Prompt == "paged_while_asking" \notin slips
Follows ==
  Prompt /\ Recording =>
    /\ Tells(timings, screen, Recorded(recorder))
    /\ timings # <<>>
    /\ timings[Len(timings)].slide = slide
    /\ Recorded(recorder) <= timings[Len(timings)].end
    /\ stopping[recorder] = <<>> => timings[Len(timings)].end = Open
    /\ \A k \in DOMAIN timings :
         timings[k].start <= Elapsed /\ (k # Len(timings) => timings[k].end <= Elapsed)

\* What was recorded goes into the upload.
Kept ==
  Prompt =>
    /\ \A rec \in 1..MaxStarts : \A i \in DOMAIN stopping[rec] :
         Tells(stopping[rec][i].timings, stopping[rec][i].screen, stopping[rec][i].seconds)
    /\ \A i \in DOMAIN uploads : Tells(uploads[i].timings, uploads[i].screen, uploads[i].seconds)

Heeded ==
  \A i \in DOMAIN uploads : uploads[i].state = "analysed" =>
    /\ uploads[i].speech \in Transcripts
    /\ uploads[i].audio = {uploads[i].rec} =>
         \A seg \in ToSet(uploads[i].speech) : seg.start < uploads[i].seconds
    /\ uploads[i].pacing = PacingFindings(WindowsFromTimings(uploads[i].timings))

RecorderInv == Typed /\ Numbered /\ Once /\ Alone /\ Sole /\ Follows /\ Kept /\ Heeded

(***************************************************************************)
(* Types.                                                                  *)
(***************************************************************************)
LEMMA Constants ==
  /\ Slides \in Nat \ {0} /\ MaxSeconds \in Nat \ {0} /\ MaxStarts \in Nat \ {0}
  /\ Open = MaxSeconds + 1 /\ Open \in Nat
BY RecorderAssumption DEF Open

LEMMA SlipTyped ==
  ASSUME Typed, NEW happened \in BOOLEAN, NEW what, Slip(happened, what),
         what \in {"started_twice", "stopped_twice"}
  PROVE  /\ slips' \subseteq {"started_twice", "stopped_twice", "paged_while_asking", "left_while_asking"}
         /\ slips \subseteq slips'
         /\ slips' \subseteq slips \cup {what}
         /\ happened => what \in slips'
BY DEF Typed, Slip

LEMMA InitTyped == Init => Typed
<1> SUFFICES ASSUME Init PROVE Typed
  OBVIOUS
<1>1. Slides \in Nat \ {0} /\ MaxSeconds \in Nat \ {0} /\ MaxStarts \in Nat \ {0}
  BY Constants
<1>2. stopping \in [1..MaxStarts -> Seq(Listeners)]
  BY DEF Init
<1>3. timings \in Seq(Entries) /\ screen \in Seq(1..Slides) /\ Len(screen) <= MaxSeconds /\ uploads \in Seq(Uploads)
  BY <1>1 DEF Init
<1> QED BY <1>1, <1>2, <1>3 DEF Init, Typed

LEMMA SwitchedTyped ==
  ASSUME Typed, timings # <<>>, NEW s \in 1..Slides
  PROVE  /\ Switched(s) \in Seq(Entries) /\ Len(Switched(s)) = Len(timings) + 1
         /\ Switched(s)[Len(timings) + 1] = [slide |-> s, start |-> Elapsed, end |-> Open]
         /\ Switched(s)[Len(timings)] = [timings[Len(timings)] EXCEPT !.end = Elapsed]
         /\ \A k \in 1..Len(timings) - 1 : Switched(s)[k] = timings[k]
<1> DEFINE last == Len(timings)
           closed == [timings[last] EXCEPT !.end = Elapsed]
           new == [slide |-> s, start |-> Elapsed, end |-> Open]
<1>1. last \in Nat /\ last \in 1..last /\ timings \in Seq(Entries) /\ timings[last] \in Entries
  BY DEF Typed
<1>2. Elapsed \in 0..MaxSeconds
  BY Constants DEF Elapsed, Typed
<1>3. closed \in Entries /\ new \in Entries
  <2>1. Elapsed \in 0..Open /\ Open \in 0..Open
    BY <1>2, Constants
  <2>2. timings[last] \in Entries
    BY <1>1
  <2> QED BY <1>2, <2>1, <2>2 DEF Entries
<1>4. Switched(s) = Append([timings EXCEPT ![last] = closed], new)
  BY DEF Switched
<1> HIDE DEF closed, new, last
<1>5. [timings EXCEPT ![last] = closed] \in Seq(Entries) /\ Len([timings EXCEPT ![last] = closed]) = last
  BY <1>1, <1>3 DEF last
<1>6. [timings EXCEPT ![last] = closed][last] = closed
      /\ \A k \in 1..last - 1 : [timings EXCEPT ![last] = closed][k] = timings[k]
  BY <1>1 DEF last
<1>7. Switched(s) \in Seq(Entries) /\ Len(Switched(s)) = last + 1 /\ Switched(s)[last + 1] = new
  BY <1>1, <1>3, <1>4, <1>5
<1>8. \A k \in 1..last : Switched(s)[k] = [timings EXCEPT ![last] = closed][k]
  BY <1>1, <1>3, <1>4, <1>5
<1> QED BY <1>1, <1>6, <1>7, <1>8 DEF last, closed, new

LEMMA StoppedTyped ==
  ASSUME Typed
  PROVE  /\ Stopped \in Seq(Entries) /\ Len(Stopped) = Len(timings) /\ DOMAIN Stopped = DOMAIN timings
         /\ timings # <<>> =>
              Stopped[Len(timings)] =
                [timings[Len(timings)] EXCEPT !.end = IF @ = Open THEN Elapsed ELSE @]
         /\ \A k \in DOMAIN timings : k # Len(timings) => Stopped[k] = timings[k]
<1> DEFINE last == Len(timings)
           closed == [timings[last] EXCEPT !.end = IF @ = Open THEN Elapsed ELSE @]
<1>1. Elapsed \in 0..MaxSeconds
  BY Constants DEF Elapsed, Typed
<1>2. Stopped = [timings EXCEPT ![last] = closed]
  BY DEF Stopped
<1>3. timings \in Seq(Entries)
  BY DEF Typed
<1>4. CASE timings = <<>>
  <2>1. Stopped = <<>>
    BY <1>2, <1>4
  <2> QED BY <1>3, <1>4, <2>1
<1>5. CASE timings # <<>>
  <2>1. last \in DOMAIN timings /\ timings[last] \in Entries
    BY <1>3, <1>5
  <2>2. closed \in Entries
    BY <1>1, <2>1, Constants DEF Entries
  <2> HIDE DEF closed
  <2>3. Stopped \in Seq(Entries) /\ Len(Stopped) = Len(timings) /\ Stopped[last] = closed
        /\ \A k \in DOMAIN timings : k # last => Stopped[k] = timings[k]
    BY <1>2, <1>3, <2>1, <2>2
  <2> QED BY <1>3, <2>3 DEF closed
<1> QED BY <1>4, <1>5

LEMMA ListenedTyped ==
  ASSUME Typed, NEW rec \in 1..MaxStarts
  PROVE  /\ Listened(rec) \in [1..MaxStarts -> Seq(Listeners)]
         /\ \A r \in 1..MaxStarts : r # rec => Listened(rec)[r] = stopping[r]
         /\ Len(Listened(rec)[rec]) = Len(stopping[rec]) + 1
         /\ \A i \in DOMAIN stopping[rec] : Listened(rec)[rec][i] = stopping[rec][i]
         /\ Listened(rec)[rec][Len(stopping[rec]) + 1] =
              [timings |-> Stopped, screen |-> screen, seconds |-> Recorded(rec)]
         /\ Recorded(rec) \in 0..MaxSeconds
<1> DEFINE new == [timings |-> Stopped, screen |-> screen, seconds |-> Recorded(rec)]
<1>1. stopping \in [1..MaxStarts -> Seq(Listeners)] /\ stopping[rec] \in Seq(Listeners)
  BY DEF Typed
<1>2. Recorded(rec) \in 0..MaxSeconds
  <2>1. CASE stopping[rec] = <<>>
    BY <2>1, Constants DEF Recorded, Elapsed, Typed
  <2>2. CASE stopping[rec] # <<>>
    <3>1. Head(stopping[rec]) \in Listeners
      BY <1>1, <2>2
    <3> QED BY <2>2, <3>1 DEF Recorded, Listeners
  <2> QED BY <2>1, <2>2
<1>3. new \in Listeners
  BY <1>2, StoppedTyped DEF Listeners, Typed
<1>4. Listened(rec) = [stopping EXCEPT ![rec] = Append(@, new)]
  BY DEF Listened
<1> HIDE DEF new
<1>5. Listened(rec)[rec] = Append(stopping[rec], new) /\ \A r \in 1..MaxStarts : r # rec => Listened(rec)[r] = stopping[r]
  BY <1>1, <1>4
<1>6. Append(stopping[rec], new) \in Seq(Listeners) /\ Len(Append(stopping[rec], new)) = Len(stopping[rec]) + 1
  BY <1>1, <1>3
<1>7. Listened(rec) \in [1..MaxStarts -> Seq(Listeners)]
  BY <1>1, <1>4, <1>6
<1>8. /\ \A i \in DOMAIN stopping[rec] : Append(stopping[rec], new)[i] = stopping[rec][i]
      /\ Append(stopping[rec], new)[Len(stopping[rec]) + 1] = new
  BY <1>1, <1>3
<1> QED BY <1>2, <1>5, <1>6, <1>7, <1>8 DEF new

LEMMA Concatenated ==
  ASSUME NEW S, NEW s \in Seq(S), NEW t \in Seq(S)
  PROVE  /\ s \o t \in Seq(S) /\ Len(s \o t) = Len(s) + Len(t)
         /\ \A i \in 1..Len(s) : (s \o t)[i] = s[i]
         /\ \A i \in 1..Len(t) : (s \o t)[Len(s) + i] = t[i]
<1>1. s \o t \in Seq(S) /\ Len(s \o t) = Len(s) + Len(t)
  OBVIOUS
<1>2. \A i \in 1..Len(s) : (s \o t)[i] = s[i]
  OBVIOUS
<1>3. ASSUME NEW i \in 1..Len(t) PROVE (s \o t)[Len(s) + i] = t[i]
  <2>1. Len(s) + i \in 1..Len(s) + Len(t) /\ Len(s) + i > Len(s) /\ (Len(s) + i) - Len(s) = i
    OBVIOUS
  <2> QED BY <2>1
<1> QED BY <1>1, <1>2, <1>3

\* The listeners of a recorder upload, one after the other.
LEMMA StopEventUploads ==
  ASSUME Typed, NEW rec \in 1..MaxStarts, StopEvent(rec)
  PROVE  /\ uploads' \in Seq(Uploads) /\ Len(uploads') = Len(uploads) + Len(stopping[rec])
         /\ \A i \in 1..Len(uploads) : uploads'[i] = uploads[i]
         /\ \A i \in 1..Len(stopping[rec]) :
              uploads'[Len(uploads) + i] = Upload(rec, stopping[rec][i], chunks')
<1> DEFINE new == [i \in DOMAIN stopping[rec] |-> Upload(rec, stopping[rec][i], chunks')]
<1>1. uploads \in Seq(Uploads) /\ stopping[rec] \in Seq(Listeners)
  BY DEF Typed
<1>2. DOMAIN stopping[rec] = 1..Len(stopping[rec]) /\ Len(stopping[rec]) \in Nat
  BY <1>1
<1>3. \A i \in DOMAIN stopping[rec] : Upload(rec, stopping[rec][i], chunks') \in Uploads
  <2> SUFFICES ASSUME NEW l \in Listeners PROVE Upload(rec, l, chunks') \in Uploads
    BY <1>1
  <2>1. chunks' \in SUBSET (1..MaxStarts)
    BY DEF StopEvent, Typed
  <2> QED BY <2>1 DEF Upload, Uploads, Listeners
<1>4. new \in Seq(Uploads) /\ Len(new) = Len(stopping[rec])
      /\ \A i \in 1..Len(stopping[rec]) : new[i] = Upload(rec, stopping[rec][i], chunks')
  <2>1. new \in [1..Len(stopping[rec]) -> Uploads]
    BY <1>2, <1>3
  <2> QED BY <1>2, <2>1
<1>5. uploads' = uploads \o new
  BY DEF StopEvent
<1> HIDE DEF new
<1>6. /\ uploads \o new \in Seq(Uploads) /\ Len(uploads \o new) = Len(uploads) + Len(new)
      /\ \A i \in 1..Len(uploads) : (uploads \o new)[i] = uploads[i]
      /\ \A i \in 1..Len(new) : (uploads \o new)[Len(uploads) + i] = new[i]
  <2>1. uploads \in Seq(Uploads)
    BY <1>1
  <2>2. new \in Seq(Uploads)
    BY <1>4
  <2> QED BY ONLY <2>1, <2>2, Concatenated
<1>7. /\ uploads' \in Seq(Uploads) /\ Len(uploads') = Len(uploads) + Len(stopping[rec])
      /\ \A i \in 1..Len(uploads) : uploads'[i] = uploads[i]
  BY <1>4, <1>5, <1>6
<1>8. \A i \in 1..Len(stopping[rec]) : uploads'[Len(uploads) + i] = new[i]
  BY <1>4, <1>5, <1>6
<1> QED BY <1>4, <1>7, <1>8

LEMMA OneUpload ==
  ASSUME Typed, NEW i \in DOMAIN uploads, NEW u \in Uploads, uploads' = [uploads EXCEPT ![i] = u]
  PROVE  /\ uploads' \in Seq(Uploads) /\ Len(uploads') = Len(uploads)
         /\ DOMAIN uploads' = DOMAIN uploads
         /\ uploads'[i] = u
         /\ \A j \in DOMAIN uploads : j # i => uploads'[j] = uploads[j]
BY DEF Typed

LEMMA UploadTyped ==
  ASSUME Typed, NEW i \in DOMAIN uploads
  PROVE  uploads[i] \in Uploads /\ i \in 1..Len(uploads)
BY DEF Typed

LEMMA AnsweredTyped ==
  ASSUME NEW u \in Uploads, NEW state \in {"stored", "failed"}
  PROVE  /\ Answered(u, state) \in Uploads
         /\ Answered(u, state).rec = u.rec /\ Answered(u, state).state = state
         /\ Answered(u, state).audio = u.audio
         /\ state = "stored" => /\ Answered(u, state).timings = u.timings
                                /\ Answered(u, state).screen = u.screen
                                /\ Answered(u, state).seconds = u.seconds
         /\ state = "failed" => /\ Answered(u, state).timings = <<>>
                                /\ Answered(u, state).screen = <<>>
                                /\ Answered(u, state).seconds = 0
<1>1. CASE state = "stored"
  <2>1. Answered(u, state) = [u EXCEPT !.state = state]
    BY <1>1 DEF Answered
  <2> QED BY <1>1, <2>1 DEF Uploads
<1>2. CASE state = "failed"
  <2>1. Answered(u, state) = [u EXCEPT !.state = state, !.timings = <<>>, !.screen = <<>>, !.seconds = 0]
    BY <1>2 DEF Answered
  <2>2. <<>> \in Seq(Entries) /\ <<>> \in Seq(1..Slides) /\ 0 \in 0..MaxSeconds
    BY Constants
  <2> QED BY <1>2, <2>1, <2>2 DEF Uploads
<1> QED BY <1>1, <1>2

LEMMA PacingTyped ==
  ASSUME NEW entries \in Seq(Entries)
  PROVE  /\ DOMAIN WindowsFromTimings(entries) = {e.slide : e \in ToSet(entries)}
         /\ PacingFindings(WindowsFromTimings(entries)) \subseteq Findings
<1> DEFINE windows == WindowsFromTimings(entries)
<1>1. DOMAIN windows = {e.slide : e \in ToSet(entries)}
  BY DEF WindowsFromTimings
<1>2. DOMAIN windows \subseteq 1..Slides
  <2>1. \A k \in DOMAIN entries : entries[k] \in Entries
    OBVIOUS
  <2>2. \A e \in ToSet(entries) : e.slide \in 1..Slides
    BY <2>1 DEF ToSet, Entries
  <2> HIDE DEF windows
  <2> QED BY <1>1, <2>2
<1> HIDE DEF windows
<1>3. PacingFindings(windows) \subseteq Findings
  BY <1>2 DEF PacingFindings, Findings
<1> QED BY <1>1, <1>3 DEF windows

\* What Analyze writes, in one record.
LEMMA AnalyzeWrites ==
  ASSUME Typed, NEW i \in DOMAIN uploads, NEW speech \in Transcripts, Analyze(i, speech)
  PROVE  \E u \in Uploads :
           /\ uploads' = [uploads EXCEPT ![i] = u]
           /\ u.state = "analysed" /\ u.rec = uploads[i].rec /\ u.audio = uploads[i].audio
           /\ u.timings = uploads[i].timings /\ u.screen = uploads[i].screen
           /\ u.seconds = uploads[i].seconds /\ u.speech = speech
           /\ u.pacing = PacingFindings(WindowsFromTimings(u.timings))
<1> DEFINE delivery == DeliveryFindings(speech)
           pacing == PacingFindings(WindowsFromTimings(uploads[i].timings))
           u == [uploads[i] EXCEPT !.state = "analysed", !.speech = speech, !.delivery = delivery,
                                   !.pacing = pacing]
<1>1. uploads[i] \in Uploads /\ uploads[i].timings \in Seq(Entries)
  BY UploadTyped DEF Uploads
<1>2. delivery \in SUBSET {"rate", "fillers", "pauses"}
  BY DEF DeliveryFindings
<1>3. pacing \in SUBSET Findings
  BY <1>1, PacingTyped
<1>4. uploads' = [uploads EXCEPT ![i] = u]
  <2>1. uploads' = [uploads EXCEPT
       ![i].state = "analysed", ![i].speech = speech,
       ![i].delivery = DeliveryFindings(speech),
       ![i].pacing = PacingFindings(WindowsFromTimings(uploads[i].timings))]
    BY DEF Analyze
  <2> HIDE DEF delivery, pacing
  <2>2. uploads' = [uploads EXCEPT
       ![i].state = "analysed", ![i].speech = speech, ![i].delivery = delivery, ![i].pacing = pacing]
    BY <2>1 DEF delivery, pacing
  <2> QED BY <1>1, <2>2 DEF Typed
<1> HIDE DEF delivery, pacing
<1>5. u \in Uploads /\ u.state = "analysed" /\ u.rec = uploads[i].rec /\ u.audio = uploads[i].audio
      /\ u.timings = uploads[i].timings /\ u.screen = uploads[i].screen
      /\ u.seconds = uploads[i].seconds /\ u.speech = speech /\ u.pacing = pacing
  BY <1>1, <1>2, <1>3 DEF Uploads
<1> HIDE DEF u
<1> QED BY <1>4, <1>5 DEF pacing

LEMMA TypedStep == Typed /\ Numbered /\ [Next]_vars => Typed'
<1> SUFFICES ASSUME Typed, Numbered, [Next]_vars PROVE Typed'
  OBVIOUS
<1>1. CASE Start
  <2>1. clicks + 1 \in 1..MaxStarts /\ clicks' = clicks + 1
    BY <1>1, Constants DEF Start, Typed
  <2>2. [rec |-> clicks', slide |-> slide] \in [rec : 1..MaxStarts, slide : 1..Slides]
    BY <2>1 DEF Typed
  <2>3. slips' \subseteq {"started_twice", "stopped_twice", "paged_while_asking", "left_while_asking"}
    BY <1>1, SlipTyped DEF Start
  <2>4. asks' \subseteq [rec : 1..MaxStarts, slide : 1..Slides]
    BY <1>1, <2>2 DEF Start, Typed
  <2> QED BY <1>1, <2>1, <2>3, <2>4 DEF Start, Typed, sound
<1>2. ASSUME NEW a \in asks, Deny(a) PROVE Typed'
  BY <1>2 DEF Deny, Typed, sound
<1>3. ASSUME NEW a \in asks, Grant(a) PROVE Typed'
  <2>1. a.rec \in 1..MaxStarts /\ a.slide \in 1..Slides /\ 0 \in 0..MaxSeconds /\ Open \in 0..Open
    BY Constants DEF Typed
  <2>2. [slide |-> a.slide, start |-> 0, end |-> Open] \in Entries
    BY <2>1 DEF Entries
  <2>3. timings' \in Seq(Entries) /\ screen' = <<>> /\ screen' \in Seq(1..Slides)
    BY <1>3, <2>2 DEF Grant, Recorders
  <2>4. Len(screen') <= MaxSeconds
    BY <2>3, Constants
  <2>5. slips' \subseteq {"started_twice", "stopped_twice", "paged_while_asking", "left_while_asking"}
    BY <1>3 DEF Grant, Recorders, Typed
  <2>6. phase' \in {"idle", "recording", "uploading"}
    BY <1>3 DEF Grant, Recorders, Typed
  <2>7. recorder' \in 0..MaxStarts /\ timer' \in 0..MaxStarts /\ 0 \in 0..MaxStarts
    BY <1>3, <2>1, Constants DEF Grant, Recorders
  <2>8. /\ mics' \subseteq 1..MaxStarts /\ timers' \subseteq 1..MaxStarts
        /\ chunks' = {} /\ asks' \subseteq asks
    BY <1>3, <2>1 DEF Grant, Recorders, Typed
  <2>9. UNCHANGED <<page, slide, clicks, stopping, uploads>>
    BY <1>3 DEF Grant, Recorders
  <2> QED BY <2>3, <2>4, <2>5, <2>6, <2>7, <2>8, <2>9 DEF Typed
<1>4. ASSUME NEW s \in 1..Slides, GoToSlide(s) PROVE Typed'
  <2>1. timings' \in Seq(Entries)
    BY <1>4, SwitchedTyped DEF GoToSlide, Numbered, Recording, Typed
  <2> QED BY <1>4, <2>1 DEF GoToSlide, Typed, sound
<1>5. CASE Second
  <2>1. screen' \in Seq(1..Slides) /\ Len(screen') = Len(screen) + 1 /\ Len(screen) < MaxSeconds
    BY <1>5 DEF Second, Typed, Elapsed
  <2>2. Len(screen') <= MaxSeconds
    BY <2>1, Constants DEF Typed
  <2> QED BY <1>5, <2>1, <2>2 DEF Second, Typed, sound
<1>6. CASE Stop
  <2>1. recorder \in 1..MaxStarts
    BY <1>6 DEF Stop, Numbered, Recording, Typed
  <2>2. stopping' \in [1..MaxStarts -> Seq(Listeners)] /\ timings' \in Seq(Entries)
    BY <1>6, <2>1, ListenedTyped, StoppedTyped DEF Stop
  <2>3. slips' \subseteq {"started_twice", "stopped_twice", "paged_while_asking", "left_while_asking"}
    BY <1>6, SlipTyped DEF Stop
  <2>4. timer' \in 0..MaxStarts /\ timers' \subseteq timers
    BY <1>6, Constants DEF Stop
  <2>5. UNCHANGED <<page, phase, slide, clicks, asks, recorder, mics, chunks, screen, uploads>>
    BY <1>6 DEF Stop
  <2> QED BY <2>2, <2>3, <2>4, <2>5 DEF Typed
<1>7. CASE Leave
  BY <1>7 DEF Leave, Unmount, Typed
<1>8. ASSUME NEW rec \in 1..MaxStarts, StopEvent(rec) PROVE Typed'
  <2>1. uploads' \in Seq(Uploads)
    BY <1>8, StopEventUploads
  <2>2. stopping' \in [1..MaxStarts -> Seq(Listeners)]
    <3>1. <<>> \in Seq(Listeners)
      OBVIOUS
    <3> QED BY <1>8, <3>1 DEF StopEvent, Typed
  <2> QED BY <1>8, <2>1, <2>2 DEF StopEvent, Typed
<1>9. ASSUME NEW i \in DOMAIN uploads, NEW state \in {"stored", "failed"}, UploadAnswered(i, state)
      PROVE  Typed'
  <2>1. uploads' \in Seq(Uploads)
    <3>1. uploads' = [uploads EXCEPT ![i] = Answered(uploads[i], state)]
      BY <1>9 DEF UploadAnswered
    <3>2. Answered(uploads[i], state) \in Uploads
      BY AnsweredTyped, UploadTyped
    <3> QED BY <3>1, <3>2, OneUpload
  <2> QED BY <1>9, <2>1 DEF UploadAnswered, Unmount, Typed
<1>10. ASSUME NEW i \in DOMAIN uploads, NEW speech \in Transcripts, Analyze(i, speech) PROVE Typed'
  <2>1. PICK u \in Uploads : uploads' = [uploads EXCEPT ![i] = u]
    BY <1>10, AnalyzeWrites
  <2>2. uploads' \in Seq(Uploads)
    BY <2>1, OneUpload
  <2> QED BY <1>10, <2>2 DEF Analyze, Typed, sound
<1>11. CASE UNCHANGED vars
  BY <1>11 DEF vars, Typed
<1> QED
  BY <1>1, <1>2, <1>3, <1>4, <1>5, <1>6, <1>7, <1>8, <1>9, <1>10, <1>11 DEF Next, Event

(***************************************************************************)
(* The recorders and their uploads.                                        *)
(***************************************************************************)
LEMMA UploadedAfterStop ==
  ASSUME Typed, NEW r \in 1..MaxStarts, StopEvent(r)
  PROVE  \A rec \in 1..MaxStarts : Uploaded(rec)' <=> Uploaded(rec) \/ rec = r
<1> DEFINE n == Len(uploads)
           m == Len(stopping[r])
<1>1. /\ DOMAIN uploads = 1..n /\ n \in Nat /\ m \in Nat /\ m > 0
      /\ DOMAIN uploads' = 1..n + m
  <2>1. uploads \in Seq(Uploads) /\ stopping[r] \in Seq(Listeners) /\ stopping[r] # <<>>
    BY DEF Typed, StopEvent
  <2>2. uploads' \in Seq(Uploads) /\ Len(uploads') = n + m
    BY StopEventUploads
  <2>3. m \in Nat /\ m > 0
    BY <2>1
  <2> QED BY <2>1, <2>2, <2>3
<1>2. \A i \in 1..n : uploads'[i].rec = uploads[i].rec
  BY StopEventUploads
<1>3. \A i \in 1..m : uploads'[n + i].rec = r
  <2>1. \A i \in 1..m : uploads'[n + i] = Upload(r, stopping[r][i], chunks')
    BY StopEventUploads
  <2>2. \A l, audio : Upload(r, l, audio).rec = r
    BY DEF Upload
  <2> HIDE DEF n, m
  <2> QED BY <2>1, <2>2
<1> HIDE DEF n, m
<1>4. \A i \in 1..n + m : i \in 1..n \/ (i - n \in 1..m /\ n + (i - n) = i)
  BY <1>1
<1>5. ASSUME NEW rec \in 1..MaxStarts, Uploaded(rec)' PROVE Uploaded(rec) \/ rec = r
  BY <1>1, <1>2, <1>3, <1>4, <1>5 DEF Uploaded
<1>6. ASSUME NEW rec \in 1..MaxStarts, Uploaded(rec) PROVE Uploaded(rec)'
  BY <1>1, <1>2, <1>6 DEF Uploaded
<1>7. Uploaded(r)'
  <2>1. n + 1 \in 1..n + m /\ 1 \in 1..m
    BY <1>1
  <2> QED BY <1>1, <1>3, <2>1 DEF Uploaded
<1> QED BY <1>5, <1>6, <1>7

\* A step of one upload.
LEMMA UploadSteps ==
  ASSUME Typed, NEW i \in DOMAIN uploads,
         \/ \E state \in {"stored", "failed"} : UploadAnswered(i, state)
         \/ \E speech \in Transcripts : Analyze(i, speech)
  PROVE  /\ DOMAIN uploads' = DOMAIN uploads /\ Len(uploads') = Len(uploads)
         /\ \A j \in DOMAIN uploads : uploads'[j].rec = uploads[j].rec /\ uploads'[j].audio = uploads[j].audio
         /\ \A j \in DOMAIN uploads : j # i => uploads'[j] = uploads[j]
         /\ uploads'[i].state # "sent"
         /\ \A rec \in 1..MaxStarts : Uploaded(rec)' <=> Uploaded(rec)
<1>1. PICK u \in Uploads : /\ uploads' = [uploads EXCEPT ![i] = u]
                           /\ u.rec = uploads[i].rec /\ u.audio = uploads[i].audio /\ u.state # "sent"
  <2>1. ASSUME NEW state \in {"stored", "failed"}, UploadAnswered(i, state)
        PROVE  \E u \in Uploads : /\ uploads' = [uploads EXCEPT ![i] = u]
                                  /\ u.rec = uploads[i].rec /\ u.audio = uploads[i].audio /\ u.state # "sent"
    <3>1. uploads' = [uploads EXCEPT ![i] = Answered(uploads[i], state)]
      BY <2>1 DEF UploadAnswered
    <3> QED BY <3>1, AnsweredTyped, UploadTyped
  <2>2. ASSUME NEW speech \in Transcripts, Analyze(i, speech)
        PROVE  \E u \in Uploads : /\ uploads' = [uploads EXCEPT ![i] = u]
                                  /\ u.rec = uploads[i].rec /\ u.audio = uploads[i].audio /\ u.state # "sent"
    BY <2>2, AnalyzeWrites
  <2> QED BY <2>1, <2>2
<1>2. /\ Len(uploads') = Len(uploads) /\ DOMAIN uploads' = DOMAIN uploads
      /\ uploads'[i] = u
      /\ \A j \in DOMAIN uploads : j # i => uploads'[j] = uploads[j]
  BY <1>1, OneUpload
<1> QED BY <1>1, <1>2 DEF Uploaded

LEMMA NumberedStep == Typed /\ Numbered /\ [Next]_vars => Numbered'
<1> SUFFICES ASSUME Typed, Numbered, [Next]_vars PROVE Numbered'
  OBVIOUS
<1>1. CASE Start
  <2>1. /\ clicks' = clicks + 1 /\ clicks' \in 1..MaxStarts /\ clicks \in Nat
        /\ asks' = asks \cup {[rec |-> clicks', slide |-> slide]}
        /\ UNCHANGED <<page, phase, recorder, stopping, uploads, timings>>
    BY <1>1, Constants DEF Start, Typed, sound
  <2>2. \A rec \in 1..MaxStarts : Asked(rec)' <=> Asked(rec) \/ rec = clicks'
    <3> DEFINE new == [rec |-> clicks', slide |-> slide]
    <3>1. new.rec = clicks'
      OBVIOUS
    <3>2. asks' = asks \cup {new}
      BY <2>1
    <3> HIDE DEF new
    <3> QED BY <3>1, <3>2 DEF Asked
  <2>3. \A rec \in 1..MaxStarts : Used(rec)' <=> Used(rec)
    BY <2>1 DEF Used, Uploaded
  <2>4. \A rec \in 1..MaxStarts : rec = clicks' => ~ Asked(rec) /\ ~ Used(rec)
    BY <2>1 DEF Numbered
  <2>5. \A a \in asks : a.rec # clicks'
    BY <2>1, <2>4 DEF Asked, Typed
  <2>6. \A a, b \in asks' : a.rec = b.rec => a = b
    BY <2>1, <2>5 DEF Numbered
  <2>7. \A rec \in 1..MaxStarts : rec <= clicks => rec <= clicks'
    BY <2>1
  <2> QED BY <2>1, <2>2, <2>3, <2>4, <2>6, <2>7 DEF Numbered, Recording
<1>2. ASSUME NEW a \in asks, Deny(a) PROVE Numbered'
  BY <1>2 DEF Deny, Numbered, Asked, Used, Uploaded, Recording, sound
<1>3. ASSUME NEW a \in asks, Grant(a) PROVE Numbered'
  <2>1. /\ asks' = asks \ {a} /\ recorder' = a.rec /\ a.rec \in 1..MaxStarts
        /\ timings' # <<>> /\ UNCHANGED <<clicks, stopping, uploads>>
    BY <1>3 DEF Grant, Recorders, Typed
  <2>2. \A rec \in 1..MaxStarts : /\ Asked(rec)' => (Asked(rec) /\ rec # a.rec)
                                  /\ Used(rec)' => (Used(rec) \/ rec = a.rec)
    BY <2>1 DEF Asked, Used, Uploaded, Numbered
  <2>3. Asked(a.rec)
    BY DEF Asked
  <2>4. \A b, c \in asks' : b.rec = c.rec => b = c
    BY <2>1 DEF Numbered
  <2>5. a.rec # 0
    BY <2>1, Constants
  <2>6. ASSUME NEW rec \in 1..MaxStarts, Asked(rec)' \/ Used(rec)' PROVE rec <= clicks'
    <3>1. Asked(rec) \/ Used(rec) \/ rec = a.rec
      BY <2>2, <2>6
    <3>2. Asked(rec) \/ Used(rec)
      BY <2>3, <3>1
    <3> QED BY <2>1, <3>2 DEF Numbered
  <2>7. ASSUME NEW rec \in 1..MaxStarts, Asked(rec)' PROVE ~ Used(rec)'
    <3>1. Asked(rec) /\ rec # a.rec
      BY <2>2, <2>7
    <3>2. ~ Used(rec)
      BY <3>1 DEF Numbered
    <3> QED BY <2>2, <3>1, <3>2
  <2>8. \A rec \in 1..MaxStarts : Asked(rec)' \/ Used(rec)' => rec <= clicks'
    BY <2>6
  <2>9. \A rec \in 1..MaxStarts : Asked(rec)' => ~ Used(rec)'
    BY <2>7
  <2>10. Recording' => recorder' # 0 /\ timings' # <<>>
    BY <2>1, <2>5
  <2> QED BY <2>4, <2>8, <2>9, <2>10 DEF Numbered
<1>4. ASSUME NEW s \in 1..Slides, GoToSlide(s) PROVE Numbered'
  <2>1. Recording => timings' # <<>>
    <3>1. ASSUME Recording PROVE timings' # <<>>
      <4>1. timings # <<>> /\ timings' = Switched(s)
        BY <1>4, <3>1 DEF GoToSlide, Numbered, Recording
      <4>2. Len(Switched(s)) = Len(timings) + 1
        BY <4>1, SwitchedTyped
      <4>3. Len(timings) \in Nat
        BY DEF Typed
      <4>4. Len(timings') # 0
        BY <4>1, <4>2, <4>3
      <4> QED BY <4>4
    <3> QED BY <3>1
  <2> QED BY <1>4, <2>1 DEF GoToSlide, Numbered, Asked, Used, Uploaded, Recording, sound
<1>5. CASE Second
  BY <1>5 DEF Second, Numbered, Asked, Used, Uploaded, Recording, sound
<1>6. CASE Stop
  <2>1. recorder \in 1..MaxStarts /\ timings # <<>>
    BY <1>6 DEF Stop, Numbered, Recording, Typed
  <2>2. timings' # <<>>
    BY <1>6, <2>1, StoppedTyped DEF Stop, Typed
  <2>3. UNCHANGED <<clicks, asks, recorder, uploads, page, phase>>
    BY <1>6 DEF Stop
  <2>4. \A rec \in 1..MaxStarts : Used(rec)' => Used(rec)
    <3>1. \A rec \in 1..MaxStarts : rec # recorder => stopping'[rec] = stopping[rec]
      BY <1>6, <2>1, ListenedTyped DEF Stop
    <3> QED BY <2>3, <3>1 DEF Used, Uploaded
  <2>5. \A rec \in 1..MaxStarts : Asked(rec)' <=> Asked(rec)
    BY <2>3 DEF Asked
  <2> QED BY <2>1, <2>2, <2>3, <2>4, <2>5 DEF Numbered, Recording
<1>7. CASE Leave
  BY <1>7 DEF Leave, Unmount, Numbered, Asked, Used, Uploaded, Recording
<1>8. ASSUME NEW r \in 1..MaxStarts, StopEvent(r) PROVE Numbered'
  <2>1. /\ UNCHANGED <<clicks, asks, recorder, page, timings>>
        /\ stopping[r] # <<>>
        /\ stopping' = [stopping EXCEPT ![r] = <<>>] /\ (phase' = "uploading" \/ phase' = phase)
    BY <1>8 DEF StopEvent
  <2>2. \A rec \in 1..MaxStarts : Used(rec)' => Used(rec)
    BY <1>8, <2>1, UploadedAfterStop DEF Used, Typed
  <2>3. \A rec \in 1..MaxStarts : Asked(rec)' <=> Asked(rec)
    BY <2>1 DEF Asked
  <2> QED BY <2>1, <2>2, <2>3 DEF Numbered, Recording
<1>9. ASSUME NEW i \in DOMAIN uploads,
             \/ \E state \in {"stored", "failed"} : UploadAnswered(i, state)
             \/ \E speech \in Transcripts : Analyze(i, speech)
      PROVE  Numbered'
  <2>1. UNCHANGED <<clicks, asks, recorder, stopping, timings>> /\ (Recording' => Recording)
    BY <1>9 DEF UploadAnswered, Unmount, Analyze, sound, Recording
  <2>2. \A rec \in 1..MaxStarts : Used(rec)' <=> Used(rec)
    BY <1>9, <2>1, UploadSteps DEF Used
  <2>3. \A rec \in 1..MaxStarts : Asked(rec)' <=> Asked(rec)
    BY <2>1 DEF Asked
  <2> QED BY <2>1, <2>2, <2>3 DEF Numbered
<1>10. CASE UNCHANGED vars
  BY <1>10 DEF vars, Numbered, Asked, Used, Uploaded, Recording
<1> QED
  BY <1>1, <1>2, <1>3, <1>4, <1>5, <1>6, <1>7, <1>8, <1>9, <1>10 DEF Next, Event

LEMMA SlipsGrow == Typed /\ [Next]_vars => slips \subseteq slips'
BY DEF Next, Event, Start, Deny, Grant, Recorders, GoToSlide, Second, Stop, Leave, StopEvent, UploadAnswered, Analyze,
       Slip, vars

LEMMA One == ASSUME NEW n \in Nat, n # 0, n <= 1 PROVE n = 1
OBVIOUS

LEMMA OnceStep == Typed /\ Numbered /\ Once /\ [Next]_vars => Once'
<1> SUFFICES ASSUME Typed, Numbered, Once, [Next]_vars, "stopped_twice" \notin slips'
             PROVE  /\ \A rec \in 1..MaxStarts : /\ Len(stopping'[rec]) <= 1
                                                 /\ stopping'[rec] # <<>> => ~ Uploaded(rec)'
                    /\ Recording' => ~ Uploaded(recorder)'
                    /\ \A i, j \in DOMAIN uploads' : uploads'[i].rec = uploads'[j].rec => i = j
  BY DEF Once
<1>1. /\ \A rec \in 1..MaxStarts : /\ Len(stopping[rec]) <= 1
                                   /\ stopping[rec] # <<>> => ~ Uploaded(rec)
      /\ Recording => ~ Uploaded(recorder)
      /\ \A i, j \in DOMAIN uploads : uploads[i].rec = uploads[j].rec => i = j
  BY SlipsGrow DEF Once
<1>2. CASE UNCHANGED <<stopping, uploads, recorder>> /\ (Recording' => Recording)
  BY <1>1, <1>2 DEF Uploaded
<1>3. ASSUME NEW a \in asks, Grant(a) PROVE Once'
  <2>1. ~ Uploaded(a.rec)
    BY DEF Numbered, Asked, Used, Typed
  <2> QED BY <1>1, <1>3, <2>1 DEF Once, Grant, Recorders, Uploaded
<1>4. CASE Stop
  <2>1. recorder \in 1..MaxStarts /\ Recording
    BY <1>4 DEF Stop, Numbered, Recording, Typed
  <2>2. stopping[recorder] = <<>>
    BY <1>4 DEF Stop, Slip
  <2>3. Len(stopping'[recorder]) = 1 /\ \A rec \in 1..MaxStarts : rec # recorder => stopping'[rec] = stopping[rec]
    <3>1. stopping' = Listened(recorder) /\ Len(stopping[recorder]) = 0
      BY <1>4, <2>2 DEF Stop
    <3>2. Len(Listened(recorder)[recorder]) = Len(stopping[recorder]) + 1
      BY <2>1, ListenedTyped
    <3>3. \A rec \in 1..MaxStarts : rec # recorder => Listened(recorder)[rec] = stopping[rec]
      BY <2>1, ListenedTyped
    <3> QED BY <3>1, <3>2, <3>3
  <2>4. UNCHANGED <<uploads, recorder>>
    BY <1>4 DEF Stop
  <2>5. (\A rec : Uploaded(rec)' <=> Uploaded(rec)) /\ (Uploaded(recorder)' <=> Uploaded(recorder))
    BY <2>4 DEF Uploaded
  <2>6. ASSUME NEW rec \in 1..MaxStarts PROVE Len(stopping'[rec]) <= 1
    <3>1. Len(stopping[rec]) <= 1
      BY <1>1
    <3>2. CASE rec = recorder
      <4>1. Len(stopping'[rec]) = 1
        BY <2>3, <3>2
      <4>2. \A n : n = 1 => n <= 1
        OBVIOUS
      <4> QED BY <4>1, <4>2, Zenon
    <3>3. CASE rec # recorder
      BY <2>3, <3>1, <3>3
    <3> QED BY <3>2, <3>3
  <2>7. \A rec \in 1..MaxStarts : stopping'[rec] # <<>> => ~ Uploaded(rec)'
    BY <1>1, <2>1, <2>3, <2>5
  <2>8. \A i, j \in DOMAIN uploads' : uploads'[i].rec = uploads'[j].rec => i = j
    BY <1>1, <2>4
  <2> QED BY <1>1, <2>1, <2>5, <2>6, <2>7, <2>8
<1>5. ASSUME NEW r \in 1..MaxStarts, StopEvent(r) PROVE Once'
  <2>1. Len(stopping[r]) = 1 /\ ~ Uploaded(r)
    <3>1. stopping[r] # <<>> /\ stopping[r] \in Seq(Listeners)
      BY <1>5 DEF StopEvent, Typed
    <3>2. Len(stopping[r]) \in Nat /\ Len(stopping[r]) # 0
      BY <3>1
    <3>3. Len(stopping[r]) <= 1
      BY <1>1
    <3>4. ~ Uploaded(r)
      BY <1>1, <3>1
    <3>5. Len(stopping[r]) = 1
      BY <3>2, <3>3, One
    <3> QED BY <3>4, <3>5
  <2>2. ~ Recording'
    BY <1>5 DEF StopEvent, Recording, Typed
  <2>3. \A rec \in 1..MaxStarts : /\ Len(stopping'[rec]) <= 1
                                  /\ stopping'[rec] # <<>> => ~ Uploaded(rec)'
    <3>1. stopping'[r] = <<>> /\ \A rec \in 1..MaxStarts : rec # r => stopping'[rec] = stopping[rec]
      BY <1>5 DEF StopEvent, Typed
    <3> QED BY <1>1, <1>5, <3>1, UploadedAfterStop
  <2>4. /\ DOMAIN uploads' = 1..Len(uploads) + 1 /\ DOMAIN uploads = 1..Len(uploads) /\ Len(uploads) \in Nat
        /\ \A i \in 1..Len(uploads) : uploads'[i] = uploads[i]
        /\ uploads'[Len(uploads) + 1].rec = r
    <3>1. uploads' \in Seq(Uploads) /\ Len(uploads') = Len(uploads) + 1
      BY <1>5, <2>1, StopEventUploads
    <3>2. \A i \in 1..Len(uploads) : uploads'[i] = uploads[i]
      BY <1>5, StopEventUploads
    <3>3. uploads'[Len(uploads) + 1] = Upload(r, stopping[r][1], chunks')
      <4>1. \A i \in 1..Len(stopping[r]) : uploads'[Len(uploads) + i] = Upload(r, stopping[r][i], chunks')
        BY <1>5, StopEventUploads
      <4>2. 1 \in 1..Len(stopping[r])
        BY <2>1
      <4> QED BY <4>1, <4>2
    <3>4. uploads'[Len(uploads) + 1].rec = r
      BY <3>3 DEF Upload
    <3> QED BY <3>1, <3>2, <3>4 DEF Typed
  <2>5. ASSUME NEW i \in DOMAIN uploads', NEW j \in DOMAIN uploads', uploads'[i].rec = uploads'[j].rec
        PROVE  i = j
    <3>1. \A k \in 1..Len(uploads) : uploads'[k].rec # r
      BY <2>1, <2>4 DEF Uploaded
    <3> QED BY <1>1, <2>4, <2>5, <3>1
  <2> QED BY <2>2, <2>3, <2>5 DEF Once
<1>6. ASSUME NEW i \in DOMAIN uploads,
             \/ \E state \in {"stored", "failed"} : UploadAnswered(i, state)
             \/ \E speech \in Transcripts : Analyze(i, speech)
      PROVE  Once'
  <2>1. UNCHANGED <<stopping, recorder>> /\ (Recording' => Recording)
    BY <1>6 DEF UploadAnswered, Unmount, Analyze, sound, Recording
  <2>2. /\ DOMAIN uploads' = DOMAIN uploads
        /\ \A j \in DOMAIN uploads : uploads'[j].rec = uploads[j].rec
    BY <1>6, UploadSteps
  <2>3. \A rec : Uploaded(rec)' <=> Uploaded(rec)
    BY <2>2 DEF Uploaded
  <2>4. \A k, j \in DOMAIN uploads' : uploads'[k].rec = uploads'[j].rec => k = j
    BY <1>1, <2>2
  <2> QED BY <1>1, <2>1, <2>3, <2>4 DEF Once
<1>7. Start \/ (\E a \in asks : Deny(a)) \/ (\E s \in 1..Slides : GoToSlide(s)) \/ Second \/ Leave \/ UNCHANGED vars
      => UNCHANGED <<stopping, uploads, recorder>> /\ (Recording' => Recording)
  BY DEF Start, Deny, GoToSlide, Second, Leave, Unmount, vars, sound, Recording
<1> QED
  BY <1>2, <1>3, <1>4, <1>5, <1>6, <1>7 DEF Next, Event, Once

(***************************************************************************)
(* The microphone.                                                         *)
(***************************************************************************)
LEMMA AloneStep == Typed /\ Numbered /\ Alone /\ [Next]_vars => Alone'
<1> SUFFICES ASSUME Typed, Numbered, Alone, [Next]_vars, Clean'
             PROVE  Alone'
  BY DEF Alone
<1>0. Clean
  BY SlipsGrow DEF Clean
<1>1. /\ \A a, b \in asks : a = b
      /\ asks # {} => phase = "idle"
      /\ mics \subseteq {recorder} /\ timers \subseteq {timer}
      /\ page = "left" \/ phase # "recording" => mics = {} /\ timers = {}
      /\ \A rec \in 1..MaxStarts : stopping[rec] # <<>> =>
           rec = recorder /\ timers = {} /\ phase = "recording"
      /\ page = "open" /\ uploads # <<>> /\ uploads[Len(uploads)].state = "sent" => phase = "uploading"
  BY <1>0 DEF Alone
<1>2. CASE Start
  <2>1. asks = {}
    BY <1>2 DEF Start, Slip, Clean
  <2> QED BY <1>1, <1>2, <2>1 DEF Start, Alone, sound
<1>3. ASSUME NEW a \in asks, Deny(a) PROVE Alone'
  BY <1>1, <1>3 DEF Deny, Alone, sound
<1>4. ASSUME NEW a \in asks, Grant(a) PROVE Alone'
  <2>1. page = "open"
    BY <1>4 DEF Grant, Recorders, Clean, Typed
  <2>2. asks' = {} /\ phase = "idle" /\ mics = {} /\ timers = {}
    BY <1>1, <1>4 DEF Grant, Recorders
  <2>3. mics' = {recorder'} /\ timers' = {timer'} /\ phase' = "recording"
    BY <1>4, <2>1, <2>2 DEF Grant, Recorders
  <2>4. \A rec \in 1..MaxStarts : stopping[rec] = <<>>
    BY <1>1, <2>2
  <2>5. UNCHANGED <<page, uploads, stopping>>
    BY <1>4 DEF Grant, Recorders
  <2>6. ~ (uploads # <<>> /\ uploads[Len(uploads)].state = "sent")
    BY <1>1, <2>1, <2>2
  <2> QED BY <2>1, <2>2, <2>3, <2>4, <2>5, <2>6 DEF Alone
<1>5. ASSUME NEW s \in 1..Slides, GoToSlide(s) PROVE Alone'
  BY <1>1, <1>5 DEF GoToSlide, Alone, sound
<1>6. CASE Second
  BY <1>1, <1>6 DEF Second, Alone, sound
<1>7. CASE Stop
  <2>1. /\ UNCHANGED <<page, phase, asks, recorder, mics, uploads>> /\ page = "open" /\ phase = "recording"
        /\ timers' = {}
    BY <1>1, <1>7 DEF Stop
  <2>2. recorder \in 1..MaxStarts
    BY <2>1 DEF Numbered, Recording, Typed
  <2>3. \A rec \in 1..MaxStarts : rec # recorder => stopping'[rec] = stopping[rec]
    BY <1>7, <2>2, ListenedTyped DEF Stop
  <2> QED BY <1>1, <2>1, <2>3 DEF Alone
<1>8. CASE Leave
  BY <1>1, <1>8 DEF Leave, Unmount, Alone
<1>9. ASSUME NEW r \in 1..MaxStarts, StopEvent(r) PROVE Alone'
  <2>1. r = recorder /\ timers = {} /\ phase = "recording"
    BY <1>1, <1>9 DEF StopEvent
  <2>2. mics' = {}
    BY <1>1, <1>9, <2>1 DEF StopEvent
  <2>3. \A rec \in 1..MaxStarts : stopping'[rec] = <<>>
    BY <1>1, <1>9, <2>1 DEF StopEvent, Typed
  <2>4. asks = {}
    BY <1>1, <2>1
  <2>5. UNCHANGED <<page, asks, timers>> /\ phase' = IF page = "open" THEN "uploading" ELSE phase
    BY <1>9 DEF StopEvent
  <2> QED BY <2>1, <2>2, <2>3, <2>4, <2>5 DEF Alone
<1>10. ASSUME NEW i \in DOMAIN uploads, NEW state \in {"stored", "failed"}, UploadAnswered(i, state)
       PROVE  Alone'
  <2>1. /\ DOMAIN uploads' = DOMAIN uploads /\ Len(uploads') = Len(uploads)
        /\ \A j \in DOMAIN uploads : j # i => uploads'[j] = uploads[j]
        /\ uploads'[i].state # "sent"
    BY <1>10, UploadSteps
  <2>2. uploads # <<>> /\ Len(uploads) \in DOMAIN uploads /\ uploads[i].state = "sent"
    BY <1>10 DEF UploadAnswered, Typed
  <2>3. CASE page = "open" /\ i = Len(uploads)
    <3>1. phase = "uploading" /\ mics = {} /\ timers = {}
      BY <1>1, <2>2, <2>3
    <3>2. \A rec \in 1..MaxStarts : stopping[rec] = <<>>
      BY <1>1, <3>1
    <3>3. mics' = {} /\ timers' = {} /\ asks = {}
      BY <1>1, <1>10, <3>1 DEF UploadAnswered, Unmount
    <3>4. UNCHANGED <<asks, stopping>> /\ uploads'[Len(uploads')].state # "sent"
      BY <1>10, <2>1, <2>3 DEF UploadAnswered
    <3> QED BY <3>2, <3>3, <3>4 DEF Alone
  <2>4. CASE ~ (page = "open" /\ i = Len(uploads))
    <3>1. UNCHANGED <<page, phase, asks, recorder, timer, timers, mics, stopping>>
      BY <1>10, <2>4 DEF UploadAnswered
    <3>2. page = "open" => uploads'[Len(uploads')] = uploads[Len(uploads)]
      BY <2>1, <2>2, <2>4
    <3> QED BY <1>1, <2>2, <3>1, <3>2 DEF Alone
  <2> QED BY <2>3, <2>4
<1>11. ASSUME NEW i \in DOMAIN uploads, NEW speech \in Transcripts, Analyze(i, speech) PROVE Alone'
  <2>1. /\ DOMAIN uploads' = DOMAIN uploads /\ Len(uploads') = Len(uploads)
        /\ \A j \in DOMAIN uploads : j # i => uploads'[j] = uploads[j]
        /\ uploads'[i].state # "sent"
    BY <1>11, UploadSteps
  <2>2. uploads # <<>> /\ Len(uploads) \in DOMAIN uploads
    BY DEF Typed
  <2>3. UNCHANGED <<page, phase, asks, recorder, timer, timers, mics, stopping>>
    BY <1>11 DEF Analyze, sound
  <2>4. uploads'[Len(uploads')].state = "sent" => uploads[Len(uploads)].state = "sent"
    BY <2>1, <2>2
  <2> QED BY <1>1, <2>2, <2>3, <2>4 DEF Alone
<1>12. CASE UNCHANGED vars
  BY <1>1, <1>12 DEF vars, Alone
<1> QED
  BY <1>2, <1>3, <1>4, <1>5, <1>6, <1>7, <1>8, <1>9, <1>10, <1>11, <1>12 DEF Next, Event

LEMMA SoleStep == Typed /\ Numbered /\ Sole /\ [Next]_vars => Sole'
<1> SUFFICES ASSUME Typed, Numbered, Sole, [Next]_vars, "started_twice" \notin slips'
             PROVE  Sole'
  BY DEF Sole
<1>1. /\ \A a, b \in asks : a = b
      /\ asks # {} => phase = "idle"
      /\ \A rec \in 1..MaxStarts : stopping[rec] # <<>> => rec = recorder /\ phase = "recording"
      /\ page = "open" /\ uploads # <<>> /\ uploads[Len(uploads)].state = "sent" => phase = "uploading"
      /\ chunks \subseteq {recorder}
      /\ \A i \in DOMAIN uploads : uploads[i].audio = {uploads[i].rec}
  BY SlipsGrow DEF Sole
<1>2. CASE Start
  <2>1. asks = {}
    BY <1>2 DEF Start, Slip
  <2> QED BY <1>1, <1>2, <2>1 DEF Start, Sole, sound
<1>3. ASSUME NEW a \in asks, Deny(a) PROVE Sole'
  BY <1>1, <1>3 DEF Deny, Sole, sound
<1>4. ASSUME NEW a \in asks, Grant(a) PROVE Sole'
  <2>1. asks' = {} /\ phase = "idle" /\ chunks' = {}
    BY <1>1, <1>4 DEF Grant, Recorders
  <2>2. \A rec \in 1..MaxStarts : stopping[rec] = <<>>
    BY <1>1, <2>1
  <2>3. UNCHANGED <<page, uploads, stopping>>
    BY <1>4 DEF Grant, Recorders
  <2>4. ~ (page = "open" /\ uploads # <<>> /\ uploads[Len(uploads)].state = "sent")
    BY <1>1, <2>1
  <2> QED BY <1>1, <2>1, <2>2, <2>3, <2>4 DEF Sole
<1>5. ASSUME NEW s \in 1..Slides, GoToSlide(s) PROVE Sole'
  BY <1>1, <1>5 DEF GoToSlide, Sole, sound
<1>6. CASE Second
  BY <1>1, <1>6 DEF Second, Sole, sound
<1>7. CASE Stop
  <2>1. UNCHANGED <<page, phase, asks, recorder, chunks, uploads>> /\ page = "open" /\ phase = "recording"
    BY <1>7 DEF Stop
  <2>2. recorder \in 1..MaxStarts
    BY <2>1 DEF Numbered, Recording, Typed
  <2>3. \A rec \in 1..MaxStarts : rec # recorder => stopping'[rec] = stopping[rec]
    BY <1>7, <2>2, ListenedTyped DEF Stop
  <2> QED BY <1>1, <2>1, <2>3 DEF Sole
<1>8. CASE Leave
  <2>1. chunks' \subseteq {recorder} /\ page' = "left"
    BY <1>1, <1>8 DEF Leave, Unmount
  <2>2. UNCHANGED <<phase, asks, recorder, stopping, uploads>>
    BY <1>8 DEF Leave
  <2> QED BY <1>1, <2>1, <2>2 DEF Sole
<1>9. ASSUME NEW r \in 1..MaxStarts, StopEvent(r) PROVE Sole'
  <2>1. r = recorder /\ phase = "recording" /\ asks = {}
    BY <1>1, <1>9 DEF StopEvent
  <2>2. chunks' = {r}
    BY <1>1, <1>9, <2>1 DEF StopEvent
  <2>3. \A rec \in 1..MaxStarts : stopping'[rec] = <<>>
    BY <1>1, <1>9, <2>1 DEF StopEvent, Typed
  <2>4. UNCHANGED <<page, asks, recorder>> /\ phase' = IF page = "open" THEN "uploading" ELSE phase
    BY <1>9 DEF StopEvent
  <2>5. \A i \in DOMAIN uploads' : uploads'[i].audio = {uploads'[i].rec}
    <3> DEFINE n == Len(uploads)
               m == Len(stopping[r])
    <3>1. n \in Nat /\ m \in Nat /\ DOMAIN uploads = 1..n
      BY DEF Typed
    <3>2. DOMAIN uploads' = 1..n + m
      BY <1>9, StopEventUploads
    <3>3. \A i \in 1..n : uploads'[i] = uploads[i]
      BY <1>9, StopEventUploads
    <3>4. \A i \in 1..m : uploads'[n + i] = Upload(r, stopping[r][i], chunks')
      BY <1>9, StopEventUploads
    <3>5. \A l, audio : Upload(r, l, audio).rec = r /\ Upload(r, l, audio).audio = audio
      BY DEF Upload
    <3> HIDE DEF n, m
    <3>6. \A i \in 1..m : uploads'[n + i].audio = {uploads'[n + i].rec}
      BY <2>2, <3>4, <3>5
    <3>7. \A i \in 1..n + m : i \in 1..n \/ (i - n \in 1..m /\ n + (i - n) = i)
      BY <3>1
    <3> QED BY <1>1, <3>1, <3>2, <3>3, <3>6, <3>7
  <2> QED BY <2>1, <2>2, <2>3, <2>4, <2>5 DEF Sole
<1>10. ASSUME NEW i \in DOMAIN uploads, NEW state \in {"stored", "failed"}, UploadAnswered(i, state)
       PROVE  Sole'
  <2>1. /\ DOMAIN uploads' = DOMAIN uploads /\ Len(uploads') = Len(uploads)
        /\ \A j \in DOMAIN uploads : uploads'[j].rec = uploads[j].rec /\ uploads'[j].audio = uploads[j].audio
        /\ \A j \in DOMAIN uploads : j # i => uploads'[j] = uploads[j]
        /\ uploads'[i].state # "sent"
    BY <1>10, UploadSteps
  <2>2. uploads # <<>> /\ Len(uploads) \in DOMAIN uploads /\ uploads[i].state = "sent"
    BY <1>10 DEF UploadAnswered, Typed
  <2>3. \A j \in DOMAIN uploads' : uploads'[j].audio = {uploads'[j].rec}
    BY <1>1, <2>1
  <2>4. UNCHANGED <<asks, recorder, stopping>> /\ chunks' \subseteq {recorder}
    BY <1>1, <1>10 DEF UploadAnswered, Unmount
  <2>5. CASE page = "open" /\ i = Len(uploads)
    <3>1. phase = "uploading"
      BY <1>1, <2>2, <2>5
    <3>2. (\A rec \in 1..MaxStarts : stopping[rec] = <<>>) /\ asks = {}
      BY <1>1, <3>1
    <3>3. uploads'[Len(uploads')].state # "sent"
      BY <2>1, <2>5
    <3> QED BY <2>3, <2>4, <3>2, <3>3 DEF Sole
  <2>6. CASE ~ (page = "open" /\ i = Len(uploads))
    <3>1. UNCHANGED <<page, phase>>
      BY <1>10, <2>6 DEF UploadAnswered
    <3>2. page = "open" => uploads'[Len(uploads')] = uploads[Len(uploads)]
      BY <2>1, <2>2, <2>6
    <3> QED BY <1>1, <2>2, <2>3, <2>4, <3>1, <3>2 DEF Sole
  <2> QED BY <2>5, <2>6
<1>11. ASSUME NEW i \in DOMAIN uploads, NEW speech \in Transcripts, Analyze(i, speech) PROVE Sole'
  <2>1. /\ DOMAIN uploads' = DOMAIN uploads /\ Len(uploads') = Len(uploads)
        /\ \A j \in DOMAIN uploads : uploads'[j].rec = uploads[j].rec /\ uploads'[j].audio = uploads[j].audio
        /\ \A j \in DOMAIN uploads : j # i => uploads'[j] = uploads[j]
        /\ uploads'[i].state # "sent"
    BY <1>11, UploadSteps
  <2>2. uploads # <<>> /\ Len(uploads) \in DOMAIN uploads
    BY DEF Typed
  <2>3. UNCHANGED <<page, phase, asks, recorder, chunks, stopping>>
    BY <1>11 DEF Analyze, sound
  <2>4. uploads'[Len(uploads')].state = "sent" => uploads[Len(uploads)].state = "sent"
    BY <2>1, <2>2
  <2>5. \A j \in DOMAIN uploads' : uploads'[j].audio = {uploads'[j].rec}
    BY <1>1, <2>1
  <2> QED BY <1>1, <2>2, <2>3, <2>4, <2>5 DEF Sole
<1>12. CASE UNCHANGED vars
  BY <1>1, <1>12 DEF vars, Sole
<1> QED
  BY <1>2, <1>3, <1>4, <1>5, <1>6, <1>7, <1>8, <1>9, <1>10, <1>11, <1>12 DEF Next, Event

(***************************************************************************)
(* The tracker and the screen.                                             *)
(***************************************************************************)
LEMMA TimingsTyped ==
  ASSUME Typed, NEW k \in DOMAIN timings
  PROVE  /\ k \in 1..Len(timings) /\ timings[k].slide \in 1..Slides
         /\ timings[k].start \in Nat /\ timings[k].end \in Nat
<1>1. timings[k] \in Entries /\ k \in 1..Len(timings)
  BY DEF Typed
<1> QED BY <1>1, Constants DEF Entries

LEMMA RecordedTyped ==
  ASSUME Typed, NEW rec \in 1..MaxStarts
  PROVE  /\ Recorded(rec) \in Nat /\ Recorded(rec) <= MaxSeconds
         /\ stopping[rec] = <<>> => Recorded(rec) = Elapsed
         /\ Elapsed \in Nat /\ Elapsed = Len(screen) /\ Elapsed <= MaxSeconds
<1>1. Recorded(rec) \in 0..MaxSeconds
  BY ListenedTyped
<1>2. Elapsed \in Nat /\ Elapsed = Len(screen) /\ Elapsed <= MaxSeconds
  BY DEF Elapsed, Typed
<1> QED BY <1>1, <1>2, Constants DEF Recorded

LEMMA TellsSwitched ==
  ASSUME Typed, timings # <<>>, NEW c \in Nat, Tells(timings, screen, c),
         c <= timings[Len(timings)].end, NEW s \in 1..Slides
  PROVE  Tells(Switched(s), screen, c)
<1> DEFINE n == Len(timings)
           t == Switched(s)
<1>1. /\ n \in Nat /\ n \in DOMAIN timings /\ DOMAIN timings = 1..n
      /\ Elapsed \in Nat /\ Elapsed = Len(screen) /\ c <= Elapsed
  BY DEF Typed, Elapsed, Tells
<1>2. /\ DOMAIN t = 1..n + 1
      /\ t[n + 1].start = Elapsed
      /\ t[n].start = timings[n].start /\ t[n].slide = timings[n].slide /\ t[n].end = Elapsed
      /\ \A k \in 1..n - 1 : t[k] = timings[k]
  <2>1. t \in Seq(Entries) /\ Len(t) = n + 1
    BY SwitchedTyped
  <2>2. t[n + 1].start = Elapsed
    <3>1. t[n + 1] = [slide |-> s, start |-> Elapsed, end |-> Open]
      BY SwitchedTyped
    <3> HIDE DEF t, n
    <3> QED BY <3>1
  <2>3. t[n] = [timings[n] EXCEPT !.end = Elapsed] /\ timings[n] \in Entries
    <3>1. t[n] = [timings[n] EXCEPT !.end = Elapsed]
      BY SwitchedTyped
    <3>2. timings[n] \in Entries
      BY <1>1 DEF Typed
    <3> QED BY <3>1, <3>2
  <2>4. t[n].start = timings[n].start /\ t[n].slide = timings[n].slide /\ t[n].end = Elapsed
    BY <2>3 DEF Entries
  <2>5. \A k \in 1..n - 1 : t[k] = timings[k]
    BY SwitchedTyped
  <2> QED BY <2>1, <2>2, <2>4, <2>5
<1> HIDE DEF t, n
<1>3. \A k \in DOMAIN t : k = n + 1 \/ k = n \/ (k \in 1..n - 1 /\ k \in DOMAIN timings)
  BY <1>1, <1>2
<1>4. ASSUME NEW k \in DOMAIN t, NEW sec \in 0..MaxSeconds, sec < c, t[k].start <= sec, sec < t[k].end
      PROVE  screen[sec + 1] = t[k].slide
  <2>1. k # n + 1
    BY <1>1, <1>2, <1>4, Constants
  <2>2. k \in DOMAIN timings /\ t[k].start = timings[k].start /\ t[k].slide = timings[k].slide
    BY <1>1, <1>2, <1>3, <2>1
  <2>3. sec < timings[k].end
    <3>1. CASE k = n
      <4>1. timings[n].end \in Nat /\ c <= timings[n].end
        BY <1>1, TimingsTyped DEF n
      <4> QED BY <1>4, <3>1, <4>1, Constants
    <3>2. CASE k # n
      BY <1>2, <1>3, <1>4, <2>1, <3>2
    <3> QED BY <3>1, <3>2
  <2> QED BY <1>4, <2>2, <2>3 DEF Tells
<1>5. ASSUME NEW sec \in 0..MaxSeconds, sec < c
      PROVE  \E k \in DOMAIN t : t[k].start <= sec /\ sec < t[k].end
  <2>1. PICK k \in DOMAIN timings : timings[k].start <= sec /\ sec < timings[k].end
    BY <1>5 DEF Tells
  <2>2. k \in DOMAIN t /\ (k = n \/ k \in 1..n - 1)
    BY <1>1, <1>2
  <2>3. sec < Elapsed
    BY <1>1, <1>5, Constants
  <2> QED BY <1>2, <2>1, <2>2, <2>3
<1> QED BY <1>1, <1>4, <1>5 DEF Tells, t

LEMMA TellsStopped ==
  ASSUME Typed, timings # <<>>, NEW c \in Nat, Tells(timings, screen, c)
  PROVE  Tells(Stopped, screen, c)
<1> DEFINE n == Len(timings)
           t == Stopped
<1>1. /\ n \in Nat /\ n \in DOMAIN timings /\ DOMAIN timings = 1..n
      /\ Elapsed \in Nat /\ Elapsed = Len(screen) /\ c <= Elapsed /\ Elapsed <= MaxSeconds
  BY DEF Typed, Elapsed, Tells
<1>2. /\ DOMAIN t = DOMAIN timings
      /\ \A k \in DOMAIN timings : k # n => t[k] = timings[k]
      /\ t[n].start = timings[n].start /\ t[n].slide = timings[n].slide
      /\ t[n].end = IF timings[n].end = Open THEN Elapsed ELSE timings[n].end
  <2>1. DOMAIN t = DOMAIN timings /\ \A k \in DOMAIN timings : k # n => t[k] = timings[k]
    BY StoppedTyped
  <2>2. t[n] = [timings[n] EXCEPT !.end = IF @ = Open THEN Elapsed ELSE @] /\ timings[n] \in Entries
    BY <1>1, StoppedTyped DEF Typed
  <2>3. /\ t[n].start = timings[n].start /\ t[n].slide = timings[n].slide
        /\ t[n].end = IF timings[n].end = Open THEN Elapsed ELSE timings[n].end
    BY <2>2 DEF Entries
  <2> QED BY <2>1, <2>3
<1> HIDE DEF t, n
<1>3. \A sec \in 0..MaxSeconds : sec < c => (sec < t[n].end <=> sec < timings[n].end)
  <2> SUFFICES ASSUME NEW sec \in 0..MaxSeconds, sec < c PROVE sec < t[n].end <=> sec < timings[n].end
    OBVIOUS
  <2>1. sec < Elapsed /\ sec < Open
    BY <1>1, Constants
  <2> QED BY <1>2, <2>1
<1>4. ASSUME NEW k \in DOMAIN t, NEW sec \in 0..MaxSeconds, sec < c, t[k].start <= sec, sec < t[k].end
      PROVE  screen[sec + 1] = t[k].slide
  <2>1. /\ k \in DOMAIN timings /\ t[k].start = timings[k].start /\ t[k].slide = timings[k].slide
        /\ sec < timings[k].end
    BY <1>2, <1>3, <1>4
  <2> QED BY <1>4, <2>1 DEF Tells
<1>5. ASSUME NEW sec \in 0..MaxSeconds, sec < c
      PROVE  \E k \in DOMAIN t : t[k].start <= sec /\ sec < t[k].end
  <2>1. PICK k \in DOMAIN timings : timings[k].start <= sec /\ sec < timings[k].end
    BY <1>5 DEF Tells
  <2> QED BY <1>2, <1>3, <1>5, <2>1
<1> QED BY <1>1, <1>4, <1>5 DEF Tells, t

\* A second more of the screen changes nothing of what was told.
LEMMA TellsLater ==
  ASSUME Typed, NEW c \in Nat, Tells(timings, screen, c), screen' = Append(screen, slide)
  PROVE  /\ Tells(timings, screen', c)
         /\ Len(screen') = Elapsed + 1 /\ screen'[Elapsed + 1] = slide
<1>1. /\ screen \in Seq(1..Slides) /\ slide \in 1..Slides /\ Elapsed = Len(screen) /\ Elapsed \in Nat /\ c <= Elapsed
  BY DEF Typed, Elapsed, Tells
<1>2. Len(screen') = Elapsed + 1 /\ screen'[Elapsed + 1] = slide /\ \A i \in 1..Elapsed : screen'[i] = screen[i]
  BY <1>1
<1>3. \A sec \in 0..MaxSeconds : sec < c => sec + 1 \in 1..Elapsed
  BY <1>1, Constants
<1>4. \A sec \in 0..MaxSeconds : sec < c => screen'[sec + 1] = screen[sec + 1]
  BY <1>2, <1>3
<1>5. c <= Len(screen')
  BY <1>1, <1>2
<1>6. \A k \in DOMAIN timings : \A sec \in 0..MaxSeconds :
       sec < c /\ timings[k].start <= sec /\ sec < timings[k].end => screen'[sec + 1] = timings[k].slide
  BY <1>4 DEF Tells
<1> QED BY <1>2, <1>5, <1>6 DEF Tells

LEMMA TellsMore ==
  ASSUME Typed, Tells(timings, screen, Elapsed), screen' = Append(screen, slide), timings # <<>>,
         timings[Len(timings)].slide = slide, timings[Len(timings)].end = Open, Elapsed < MaxSeconds,
         \A k \in DOMAIN timings :
           timings[k].start <= Elapsed /\ (k # Len(timings) => timings[k].end <= Elapsed)
  PROVE  Tells(timings, screen', Elapsed + 1)
<1> DEFINE n == Len(timings)
<1>1. Elapsed \in Nat /\ n \in DOMAIN timings
  BY DEF Typed, Elapsed
<1>2. Tells(timings, screen', Elapsed) /\ Len(screen') = Elapsed + 1 /\ screen'[Elapsed + 1] = slide
  BY <1>1, TellsLater
<1>3. \A sec \in 0..MaxSeconds : sec < Elapsed + 1 => sec < Elapsed \/ sec = Elapsed
  BY <1>1, Constants
<1>4. ASSUME NEW k \in DOMAIN timings, NEW sec \in 0..MaxSeconds, sec < Elapsed + 1,
             timings[k].start <= sec, sec < timings[k].end
      PROVE  screen'[sec + 1] = timings[k].slide
  <2>1. CASE sec < Elapsed
    BY <1>2, <1>4, <2>1 DEF Tells
  <2>2. CASE sec = Elapsed
    <3>1. k = n
      BY <1>1, <1>4, <2>2, TimingsTyped
    <3> QED BY <1>2, <2>2, <3>1
  <2> QED BY <1>3, <1>4, <2>1, <2>2
<1>5. ASSUME NEW sec \in 0..MaxSeconds, sec < Elapsed + 1
      PROVE  \E k \in DOMAIN timings : timings[k].start <= sec /\ sec < timings[k].end
  <2>1. CASE sec < Elapsed
    BY <1>2, <2>1 DEF Tells
  <2>2. CASE sec = Elapsed
    <3>1. timings[n].start <= sec /\ sec < timings[n].end
      BY <1>1, <2>2, Constants
    <3> QED BY <1>1, <3>1
  <2> QED BY <1>3, <1>5, <2>1, <2>2
<1>6. Elapsed + 1 <= Len(screen')
  BY <1>1, <1>2
<1> QED BY <1>4, <1>5, <1>6 DEF Tells

LEMMA FollowsStep == Typed /\ Numbered /\ Follows /\ [Next]_vars => Follows'
<1> SUFFICES ASSUME Typed, Numbered, Follows, [Next]_vars, Prompt', Recording'
             PROVE  Follows'
  BY DEF Follows
<1>1. Prompt
  BY SlipsGrow DEF Prompt
<1>2. CASE UNCHANGED <<timings, screen, recorder, stopping, slide>> /\ (Recording' => Recording)
  BY <1>1, <1>2 DEF Follows, Recorded, Elapsed, Tells
<1>3. ASSUME NEW a \in asks, Grant(a) PROVE Follows'
  <2>1. a.rec \in 1..MaxStarts /\ stopping[a.rec] = <<>>
    BY DEF Numbered, Asked, Used, Typed
  <2>2. slide = a.slide
    BY <1>3 DEF Grant, Recorders, Prompt, Recording
  <2>3. /\ timings' = <<[slide |-> a.slide, start |-> 0, end |-> Open]>>
        /\ screen' = <<>> /\ recorder' = a.rec /\ UNCHANGED <<slide, stopping>>
    BY <1>3 DEF Grant, Recorders
  <2>4. /\ timings' # <<>> /\ DOMAIN timings' = {1} /\ Len(timings') = 1
        /\ timings'[1].slide = a.slide /\ timings'[1].start = 0 /\ timings'[1].end = Open
    BY <2>3
  <2>5. Elapsed' = 0 /\ Recorded(recorder)' = 0
    BY <2>1, <2>3 DEF Elapsed, Recorded
  <2>6. Tells(timings, screen, Recorded(recorder))'
    <3>1. Len(screen') = 0 /\ \A sec \in 0..MaxSeconds : ~ (sec < 0)
      BY <2>3, Constants
    <3>2. (\A k \in DOMAIN timings' : \A sec \in 0..MaxSeconds :
             sec < 0 /\ timings'[k].start <= sec /\ sec < timings'[k].end
               => screen'[sec + 1] = timings'[k].slide)
          /\ 0 <= Len(screen')
      BY <3>1
    <3> QED BY <2>5, <3>1, <3>2 DEF Tells
  <2>7. \A k \in DOMAIN timings' :
          timings'[k].start <= Elapsed' /\ (k # Len(timings') => timings'[k].end <= Elapsed')
    BY <2>4, <2>5
  <2>8. Recorded(recorder)' <= timings'[Len(timings')].end
    BY <2>4, <2>5, Constants
  <2> QED BY <2>2, <2>3, <2>4, <2>6, <2>7, <2>8 DEF Follows, Open
<1>4. ASSUME Recording
      PROVE  /\ recorder \in 1..MaxStarts /\ Tells(timings, screen, Recorded(recorder))
             /\ timings # <<>> /\ timings[Len(timings)].slide = slide
             /\ Recorded(recorder) <= timings[Len(timings)].end
             /\ stopping[recorder] = <<>> => timings[Len(timings)].end = Open
             /\ \A k \in DOMAIN timings :
                  timings[k].start <= Elapsed /\ (k # Len(timings) => timings[k].end <= Elapsed)
             /\ Recorded(recorder) \in Nat
             /\ Elapsed \in Nat /\ Elapsed = Len(screen) /\ Elapsed <= MaxSeconds
             /\ Recorded(recorder) <= Elapsed
             /\ Len(timings) \in DOMAIN timings /\ DOMAIN timings = 1..Len(timings)
  <2>1. /\ recorder \in 1..MaxStarts /\ Tells(timings, screen, Recorded(recorder))
        /\ timings # <<>> /\ timings[Len(timings)].slide = slide
        /\ Recorded(recorder) <= timings[Len(timings)].end
        /\ stopping[recorder] = <<>> => timings[Len(timings)].end = Open
        /\ \A k \in DOMAIN timings :
             timings[k].start <= Elapsed /\ (k # Len(timings) => timings[k].end <= Elapsed)
    BY <1>1, <1>4 DEF Follows, Numbered, Typed
  <2>2. Recorded(recorder) <= Elapsed
    BY <2>1 DEF Tells, Elapsed
  <2>3. Len(timings) \in DOMAIN timings /\ DOMAIN timings = 1..Len(timings)
    BY <2>1 DEF Typed
  <2> QED BY <2>1, <2>2, <2>3, RecordedTyped
<1>5. ASSUME NEW s \in 1..Slides, GoToSlide(s) PROVE Follows'
  <2>1. Recording
    BY <1>5 DEF GoToSlide, Recording
  <2>2. timings' = Switched(s) /\ slide' = s /\ UNCHANGED <<screen, recorder, stopping>>
    BY <1>5, <2>1 DEF GoToSlide, Recording, sound
  <2>3. Recorded(recorder)' = Recorded(recorder) /\ Elapsed' = Elapsed
    BY <2>2 DEF Recorded, Elapsed
  <2> DEFINE n == Len(timings)
  <2>4. Tells(timings', screen, Recorded(recorder))
    BY <1>4, <2>1, <2>2, TellsSwitched
  <2>5. /\ timings' \in Seq(Entries) /\ Len(timings') = n + 1
        /\ timings'[n + 1] = [slide |-> s, start |-> Elapsed, end |-> Open]
        /\ timings'[n] = [timings[n] EXCEPT !.end = Elapsed]
        /\ \A k \in 1..n - 1 : timings'[k] = timings[k]
    BY <1>4, <2>1, <2>2, SwitchedTyped
  <2>6. n \in Nat /\ n \in DOMAIN timings /\ timings[n] \in Entries
    BY <1>4, <2>1 DEF Typed
  <2> HIDE DEF n
  <2>7. /\ timings' # <<>> /\ DOMAIN timings' = 1..n + 1
        /\ timings'[n + 1].slide = s /\ timings'[n + 1].start = Elapsed /\ timings'[n + 1].end = Open
        /\ timings'[n].start = timings[n].start /\ timings'[n].end = Elapsed
    <3>1. timings' # <<>> /\ DOMAIN timings' = 1..n + 1
      BY <2>5, <2>6
    <3>2. timings'[n].start = timings[n].start /\ timings'[n].end = Elapsed
      BY <2>5, <2>6 DEF Entries
    <3> QED BY <2>5, <3>1, <3>2
  <2>8. \A k \in DOMAIN timings' :
          timings'[k].start <= Elapsed /\ (k # Len(timings') => timings'[k].end <= Elapsed)
    <3> SUFFICES ASSUME NEW k \in 1..n + 1
                 PROVE  timings'[k].start <= Elapsed /\ (k # n + 1 => timings'[k].end <= Elapsed)
      BY <2>5, <2>7
    <3>1. Elapsed \in Nat /\ timings[n].start <= Elapsed
      BY <1>4, <2>1, <2>6
    <3>2. CASE k = n + 1
      BY <2>7, <3>1, <3>2
    <3>3. CASE k = n
      BY <2>6, <2>7, <3>1, <3>3
    <3>4. CASE k \in 1..n - 1
      <4>1. k \in DOMAIN timings /\ k # n /\ timings'[k] = timings[k]
        BY <1>4, <2>1, <2>5, <2>6, <3>4 DEF n
      <4> QED BY <1>4, <2>1, <4>1 DEF n
    <3> QED BY <2>6, <3>2, <3>3, <3>4
  <2>9. Recorded(recorder) <= Open
    BY <1>4, <2>1, Constants
  <2> QED BY <2>2, <2>3, <2>4, <2>5, <2>7, <2>8, <2>9 DEF Follows, Open
<1>6. CASE Second
  <2>1. /\ Recording /\ screen' = Append(screen, slide) /\ Elapsed < MaxSeconds
        /\ UNCHANGED <<timings, recorder, stopping, slide>>
    BY <1>6 DEF Second, Recording, sound
  <2>2. Len(screen') = Elapsed + 1 /\ Elapsed' = Elapsed + 1
    BY <1>4, <2>1, TellsLater DEF Elapsed
  <2>3. \A k \in DOMAIN timings :
          timings[k].start <= Elapsed + 1 /\ (k # Len(timings) => timings[k].end <= Elapsed + 1)
    BY <1>4, <2>1, TimingsTyped
  <2>4. CASE stopping[recorder] = <<>>
    <3>1. Recorded(recorder) = Elapsed /\ Recorded(recorder)' = Elapsed + 1
      BY <2>1, <2>2, <2>4 DEF Recorded
    <3>2. timings[Len(timings)].end = Open
      BY <1>4, <2>1, <2>4
    <3>3. Tells(timings, screen', Elapsed + 1)
      BY <1>4, <2>1, <3>1, <3>2, TellsMore
    <3>4. Elapsed + 1 <= Open
      BY <1>4, <2>1, Constants
    <3> QED BY <1>4, <2>1, <2>2, <2>3, <3>1, <3>2, <3>3, <3>4 DEF Follows, Open
  <2>5. CASE stopping[recorder] # <<>>
    <3>1. Recorded(recorder)' = Recorded(recorder)
      BY <2>1, <2>5 DEF Recorded
    <3>2. Tells(timings, screen', Recorded(recorder))
      BY <1>4, <2>1, TellsLater
    <3> QED BY <1>4, <2>1, <2>2, <2>3, <2>5, <3>1, <3>2 DEF Follows
  <2> QED BY <2>4, <2>5
<1>7. CASE Stop
  <2>1. /\ Recording /\ timings' = Stopped /\ stopping' = Listened(recorder)
        /\ UNCHANGED <<screen, recorder, slide>>
    BY <1>7 DEF Stop, Recording
  <2> DEFINE n == Len(timings)
             c == Recorded(recorder)
  <2>2. /\ Len(stopping'[recorder]) = Len(stopping[recorder]) + 1
        /\ \A i \in DOMAIN stopping[recorder] : stopping'[recorder][i] = stopping[recorder][i]
        /\ stopping'[recorder][Len(stopping[recorder]) + 1] =
             [timings |-> Stopped, screen |-> screen, seconds |-> Recorded(recorder)]
        /\ stopping'[recorder] \in Seq(Listeners) /\ stopping[recorder] \in Seq(Listeners)
    <3>1. recorder \in 1..MaxStarts
      BY <1>4, <2>1
    <3>2. /\ Len(Listened(recorder)[recorder]) = Len(stopping[recorder]) + 1
          /\ \A i \in DOMAIN stopping[recorder] : Listened(recorder)[recorder][i] = stopping[recorder][i]
          /\ Listened(recorder)[recorder][Len(stopping[recorder]) + 1] =
               [timings |-> Stopped, screen |-> screen, seconds |-> Recorded(recorder)]
          /\ Listened(recorder) \in [1..MaxStarts -> Seq(Listeners)]
      BY <3>1, ListenedTyped
    <3>3. Listened(recorder)[recorder] \in Seq(Listeners)
      BY <3>1, <3>2
    <3>4. stopping[recorder] \in Seq(Listeners)
      BY <3>1 DEF Typed
    <3> QED BY <2>1, <3>2, <3>3, <3>4
  <2>3. stopping'[recorder] # <<>> /\ Head(stopping'[recorder]).seconds = c
    <3>1. CASE stopping[recorder] = <<>>
      <4>1. Len(stopping'[recorder]) = 1
            /\ stopping'[recorder][1] = [timings |-> Stopped, screen |-> screen, seconds |-> c]
        BY <2>2, <3>1
      <4> HIDE DEF c
      <4>2. stopping'[recorder] # <<>> /\ Head(stopping'[recorder]) = stopping'[recorder][1]
        BY <2>2, <4>1
      <4> QED BY <4>1, <4>2
    <3>2. CASE stopping[recorder] # <<>>
      <4>1. Len(stopping[recorder]) \in Nat /\ 1 \in DOMAIN stopping[recorder]
            /\ Head(stopping[recorder]) = stopping[recorder][1]
        BY <2>2, <3>2
      <4>2. stopping'[recorder] # <<>> /\ Head(stopping'[recorder]) = stopping'[recorder][1]
        BY <2>2, <4>1
      <4>3. c = Head(stopping[recorder]).seconds
        BY <3>2 DEF Recorded
      <4> QED BY <2>2, <4>1, <4>2, <4>3
    <3> QED BY <3>1, <3>2
  <2>4. Recorded(recorder)' = c /\ Elapsed' = Elapsed
    BY <2>1, <2>3 DEF Recorded, Elapsed
  <2>5. Tells(timings', screen, c)
    BY <1>4, <2>1, TellsStopped
  <2>6. /\ DOMAIN timings' = DOMAIN timings /\ Len(timings') = n
        /\ timings'[n] = [timings[n] EXCEPT !.end = IF @ = Open THEN Elapsed ELSE @]
        /\ \A k \in DOMAIN timings : k # n => timings'[k] = timings[k]
    BY <1>4, <2>1, StoppedTyped
  <2>7. n \in DOMAIN timings /\ timings[n] \in Entries /\ DOMAIN timings # {}
    BY <1>4, <2>1 DEF Typed
  <2> HIDE DEF n, c
  <2>8. /\ timings'[n].slide = timings[n].slide /\ timings'[n].start = timings[n].start
        /\ timings'[n].end = IF timings[n].end = Open THEN Elapsed ELSE timings[n].end
    BY <2>6, <2>7 DEF Entries
  <2>9. c <= timings'[n].end
    BY <1>4, <2>1, <2>8 DEF n, c
  <2>10. timings' # <<>>
    BY <2>6, <2>7
  <2>11. \A k \in DOMAIN timings' :
           timings'[k].start <= Elapsed /\ (k # n => timings'[k].end <= Elapsed)
    BY <1>4, <2>1, <2>6, <2>8 DEF n
  <2>12. timings'[n].slide = slide
    BY <1>4, <2>1, <2>8 DEF n
  <2> QED BY <2>1, <2>3, <2>4, <2>5, <2>6, <2>9, <2>10, <2>11, <2>12 DEF Follows
<1>8. \A r \in 1..MaxStarts : StopEvent(r) => ~ Recording'
  BY DEF StopEvent, Recording, Typed
<1>9. ASSUME NEW i \in DOMAIN uploads,
             \/ \E state \in {"stored", "failed"} : UploadAnswered(i, state)
             \/ \E speech \in Transcripts : Analyze(i, speech)
      PROVE  UNCHANGED <<timings, screen, recorder, stopping, slide>> /\ (Recording' => Recording)
  BY <1>9 DEF UploadAnswered, Unmount, Analyze, sound, Recording
<1>10. Start \/ (\E a \in asks : Deny(a)) \/ Leave \/ UNCHANGED vars
       => UNCHANGED <<timings, screen, recorder, stopping, slide>> /\ (Recording' => Recording)
  BY DEF Start, Deny, Leave, Unmount, vars, sound, Recording
<1> QED
  BY <1>2, <1>3, <1>5, <1>6, <1>7, <1>8, <1>9, <1>10 DEF Next, Event

(***************************************************************************)
(* What the server gets and makes of it.                                   *)
(***************************************************************************)
LEMMA KeptStep == Typed /\ Numbered /\ Follows /\ Kept /\ [Next]_vars => Kept'
<1> SUFFICES ASSUME Typed, Numbered, Follows, Kept, [Next]_vars, Prompt'
             PROVE  Kept'
  BY DEF Kept
<1>1. Prompt
  BY SlipsGrow DEF Prompt
<1>2. /\ \A rec \in 1..MaxStarts : \A i \in DOMAIN stopping[rec] :
           Tells(stopping[rec][i].timings, stopping[rec][i].screen, stopping[rec][i].seconds)
      /\ \A i \in DOMAIN uploads : Tells(uploads[i].timings, uploads[i].screen, uploads[i].seconds)
  BY <1>1 DEF Kept
<1>3. CASE UNCHANGED <<stopping, uploads>>
  BY SMTT(30), <1>2, <1>3 DEF Kept, Tells
<1>4. CASE Stop
  <2>1. /\ Recording /\ stopping' = Listened(recorder) /\ UNCHANGED uploads
        /\ recorder \in 1..MaxStarts /\ timings # <<>>
    BY <1>4 DEF Stop, Recording, Numbered, Typed
  <2>2. Tells(Stopped, screen, Recorded(recorder))
    <3>1. Tells(timings, screen, Recorded(recorder))
      BY <1>1, <2>1 DEF Follows
    <3> QED BY <2>1, <3>1, RecordedTyped, TellsStopped
  <2>3. /\ \A r \in 1..MaxStarts : r # recorder => stopping'[r] = stopping[r]
        /\ \A i \in DOMAIN stopping[recorder] : stopping'[recorder][i] = stopping[recorder][i]
        /\ stopping'[recorder][Len(stopping[recorder]) + 1] =
             [timings |-> Stopped, screen |-> screen, seconds |-> Recorded(recorder)]
    BY <2>1, ListenedTyped
  <2>4. DOMAIN stopping'[recorder] = DOMAIN stopping[recorder] \cup {Len(stopping[recorder]) + 1}
    <3>1. stopping' \in [1..MaxStarts -> Seq(Listeners)] /\ Len(stopping'[recorder]) = Len(stopping[recorder]) + 1
      BY <2>1, ListenedTyped
    <3>2. stopping'[recorder] \in Seq(Listeners) /\ stopping[recorder] \in Seq(Listeners)
      BY <2>1, <3>1 DEF Typed
    <3> QED BY <3>1, <3>2
  <2>5. ASSUME NEW rec \in 1..MaxStarts, NEW i \in DOMAIN stopping'[rec]
        PROVE  Tells(stopping'[rec][i].timings, stopping'[rec][i].screen, stopping'[rec][i].seconds)
    <3>1. CASE rec = recorder /\ i = Len(stopping[recorder]) + 1
      <4>1. stopping'[rec][i].timings = Stopped /\ stopping'[rec][i].screen = screen
            /\ stopping'[rec][i].seconds = Recorded(recorder)
        BY <2>3, <3>1
      <4> QED BY <2>2, <4>1
    <3>2. CASE ~ (rec = recorder /\ i = Len(stopping[recorder]) + 1)
      <4>1. i \in DOMAIN stopping[rec] /\ stopping'[rec][i] = stopping[rec][i]
        BY <2>3, <2>4, <3>2
      <4> QED BY <1>2, <4>1
    <3> QED BY <3>1, <3>2
  <2>6. \A i \in DOMAIN uploads' : Tells(uploads'[i].timings, uploads'[i].screen, uploads'[i].seconds)
    BY <1>2, <2>1
  <2> QED BY <2>5, <2>6 DEF Kept, Tells
<1>5. ASSUME NEW r \in 1..MaxStarts, StopEvent(r) PROVE Kept'
  <2> DEFINE n == Len(uploads)
             m == Len(stopping[r])
  <2>1. n \in Nat /\ m \in Nat /\ DOMAIN uploads = 1..n /\ DOMAIN stopping[r] = 1..m
    BY DEF Typed
  <2>2. DOMAIN uploads' = 1..n + m
    BY <1>5, StopEventUploads
  <2>3. \A i \in 1..n : uploads'[i] = uploads[i]
    BY <1>5, StopEventUploads
  <2>4. \A i \in 1..m : uploads'[n + i] = Upload(r, stopping[r][i], chunks')
    BY <1>5, StopEventUploads
  <2> HIDE DEF n, m
  <2>5. ASSUME NEW i \in DOMAIN uploads'
        PROVE  Tells(uploads'[i].timings, uploads'[i].screen, uploads'[i].seconds)
    <3>1. CASE i \in 1..n
      BY <1>2, <2>1, <2>3, <3>1
    <3>2. CASE i \notin 1..n
      <4>1. i - n \in 1..m /\ n + (i - n) = i
        BY <2>1, <2>2, <3>2
      <4>2. uploads'[i] = Upload(r, stopping[r][i - n], chunks')
        BY <2>4, <4>1
      <4>3. /\ uploads'[i].timings = stopping[r][i - n].timings
            /\ uploads'[i].screen = stopping[r][i - n].screen
            /\ uploads'[i].seconds = stopping[r][i - n].seconds
        BY <4>2 DEF Upload
      <4> QED BY <1>2, <2>1, <4>1, <4>3
    <3> QED BY <3>1, <3>2
  <2>6. ASSUME NEW rec \in 1..MaxStarts, NEW i \in DOMAIN stopping'[rec]
        PROVE  Tells(stopping'[rec][i].timings, stopping'[rec][i].screen, stopping'[rec][i].seconds)
    <3>1. stopping'[rec] = stopping[rec]
      BY <1>5 DEF StopEvent, Typed
    <3> QED BY <1>2, <3>1
  <2> QED BY <2>5, <2>6 DEF Kept, Tells
<1>6. ASSUME NEW i \in DOMAIN uploads,
             \/ \E state \in {"stored", "failed"} : UploadAnswered(i, state)
             \/ \E speech \in Transcripts : Analyze(i, speech)
      PROVE  Kept'
  <2>1. UNCHANGED stopping
    BY <1>6 DEF UploadAnswered, Analyze
  <2>2. /\ DOMAIN uploads' = DOMAIN uploads
        /\ \A j \in DOMAIN uploads : j # i => uploads'[j] = uploads[j]
    BY <1>6, UploadSteps
  <2>3. Tells(uploads'[i].timings, uploads'[i].screen, uploads'[i].seconds)
    <3>1. ASSUME NEW state \in {"stored", "failed"}, UploadAnswered(i, state)
          PROVE  Tells(uploads'[i].timings, uploads'[i].screen, uploads'[i].seconds)
      <4>1. uploads[i] \in Uploads
        BY UploadTyped
      <4>2. uploads'[i] = Answered(uploads[i], state)
        BY <3>1 DEF UploadAnswered, Typed
      <4>3. CASE state = "stored"
        BY <1>2, <4>1, <4>2, <4>3, AnsweredTyped
      <4>4. CASE state = "failed"
        <5>1. uploads'[i].timings = <<>> /\ uploads'[i].screen = <<>> /\ uploads'[i].seconds = 0
          BY <4>1, <4>2, <4>4, AnsweredTyped
        <5>2. Tells(<<>>, <<>>, 0)
          BY Constants DEF Tells
        <5> QED BY <5>1, <5>2
      <4> QED BY <4>3, <4>4
    <3>2. ASSUME NEW speech \in Transcripts, Analyze(i, speech)
          PROVE  Tells(uploads'[i].timings, uploads'[i].screen, uploads'[i].seconds)
      <4>1. PICK u \in Uploads : /\ uploads' = [uploads EXCEPT ![i] = u]
                                 /\ u.timings = uploads[i].timings /\ u.screen = uploads[i].screen
                                 /\ u.seconds = uploads[i].seconds
        BY <3>2, AnalyzeWrites
      <4>2. uploads'[i] = u
        BY <4>1, OneUpload
      <4> QED BY <1>2, <4>1, <4>2
    <3> QED BY <1>6, <3>1, <3>2
  <2>4. \A j \in DOMAIN uploads' : Tells(uploads'[j].timings, uploads'[j].screen, uploads'[j].seconds)
    BY <1>2, <2>2, <2>3
  <2> QED BY <1>2, <2>1, <2>4 DEF Kept, Tells
<1>7. Start \/ (\E a \in asks : Deny(a) \/ Grant(a)) \/ (\E s \in 1..Slides : GoToSlide(s)) \/ Second
        \/ Leave \/ UNCHANGED vars
      => UNCHANGED <<stopping, uploads>>
  BY DEF Start, Deny, Grant, Recorders, GoToSlide, Second, Leave, vars
<1> QED
  BY <1>3, <1>4, <1>5, <1>6, <1>7 DEF Next, Event

LEMMA HeededStep == Typed /\ Heeded /\ [Next]_vars => Heeded'
<1> SUFFICES ASSUME Typed, Heeded, [Next]_vars PROVE Heeded'
  OBVIOUS
<1>1. CASE UNCHANGED uploads
  BY <1>1 DEF Heeded
<1>2. ASSUME NEW r \in 1..MaxStarts, StopEvent(r) PROVE Heeded'
  <2> DEFINE n == Len(uploads)
             m == Len(stopping[r])
  <2>1. n \in Nat /\ m \in Nat /\ DOMAIN uploads = 1..n
    BY DEF Typed
  <2>2. DOMAIN uploads' = 1..n + m
    BY <1>2, StopEventUploads
  <2>3. \A i \in 1..n : uploads'[i] = uploads[i]
    BY <1>2, StopEventUploads
  <2>4. \A i \in 1..m : uploads'[n + i] = Upload(r, stopping[r][i], chunks')
    BY <1>2, StopEventUploads
  <2> HIDE DEF n, m
  <2>5. \A i \in DOMAIN uploads' : uploads'[i].state = "analysed" => i \in 1..n
    <3> SUFFICES ASSUME NEW i \in DOMAIN uploads', i \notin 1..n PROVE uploads'[i].state = "sent"
      OBVIOUS
    <3>1. i - n \in 1..m /\ n + (i - n) = i
      BY <2>1, <2>2
    <3>2. uploads'[i] = Upload(r, stopping[r][i - n], chunks')
      BY <2>4, <3>1
    <3> QED BY <3>2 DEF Upload
  <2> QED BY <2>1, <2>3, <2>5 DEF Heeded
<1>3. ASSUME NEW i \in DOMAIN uploads, NEW state \in {"stored", "failed"}, UploadAnswered(i, state)
      PROVE  Heeded'
  <2>1. /\ DOMAIN uploads' = DOMAIN uploads
        /\ \A j \in DOMAIN uploads : j # i => uploads'[j] = uploads[j]
    BY <1>3, UploadSteps
  <2>2. uploads'[i].state # "analysed"
    <3>1. uploads'[i] = Answered(uploads[i], state)
      BY <1>3 DEF UploadAnswered, Typed
    <3>2. Answered(uploads[i], state).state = state
      BY UploadTyped, AnsweredTyped
    <3> QED BY <3>1, <3>2
  <2> QED BY <2>1, <2>2 DEF Heeded
<1>4. ASSUME NEW i \in DOMAIN uploads, NEW speech \in Transcripts, Analyze(i, speech) PROVE Heeded'
  <2>1. PICK u \in Uploads : /\ uploads' = [uploads EXCEPT ![i] = u]
                             /\ u.rec = uploads[i].rec /\ u.audio = uploads[i].audio
                             /\ u.seconds = uploads[i].seconds /\ u.speech = speech
                             /\ u.pacing = PacingFindings(WindowsFromTimings(u.timings))
    BY <1>4, AnalyzeWrites
  <2>2. /\ DOMAIN uploads' = DOMAIN uploads
        /\ uploads'[i] = u
        /\ \A j \in DOMAIN uploads : j # i => uploads'[j] = uploads[j]
    BY <2>1, OneUpload
  <2>3. uploads[i].audio = {uploads[i].rec} => \A seg \in ToSet(speech) : seg.start < uploads[i].seconds
    BY <1>4 DEF Analyze
  <2> QED BY <2>1, <2>2, <2>3 DEF Heeded
<1>5. Start \/ (\E a \in asks : Deny(a) \/ Grant(a)) \/ (\E s \in 1..Slides : GoToSlide(s)) \/ Second
        \/ Stop \/ Leave \/ UNCHANGED vars
      => UNCHANGED uploads
  BY DEF Start, Deny, Grant, Recorders, GoToSlide, Second, Stop, Leave, vars
<1> QED
  BY <1>1, <1>2, <1>3, <1>4, <1>5 DEF Next, Event

(***************************************************************************)
(* The invariant, and what follows from it.                                *)
(***************************************************************************)
LEMMA InitGood == Init => RecorderInv
<1> SUFFICES ASSUME Init PROVE RecorderInv
  OBVIOUS
<1>1. /\ page = "open" /\ phase = "idle" /\ recorder = 0 /\ timer = 0 /\ mics = {} /\ timers = {}
      /\ chunks = {} /\ asks = {} /\ uploads = <<>> /\ DOMAIN uploads = {}
      /\ \A rec \in 1..MaxStarts : stopping[rec] = <<>> /\ Len(stopping[rec]) = 0 /\ DOMAIN stopping[rec] = {}
  BY DEF Init
<1>2. Numbered
  BY <1>1, Constants DEF Numbered, Asked, Used, Uploaded, Recording
<1>3. Once
  BY <1>1, <1>2 DEF Once, Recording, Numbered
<1>4. Alone /\ Sole /\ Follows
  BY <1>1 DEF Alone, Sole, Follows, Recording
<1>5. Kept /\ Heeded
  BY <1>1 DEF Kept, Heeded
<1> QED BY <1>2, <1>3, <1>4, <1>5, InitTyped DEF RecorderInv

\* The inductive invariant: recorders are numbered and used once, and entries
\* and uploads tell what was on the screen (RehearsalRecorder,
\* slideTimingTracker).
THEOREM InvHolds == Spec => []RecorderInv
<1>1. Init => RecorderInv
  BY InitGood
<1>2. RecorderInv /\ [Next]_vars => RecorderInv'
  BY TypedStep, NumberedStep, OnceStep, AloneStep, SoleStep, FollowsStep, KeptStep, HeededStep DEF RecorderInv
<1> QED BY <1>1, <1>2, PTL DEF Spec

LEMMA Members == ASSUME NEW S, NEW s \in Seq(S) PROVE ToSet(s) \subseteq S
BY DEF ToSet

\* Every variable keeps its type.
THEOREM TypeCorrect == Spec => []TypeOK
<1>1. RecorderInv => TypeOK
  <2> SUFFICES ASSUME RecorderInv PROVE TypeOK
    OBVIOUS
  <2>1. Typed
    BY DEF RecorderInv
  <2>2. \A i \in DOMAIN uploads : uploads[i] \in Uploads
    BY <2>1 DEF Typed
  <2>3. \A rec \in 1..MaxStarts : \A i \in DOMAIN stopping[rec] : stopping[rec][i] \in Listeners
    <3>1. \A rec \in 1..MaxStarts : stopping[rec] \in Seq(Listeners)
      BY <2>1 DEF Typed
    <3> QED BY <3>1
  <2>4. ToSet(timings) \subseteq Entries /\ ToSet(screen) \subseteq 1..Slides
    BY <2>1, Members DEF Typed
  <2>5. \A t \in Seq(Entries) : ToSet(t) \subseteq Entries
    BY Members
  <2>6. \A u \in ToSet(uploads) : /\ u.rec \in 1..MaxStarts
                                  /\ u.state \in {"sent", "failed", "stored", "analysed"}
                                  /\ u.seconds \in 0..MaxSeconds /\ ToSet(u.timings) \subseteq Entries
                                  /\ u.audio \subseteq 1..MaxStarts
    BY <2>2, <2>5 DEF ToSet, Uploads
  <2>7. \A rec \in 1..MaxStarts : \A l \in ToSet(stopping[rec]) :
          l.seconds \in 0..MaxSeconds /\ ToSet(l.timings) \subseteq Entries
    BY <2>3, <2>5 DEF ToSet, Listeners
  <2>8. /\ page \in {"open", "left"} /\ phase \in {"idle", "recording", "uploading"}
        /\ slide \in 1..Slides /\ clicks \in 0..MaxStarts
        /\ asks \subseteq [rec : 1..MaxStarts, slide : 1..Slides]
        /\ {recorder, timer} \subseteq 0..MaxStarts
        /\ mics \cup chunks \cup timers \subseteq 1..MaxStarts
        /\ Len(screen) <= MaxSeconds /\ DOMAIN stopping = 1..MaxStarts
        /\ slips \subseteq {"started_twice", "stopped_twice", "paged_while_asking", "left_while_asking"}
    BY <2>1 DEF Typed
  <2> QED BY <2>4, <2>6, <2>7, <2>8 DEF TypeOK
<1> QED BY <1>1, InvHolds, PTL

\* The page never keeps a microphone or an interval that it no longer needs,
\* however often it records and whatever fails (startRecording, stopRecording,
\* the cleanup effect).
THEOREM MicIsAlwaysReleased == Spec => []MicIsReleased
<1>1. RecorderInv => MicIsReleased
  BY DEF RecorderInv, Alone, Clean, MicIsReleased
<1> QED BY <1>1, InvHolds, PTL

\* A recorder is uploaded once (the "stop" listener of stopRecording).
THEOREM OneAttemptForEach == Spec => []OneAttemptPerRecording
<1>1. RecorderInv => OneAttemptPerRecording
  BY DEF RecorderInv, Once, OneAttemptPerRecording, IsInjective
<1> QED BY <1>1, InvHolds, PTL

\* The sound of an upload is that of its own recorder, however many recordings
\* were made before and failed (startRecording resets the chunks it shares).
THEOREM SoundIsAlwaysOfItsRecorder == Spec => []SoundIsOfItsRecorder
<1>1. RecorderInv => SoundIsOfItsRecorder
  BY DEF RecorderInv, Sole, SoundIsOfItsRecorder, ToSet
<1> QED BY <1>1, InvHolds, PTL

(***************************************************************************)
(* The windows of the slides.                                              *)
(***************************************************************************)
\* A nonempty set of numbers has a least one.
LEMMA WellOrdered ==
  ASSUME NEW T \in SUBSET Nat, T # {}
  PROVE  \E x \in T : \A y \in T : x <= y
<1> DEFINE R == OpToRel(<, Nat)
<1>1. IsWellFoundedOn(R, Nat)
  BY NatLessThanWellFounded
<1>2. PICK x \in T : \A y \in T : <<y, x>> \notin R
  <2> HIDE DEF R
  <2> QED BY <1>1, WFMin
<1>3. \A y \in T : ~ (y < x)
  BY <1>2 DEF OpToRel
<1> HIDE DEF R
<1>4. \A y \in T : x <= y
  BY <1>3
<1> QED BY <1>4

\* One that has a bound has a greatest one.
LEMMA Greatest ==
  ASSUME NEW n \in Nat, NEW S \in SUBSET (0..n), S # {}
  PROVE  Max(S) \in S /\ \A x \in S : Max(S) >= x
<1> DEFINE T == {n - x : x \in S}
<1>1. \A x \in S : x \in Nat /\ n - x \in Nat
  OBVIOUS
<1>2. T \in SUBSET Nat /\ T # {}
  BY <1>1
<1>3. PICK y \in T : \A z \in T : y <= z
  <2> HIDE DEF T
  <2> QED BY <1>2, WellOrdered
<1>4. PICK x \in S : y = n - x
  BY <1>3
<1>5. ASSUME NEW w \in S PROVE x >= w
  <2>1. n - x <= n - w
    BY <1>3, <1>4
  <2> QED BY <1>1, <2>1
<1>6. \E v \in S : \A w \in S : v >= w
  BY <1>5
<1> QED BY <1>6 DEF Max

LEMMA Finite == ASSUME NEW n \in Nat, NEW V \in SUBSET (1..n) PROVE IsFiniteSet(V)
<1>1. IsFiniteSet(1..n)
  BY FS_Interval
<1> QED BY <1>1, FS_Subset

\* The window of a slide is the time of one of its entries.
LEMMA Window ==
  ASSUME NEW entries \in Seq(Entries), NEW s \in DOMAIN WindowsFromTimings(entries)
  PROVE  \E k \in DOMAIN entries : /\ entries[k].slide = s
                                   /\ WindowsFromTimings(entries)[s].start = entries[k].start
                                   /\ WindowsFromTimings(entries)[s].end = entries[k].end
<1> DEFINE visits == {i \in DOMAIN entries : entries[i].slide = s}
           k == Max(visits)
<1>1. visits # {} /\ visits \in SUBSET (0..Len(entries)) /\ Len(entries) \in Nat
  BY DEF WindowsFromTimings, ToSet
<1>2. k \in visits
  <2> HIDE DEF visits
  <2> QED BY <1>1, Greatest
<1>3. WindowsFromTimings(entries)[s] = [start |-> entries[k].start, end |-> entries[k].end]
  BY DEF WindowsFromTimings
<1> HIDE DEF k
<1> QED BY <1>2, <1>3

\* What was heard belongs to the slides that were shown (slideTimingTracker,
\* windows_from_slide_timings), for every deck and recording of any length.
THEOREM WordsAlwaysMeetTheirSlide == Spec => []WordsMeetTheirSlide
<1>1. RecorderInv => WordsMeetTheirSlide
  <2> SUFFICES ASSUME RecorderInv, Prompt, NEW i \in DOMAIN uploads, uploads[i].state = "analysed",
                      uploads[i].audio = {uploads[i].rec},
                      NEW s \in DOMAIN WindowsFromTimings(uploads[i].timings),
                      NEW seg \in ToSet(uploads[i].speech)
               PROVE  LET u == uploads[i]
                          heard == Heard(u.speech, WindowsFromTimings(u.timings)[s])
                      IN /\ seg \in heard => u.screen[seg.start + 1] = s
                         /\ u.screen[seg.start + 1] = s /\ Visits(u, s) = 1 => seg \in heard
    BY DEF WordsMeetTheirSlide, Analysed, Prompt, ToSet
  <2> DEFINE u == uploads[i]
             window == WindowsFromTimings(u.timings)[s]
  <2>1. u \in Uploads /\ u.timings \in Seq(Entries)
    BY UploadTyped DEF RecorderInv, Uploads
  <2>2. Tells(u.timings, u.screen, u.seconds)
    BY DEF RecorderInv, Kept
  <2>3. u.speech \in Transcripts /\ seg.start < u.seconds
    BY DEF RecorderInv, Heeded
  <2>4. seg \in Segments
    <3>1. u.speech \in Seq(Segments)
      BY <2>3, RecorderAssumption
    <3> QED BY <3>1, Members
  <2>5. seg.start \in 0..MaxSeconds
    <3>1. u.seconds \in 0..MaxSeconds /\ seg.start \in Nat
      BY <2>1, <2>4 DEF Uploads, Segments
    <3> QED BY <2>3, <3>1, Constants
  <2>6. PICK k \in DOMAIN u.timings : /\ u.timings[k].slide = s
                                      /\ window.start = u.timings[k].start
                                      /\ window.end = u.timings[k].end
    BY <2>1, Window
  <2>7. seg \in Heard(u.speech, window) <=> window.start <= seg.start /\ seg.start < window.end
    BY DEF Heard
  <2> HIDE DEF u, window
  <2>8. ASSUME window.start <= seg.start, seg.start < window.end
        PROVE  u.screen[seg.start + 1] = s
    BY <2>2, <2>3, <2>5, <2>6, <2>8 DEF Tells
  <2>9. ASSUME u.screen[seg.start + 1] = s, Visits(u, s) = 1
        PROVE  window.start <= seg.start /\ seg.start < window.end
    <3>1. PICK j \in DOMAIN u.timings : u.timings[j].start <= seg.start /\ seg.start < u.timings[j].end
      BY <2>2, <2>3, <2>5 DEF Tells
    <3>2. u.timings[j].slide = s
      BY <2>2, <2>3, <2>5, <2>9, <3>1 DEF Tells
    <3> DEFINE visits == {v \in DOMAIN u.timings : u.timings[v].slide = s}
    <3>3. visits \in SUBSET (1..Len(u.timings)) /\ Len(u.timings) \in Nat
      BY <2>1
    <3>4. IsFiniteSet(visits)
      <4> HIDE DEF visits
      <4> QED BY <3>3, Finite
    <3>5. Cardinality(visits) = 1
      BY <2>9 DEF Visits
    <3>6. j \in visits /\ k \in visits
      BY <2>6, <3>1, <3>2
    <3>7. j = k
      <4> HIDE DEF visits
      <4>1. PICK x : visits = {x}
        BY <3>4, <3>5, FS_Singleton
      <4> QED BY <3>6, <4>1
    <3> QED BY <2>6, <3>1, <3>7
  <2> QED BY <2>7, <2>8, <2>9 DEF u, window
<1> QED BY <1>1, InvHolds, PTL

\* What the findings say of a slide the map says too: they compare the time of
\* an entry with the same thresholds, as long as TooShort < TooLong
\* (_pacing_findings, classify_slide_pacing).
THEOREM PacingIsAlwaysInTheMap == Spec => []PacingIsInTheMap
<1>1. RecorderInv => PacingIsInTheMap
  <2> SUFFICES ASSUME RecorderInv, NEW i \in DOMAIN uploads, uploads[i].state = "analysed",
                      NEW f \in uploads[i].pacing
               PROVE  \E e \in ToSet(uploads[i].timings) :
                        e.slide = f.slide /\ SlidePacing(e.end - e.start) = f.kind
    BY DEF PacingIsInTheMap, Analysed, ToSet
  <2> DEFINE t == uploads[i].timings
             windows == WindowsFromTimings(t)
  <2>1. t \in Seq(Entries)
    BY UploadTyped DEF RecorderInv, Uploads
  <2>2. f \in PacingFindings(windows)
    BY DEF RecorderInv, Heeded
  <2> HIDE DEF windows
  <2>3. /\ f.slide \in DOMAIN windows
        /\ \/ f.kind = "swamp" /\ windows[f.slide].end - windows[f.slide].start >= TooLong
           \/ f.kind = "stub" /\ windows[f.slide].end - windows[f.slide].start <= TooShort
    BY <2>2 DEF PacingFindings
  <2>4. PICK k \in DOMAIN t : /\ t[k].slide = f.slide
                              /\ windows[f.slide].start = t[k].start
                              /\ windows[f.slide].end = t[k].end
    BY <2>1, <2>3, Window DEF windows
  <2>5. t[k] \in ToSet(t) /\ t[k].start \in Nat /\ t[k].end \in Nat
    <3>1. t[k] \in Entries
      BY <2>1
    <3> QED BY <3>1, Constants DEF ToSet, Entries
  <2>6. SlidePacing(t[k].end - t[k].start) = f.kind
    BY <2>3, <2>4, <2>5, SpeechAssumption DEF SlidePacing
  <2> QED BY <2>4, <2>5, <2>6
<1> QED BY <1>1, InvHolds, PTL
===============================================================================
