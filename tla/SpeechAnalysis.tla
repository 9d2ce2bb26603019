---------------------------- MODULE SpeechAnalysis ----------------------------
(***************************************************************************)
(* What the service hears in a recording: the metrics of the delivery, the *)
(* windows of time that belong to the slides by the clock of the recorder, *)
(* and the findings made of them.  A transcript is a sequence of segments  *)
(* with a start, an end, and the number of words and of filler words.      *)
(* Times are whole seconds, rates words per second.                        *)
(***************************************************************************)
EXTENDS Naturals, Sequences, SequencesExt, FiniteSetsExt

CONSTANTS
  TooLong, TooShort,      \* SLIDE_TOO_LONG_SECONDS, SLIDE_TOO_SHORT_SECONDS
  LongPause,              \* LONG_PAUSE_SECONDS
  FillerThreshold,        \* FILLER_COUNT_THRESHOLD
  MinRate, MaxRate        \* MIN_COMFORTABLE_WPM, MAX_COMFORTABLE_WPM

ASSUME SpeechAssumption ==
  /\ {TooLong, TooShort, LongPause, FillerThreshold, MinRate, MaxRate} \subseteq Nat
  /\ TooShort < TooLong

Total(tr, field) == FoldSeq(LAMBDA seg, sum : sum + seg[field], 0, tr)

Duration(tr) == IF tr = <<>> THEN 0 ELSE Last(tr).end - Head(tr).start

\* The ends of the segments that a long silence follows.
LongPauses(tr) ==
  {tr[i].end : i \in {j \in 1..Len(tr) - 1 : tr[j + 1].start > tr[j].end + LongPause}}

\* The rate of a talk without duration is 0, which no finding is made of.
UncomfortableRate(tr) ==
  LET words == Total(tr, "words")
  IN Duration(tr) > 0 /\ words > 0 /\ words \notin MinRate * Duration(tr)..MaxRate * Duration(tr)

DeliveryFindings(tr) ==
  {kind \in {"rate", "fillers", "pauses"} :
     CASE kind = "rate" -> UncomfortableRate(tr)
       [] kind = "fillers" -> Total(tr, "fillers") >= FillerThreshold
       [] kind = "pauses" -> LongPauses(tr) # {}}

\* A mutation of WindowsFromTimings: from the first visit of a slide to the last.
WindowsOverAllVisits(timings) ==
  [s \in {e.slide : e \in ToSet(timings)} |->
     LET visits == {e \in ToSet(timings) : e.slide = s}
     IN [start |-> Min({e.start : e \in visits}), end |-> Max({e.end : e \in visits})]]

\* A later visit of a slide takes the place of an earlier one.
WindowsFromTimings(timings) ==
  [s \in {e.slide : e \in ToSet(timings)} |->
     LET e == timings[Max({i \in DOMAIN timings : timings[i].slide = s})]
     IN [start |-> e.start, end |-> e.end]]

\* A mutation of SlidePacing: a slide of exactly the longest time passes.
SlidePacingStrictly(seconds) ==
  IF seconds > TooLong THEN "swamp" ELSE IF seconds <= TooShort THEN "stub" ELSE "fine"

SlidePacing(seconds) ==
  IF seconds >= TooLong THEN "swamp" ELSE IF seconds <= TooShort THEN "stub" ELSE "fine"

\* The findings of slides that take too long or hardly any time.
PacingFindings(windows) ==
  LET seconds(s) == windows[s].end - windows[s].start
  IN {[slide |-> s, kind |-> "swamp"] : s \in {r \in DOMAIN windows : seconds(r) >= TooLong}}
     \cup {[slide |-> s, kind |-> "stub"] : s \in {r \in DOMAIN windows : seconds(r) <= TooShort}}

\* What is said in a window, by the start of a segment; the slide is checked
\* against it unless it is nothing.
Heard(tr, window) == {seg \in ToSet(tr) : window.start <= seg.start /\ seg.start < window.end}
===============================================================================
