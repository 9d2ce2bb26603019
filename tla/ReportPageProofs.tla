--------------------------- MODULE ReportPageProofs ---------------------------
(***************************************************************************)
(* What holds of ReportPage for any number of clicks and of requests at    *)
(* once, and under all faults: the types, what the card shows when nothing *)
(* is under way, and what the row keeps of the clicks.                     *)
(***************************************************************************)
EXTENDS ReportPage, TLAPS

Calls ==
  [kind : Kinds, at : {"sent", "read", "written", "failing", "over"},
   read : Flags, known : Flags, heard : BOOLEAN]

Typed ==
  /\ status \in {"processing", "done", "failed"}
  /\ page \in Polled \cup {"stopped", "report", "failed", "error"}
  /\ row \in Flags /\ report \in Flags /\ card \in Flags
  /\ fetch \in [at : {"idle", "asked", "served"}, finding : Flags]
  /\ calls \in Seq(Calls) /\ Len(calls) <= MaxCalls
  /\ troubles \subseteq {"failed", "unfixed", "overlap"} \cup Grave

\* Nothing is clicked before the report is there.
Unopened == Polled \cup {"stopped"}
Early ==
  /\ status = "processing" =>
       page \in Unopened /\ fetch = [at |-> "idle", finding |-> Unset] /\ report = Unset
  /\ page \in Unopened => calls = <<>>

At(i, where) == calls[i].at \in where

\* Only a mounted card hears the errors of its requests; one of them is noted.
Listening == \A i \in DOMAIN calls : calls[i].heard => page = "report"
FailuresNoted ==
  \A i \in DOMAIN calls : At(i, {"failing"}) => troubles \cap ({"failed"} \cup Grave) # {}

\* A fix is never undone.
FixesStay ==
  /\ \A i \in DOMAIN calls : At(i, {"read"}) /\ calls[i].read.fixed => row.fixed
  /\ report.fixed => row.fixed
  /\ fetch.finding.fixed => row.fixed

\* The report is up to date, but for what a fetch to come will bring.
NoneWritten == \A i \in DOMAIN calls : ~ At(i, {"written"})
ReportInStep ==
  troubles \cap Grave = {} /\ NoneWritten =>
    /\ page = "report" /\ fetch.at = "idle" => report = row
    /\ fetch.at = "served" => fetch.finding = row

Same(f, g) == f.like = g.like /\ f.flag = g.flag
Shows(f, i) == f.like = (calls[i].kind = "like") /\ f.flag = (calls[i].kind = "flag")

\* Without overlaps only the last click can be under way; as long as its request
\* has stored nothing, all is as it was at the click.
OneAtATime == troubles \cap ({"overlap"} \cup Grave) = {} => \A i \in Pending : i = Len(calls)

Unstored(i) == At(i, {"sent", "read", "failing"})
AsAtTheClick ==
  troubles \cap ({"overlap"} \cup Grave) = {} =>
    \A i \in DOMAIN calls : Unstored(i) =>
      /\ page = "report" => report = row
      /\ calls[i].heard /\ IsVote(i) =>
           /\ Same(calls[i].known, row)
           /\ calls[i].kind = "like" => ~ row.like
           /\ calls[i].kind = "flag" => ~ row.flag
      /\ calls[i].heard /\ ~ IsVote(i) => ~ row.fixed \/ "unfixed" \in troubles
      /\ ~ calls[i].heard /\ page = "report" =>
           IF IsVote(i) THEN Same(card, report) ELSE card.fixed => report.fixed

LastVote(i) == IsVote(i) /\ \A j \in DOMAIN calls : IsVote(j) => j <= i
VotesEnd == \A i \in DOMAIN calls : IsVote(i) => \E j \in DOMAIN calls : LastVote(j)

\* What may still come of a click: it is stored, or the card takes it back.
Outstanding(i) == At(i, {"sent", "read"}) \/ (At(i, {"failing"}) /\ calls[i].heard)

Told == page = "report" /\ troubles \cap Grave = {} /\ ~ {"failed", "overlap"} \subseteq troubles

\* The card shows the report, or what the row is going to be.
CardFollows ==
  Told => \/ Same(card, report)
          \/ /\ \A i \in DOMAIN calls : LastVote(i) /\ Outstanding(i) => Shows(card, i)
             /\ (\A i \in DOMAIN calls : LastVote(i) => ~ Outstanding(i)) => Same(card, row)

FixesFollow ==
  Told /\ "unfixed" \notin troubles =>
    /\ report.fixed => card.fixed
    /\ card.fixed => row.fixed \/ \E i \in DOMAIN calls : ~ IsVote(i) /\ Outstanding(i)

\* The row shows the clicks that were handled.
ClicksCount ==
  troubles \cap ({"failed"} \cup Grave) = {} =>
    \A i \in DOMAIN calls : ~ At(i, {"sent", "read"}) =>
      /\ LastVote(i) => Shows(row, i)
      /\ ~ IsVote(i) => row.fixed \/ "unfixed" \in troubles

ReportInv ==
  /\ Typed /\ Early /\ Listening /\ FailuresNoted /\ FixesStay /\ ReportInStep
  /\ OneAtATime /\ AsAtTheClick /\ VotesEnd /\ CardFollows /\ FixesFollow /\ ClicksCount

\* As long as nothing was clicked there is little to show.
Unclicked ==
  Typed /\ Early /\ FixesStay /\ ReportInStep /\ calls = <<>> /\ page # "report"

LEMMA NoClick == Unclicked => ReportInv
<1> SUFFICES ASSUME Unclicked PROVE ReportInv
  OBVIOUS
<1>1. DOMAIN calls = {}
  BY DEF Unclicked
<1> QED
  BY <1>1 DEF Unclicked, ReportInv, Listening, FailuresNoted, OneAtATime, Pending, AsAtTheClick, VotesEnd,
              CardFollows, FixesFollow, Told, ClicksCount

LEMMA InitGood == Init => ReportInv
<1> SUFFICES ASSUME Init PROVE ReportInv
  OBVIOUS
<1>1. Typed /\ Early /\ page # "report" /\ calls = <<>>
  <2>1. calls \in Seq(Calls) /\ Len(calls) = 0
    BY DEF Init
  <2>2. Unset \in Flags /\ MaxCalls \in Nat
    BY ReportAssumption DEF Unset, Flags
  <2>3. row \in Flags /\ report \in Flags /\ card \in Flags /\ troubles = {}
    BY <2>2 DEF Init
  <2>4. fetch \in [at : {"idle", "asked", "served"}, finding : Flags]
    BY <2>2 DEF Init
  <2>5. /\ status = "processing" /\ page = "opening" /\ calls = <<>> /\ report = Unset
        /\ fetch = [at |-> "idle", finding |-> Unset]
    BY DEF Init
  <2> QED BY <2>1, <2>2, <2>3, <2>4, <2>5 DEF Typed, Early, Unopened, Polled
<1>2. FixesStay
  BY DEF Init, FixesStay, Unset
<1>3. ReportInStep
  BY DEF Init, ReportInStep
<1> QED BY <1>1, <1>2, <1>3, NoClick DEF Unclicked

(***************************************************************************)
(* Helpers.                                                                *)
(***************************************************************************)
\* Note remembers everything, until something grave has happened.
LEMMA Noted ==
  ASSUME Typed, NEW what, what \subseteq {"failed", "unfixed", "overlap"} \cup Grave, Note(what)
  PROVE  /\ troubles' \subseteq {"failed", "unfixed", "overlap"} \cup Grave
         /\ troubles' \cap Grave = {} => troubles' = troubles \cup what
         /\ troubles \cap Grave # {} => troubles' \cap Grave # {}
         /\ what \cap ({"failed"} \cup Grave) # {} => troubles' \cap ({"failed"} \cup Grave) # {}
<1> DEFINE all == troubles \cup what
<1>1. CASE all \cap Grave = {}
  <2>1. troubles' = all
    BY <1>1 DEF Note
  <2> QED BY <1>1, <2>1 DEF Typed
<1>2. CASE all \cap Grave # {}
  <2>1. troubles' = all \cap Grave
    BY <1>2 DEF Note
  <2> QED BY <1>2, <2>1
<1> QED BY <1>1, <1>2

\* The calls keep their kinds, and so the last vote stays the last.
LEMMA SameLast ==
  ASSUME DOMAIN calls' = DOMAIN calls, \A i \in DOMAIN calls : calls'[i].kind = calls[i].kind
  PROVE  /\ \A i \in DOMAIN calls : IsVote(i)' <=> IsVote(i)
         /\ \A i \in DOMAIN calls : LastVote(i)' <=> LastVote(i)
         /\ VotesEnd => VotesEnd'
<1>1. \A i \in DOMAIN calls : IsVote(i)' <=> IsVote(i)
  BY DEF IsVote
<1>2. \A i \in DOMAIN calls : LastVote(i)' <=> LastVote(i)
  BY <1>1 DEF LastVote
<1> QED BY <1>1, <1>2 DEF VotesEnd

\* A step of one call.
LEMMA OneCall ==
  ASSUME Typed, NEW i \in DOMAIN calls, NEW c \in Calls, c.kind = calls[i].kind,
         calls' = [calls EXCEPT ![i] = c]
  PROVE  /\ calls' \in Seq(Calls) /\ Len(calls') = Len(calls) /\ DOMAIN calls' = DOMAIN calls
         /\ calls'[i] = c
         /\ \A j \in DOMAIN calls : j # i => calls'[j] = calls[j]
         /\ \A j \in DOMAIN calls : calls'[j].kind = calls[j].kind
BY DEF Typed

LEMMA CallsTyped ==
  ASSUME Typed, NEW i \in DOMAIN calls
  PROVE  calls[i] \in Calls /\ i \in 1..Len(calls)
BY DEF Typed

(***************************************************************************)
(* Steps that change no call.                                              *)
(***************************************************************************)
\* The calls as they were.
LEMMA SameCalls ==
  ASSUME calls' = calls
  PROVE  /\ \A i \in DOMAIN calls : /\ IsVote(i)' <=> IsVote(i)
                                    /\ LastVote(i)' <=> LastVote(i)
                                    /\ Outstanding(i)' <=> Outstanding(i)
                                    /\ Unstored(i)' <=> Unstored(i)
         /\ VotesEnd' <=> VotesEnd
         /\ NoneWritten' <=> NoneWritten
<1>1. \A i \in DOMAIN calls : /\ IsVote(i)' <=> IsVote(i)
                              /\ Outstanding(i)' <=> Outstanding(i)
                              /\ Unstored(i)' <=> Unstored(i)
  BY DEF IsVote, Outstanding, Unstored, At
<1>2. \A i \in DOMAIN calls : LastVote(i)' <=> LastVote(i)
  BY <1>1 DEF LastVote
<1> QED BY <1>1, <1>2 DEF VotesEnd, NoneWritten, At

LEMMA FetchOnly ==
  ASSUME ReportInv, UNCHANGED <<status, row, page, report, card, calls, troubles>>,
         \/ fetch' = [at |-> "asked", finding |-> Unset] /\ page \in {"report", "error"}
         \/ fetch' = [at |-> "asked", finding |-> Unset] /\ status # "processing"
         \/ fetch' = [at |-> "served", finding |-> row] /\ fetch.at # "idle"
  PROVE  ReportInv'
<1>1. fetch' \in [at : {"idle", "asked", "served"}, finding : Flags] /\ fetch'.at # "idle"
  <2>1. row \in Flags /\ Unset \in Flags
    BY DEF ReportInv, Typed, Unset, Flags
  <2> QED BY <2>1
<1>2. Typed'
  BY <1>1 DEF ReportInv, Typed
<1>3. Early'
  BY DEF ReportInv, Early, Unopened, Polled
<1>4. FixesStay'
  BY DEF ReportInv, FixesStay, Unset, At
<1>5. ReportInStep'
  BY <1>1, SameCalls DEF ReportInv, ReportInStep, NoneWritten
<1>6. Listening' /\ FailuresNoted' /\ OneAtATime' /\ VotesEnd' /\ ClicksCount'
  BY SameCalls
     DEF ReportInv, Listening, FailuresNoted, OneAtATime, Pending, ClicksCount, At, Shows
<1>7. AsAtTheClick'
  BY SameCalls DEF ReportInv, AsAtTheClick, Same
<1>8. CardFollows' /\ FixesFollow'
  BY SameCalls DEF ReportInv, CardFollows, FixesFollow, Told, Same, Shows
<1> QED BY <1>2, <1>3, <1>4, <1>5, <1>6, <1>7, <1>8 DEF ReportInv

LEMMA FinishReviewStep == ReportInv /\ FinishReview => ReportInv'
<1> SUFFICES ASSUME ReportInv, FinishReview PROVE ReportInv'
  OBVIOUS
<1>1. /\ page \in Unopened /\ page # "report" /\ calls = <<>> /\ UNCHANGED <<page, report, fetch, card, calls, troubles>>
      /\ fetch = [at |-> "idle", finding |-> Unset] /\ report = Unset
  BY DEF FinishReview, ReportInv, Early, Unopened, Polled, browser
<1>2. row' \in Flags /\ status' \in {"done", "failed"}
  BY DEF FinishReview, ReportInv, Typed, Flags
<1>3. Typed' /\ Early'
  BY <1>1, <1>2 DEF ReportInv, Typed, Early
<1>4. FixesStay'
  BY <1>1, <1>2 DEF FixesStay, Unset
<1>5. ReportInStep'
  BY <1>1 DEF ReportInStep
<1>6. Unclicked'
  BY <1>1, <1>3, <1>4, <1>5 DEF Unclicked
<1> QED BY <1>6, NoClick, PTL

\* A page that is not open yet turns to another state.
LEMMA UnopenedStep ==
  ASSUME ReportInv, page \in Unopened, page' \in Unopened \cup {"failed"},
         UNCHANGED <<status, row, report, card, calls, troubles>>,
         page' = "failed" => status # "processing",
         \/ fetch' = fetch
         \/ fetch' = [at |-> "asked", finding |-> Unset] /\ status # "processing"
  PROVE  ReportInv'
<1>1. calls = <<>> /\ page' # "report"
  BY DEF ReportInv, Early, Unopened, Polled
<1>2. Typed'
  <2>1. Unset \in Flags
    BY DEF Unset, Flags
  <2>2. fetch' \in [at : {"idle", "asked", "served"}, finding : Flags]
    BY <2>1 DEF ReportInv, Typed
  <2> QED BY <2>2 DEF ReportInv, Typed, Unopened
<1>3. Early'
  BY <1>1 DEF ReportInv, Early
<1>4. FixesStay' /\ ReportInStep'
  BY <1>1, SameCalls DEF ReportInv, FixesStay, ReportInStep, At, Unset
<1>5. Unclicked'
  BY <1>1, <1>2, <1>3, <1>4 DEF Unclicked
<1> QED BY <1>5, NoClick, PTL

LEMMA PollReviewStep == ReportInv /\ PollReview => ReportInv'
<1> SUFFICES ASSUME ReportInv, PollReview PROVE ReportInv'
  OBVIOUS
<1> QED BY UnopenedStep DEF PollReview, Ask, Unopened, Polled

LEMMA ReceiveReportStep == ReportInv /\ ReceiveReport => ReportInv'
<1> SUFFICES ASSUME ReportInv, ReceiveReport PROVE ReportInv'
  OBVIOUS
<1>1. /\ fetch.at = "served" /\ fetch' = [at |-> "idle", finding |-> Unset]
      /\ report' = fetch.finding /\ page' = "report"
      /\ (card' = report') \/ (page = "report" /\ report' = report /\ card' = card)
      /\ UNCHANGED <<status, row, calls, troubles>>
  <2>1. fetch' = [at |-> "idle", finding |-> Unset]
    BY DEF ReceiveReport, ReportInv, Typed
  <2> QED BY <2>1 DEF ReceiveReport
<1>2. fetch.finding \in Flags /\ report \in Flags /\ card \in Flags /\ Unset \in Flags
  BY DEF ReportInv, Typed, Unset, Flags
<1>3. Typed'
  BY <1>1, <1>2 DEF ReportInv, Typed
<1>4. Early'
  BY <1>1 DEF ReportInv, Early, Unopened, Polled
<1>5. Listening' /\ FailuresNoted' /\ OneAtATime' /\ VotesEnd' /\ ClicksCount'
  BY <1>1, SameCalls
     DEF ReportInv, Listening, FailuresNoted, OneAtATime, Pending, ClicksCount, At, Shows
<1>6. FixesStay'
  BY <1>1 DEF ReportInv, FixesStay, At, Unset
<1>7. ReportInStep'
  BY <1>1, SameCalls DEF ReportInv, ReportInStep
<1>8. AsAtTheClick'
  <2> SUFFICES ASSUME troubles \cap ({"overlap"} \cup Grave) = {}, NEW i \in DOMAIN calls, Unstored(i)
               PROVE  /\ report' = row
                      /\ ~ calls[i].heard =>
                           IF IsVote(i) THEN Same(card', report') ELSE card'.fixed => report'.fixed
    BY <1>1, SameCalls DEF ReportInv, AsAtTheClick, Same
  <2>1. NoneWritten
    BY DEF ReportInv, OneAtATime, Pending, NoneWritten, Unstored, At
  <2>2. report' = row
    BY <1>1, <2>1 DEF ReportInv, ReportInStep
  <2>3. ~ calls[i].heard =>
          IF IsVote(i) THEN Same(card', report') ELSE card'.fixed => report'.fixed
    BY <1>1 DEF ReportInv, AsAtTheClick, Same
  <2> QED BY <2>2, <2>3
<1>9. CardFollows'
  BY <1>1, SameCalls DEF ReportInv, CardFollows, Told, Same, Shows
<1>10. FixesFollow'
  BY <1>1, <1>6, SameCalls DEF ReportInv, FixesFollow, Told, FixesStay
<1> QED BY <1>3, <1>4, <1>5, <1>6, <1>7, <1>8, <1>9, <1>10 DEF ReportInv

(***************************************************************************)
(* The card goes away or comes back.                                       *)
(***************************************************************************)
LEMMA DeafStep ==
  ASSUME ReportInv, calls' = Deaf, UNCHANGED <<status, row, report, troubles>>,
         page' \in {"report", "error"}, page' = "report" => page = "report" /\ card' = report,
         card' \in {card, report}, page' = "error" => status # "processing",
         \/ fetch' = fetch
         \/ page' = "error" /\ fetch' = [fetch EXCEPT !.at = "idle"],
         status # "processing"
  PROVE  ReportInv'
<1>1. /\ DOMAIN calls' = DOMAIN calls /\ Len(calls') = Len(calls) /\ calls' \in Seq(Calls)
      /\ \A i \in DOMAIN calls : /\ calls'[i].kind = calls[i].kind /\ calls'[i].at = calls[i].at
                                 /\ calls'[i].read = calls[i].read /\ calls'[i].heard = FALSE
  <2>1. \A i \in DOMAIN calls : calls[i] \in Calls
    BY CallsTyped DEF ReportInv
  <2>2. \A i \in DOMAIN calls : /\ [calls[i] EXCEPT !.heard = FALSE] \in Calls
                                /\ calls'[i] = [calls[i] EXCEPT !.heard = FALSE]
    BY <2>1 DEF Deaf, Calls
  <2>3. DOMAIN calls' = DOMAIN calls /\ DOMAIN calls = 1..Len(calls)
    BY DEF Deaf, ReportInv, Typed
  <2>4. calls' \in Seq(Calls) /\ Len(calls') = Len(calls)
    <3>1. Len(calls) \in Nat
      BY DEF ReportInv, Typed
    <3>2. calls' \in [1..Len(calls) -> Calls]
      BY <2>2, <2>3 DEF Deaf
    <3> QED BY <3>1, <3>2
  <2> QED BY ZenonT(30), <2>1, <2>2, <2>3, <2>4 DEF Calls
<1>2. Typed'
  <2>1. fetch' \in [at : {"idle", "asked", "served"}, finding : Flags]
    BY DEF ReportInv, Typed
  <2> QED BY <1>1, <2>1 DEF ReportInv, Typed
<1>3. Early' /\ Listening'
  BY <1>1 DEF ReportInv, Early, Listening, Unopened, Polled
<1>4. FailuresNoted' /\ FixesStay' /\ NoneWritten' = NoneWritten
  BY <1>1 DEF ReportInv, FailuresNoted, FixesStay, NoneWritten, At, Typed
<1>5. ReportInStep'
  BY <1>4 DEF ReportInv, ReportInStep, Typed
<1>6. OneAtATime'
  BY <1>1 DEF ReportInv, OneAtATime, Pending
<1>7. AsAtTheClick'
  BY <1>1, SameLast DEF ReportInv, AsAtTheClick, Unstored, At, Same
<1>8. VotesEnd'
  BY <1>1, SameLast DEF ReportInv
<1>9. CardFollows' /\ FixesFollow'
  BY <1>1 DEF ReportInv, CardFollows, FixesFollow, Told, Same, FixesStay
<1>10. ClicksCount'
  <2>1. \A i \in DOMAIN calls : Shows(row, i)' <=> Shows(row, i)
    BY <1>1 DEF Shows
  <2> QED BY <1>1, <2>1, SameLast DEF ReportInv, ClicksCount, At
<1> QED BY <1>2, <1>3, <1>4, <1>5, <1>6, <1>7, <1>8, <1>9, <1>10 DEF ReportInv

(***************************************************************************)
(* A click.                                                                *)
(***************************************************************************)
\* What Send does, and what was so when nothing else was under way.
LEMMA Sent ==
  ASSUME ReportInv, page = "report", NEW kind \in Kinds, Send(kind), NEW n, n = Len(calls) + 1
  PROVE  /\ calls' \in Seq(Calls) /\ Len(calls') = n /\ n <= MaxCalls
         /\ DOMAIN calls' = DOMAIN calls \cup {n}
         /\ \A i \in DOMAIN calls : i < n /\ calls'[i] = calls[i]
         /\ calls'[n].kind = kind /\ calls'[n].at = "sent" /\ calls'[n].heard
         /\ kind # "apply" => calls'[n].known = report
         /\ troubles' \subseteq {"failed", "unfixed", "overlap"} \cup Grave
         /\ troubles' \cap Grave = {} => troubles \subseteq troubles'
         /\ troubles' \cap ({"overlap"} \cup Grave) = {} =>
              /\ Quiet /\ troubles = troubles' /\ report = row
              /\ Same(card, row)
              /\ row.fixed => card.fixed \/ "unfixed" \in troubles
<1> DEFINE c == [kind |-> kind, at |-> "sent", read |-> Unset,
                 known |-> IF kind = "apply" THEN Unset ELSE report, heard |-> TRUE]
<1>1. c \in Calls
  BY DEF Calls, ReportInv, Typed, Unset, Flags
<1>2. calls' = Append(calls, c) /\ calls \in Seq(Calls) /\ Len(calls) < MaxCalls
  BY DEF Send, ReportInv, Typed
<1>3. MaxCalls \in Nat /\ Len(calls) \in Nat
  BY <1>2, ReportAssumption
<1>4. /\ calls' \in Seq(Calls) /\ Len(calls') = n /\ n <= MaxCalls
      /\ DOMAIN calls' = DOMAIN calls \cup {n}
      /\ \A i \in DOMAIN calls : i < n /\ calls'[i] = calls[i]
      /\ calls'[n] = c
  <2> HIDE DEF c
  <2> QED BY <1>1, <1>2, <1>3
<1>5. /\ troubles' \subseteq {"failed", "unfixed", "overlap"} \cup Grave
      /\ troubles' \cap Grave = {} => troubles \subseteq troubles'
      /\ troubles' \cap ({"overlap"} \cup Grave) = {} => Quiet /\ troubles = troubles'
  <2> DEFINE what == {w \in {"overlap"} : ~ Quiet}
  <2>1. Note(what)
    BY DEF Send
  <2>2. what \subseteq {"failed", "unfixed", "overlap"} \cup Grave
    OBVIOUS
  <2>3. /\ troubles' \subseteq {"failed", "unfixed", "overlap"} \cup Grave
        /\ troubles' \cap Grave = {} => troubles' = troubles \cup what
    <3> HIDE DEF what
    <3> QED BY <2>1, <2>2, Noted DEF ReportInv
  <2> QED BY <2>3
<1>6. ASSUME troubles' \cap ({"overlap"} \cup Grave) = {}
      PROVE  /\ report = row /\ Same(card, row)
             /\ row.fixed => card.fixed \/ "unfixed" \in troubles
  <2>1. Quiet /\ troubles \cap ({"overlap"} \cup Grave) = {}
    BY <1>5, <1>6
  <2>2. \A i \in DOMAIN calls : calls[i].at = "over"
    BY <2>1 DEF Quiet, Pending
  <2>3. report = row
    BY <2>1, <2>2 DEF Quiet, ReportInv, ReportInStep, NoneWritten, At
  <2>4. Told /\ \A i \in DOMAIN calls : ~ Outstanding(i)
    BY <2>1, <2>2 DEF Told, Outstanding, At
  <2> QED BY <2>3, <2>4 DEF ReportInv, CardFollows, FixesFollow
<1> QED BY <1>4, <1>5, <1>6

LEMMA ClickStep ==
  ASSUME ReportInv, page = "report", NEW kind \in Kinds, Send(kind), card' \in Flags,
         \/ /\ kind = "like" /\ ~ card.like
            /\ card' = [card EXCEPT !.like = TRUE, !.flag = FALSE]
         \/ /\ kind = "flag" /\ ~ card.flag
            /\ card' = [card EXCEPT !.like = FALSE, !.flag = TRUE]
         \/ /\ kind = "apply" /\ ~ card.fixed
            /\ card' = [card EXCEPT !.fixed = TRUE]
  PROVE  ReportInv'
<1>0. PICK n : n = Len(calls) + 1
  OBVIOUS
<1>1. /\ calls' \in Seq(Calls) /\ Len(calls') = n /\ n <= MaxCalls
      /\ DOMAIN calls' = DOMAIN calls \cup {n}
      /\ \A i \in DOMAIN calls : i < n /\ calls'[i] = calls[i]
      /\ calls'[n].kind = kind /\ calls'[n].at = "sent" /\ calls'[n].heard
      /\ kind # "apply" => calls'[n].known = report
      /\ troubles' \subseteq {"failed", "unfixed", "overlap"} \cup Grave
      /\ troubles' \cap Grave = {} => troubles \subseteq troubles'
      /\ troubles' \cap ({"overlap"} \cup Grave) = {} =>
           /\ Quiet /\ troubles = troubles' /\ report = row
           /\ Same(card, row)
           /\ row.fixed => card.fixed \/ "unfixed" \in troubles
  BY <1>0, Sent
<1>2. UNCHANGED <<status, row, page, report, fetch>>
  BY DEF Send
<1>3. n \notin DOMAIN calls
  BY <1>1
<1>4. \A i \in DOMAIN calls : /\ IsVote(i)' <=> IsVote(i)
                              /\ Outstanding(i)' <=> Outstanding(i)
                              /\ Unstored(i)' <=> Unstored(i)
  BY <1>1 DEF IsVote, Outstanding, Unstored, At
<1>5. IsVote(n)' <=> kind # "apply"
  BY <1>1 DEF IsVote
<1>6. Outstanding(n)'
  BY <1>1 DEF Outstanding, At
<1>7. kind # "apply" => LastVote(n)' /\ \A i \in DOMAIN calls : ~ LastVote(i)'
  BY <1>1, <1>3, <1>5 DEF LastVote, Typed, ReportInv
<1>8. kind = "apply" => \A i \in DOMAIN calls : LastVote(i)' <=> LastVote(i)
  BY <1>1, <1>4, <1>5 DEF LastVote
<1>9. kind = "apply" => ~ LastVote(n)'
  BY <1>5 DEF LastVote
<1>10. Typed' /\ Early' /\ Listening'
  BY <1>1, <1>2 DEF ReportInv, Typed, Early, Listening, Unopened, Polled
<1>11. FailuresNoted'
  <2>1. troubles' \cap Grave = {} => troubles \cap {"failed"} \subseteq troubles'
    BY <1>1
  <2> QED BY <1>1, <2>1 DEF ReportInv, FailuresNoted, At
<1>12. FixesStay' /\ ReportInStep'
  BY <1>1, <1>2 DEF ReportInv, FixesStay, ReportInStep, NoneWritten, At
<1>13. OneAtATime'
  BY <1>1 DEF OneAtATime, Pending, Quiet
<1>14. AsAtTheClick'
  <2> SUFFICES ASSUME troubles' \cap ({"overlap"} \cup Grave) = {},
                      NEW i \in DOMAIN calls', Unstored(i)'
               PROVE  /\ report' = row'
                      /\ calls'[i].heard
                      /\ IsVote(i)' =>
                           /\ Same(calls'[i].known, row')
                           /\ calls'[i].kind = "like" => ~ row'.like
                           /\ calls'[i].kind = "flag" => ~ row'.flag
                      /\ ~ IsVote(i)' => ~ row'.fixed \/ "unfixed" \in troubles'
    BY DEF AsAtTheClick, Same
  <2>1. i = n
    BY <1>1, <1>4 DEF Quiet, Pending, Unstored, At
  <2>2. report' = row' /\ calls'[i].heard
    BY <1>1, <1>2, <2>1
  <2>3. ASSUME IsVote(i)'
        PROVE  /\ Same(calls'[i].known, row')
               /\ calls'[i].kind = "like" => ~ row'.like
               /\ calls'[i].kind = "flag" => ~ row'.flag
    <3>1. kind # "apply"
      BY <1>5, <2>1, <2>3
    <3> QED BY <1>1, <1>2, <2>1, <3>1 DEF Same
  <2>4. ASSUME ~ IsVote(i)' PROVE ~ row'.fixed \/ "unfixed" \in troubles'
    <3>1. kind = "apply"
      BY <1>5, <2>1, <2>4
    <3> QED BY <1>1, <1>2, <3>1
  <2> QED BY <2>2, <2>3, <2>4
<1>15. VotesEnd'
  BY <1>1, <1>4, <1>5, <1>7, <1>8 DEF ReportInv, VotesEnd
<1>16. Told' => Told
  BY <1>1, <1>2 DEF Told
<1>17. \A i \in DOMAIN calls : Shows(card, i)' <=> (card'.like = (calls[i].kind = "like") /\ card'.flag = (calls[i].kind = "flag"))
  BY <1>1 DEF Shows
<1>18. CardFollows'
  <2> SUFFICES ASSUME Told' PROVE CardFollows'
    BY DEF CardFollows
  <2>1. CASE kind # "apply"
    <3>1. Shows(card, n)'
      BY <1>1, <2>1 DEF Shows, ReportInv, Typed, Flags
    <3> QED BY <1>1, <1>6, <1>7, <2>1, <3>1 DEF CardFollows
  <2>2. CASE kind = "apply"
    <3>1. card'.like = card.like /\ card'.flag = card.flag
      BY <2>2 DEF ReportInv, Typed, Flags
    <3>2. (Same(card, report) => Same(card, report)') /\ (Same(card, row) => Same(card, row)')
      BY <1>2, <3>1 DEF Same
    <3>3. \A i \in DOMAIN calls : Shows(card, i) => Shows(card, i)'
      BY <1>1, <3>1 DEF Shows
    <3> QED BY <1>1, <1>4, <1>8, <1>9, <1>16, <2>2, <3>2, <3>3 DEF ReportInv, CardFollows
  <2> QED BY <2>1, <2>2
<1>19. FixesFollow'
  <2> SUFFICES ASSUME Told', "unfixed" \notin troubles'
               PROVE  /\ report'.fixed => card'.fixed
                      /\ card'.fixed => row'.fixed \/ \E i \in DOMAIN calls' : ~ IsVote(i)' /\ Outstanding(i)'
    BY DEF FixesFollow
  <2>1. "unfixed" \notin troubles /\ Told
    BY <1>1, <1>16 DEF Told
  <2>2. CASE kind # "apply"
    <3>1. card'.fixed = card.fixed
      BY <2>2 DEF ReportInv, Typed, Flags
    <3> QED BY <1>1, <1>2, <1>4, <2>1, <3>1 DEF ReportInv, FixesFollow
  <2>3. CASE kind = "apply"
    <3>1. card'.fixed
      BY <2>3 DEF ReportInv, Typed, Flags
    <3> QED BY <1>1, <1>5, <1>6, <2>3, <3>1
  <2> QED BY <2>2, <2>3
<1>20. ClicksCount'
  <2> SUFFICES ASSUME troubles' \cap ({"failed"} \cup Grave) = {}, NEW i \in DOMAIN calls',
                      ~ At(i, {"sent", "read"})'
               PROVE  /\ LastVote(i)' => Shows(row, i)'
                      /\ ~ IsVote(i)' => row'.fixed \/ "unfixed" \in troubles'
    BY DEF ClicksCount
  <2>1. i \in DOMAIN calls /\ ~ At(i, {"sent", "read"})
    BY <1>1 DEF At
  <2>2. troubles \cap ({"failed"} \cup Grave) = {} /\ troubles \subseteq troubles'
    BY <1>1
  <2>3. LastVote(i)' => LastVote(i)
    BY <1>7, <1>8, <2>1
  <2>4. Shows(row, i)' <=> Shows(row, i)
    BY <1>1, <1>2, <2>1 DEF Shows
  <2> QED BY <1>2, <1>4, <2>1, <2>2, <2>3, <2>4 DEF ReportInv, ClicksCount
<1> QED BY <1>10, <1>11, <1>12, <1>13, <1>14, <1>15, <1>18, <1>19, <1>20 DEF ReportInv

(***************************************************************************)
(* The requests on the server.                                             *)
(***************************************************************************)
LEMMA ReadStep ==
  ASSUME ReportInv, NEW i \in DOMAIN calls, Read(i)
  PROVE  ReportInv'
<1> DEFINE c == [calls[i] EXCEPT !.at = "read", !.read = row]
<1>1. c \in Calls /\ c.kind = calls[i].kind /\ c.heard = calls[i].heard /\ c.known = calls[i].known
      /\ c.at = "read" /\ c.read = row
  BY CallsTyped DEF ReportInv, Typed, Calls
<1>2. calls' = [calls EXCEPT ![i] = c] /\ calls[i].at = "sent"
      /\ UNCHANGED <<status, row, page, report, fetch, card, troubles>>
  BY DEF Read, browser
<1>3. /\ calls' \in Seq(Calls) /\ Len(calls') = Len(calls) /\ DOMAIN calls' = DOMAIN calls
      /\ calls'[i] = c
      /\ \A j \in DOMAIN calls : j # i => calls'[j] = calls[j]
      /\ \A j \in DOMAIN calls : calls'[j].kind = calls[j].kind
  <2> HIDE DEF c
  <2> QED BY <1>1, <1>2, OneCall DEF ReportInv
<1> HIDE DEF c
<1>4. \A j \in DOMAIN calls : /\ calls'[j].heard = calls[j].heard
                              /\ calls'[j].known = calls[j].known
                              /\ At(j, {"sent", "read"})' <=> At(j, {"sent", "read"})
                              /\ Outstanding(j)' <=> Outstanding(j)
                              /\ Unstored(j)' <=> Unstored(j)
                              /\ At(j, {"written"})' <=> At(j, {"written"})
                              /\ At(j, {"failing"})' <=> At(j, {"failing"})
  BY <1>1, <1>2, <1>3 DEF At, Outstanding, Unstored
<1>5. Typed' /\ Early' /\ Listening' /\ FailuresNoted'
  BY <1>2, <1>3, <1>4 DEF ReportInv, Typed, Early, Listening, FailuresNoted
<1>6. FixesStay' /\ ReportInStep' /\ OneAtATime'
  <2>1. FixesStay'
    BY <1>1, <1>2, <1>3 DEF ReportInv, FixesStay, At
  <2>2. ReportInStep'
    BY <1>2, <1>3, <1>4 DEF ReportInv, ReportInStep, NoneWritten
  <2>3. OneAtATime'
    BY <1>1, <1>2, <1>3 DEF ReportInv, OneAtATime, Pending
  <2> QED BY <2>1, <2>2, <2>3
<1>7. AsAtTheClick'
  BY <1>2, <1>3, <1>4, SameLast DEF ReportInv, AsAtTheClick, Same
<1>8. VotesEnd' /\ CardFollows' /\ FixesFollow' /\ ClicksCount'
  <2>1. \A j \in DOMAIN calls : (Shows(card, j)' <=> Shows(card, j)) /\ (Shows(row, j)' <=> Shows(row, j))
    BY <1>2, <1>3 DEF Shows
  <2>2. VotesEnd'
    BY <1>3, SameLast DEF ReportInv
  <2>3. CardFollows'
    BY <1>2, <1>3, <1>4, <2>1, SameLast DEF ReportInv, CardFollows, Told, Same
  <2>4. FixesFollow'
    BY <1>2, <1>3, <1>4, SameLast DEF ReportInv, FixesFollow, Told
  <2>5. ClicksCount'
    BY <1>2, <1>3, <1>4, <2>1, SameLast DEF ReportInv, ClicksCount
  <2> QED BY <2>2, <2>3, <2>4, <2>5
<1> QED BY <1>5, <1>6, <1>7, <1>8 DEF ReportInv

\* What the UPDATE of a handler stores, when nothing grave has happened.
LEMMA Stored ==
  ASSUME ReportInv, NEW i \in DOMAIN calls, Write(i)
  PROVE  /\ row' \in Flags
         /\ row.fixed => row'.fixed
         /\ troubles' \subseteq {"failed", "unfixed", "overlap"} \cup Grave
         /\ troubles \cap Grave # {} => troubles' \cap Grave # {}
         /\ troubles' \cap Grave = {} =>
              /\ troubles \subseteq troubles' /\ troubles' \subseteq troubles \cup {"unfixed"}
              /\ IsVote(i) => /\ Shows(row', i) /\ row'.fixed = row.fixed
                              /\ \A j \in DOMAIN calls : j > i /\ IsVote(j) => At(j, {"sent", "read"})
              /\ ~ IsVote(i) => Same(row', row) /\ (row'.fixed \/ "unfixed" \in troubles')
<1>1. PICK wanted \in Wanted(i) :
        /\ row' = Changed(i, wanted)
        /\ Note({what \in {"unfixed"} : ~IsVote(i) /\ ~wanted.fixed}
                \cup {what \in {"raced"} : IsVote(i) /\ Votes(row) # Votes(calls[i].read)}
                \cup {what \in {"disordered"} :
                        IsVote(i) /\ \E j \in DOMAIN calls :
                          j > i /\ IsVote(j) /\ calls[j].at \notin {"sent", "read"}})
  BY DEF Write
<1> DEFINE before == calls[i].read
<1>2. row \in Flags /\ before \in Flags /\ calls[i].kind \in Kinds
  BY CallsTyped DEF ReportInv, Typed, Calls
<1>3. before.fixed => row.fixed
  BY DEF Write, ReportInv, FixesStay, At
<1> DEFINE what == {w \in {"unfixed"} : ~IsVote(i) /\ ~wanted.fixed}
                    \cup {w \in {"raced"} : IsVote(i) /\ Votes(row) # Votes(before)}
                    \cup {w \in {"disordered"} :
                            IsVote(i) /\ \E j \in DOMAIN calls :
                              j > i /\ IsVote(j) /\ calls[j].at \notin {"sent", "read"}}
<1>4. /\ troubles' \subseteq {"failed", "unfixed", "overlap"} \cup Grave
      /\ troubles' \cap Grave = {} => troubles' = troubles \cup what
      /\ troubles \cap Grave # {} => troubles' \cap Grave # {}
  <2>1. Note(what)
    BY <1>1
  <2>2. what \subseteq {"failed", "unfixed", "overlap"} \cup Grave
    BY DEF Grave
  <2> HIDE DEF what
  <2> QED BY <2>1, <2>2, Noted DEF ReportInv
<1>5. wanted \in Flags
  BY ZenonT(30), <1>1, <1>2 DEF Wanted, Flags, Kinds
<1>6. DOMAIN row = {"like", "flag", "fixed"}
  BY <1>2 DEF Flags
<1>7. /\ row'.like = IF wanted.like # before.like THEN wanted.like ELSE row.like
      /\ row'.flag = IF wanted.flag # before.flag THEN wanted.flag ELSE row.flag
      /\ row'.fixed = IF wanted.fixed # before.fixed THEN wanted.fixed ELSE row.fixed
      /\ row' \in Flags
  <2>1. row' = [f \in DOMAIN row |-> IF wanted[f] # calls[i].read[f] THEN wanted[f] ELSE row[f]]
    BY <1>1 DEF Changed
  <2>2. /\ row'.like = IF wanted.like # before.like THEN wanted.like ELSE row.like
        /\ row'.flag = IF wanted.flag # before.flag THEN wanted.flag ELSE row.flag
        /\ row'.fixed = IF wanted.fixed # before.fixed THEN wanted.fixed ELSE row.fixed
    BY <1>6, <2>1
  <2>3. row' = [like |-> row'.like, flag |-> row'.flag, fixed |-> row'.fixed]
    BY <1>6, <2>1
  <2>4. row'.like \in BOOLEAN /\ row'.flag \in BOOLEAN /\ row'.fixed \in BOOLEAN
    BY <1>2, <1>5, <2>2 DEF Flags
  <2> QED BY <2>2, <2>3, <2>4 DEF Flags
<1>8. IsVote(i) => /\ wanted.like = (calls[i].kind = "like") /\ wanted.flag = (calls[i].kind = "flag")
                   /\ wanted.fixed = before.fixed
  BY <1>1, <1>2 DEF Wanted, Kinds, IsVote, Flags
<1>9. ~ IsVote(i) => /\ wanted.like = before.like /\ wanted.flag = before.flag
                     /\ wanted.fixed \in {TRUE, before.fixed}
  BY <1>1, <1>2 DEF Wanted, Kinds, IsVote, Flags
<1>10. row.fixed => row'.fixed
  BY <1>2, <1>3, <1>5, <1>7, <1>8, <1>9 DEF Flags
<1>11. ASSUME troubles' \cap Grave = {}
       PROVE  /\ troubles \subseteq troubles' /\ troubles' \subseteq troubles \cup {"unfixed"}
              /\ IsVote(i) => /\ Shows(row', i) /\ row'.fixed = row.fixed
                              /\ \A j \in DOMAIN calls : j > i /\ IsVote(j) => At(j, {"sent", "read"})
              /\ ~ IsVote(i) => Same(row', row) /\ (row'.fixed \/ "unfixed" \in troubles')
  <2>1. troubles' = troubles \cup what /\ what \cap Grave = {}
    BY <1>4, <1>11
  <2>2. what \subseteq {"unfixed"} /\ (~ IsVote(i) /\ ~ wanted.fixed => "unfixed" \in what)
    BY <2>1 DEF Grave
  <2>3. IsVote(i) => /\ Votes(row) = Votes(before)
                     /\ \A j \in DOMAIN calls : j > i /\ IsVote(j) => At(j, {"sent", "read"})
    BY <2>1 DEF Grave, At
  <2>4. IsVote(i) => row.like = before.like /\ row.flag = before.flag
    BY <2>3 DEF Votes
  <2> HIDE DEF what, before
  <2>5. IsVote(i) => Shows(row', i) /\ row'.fixed = row.fixed
    BY <1>7, <1>8, <2>4 DEF Shows
  <2>6. ~ IsVote(i) => Same(row', row)
    BY <1>7, <1>9 DEF Same
  <2>7. ~ IsVote(i) /\ wanted.fixed => row'.fixed
    BY <1>2, <1>3, <1>5, <1>7 DEF Flags, before
  <2> QED BY <2>1, <2>2, <2>3, <2>5, <2>6, <2>7
<1> QED BY <1>4, <1>7, <1>10, <1>11

LEMMA WriteStep ==
  ASSUME ReportInv, NEW i \in DOMAIN calls, Write(i)
  PROVE  ReportInv'
<1> DEFINE c == [calls[i] EXCEPT !.at = "written", !.read = Unset]
<1>1. c \in Calls /\ c.kind = calls[i].kind /\ c.heard = calls[i].heard /\ c.known = calls[i].known
      /\ c.at = "written"
  BY ZenonT(30), CallsTyped DEF ReportInv, Typed, Calls, Unset, Flags
<1>2. calls' = [calls EXCEPT ![i] = c] /\ calls[i].at = "read"
      /\ UNCHANGED <<status, page, report, fetch, card>>
  BY DEF Write, browser
<1>3. /\ calls' \in Seq(Calls) /\ Len(calls') = Len(calls) /\ DOMAIN calls' = DOMAIN calls
      /\ calls'[i] = c
      /\ \A j \in DOMAIN calls : j # i => calls'[j] = calls[j]
      /\ \A j \in DOMAIN calls : calls'[j].kind = calls[j].kind
  <2> HIDE DEF c
  <2> QED BY <1>1, <1>2, OneCall DEF ReportInv
<1> HIDE DEF c
<1>4. /\ row' \in Flags
      /\ row.fixed => row'.fixed
      /\ troubles' \subseteq {"failed", "unfixed", "overlap"} \cup Grave
      /\ troubles \cap Grave # {} => troubles' \cap Grave # {}
      /\ troubles' \cap Grave = {} =>
           /\ troubles \subseteq troubles' /\ troubles' \subseteq troubles \cup {"unfixed"}
           /\ IsVote(i) => /\ Shows(row', i) /\ row'.fixed = row.fixed
                           /\ \A j \in DOMAIN calls : j > i /\ IsVote(j) => At(j, {"sent", "read"})
           /\ ~ IsVote(i) => Same(row', row) /\ (row'.fixed \/ "unfixed" \in troubles')
  BY Stored
<1>5. Typed' /\ Early' /\ Listening'
  <2>1. row' \in Flags /\ troubles' \subseteq {"failed", "unfixed", "overlap"} \cup Grave
    BY <1>4
  <2>2. Typed'
    BY <1>2, <1>3, <2>1 DEF ReportInv, Typed
  <2>3. Early' /\ Listening'
    BY <1>1, <1>2, <1>3 DEF ReportInv, Early, Listening
  <2> QED BY <2>2, <2>3
<1>6. FailuresNoted'
  BY <1>1, <1>3, <1>4 DEF ReportInv, FailuresNoted, At
<1>7. FixesStay'
  <2>1. row.fixed => row'.fixed
    BY <1>4
  <2>2. \A j \in DOMAIN calls : At(j, {"read"})' => At(j, {"read"}) /\ calls'[j] = calls[j]
    BY <1>1, <1>3 DEF At
  <2> QED BY <1>2, <1>3, <2>1, <2>2 DEF ReportInv, FixesStay
<1>8. ReportInStep'
  BY <1>1, <1>3 DEF ReportInStep, NoneWritten, At
<1>9. troubles' \cap ({"overlap"} \cup Grave) = {} => troubles \cap ({"overlap"} \cup Grave) = {}
  BY <1>4 DEF Grave
<1>10. OneAtATime'
  BY <1>1, <1>2, <1>3, <1>9 DEF ReportInv, OneAtATime, Pending
<1>11. AsAtTheClick'
  <2>1. ASSUME troubles' \cap ({"overlap"} \cup Grave) = {}, NEW j \in DOMAIN calls PROVE ~ Unstored(j)'
    <3>1. i \in Pending
      BY <1>2 DEF Pending
    <3>2. j # i => j \notin Pending
      BY <1>9, <2>1, <3>1 DEF ReportInv, OneAtATime
    <3> QED BY <1>1, <1>3, <3>2 DEF Unstored, At, Pending
  <2> QED BY <1>3, <2>1 DEF AsAtTheClick
<1>12. \A j \in DOMAIN calls : /\ j # i => (Outstanding(j)' <=> Outstanding(j))
                               /\ j # i => (At(j, {"sent", "read"})' <=> At(j, {"sent", "read"}))
  BY <1>1, <1>3 DEF Outstanding, At
<1>13. Outstanding(i) /\ ~ Outstanding(i)' /\ ~ At(i, {"sent", "read"})'
  BY <1>1, <1>2, <1>3 DEF Outstanding, At
<1>14. VotesEnd'
  BY <1>3, SameLast DEF ReportInv
<1>15. Told' => Told /\ troubles' \cap Grave = {}
  BY <1>2, <1>4 DEF Told
<1>17. CardFollows'
  <2> SUFFICES ASSUME Told', ~ Same(card, report)'
               PROVE  /\ \A j \in DOMAIN calls : LastVote(j)' /\ Outstanding(j)' => Shows(card, j)'
                      /\ (\A j \in DOMAIN calls : LastVote(j)' => ~ Outstanding(j)') => Same(card, row)'
    BY <1>3 DEF CardFollows
  <2>1. /\ \A j \in DOMAIN calls : LastVote(j) /\ Outstanding(j) => Shows(card, j)
        /\ (\A j \in DOMAIN calls : LastVote(j) => ~ Outstanding(j)) => Same(card, row)
    BY <1>2, <1>15 DEF ReportInv, CardFollows, Same
  <2>2. \A j \in DOMAIN calls : Shows(card, j)' <=> Shows(card, j)
    BY <1>2, <1>3 DEF Shows
  <2>3. \A j \in DOMAIN calls : LastVote(j)' /\ Outstanding(j)' => Shows(card, j)'
    BY <1>3, <1>12, <1>13, <2>1, <2>2, SameLast
  <2>4. ASSUME \A j \in DOMAIN calls : LastVote(j)' => ~ Outstanding(j)' PROVE Same(card, row)'
    <3>1. CASE IsVote(i)
      <4>1. LastVote(i)
        <5>1. PICK l \in DOMAIN calls : LastVote(l)
          BY <3>1 DEF ReportInv, VotesEnd
        <5>2. l > i => Outstanding(l)
          BY <1>4, <1>15, <3>1, <5>1 DEF LastVote, Outstanding
        <5>3. l <= i
          BY <1>3, <1>12, <2>4, <5>1, <5>2, SameLast, CallsTyped DEF ReportInv, Typed
        <5> QED BY <3>1, <5>1, <5>3, CallsTyped DEF LastVote, ReportInv, Typed
      <4>2. Shows(card, i) /\ Shows(row', i)
        BY <1>4, <1>13, <1>15, <2>1, <3>1, <4>1
      <4> QED BY <1>2, <4>2 DEF Shows, Same
    <3>2. CASE ~ IsVote(i)
      <4>1. \A j \in DOMAIN calls : LastVote(j) => ~ Outstanding(j)
        BY <1>3, <1>12, <2>4, <3>2, SameLast DEF LastVote
      <4> QED BY <1>2, <1>4, <1>15, <2>1, <3>2, <4>1 DEF Same
    <3> QED BY <3>1, <3>2
  <2> QED BY <2>3, <2>4
<1>18. FixesFollow'
  <2> SUFFICES ASSUME Told', "unfixed" \notin troubles'
               PROVE  /\ report'.fixed => card'.fixed
                      /\ card'.fixed => row'.fixed \/ \E j \in DOMAIN calls : ~ IsVote(j)' /\ Outstanding(j)'
    BY <1>3 DEF FixesFollow
  <2>1. /\ report.fixed => card.fixed
        /\ card.fixed => row.fixed \/ \E j \in DOMAIN calls : ~ IsVote(j) /\ Outstanding(j)
    BY <1>4, <1>15 DEF ReportInv, FixesFollow
  <2>2. ~ IsVote(i) => row'.fixed
    BY <1>4, <1>15
  <2>3. \A j \in DOMAIN calls : IsVote(j)' <=> IsVote(j)
    BY <1>3, SameLast
  <2>4. row.fixed => row'.fixed
    BY <1>4
  <2>5. report' = report /\ card' = card
    BY <1>2
  <2> QED BY <1>12, <2>1, <2>2, <2>3, <2>4, <2>5
<1>19. ClicksCount'
  <2> SUFFICES ASSUME troubles' \cap ({"failed"} \cup Grave) = {}, NEW j \in DOMAIN calls,
                      ~ At(j, {"sent", "read"})'
               PROVE  /\ LastVote(j)' => Shows(row, j)'
                      /\ ~ IsVote(j)' => row'.fixed \/ "unfixed" \in troubles'
    BY <1>3 DEF ClicksCount
  <2>1. troubles' \cap Grave = {} /\ troubles \cap ({"failed"} \cup Grave) = {}
    BY <1>4
  <2>2. (LastVote(j)' <=> LastVote(j)) /\ (IsVote(j)' <=> IsVote(j)) /\ (Shows(row, j)' <=> Shows(row', j))
    BY <1>3, SameLast DEF Shows
  <2>3. CASE j = i
    BY <1>4, <2>1, <2>2, <2>3 DEF LastVote
  <2>4. CASE j # i
    <3>1. ~ At(j, {"sent", "read"})
      BY <1>12, <2>4
    <3>2. LastVote(j) => Shows(row, j)
      BY <2>1, <3>1 DEF ReportInv, ClicksCount
    <3>3. ~ IsVote(j) => row.fixed \/ "unfixed" \in troubles
      BY <2>1, <3>1 DEF ReportInv, ClicksCount
    <3>4. LastVote(j) => ~ IsVote(i)
      BY <1>4, <2>1, <2>4, <3>1, CallsTyped DEF LastVote, ReportInv, Typed
    <3>5. LastVote(j) => Shows(row', j)
      BY <1>4, <2>1, <3>2, <3>4 DEF Shows, Same
    <3> QED BY <1>4, <2>1, <2>2, <3>3, <3>5
  <2> QED BY <2>3, <2>4
<1> QED
  BY <1>5, <1>6, <1>7, <1>8, <1>10, <1>11, <1>14, <1>17, <1>18, <1>19 DEF ReportInv

LEMMA CallFailsStep ==
  ASSUME ReportInv, NEW i \in DOMAIN calls, CallFails(i)
  PROVE  ReportInv'
<1> DEFINE c == [calls[i] EXCEPT !.at = "failing"]
<1>1. c \in Calls /\ c.kind = calls[i].kind /\ c.heard = calls[i].heard /\ c.known = calls[i].known
      /\ c.at = "failing"
  BY CallsTyped DEF ReportInv, Typed, Calls
<1>2. calls' = [calls EXCEPT ![i] = c] /\ calls[i].at \in {"read", "written"}
      /\ UNCHANGED <<status, row, page, report, fetch, card>>
  BY DEF CallFails, Go, browser
<1>3. /\ calls' \in Seq(Calls) /\ Len(calls') = Len(calls) /\ DOMAIN calls' = DOMAIN calls
      /\ calls'[i] = c
      /\ \A j \in DOMAIN calls : j # i => calls'[j] = calls[j]
      /\ \A j \in DOMAIN calls : calls'[j].kind = calls[j].kind
  <2> HIDE DEF c
  <2> QED BY <1>1, <1>2, OneCall DEF ReportInv
<1> HIDE DEF c
<1>4. /\ troubles' \subseteq {"failed", "unfixed", "overlap"} \cup Grave
      /\ troubles \cap Grave # {} => troubles' \cap Grave # {}
      /\ troubles' \cap ({"failed"} \cup Grave) # {}
      /\ troubles' \cap Grave = {} => calls[i].at = "read" /\ troubles' = troubles \cup {"failed"}
  <2>1. CASE calls[i].at = "read" /\ Note({"failed"})
    <3>1. {"failed"} \subseteq {"failed", "unfixed", "overlap"} \cup Grave
          /\ {"failed"} \cap ({"failed"} \cup Grave) # {}
      OBVIOUS
    <3> QED BY <2>1, <3>1, Noted DEF ReportInv
  <2>2. CASE Note({"lost"})
    <3>1. {"lost"} \subseteq {"failed", "unfixed", "overlap"} \cup Grave
          /\ {"lost"} \cap ({"failed"} \cup Grave) # {}
      BY DEF Grave
    <3>2. troubles' \cap Grave # {}
      BY <2>2, <3>1, Noted DEF ReportInv, Grave
    <3> QED BY <2>2, <3>1, <3>2, Noted DEF ReportInv
  <2> QED BY <2>1, <2>2 DEF CallFails
<1>5. \A j \in DOMAIN calls : /\ calls'[j].heard = calls[j].heard
                              /\ calls'[j].known = calls[j].known
                              /\ At(j, {"read"})' => At(j, {"read"}) /\ calls'[j] = calls[j]
  BY <1>1, <1>3 DEF At
<1>6. calls[i].at = "read" =>
        \A j \in DOMAIN calls : /\ Unstored(j)' <=> Unstored(j)
                                /\ At(j, {"written"})' <=> At(j, {"written"})
  BY <1>1, <1>3 DEF At, Unstored
<1>7. Typed' /\ Early' /\ Listening' /\ FailuresNoted' /\ FixesStay'
  <2>1. Typed'
    BY <1>2, <1>3, <1>4 DEF ReportInv, Typed
  <2>2. Early' /\ Listening'
    BY <1>2, <1>3, <1>5 DEF ReportInv, Early, Listening
  <2>3. FailuresNoted'
    BY <1>4 DEF FailuresNoted
  <2>4. FixesStay'
    BY <1>2, <1>3, <1>5 DEF ReportInv, FixesStay
  <2> QED BY <2>1, <2>2, <2>3, <2>4
<1>8. VotesEnd' /\ ClicksCount'
  BY <1>3, <1>4, SameLast DEF ReportInv, ClicksCount
<1>9. CASE troubles' \cap Grave # {}
  <2>1. ReportInStep' /\ OneAtATime' /\ AsAtTheClick'
    BY <1>9 DEF ReportInStep, OneAtATime, AsAtTheClick
  <2>2. CardFollows' /\ FixesFollow'
    BY <1>9 DEF CardFollows, FixesFollow, Told
  <2> QED BY <1>7, <1>8, <2>1, <2>2 DEF ReportInv
<1>10. CASE troubles' \cap Grave = {}
  <2>1. calls[i].at = "read" /\ troubles' = troubles \cup {"failed"} /\ troubles \cap Grave = {}
    BY <1>4, <1>10
  <2>2. ReportInStep'
    BY <1>2, <1>3, <1>6, <2>1 DEF ReportInv, ReportInStep, NoneWritten
  <2>3. OneAtATime'
    BY <1>1, <1>2, <1>3, <2>1 DEF ReportInv, OneAtATime, Pending
  <2>4. AsAtTheClick'
    BY <1>2, <1>3, <1>5, <1>6, <2>1, SameLast DEF ReportInv, AsAtTheClick, Same
  <2>5. Told' => Told /\ troubles \cap ({"overlap"} \cup Grave) = {} /\ page = "report"
    BY <1>2, <2>1 DEF Told
  <2>6. \A j \in DOMAIN calls : j # i \/ calls[i].heard => (Outstanding(j)' <=> Outstanding(j))
    BY <1>1, <1>3, <2>1 DEF Outstanding, At
  <2>7. Told' /\ ~ calls[i].heard => IF IsVote(i) THEN Same(card, report) ELSE card.fixed => report.fixed
    <3>1. Unstored(i)
      BY <2>1 DEF Unstored, At
    <3> QED BY <2>5, <3>1 DEF ReportInv, AsAtTheClick
  <2>8. CardFollows'
    <3>1. Same(card, report)' <=> Same(card, report)
      BY <1>2 DEF Same
    <3>2. Same(card, row)' <=> Same(card, row)
      BY <1>2 DEF Same
    <3>3. \A j \in DOMAIN calls : Shows(card, j)' <=> Shows(card, j)
      BY <1>2, <1>3 DEF Shows
    <3>4. CASE IsVote(i) /\ ~ calls[i].heard
      BY <2>7, <3>1, <3>4 DEF CardFollows
    <3>5. CASE ~ IsVote(i) \/ calls[i].heard
      <4>1. \A j \in DOMAIN calls : LastVote(j) => (Outstanding(j)' <=> Outstanding(j))
        BY <2>6, <3>5 DEF LastVote
      <4> QED BY <1>3, <2>5, <3>1, <3>2, <3>3, <4>1, SameLast DEF ReportInv, CardFollows
    <3> QED BY <3>4, <3>5
  <2>9. FixesFollow'
    <3> SUFFICES ASSUME Told', "unfixed" \notin troubles'
                 PROVE  /\ report'.fixed => card'.fixed
                        /\ card'.fixed => row'.fixed \/ \E j \in DOMAIN calls : ~ IsVote(j)' /\ Outstanding(j)'
      BY <1>3 DEF FixesFollow
    <3>1. /\ report.fixed => card.fixed
          /\ card.fixed => row.fixed \/ \E j \in DOMAIN calls : ~ IsVote(j) /\ Outstanding(j)
      BY <2>1, <2>5 DEF ReportInv, FixesFollow
    <3>2. UNCHANGED <<report, card, row>>
      BY <1>2
    <3>3. \A j \in DOMAIN calls : IsVote(j)' <=> IsVote(j)
      BY <1>3, SameLast
    <3>4. CASE ~ IsVote(i) /\ ~ calls[i].heard
      BY <2>7, <3>1, <3>2, <3>4 DEF ReportInv, FixesStay
    <3>5. CASE IsVote(i) \/ calls[i].heard
      BY <2>6, <3>1, <3>2, <3>3, <3>5
    <3> QED BY <3>4, <3>5
  <2> QED BY <1>7, <1>8, <2>2, <2>3, <2>4, <2>8, <2>9 DEF ReportInv
<1> QED BY <1>9, <1>10

(***************************************************************************)
(* The replies.                                                            *)
(***************************************************************************)
LEMMA Settled ==
  ASSUME ReportInv, NEW i \in DOMAIN calls, Settle(i)
  PROVE  /\ calls' \in Seq(Calls) /\ Len(calls') = Len(calls) /\ DOMAIN calls' = DOMAIN calls
         /\ calls'[i].at = "over" /\ calls'[i].heard = FALSE
         /\ \A j \in DOMAIN calls : j # i => calls'[j] = calls[j]
         /\ \A j \in DOMAIN calls : calls'[j].kind = calls[j].kind
<1> DEFINE c == [calls[i] EXCEPT !.at = "over", !.heard = FALSE, !.read = Unset, !.known = Unset]
<1>1. c \in Calls /\ c.kind = calls[i].kind /\ c.at = "over" /\ c.heard = FALSE
  <2>1. Unset \in Flags
    BY DEF Unset, Flags
  <2>2. calls[i] \in Calls
    BY CallsTyped DEF ReportInv
  <2> HIDE DEF c
  <2>3. c = [calls[i] EXCEPT !.at = "over", !.heard = FALSE, !.read = Unset, !.known = Unset]
    BY DEF c
  <2> QED BY <2>1, <2>2, <2>3 DEF Calls
<1>2. calls' = [calls EXCEPT ![i] = c]
  BY DEF Settle
<1> HIDE DEF c
<1> QED BY <1>1, <1>2, OneCall DEF ReportInv

LEMMA ReceiveSuccessStep ==
  ASSUME ReportInv, NEW i \in DOMAIN calls, ReceiveSuccess(i)
  PROVE  ReportInv'
<1>1. /\ calls' \in Seq(Calls) /\ Len(calls') = Len(calls) /\ DOMAIN calls' = DOMAIN calls
      /\ calls'[i].at = "over" /\ calls'[i].heard = FALSE
      /\ \A j \in DOMAIN calls : j # i => calls'[j] = calls[j]
      /\ \A j \in DOMAIN calls : calls'[j].kind = calls[j].kind
  BY Settled DEF ReceiveSuccess
<1>2. /\ calls[i].at = "written" /\ fetch' = [at |-> "asked", finding |-> Unset]
      /\ UNCHANGED <<status, row, page, report, card, troubles>>
  BY DEF ReceiveSuccess, Ask
<1>3. \A j \in DOMAIN calls : /\ Outstanding(j)' <=> Outstanding(j)
                              /\ Unstored(j)' <=> Unstored(j)
                              /\ At(j, {"sent", "read"})' <=> At(j, {"sent", "read"})
                              /\ At(j, {"failing"})' <=> At(j, {"failing"})
  BY <1>1, <1>2 DEF Outstanding, Unstored, At
<1>4. Typed'
  <2>1. Unset \in Flags
    BY DEF Unset, Flags
  <2>2. fetch' \in [at : {"idle", "asked", "served"}, finding : Flags]
    BY <1>2, <2>1
  <2> QED BY <1>1, <1>2, <2>2 DEF ReportInv, Typed
<1>5. Early' /\ Listening' /\ FailuresNoted'
  <2>1. Early'
    BY <1>1, <1>2 DEF ReportInv, Early
  <2>2. Listening'
    BY <1>1, <1>2 DEF ReportInv, Listening
  <2>3. FailuresNoted'
    BY <1>1, <1>2, <1>3 DEF ReportInv, FailuresNoted
  <2> QED BY <2>1, <2>2, <2>3
<1>6. FixesStay' /\ ReportInStep'
  BY <1>1, <1>2 DEF ReportInv, FixesStay, ReportInStep, At, Unset
<1>7. OneAtATime'
  BY <1>1, <1>2 DEF ReportInv, OneAtATime, Pending
<1>8. AsAtTheClick'
  <2>1. \A j \in DOMAIN calls : Unstored(j)' => calls'[j] = calls[j]
    BY <1>1 DEF Unstored, At
  <2> QED BY <1>1, <1>2, <1>3, <2>1, SameLast DEF ReportInv, AsAtTheClick, Same
<1>9. VotesEnd' /\ CardFollows' /\ FixesFollow' /\ ClicksCount'
  <2>1. \A j \in DOMAIN calls : (Shows(card, j)' <=> Shows(card, j)) /\ (Shows(row, j)' <=> Shows(row, j))
    BY <1>1, <1>2 DEF Shows
  <2>2. VotesEnd'
    BY <1>1, SameLast DEF ReportInv
  <2>3. CardFollows'
    BY <1>1, <1>2, <1>3, <2>1, SameLast DEF ReportInv, CardFollows, Told, Same
  <2>4. FixesFollow'
    BY <1>1, <1>2, <1>3, SameLast DEF ReportInv, FixesFollow, Told
  <2>5. ClicksCount'
    BY <1>1, <1>2, <1>3, <2>1, SameLast DEF ReportInv, ClicksCount
  <2> QED BY <2>2, <2>3, <2>4, <2>5
<1> QED BY <1>4, <1>5, <1>6, <1>7, <1>8, <1>9 DEF ReportInv

\* Among overlapping requests a failure may leave the card wrong; alone, the
\* card goes back to the row it was clicked on.
LEMMA ReceiveFailureStep ==
  ASSUME ReportInv, NEW i \in DOMAIN calls, ReceiveFailure(i)
  PROVE  ReportInv'
<1>1. /\ calls' \in Seq(Calls) /\ Len(calls') = Len(calls) /\ DOMAIN calls' = DOMAIN calls
      /\ calls'[i].at = "over" /\ calls'[i].heard = FALSE
      /\ \A j \in DOMAIN calls : j # i => calls'[j] = calls[j]
      /\ \A j \in DOMAIN calls : calls'[j].kind = calls[j].kind
  BY Settled DEF ReceiveFailure
<1>2. /\ calls[i].at = "failing"
      /\ card' = IF Latest(i) /\ calls[i].heard THEN TakenBack(i) ELSE card
      /\ UNCHANGED <<status, row, page, report, fetch, troubles>>
  BY DEF ReceiveFailure
<1>3. calls[i] \in Calls /\ card \in Flags /\ i \in 1..Len(calls)
  BY CallsTyped DEF ReportInv, Typed
<1>4. card' \in Flags
  BY <1>2, <1>3 DEF TakenBack, Calls, Kinds, Flags
<1>5. troubles \cap ({"failed"} \cup Grave) # {} /\ Unstored(i) /\ i \in Pending
  BY <1>2 DEF ReportInv, FailuresNoted, At, Unstored, Pending
<1>6. Typed' /\ Early' /\ Listening' /\ FailuresNoted'
  BY <1>1, <1>2, <1>4, <1>5 DEF ReportInv, Typed, Early, Listening, FailuresNoted
<1>7. FixesStay'
  BY <1>1, <1>2 DEF ReportInv, FixesStay, At
<1>8. ReportInStep'
  BY <1>1, <1>2 DEF ReportInv, ReportInStep, NoneWritten, At
<1>9. OneAtATime'
  BY <1>1, <1>2 DEF ReportInv, OneAtATime, Pending
<1>10. troubles \cap ({"overlap"} \cup Grave) = {} =>
         i = Len(calls) /\ \A j \in DOMAIN calls : j # i => calls[j].at = "over"
  BY <1>5 DEF ReportInv, OneAtATime, Pending
<1>11. AsAtTheClick'
  BY <1>1, <1>2, <1>10 DEF AsAtTheClick, Unstored, At
<1>12. VotesEnd'
  BY <1>1, SameLast DEF ReportInv
<1>13. ClicksCount'
  BY <1>2, <1>5 DEF ClicksCount
<1>14. ASSUME Told
       PROVE  /\ report = row
              /\ calls[i].heard => card' = TakenBack(i)
              /\ ~ calls[i].heard => card' = card
              /\ \A j \in DOMAIN calls : Outstanding(j) => j = i
              /\ Outstanding(i) => calls[i].heard
              /\ \A j \in DOMAIN calls : ~ Outstanding(j)'
  <2>1. troubles \cap ({"overlap"} \cup Grave) = {} /\ page = "report"
    BY <1>5, <1>14 DEF Told
  <2>2. report = row
    BY <1>5, <2>1 DEF ReportInv, AsAtTheClick
  <2>3. Latest(i)
    BY <1>3, <1>10, <2>1 DEF Latest, ReportInv, Typed
  <2>4. \A j \in DOMAIN calls : j # i => ~ Outstanding(j)
    BY <1>10, <2>1 DEF Outstanding, At
  <2>5. \A j \in DOMAIN calls : ~ Outstanding(j)'
    BY <1>1, <1>10, <2>1 DEF Outstanding, At
  <2> QED BY <1>2, <2>2, <2>3, <2>4, <2>5 DEF Outstanding, At
<1>15. ASSUME Told, calls[i].heard
       PROVE  /\ IsVote(i) => Same(card', row) /\ card'.fixed = card.fixed
              /\ ~ IsVote(i) => Same(card', card) /\ ~ card'.fixed
              /\ ~ IsVote(i) => ~ row.fixed \/ "unfixed" \in troubles
  <2>1. troubles \cap ({"overlap"} \cup Grave) = {}
    BY <1>5, <1>15 DEF Told
  <2>2. /\ IsVote(i) => /\ Same(calls[i].known, row)
                        /\ calls[i].kind = "like" => ~ row.like
                        /\ calls[i].kind = "flag" => ~ row.flag
        /\ ~ IsVote(i) => ~ row.fixed \/ "unfixed" \in troubles
    BY <1>5, <1>15, <2>1 DEF ReportInv, AsAtTheClick
  <2>3. card' = TakenBack(i)
    BY <1>14, <1>15
  <2>4. row \in Flags
    BY DEF ReportInv, Typed
  <2>5. CASE calls[i].kind = "like"
    <3>1. card' = [card EXCEPT !.like = FALSE, !.flag = calls[i].known.flag]
      BY <2>3, <2>5 DEF TakenBack
    <3>2. IsVote(i)
      BY <2>5 DEF IsVote
    <3> QED BY <1>3, <2>2, <2>4, <2>5, <3>1, <3>2 DEF Same, Flags
  <2>6. CASE calls[i].kind = "flag"
    <3>1. card' = [card EXCEPT !.flag = FALSE, !.like = calls[i].known.like]
      BY <2>3, <2>6 DEF TakenBack
    <3>2. IsVote(i)
      BY <2>6 DEF IsVote
    <3> QED BY <1>3, <2>2, <2>4, <2>6, <3>1, <3>2 DEF Same, Flags
  <2>7. CASE calls[i].kind = "apply"
    <3>1. card' = [card EXCEPT !.fixed = FALSE]
      BY <2>3, <2>7 DEF TakenBack
    <3>2. ~ IsVote(i)
      BY <2>7 DEF IsVote
    <3> QED BY <1>3, <2>2, <3>1, <3>2 DEF Same, Flags
  <2> QED BY <1>3, <2>5, <2>6, <2>7 DEF Calls, Kinds
<1>16. Told' => Told
  BY <1>2 DEF Told
<1>17. CardFollows'
  <2> SUFFICES ASSUME Told' PROVE Same(card', report) \/ Same(card', row)
    BY <1>1, <1>2, <1>14, <1>16 DEF CardFollows, Same
  <2>1. Told
    BY <1>16
  <2>2. CASE calls[i].heard /\ IsVote(i)
    BY <1>15, <2>1, <2>2
  <2>3. CASE ~ (calls[i].heard /\ IsVote(i))
    <3>1. \A j \in DOMAIN calls : LastVote(j) => ~ Outstanding(j)
      BY <1>14, <2>1, <2>3 DEF LastVote
    <3>2. Same(card, report) \/ Same(card, row)
      BY <2>1, <3>1 DEF ReportInv, CardFollows
    <3>3. Same(card', card)
      BY <1>14, <1>15, <2>1, <2>3 DEF Same
    <3> QED BY <3>2, <3>3 DEF Same
  <2> QED BY <2>2, <2>3
<1>18. FixesFollow'
  <2> SUFFICES ASSUME Told', "unfixed" \notin troubles
               PROVE  /\ report.fixed => card'.fixed
                      /\ card'.fixed => row.fixed
    BY <1>1, <1>2 DEF FixesFollow
  <2>1. Told
    BY <1>16
  <2>2. /\ report.fixed => card.fixed
        /\ card.fixed => row.fixed \/ \E j \in DOMAIN calls : ~ IsVote(j) /\ Outstanding(j)
    BY <2>1 DEF ReportInv, FixesFollow
  <2>3. CASE calls[i].heard /\ ~ IsVote(i)
    BY <1>14, <1>15, <2>1, <2>3
  <2>4. CASE ~ (calls[i].heard /\ ~ IsVote(i))
    <3>1. card'.fixed = card.fixed
      BY <1>14, <1>15, <2>1, <2>4
    <3>2. \A j \in DOMAIN calls : ~ IsVote(j) => ~ Outstanding(j)
      BY <1>14, <2>1, <2>4
    <3> QED BY <2>2, <3>1, <3>2
  <2> QED BY <2>3, <2>4
<1> QED
  BY <1>6, <1>7, <1>8, <1>9, <1>11, <1>12, <1>13, <1>17, <1>18 DEF ReportInv

(***************************************************************************)
(* The invariant, and what follows from it.                                *)
(***************************************************************************)
LEMMA NextGood == ReportInv /\ [Next]_vars => ReportInv'
<1> SUFFICES ASSUME ReportInv, [Next]_vars PROVE ReportInv'
  OBVIOUS
<1>1. CASE FinishReview
  BY <1>1, FinishReviewStep
<1>2. CASE PollReview
  BY <1>2, PollReviewStep
<1>3. CASE ServeReport
  BY <1>3, FetchOnly DEF ServeReport
<1>4. CASE ReceiveReport
  BY <1>4, ReceiveReportStep
<1>5. CASE FetchFails
  <2>1. status # "processing"
    BY <1>5 DEF FetchFails, ReportInv, Early, Unopened, Polled
  <2> QED BY <1>5, <2>1, DeafStep DEF FetchFails
<1>6. CASE Refetch
  BY <1>6, FetchOnly DEF Refetch, Ask
<1>12. CASE PollFails \/ Reopen
  BY <1>12, UnopenedStep DEF PollFails, Reopen, Unopened, Polled
<1>7. CASE Remount
  <2>1. status # "processing"
    BY <1>7 DEF Remount, ReportInv, Early, Unopened, Polled
  <2> QED BY <1>7, <2>1, DeafStep DEF Remount
<1>8. ASSUME NEW kind \in {"like", "flag"}, Vote(kind) PROVE ReportInv'
  <2>1. card' \in Flags /\ kind \in Kinds
    BY <1>8 DEF Vote, ReportInv, Typed, Flags, Kinds
  <2> QED BY <1>8, <2>1, ClickStep DEF Vote
<1>9. CASE Apply
  <2>1. card' \in Flags /\ "apply" \in Kinds
    BY <1>9 DEF Apply, ReportInv, Typed, Flags, Kinds
  <2> QED BY <1>9, <2>1, ClickStep DEF Apply
<1>10. ASSUME NEW i \in DOMAIN calls, CallStep(i) \/ CallFails(i) PROVE ReportInv'
  BY <1>10, ReadStep, WriteStep, ReceiveSuccessStep, ReceiveFailureStep, CallFailsStep DEF CallStep
<1>11. CASE UNCHANGED vars
  BY <1>11, SameCalls
     DEF vars, ReportInv, Typed, Early, Listening, FailuresNoted, FixesStay, ReportInStep, OneAtATime,
         Pending, AsAtTheClick, CardFollows, FixesFollow, Told, ClicksCount, Same, Shows, At
<1> QED
  BY <1>1, <1>2, <1>3, <1>4, <1>5, <1>6, <1>7, <1>8, <1>9, <1>10, <1>11, <1>12 DEF Next, FetchStep

\* The inductive invariant: what every call remembers, and how card, report
\* and row follow the clicks (FindingCard, useReviewPolling, finding_service).
THEOREM InvHolds == Spec => []ReportInv
<1>1. Init => ReportInv
  BY InitGood
<1>2. ReportInv /\ [Next]_vars => ReportInv'
  BY NextGood
<1> QED BY <1>1, <1>2, PTL DEF Spec

\* Every variable keeps its type, under all faults.
THEOREM TypeCorrect == Spec => []TypeOK
<1>1. ReportInv => TypeOK
  <2> SUFFICES ASSUME ReportInv PROVE TypeOK
    OBVIOUS
  <2>1. \A i \in DOMAIN calls : calls[i] \in Calls
    BY CallsTyped DEF ReportInv
  <2> QED BY <2>1 DEF ReportInv, Typed, TypeOK, Calls, Grave
<1> QED BY <1>1, InvHolds, PTL

\* However many clicks, requests at once, reports and failures there are: when
\* nothing is under way the card shows the row, but for the cases it names
\* (FindingCard's effect and onError handlers).
THEOREM CardAlwaysTellsTheTruth == Spec => []CardTellsTheTruth
<1>1. ReportInv => CardTellsTheTruth
  <2> SUFFICES ASSUME ReportInv, page = "report", Quiet, troubles \cap Grave = {},
                      ~ {"failed", "overlap"} \subseteq troubles
               PROVE  /\ card.like = row.like /\ card.flag = row.flag
                      /\ card.fixed = row.fixed \/ "unfixed" \in troubles
    BY DEF CardTellsTheTruth
  <2>1. \A i \in DOMAIN calls : calls[i].at = "over"
    BY DEF Quiet, Pending
  <2>2. report = row
    BY <2>1 DEF Quiet, ReportInv, ReportInStep, NoneWritten, At
  <2>3. Told /\ \A i \in DOMAIN calls : ~ Outstanding(i)
    BY <2>1 DEF Told, Outstanding, At
  <2>4. Same(card, row)
    BY <2>2, <2>3 DEF ReportInv, CardFollows
  <2>5. "unfixed" \notin troubles => (card.fixed <=> row.fixed)
    BY <2>2, <2>3 DEF ReportInv, FixesFollow
  <2>6. card.fixed \in BOOLEAN /\ row.fixed \in BOOLEAN
    BY DEF ReportInv, Typed, Flags
  <2> QED BY <2>4, <2>5, <2>6 DEF Same
<1> QED BY <1>1, InvHolds, PTL

\* The row shows the last vote and every fix that was clicked, when nothing is
\* under way: a session writes only the columns its handler changed
\* (flag_finding, apply_finding).
THEOREM ClicksAlwaysCount == Spec => []EveryClickCounts
<1>1. ReportInv => EveryClickCounts
  <2> SUFFICES ASSUME ReportInv, Quiet, troubles \cap ({"failed"} \cup Grave) = {}
               PROVE  /\ \A i \in DOMAIN calls : LastVote(i) => Shows(row, i)
                      /\ (\E i \in DOMAIN calls : ~ IsVote(i)) => row.fixed \/ "unfixed" \in troubles
    BY DEF EveryClickCounts, LastVote, Shows
  <2>1. \A i \in DOMAIN calls : ~ At(i, {"sent", "read"})
    BY DEF Quiet, Pending, At
  <2> QED BY <2>1 DEF ReportInv, ClicksCount
<1> QED BY <1>1, InvHolds, PTL

(***************************************************************************)
(* The report, under every trouble but a lost reply.                       *)
(***************************************************************************)
\* A report that is behind the row is not left alone, even when votes race or
\* are handled out of order: a fetch is under way, or a call that was stored is
\* yet to be answered, and its answer has the report fetched once more
\* (invalidateQueries of useFlagFinding and useApplyFinding).
StaleIsFetched ==
  "lost" \notin troubles =>
    /\ page = "report" /\ report # row => fetch.at # "idle" \/ \E i \in DOMAIN calls : calls[i].at = "written"
    /\ fetch.at = "served" /\ fetch.finding # row => \E i \in DOMAIN calls : calls[i].at = "written"

\* A step that leaves row, report and fetch alone, and settles no call.
LEMMA StaleKept ==
  ASSUME StaleIsFetched, UNCHANGED <<row, report, fetch>>, page' = "report" => page = "report",
         "lost" \notin troubles' => "lost" \notin troubles /\ (NoneWritten' => NoneWritten)
  PROVE  StaleIsFetched'
BY DEF StaleIsFetched, NoneWritten, At

\* What was lost is not forgotten.
LEMMA LostIsNoted ==
  ASSUME NEW what, Note(what)
  PROVE  "lost" \in troubles \/ "lost" \in what => "lost" \in troubles'
BY DEF Note, Grave

LEMMA StaleStep ==
  ASSUME ReportInv, StaleIsFetched, [Next]_vars
  PROVE  StaleIsFetched'
<1> USE DEF browser
<1>1. CASE FinishReview
  <2>1. page' # "report" /\ fetch'.at = "idle"
    BY <1>1 DEF FinishReview, ReportInv, Early, Unopened, Polled
  <2> QED BY <2>1 DEF StaleIsFetched
<1>2. CASE PollReview
  <2>1. CASE page' # "report" /\ UNCHANGED fetch
    BY <1>2, <2>1, StaleKept, SameCalls DEF PollReview
  <2>2. CASE Ask
    BY <2>2 DEF Ask, StaleIsFetched
  <2> QED BY <1>2, <2>1, <2>2 DEF PollReview
<1>3. CASE ServeReport
  BY <1>3 DEF ServeReport, StaleIsFetched
<1>4. CASE ReceiveReport
  <2>1. fetch'.at = "idle"
    BY <1>4 DEF ReceiveReport, ReportInv, Typed
  <2>2. /\ report' = fetch.finding /\ fetch.at = "served"
        /\ UNCHANGED <<row, calls, troubles>>
    BY <1>4 DEF ReceiveReport
  <2> QED BY <2>1, <2>2 DEF StaleIsFetched
<1>5. CASE FetchFails
  <2>1. page' = "error" /\ fetch'.at = "idle"
    BY <1>5 DEF FetchFails, ReportInv, Typed
  <2> QED BY <2>1 DEF StaleIsFetched
<1>15. CASE PollFails \/ Reopen
  BY <1>15, StaleKept, SameCalls DEF PollFails, Reopen
<1>6. CASE Refetch
  BY <1>6 DEF Refetch, Ask, StaleIsFetched
<1>7. CASE Remount
  <2>1. \A i \in DOMAIN calls : calls[i] \in Calls
    BY CallsTyped DEF ReportInv
  <2>2. NoneWritten' => NoneWritten
    BY <1>7, <2>1 DEF Remount, Deaf, NoneWritten, At, Calls
  <2> QED BY <1>7, <2>2, StaleKept DEF Remount
<1>8. ASSUME NEW kind \in Kinds, Send(kind), page = "report" PROVE StaleIsFetched'
  <2>1. PICK n : n = Len(calls) + 1
    OBVIOUS
  <2>2. NoneWritten' => NoneWritten
    BY <1>8, <2>1, Sent DEF NoneWritten, At
  <2>3. "lost" \in troubles => "lost" \in troubles'
    BY <1>8, LostIsNoted DEF Send
  <2>4. UNCHANGED <<row, page, report, fetch>>
    BY <1>8 DEF Send
  <2> QED BY <2>2, <2>3, <2>4, StaleKept
<1>9. ASSUME NEW i \in DOMAIN calls, Read(i) PROVE StaleIsFetched'
  <2>1. NoneWritten' => NoneWritten
    <3>1. \A j \in DOMAIN calls : calls[j] \in Calls
      BY CallsTyped DEF ReportInv
    <3> QED BY <1>9, <3>1 DEF Read, NoneWritten, At, Calls
  <2> QED BY <1>9, <2>1, StaleKept DEF Read
<1>10. ASSUME NEW i \in DOMAIN calls, Write(i) PROVE StaleIsFetched'
  <2>1. calls[i] \in Calls
    BY CallsTyped DEF ReportInv
  <2>2. i \in DOMAIN calls' /\ calls'[i].at = "written"
    BY <1>10, <2>1 DEF Write, Calls
  <2> QED BY <2>2 DEF StaleIsFetched
<1>11. ASSUME NEW i \in DOMAIN calls, CallFails(i) PROVE StaleIsFetched'
  <2>1. CASE Note({"lost"})
    <3>1. "lost" \in troubles'
      BY <2>1, LostIsNoted
    <3> QED BY <3>1 DEF StaleIsFetched
  <2>2. CASE calls[i].at = "read" /\ Note({"failed"})
    <3>1. NoneWritten' => NoneWritten
      <4>1. \A j \in DOMAIN calls : calls[j] \in Calls
        BY CallsTyped DEF ReportInv
      <4> QED BY <1>11, <2>2, <4>1 DEF CallFails, Go, NoneWritten, At, Calls
    <3>2. "lost" \in troubles => "lost" \in troubles'
      BY <2>2, LostIsNoted
    <3> QED BY <1>11, <3>1, <3>2, StaleKept DEF CallFails
  <2> QED BY <1>11, <2>1, <2>2 DEF CallFails
<1>12. ASSUME NEW i \in DOMAIN calls, ReceiveSuccess(i) PROVE StaleIsFetched'
  BY <1>12 DEF ReceiveSuccess, Ask, StaleIsFetched
<1>13. ASSUME NEW i \in DOMAIN calls, ReceiveFailure(i) PROVE StaleIsFetched'
  <2>1. NoneWritten' => NoneWritten
    BY <1>13, Settled DEF ReceiveFailure, NoneWritten, At
  <2> QED BY <1>13, <2>1, StaleKept DEF ReceiveFailure
<1>14. CASE UNCHANGED vars
  BY <1>14, SameCalls, StaleKept DEF vars
<1> QED
  BY <1>1, <1>2, <1>3, <1>4, <1>5, <1>6, <1>7, <1>8, <1>9, <1>10, <1>11, <1>12, <1>13, <1>14, <1>15
  DEF Next, FetchStep, CallStep, Vote, Apply, Kinds

\* A report that is behind is always on its way, for any number of clicks and of
\* requests at once.
THEOREM StaleIsAlwaysFetched == Spec => []StaleIsFetched
<1>1. Init => StaleIsFetched
  BY DEF Init, StaleIsFetched
<1>2. ReportInv /\ StaleIsFetched /\ [Next]_vars => StaleIsFetched'
  BY StaleStep
<1> QED BY <1>1, <1>2, InvHolds, PTL DEF Spec
===============================================================================
