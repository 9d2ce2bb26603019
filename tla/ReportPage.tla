------------------------------ MODULE ReportPage ------------------------------
(***************************************************************************)
(* The report page: it polls until the review is done, fetches the report, *)
(* shows a card for a finding, and sends the votes and fixes the user      *)
(* clicks.  The card shows a click at once, takes it back when the request *)
(* fails, and follows the report when its flags change.  The server        *)
(* handles every request in a session of its own.                          *)
(***************************************************************************)
EXTENDS Naturals, Sequences, FiniteSets

CONSTANTS
  MaxCalls,   \* bound: clicks on one card
  MaxPending, \* bound: requests of the card under way at once
  Faults      \* the faults that may happen, a subset of FaultKinds

FaultKinds == {"call_fails", "reply_lost", "fetch_fails"}

ASSUME ReportAssumption == {MaxCalls, MaxPending} \subseteq Nat /\ Faults \subseteq FaultKinds

VARIABLES
  status,    \* status of the review
  row,       \* the finding's row: user_like, user_flag, auto_fixed
  page,      \* what the page shows: before the report one of Polled or "stopped",
             \* then "report", "failed" or "error"
  report,    \* the finding in the cached report
  fetch,     \* the GET of the report: at "idle", "asked" or "served"
  card,      \* the local state of the finding's card
  calls,     \* the POSTs of the card, in the order of the clicks
  troubles   \* history: what has happened that may part the card from the row

vars == <<status, row, page, report, fetch, card, calls, troubles>>
browser == <<page, report, fetch, card>>

\* The page asks for the status: it has heard none yet, an active one, or an
\* active one and then an error, which it shows.
Polled == {"opening", "waiting", "interrupted"}

Flags == [like : BOOLEAN, flag : BOOLEAN, fixed : BOOLEAN]
Unset == [like |-> FALSE, flag |-> FALSE, fixed |-> FALSE]
Kinds == {"like", "flag", "apply"}

TypeOK ==
  /\ status \in {"processing", "done", "failed"}
  /\ page \in Polled \cup {"stopped", "report", "failed", "error"}
  /\ {row, report, card, fetch.finding} \subseteq Flags
  /\ fetch.at \in {"idle", "asked", "served"}
  /\ Len(calls) <= MaxCalls
  /\ \A i \in DOMAIN calls :
       /\ calls[i].kind \in Kinds /\ calls[i].heard \in BOOLEAN
       /\ calls[i].at \in {"sent", "read", "written", "failing", "over"}
       /\ {calls[i].read, calls[i].known} \subseteq Flags
  /\ troubles \subseteq {"failed", "lost", "unfixed", "overlap", "raced", "disordered"}

Init ==
  /\ status = "processing" /\ page = "opening"
  /\ row = Unset /\ report = Unset /\ card = Unset
  /\ fetch = [at |-> "idle", finding |-> Unset]
  /\ calls = <<>> /\ troubles = {}

(***************************************************************************)
(* The review and the report.                                              *)
(***************************************************************************)
\* The worker ends: a fixable finding may have been fixed at once.
FinishReview ==
  /\ status = "processing"
  /\ \/ status' = "failed" /\ UNCHANGED row
     \/ status' = "done" /\ \E fixed \in BOOLEAN : row' = [row EXCEPT !.fixed = fixed]
  /\ UNCHANGED <<browser, calls, troubles>>

Ask == fetch' = [at |-> "asked", finding |-> Unset]

\* The first answer of useReviewStatus that is not active opens the page.
PollReview ==
  /\ page \in Polled /\ fetch.at = "idle"
  /\ \/ status = "processing" /\ page # "waiting" /\ page' = "waiting" /\ UNCHANGED fetch
     \/ status = "failed" /\ page' = "failed" /\ UNCHANGED fetch
     \/ status = "done" /\ page' = "waiting" /\ Ask
  /\ UNCHANGED <<status, row, report, card, calls, troubles>>

\* The interval follows the last status heard: polling goes on after an error
\* behind an active status, and stops when the very first poll fails.
PollFails ==
  /\ "fetch_fails" \in Faults
  /\ page \in {"opening", "waiting"} /\ fetch.at = "idle"
  /\ page' = IF page = "opening" THEN "stopped" ELSE "interrupted"
  /\ UNCHANGED <<status, row, report, fetch, card, calls, troubles>>

\* The window gets the focus, or the page is opened again.
Reopen ==
  /\ page = "stopped"
  /\ page' = "opening"
  /\ UNCHANGED <<status, row, report, fetch, card, calls, troubles>>

ServeReport ==
  /\ fetch.at = "asked"
  /\ fetch' = [at |-> "served", finding |-> row]
  /\ UNCHANGED <<status, row, page, report, card, calls, troubles>>

\* The card is mounted with the report, and reset when one of the finding's
\* flags is not what it was.
ReceiveReport ==
  /\ fetch.at = "served"
  /\ report' = fetch.finding /\ page' = "report"
  /\ fetch' = [fetch EXCEPT !.at = "idle", !.finding = Unset]
  /\ card' = IF page = "report" /\ fetch.finding = report THEN card ELSE fetch.finding
  /\ UNCHANGED <<status, row, calls, troubles>>

Deaf == [i \in DOMAIN calls |-> [calls[i] EXCEPT !.heard = FALSE]]

\* A query whose last fetch failed is in error even with data: the page takes
\* the report away and the cards with it.
FetchFails ==
  /\ "fetch_fails" \in Faults
  /\ fetch.at = "asked"
  /\ fetch' = [fetch EXCEPT !.at = "idle"]
  /\ page' = "error"
  /\ calls' = Deaf
  /\ UNCHANGED <<status, row, report, card, troubles>>

\* The same with a report; that the status is asked for once more is not told
\* apart: the page shows an error when either answer is one.
Refetch ==
  /\ page \in {"report", "error"} /\ fetch.at = "idle"
  /\ Ask
  /\ UNCHANGED <<status, row, page, report, card, calls, troubles>>

\* The filters hide the card and show it again.
Remount ==
  /\ page = "report"
  /\ card' = report
  /\ calls' = Deaf
  /\ UNCHANGED <<status, row, page, report, fetch, troubles>>

(***************************************************************************)
(* The clicks.                                                             *)
(***************************************************************************)
Pending == {i \in DOMAIN calls : calls[i].at # "over"}
Quiet == Pending = {} /\ fetch.at = "idle"

\* After a lost reply, a race or votes out of order only these are told apart.
Grave == {"lost", "raced", "disordered"}

Note(what) ==
  LET all == troubles \cup what
  IN troubles' = IF all \cap Grave = {} THEN all ELSE all \cap Grave

Send(kind) ==
  /\ Len(calls) < MaxCalls /\ Cardinality(Pending) < MaxPending
  /\ calls' = Append(calls, [kind |-> kind, at |-> "sent", read |-> Unset,
                             known |-> IF kind = "apply" THEN Unset ELSE report,
                             heard |-> TRUE])
  /\ Note({what \in {"overlap"} : ~Quiet})
  /\ UNCHANGED <<status, row, page, report, fetch>>

\* handleFlag and handleLike: a vote that is shown is not cast again.
Vote(kind) ==
  /\ page = "report"
  /\ \/ kind = "like" /\ ~card.like /\ card' = [card EXCEPT !.like = TRUE, !.flag = FALSE]
     \/ kind = "flag" /\ ~card.flag /\ card' = [card EXCEPT !.like = FALSE, !.flag = TRUE]
  /\ Send(kind)

\* handleApply, once at a time.
Apply ==
  /\ page = "report" /\ ~card.fixed
  /\ \A i \in Pending : calls[i].kind = "apply" => ~calls[i].heard
  /\ card' = [card EXCEPT !.fixed = TRUE]
  /\ Send("apply")

(***************************************************************************)
(* The handlers: one SELECT, one UPDATE of the columns that have changed.  *)
(***************************************************************************)
Go(i, to) == calls' = [calls EXCEPT ![i].at = to]
Settle(i) == calls' = [calls EXCEPT ![i] = [@ EXCEPT !.at = "over", !.heard = FALSE,
                                            !.read = Unset, !.known = Unset]]

Read(i) ==
  /\ calls[i].at = "sent"
  /\ calls' = [calls EXCEPT ![i].at = "read", ![i].read = row]
  /\ UNCHANGED <<status, row, browser, troubles>>

Wanted(i) ==
  CASE calls[i].kind = "like" -> {[calls[i].read EXCEPT !.like = TRUE, !.flag = FALSE]}
    [] calls[i].kind = "flag" -> {[calls[i].read EXCEPT !.like = FALSE, !.flag = TRUE]}
    [] calls[i].kind = "apply" -> {[calls[i].read EXCEPT !.fixed = fixed] :
                                     fixed \in {TRUE, calls[i].read.fixed}}

\* A mutation of Changed: the session writes back all it has read.
ChangedAll(i, wanted) == wanted

\* What the UPDATE leaves: the columns the handler did not change are not in it.
Changed(i, wanted) ==
  [c \in DOMAIN row |-> IF wanted[c] # calls[i].read[c] THEN wanted[c] ELSE row[c]]

IsVote(i) == calls[i].kind # "apply"
Votes(finding) == <<finding.like, finding.flag>>

\* A fix that finds nothing to change leaves auto_fixed as it is; two votes
\* race when the row has changed since it was read, and may come in the wrong
\* order.
Write(i) ==
  /\ calls[i].at = "read"
  /\ \E wanted \in Wanted(i) :
       /\ row' = Changed(i, wanted)
       /\ Note({what \in {"unfixed"} : ~IsVote(i) /\ ~wanted.fixed}
               \cup {what \in {"raced"} : IsVote(i) /\ Votes(row) # Votes(calls[i].read)}
               \cup {what \in {"disordered"} :
                       IsVote(i) /\ \E j \in DOMAIN calls :
                         j > i /\ IsVote(j) /\ calls[j].at \notin {"sent", "read"}})
  /\ calls' = [calls EXCEPT ![i].at = "written", ![i].read = Unset]
  /\ UNCHANGED <<status, browser>>

\* Nothing is stored, or the answer to what was stored does not arrive.
CallFails(i) ==
  /\ \/ "call_fails" \in Faults /\ calls[i].at = "read" /\ Note({"failed"})
     \/ "reply_lost" \in Faults /\ calls[i].at = "written" /\ Note({"lost"})
  /\ Go(i, "failing")
  /\ UNCHANGED <<status, row, browser>>

(***************************************************************************)
(* The replies.                                                            *)
(***************************************************************************)
\* A mutation of ReceiveSuccess: the report is not fetched again.
ReceiveSuccessOnly(i) ==
  /\ calls[i].at = "written"
  /\ Settle(i)
  /\ UNCHANGED <<status, row, browser, troubles>>

\* The report is invalidated; a fetch that is under way is cancelled.
ReceiveSuccess(i) ==
  /\ calls[i].at = "written"
  /\ Ask
  /\ Settle(i)
  /\ UNCHANGED <<status, row, page, report, card, troubles>>

Latest(i) == \A j \in DOMAIN calls : j > i => calls[j].kind # calls[i].kind

\* A mutation of TakenBack: the vote is taken back, the other one stays away.
TakenBackHalf(i) ==
  CASE calls[i].kind = "like" -> [card EXCEPT !.like = FALSE]
    [] calls[i].kind = "flag" -> [card EXCEPT !.flag = FALSE]
    [] calls[i].kind = "apply" -> [card EXCEPT !.fixed = FALSE]

\* onError: back to the finding as it was rendered at the click.
TakenBack(i) ==
  CASE calls[i].kind = "like" -> [card EXCEPT !.like = FALSE, !.flag = calls[i].known.flag]
    [] calls[i].kind = "flag" -> [card EXCEPT !.flag = FALSE, !.like = calls[i].known.like]
    [] calls[i].kind = "apply" -> [card EXCEPT !.fixed = FALSE]

\* Only the last call of its hook is heard, and only while the card is there.
ReceiveFailure(i) ==
  /\ calls[i].at = "failing"
  /\ card' = IF Latest(i) /\ calls[i].heard THEN TakenBack(i) ELSE card
  /\ Settle(i)
  /\ UNCHANGED <<status, row, page, report, fetch, troubles>>

(***************************************************************************)
(* The specification.                                                      *)
(***************************************************************************)
CallStep(i) == Read(i) \/ Write(i) \/ ReceiveSuccess(i) \/ ReceiveFailure(i)
FetchStep == PollReview \/ ServeReport \/ ReceiveReport

Next ==
  \/ FinishReview \/ FetchStep \/ FetchFails \/ Refetch \/ Remount
  \/ PollFails \/ Reopen
  \/ Vote("like") \/ Vote("flag") \/ Apply
  \/ \E i \in DOMAIN calls : CallStep(i) \/ CallFails(i)

Spec == Init /\ [][Next]_vars

\* Requests are handled and answered, and an open page polls until it hears.
FairSpec ==
  /\ Spec /\ WF_vars(FetchStep)
  /\ \A i \in 1..MaxCalls : WF_vars(i \in DOMAIN calls /\ CallStep(i))

(***************************************************************************)
(* Properties.                                                             *)
(***************************************************************************)
\* When nothing is under way the card shows the finding's row, even after
\* failed votes, unless a reply was lost, a vote failed among others, or votes
\* raced or were handled in another order than they were cast; a fix that found
\* nothing to change is shown as applied all the same (FindingCard).
CardTellsTheTruth ==
  page = "report" /\ Quiet /\ troubles \cap Grave = {}
     /\ ~{"failed", "overlap"} \subseteq troubles =>
    /\ card.like = row.like /\ card.flag = row.flag
    /\ card.fixed = row.fixed \/ "unfixed" \in troubles

\* When nothing is under way the row shows the last vote that was clicked, and
\* it alone, and the fix if there was one: no session writes back what it has
\* only read (flag_finding "clears user_like on the server").  Votes that race
\* can leave the finding both liked and flagged.
EveryClickCounts ==
  Quiet /\ troubles \cap ({"failed"} \cup Grave) = {} =>
    /\ \A i \in DOMAIN calls :
         IsVote(i) /\ (\A j \in DOMAIN calls : IsVote(j) => j <= i)
           => row.like = (calls[i].kind = "like") /\ row.flag = (calls[i].kind = "flag")
    /\ (\E i \in DOMAIN calls : ~IsVote(i)) => row.fixed \/ "unfixed" \in troubles

\* The page opens, also when polls failed after the first one, and its report
\* catches up with the row, unless it shows the error of the first poll or of a
\* fetch or a reply was lost (useReviewStatus, invalidateQueries).
ReportCatchesUp ==
  (status = "done" /\ (page \in Polled \/ report # row))
    ~> \/ page = "report" /\ report = row
       \/ page \in {"stopped", "error"} \/ "lost" \in troubles
===============================================================================
