----------------------------- MODULE CreditLedger -----------------------------
(***************************************************************************)
(* What paying for a Review promises, with no request, queue or wallet row *)
(* in it: a review is charged once, to the trial while there is one; every *)
(* run of its work has at most one outcome, a report or the credit back in *)
(* the wallet it came from; and a request that gave the credit back itself *)
(* is followed by neither.  A review that is run once is therefore never   *)
(* paid back twice, and never when its report was delivered.               *)
(***************************************************************************)
EXTENDS Naturals

CONSTANTS Users, Reviews, Owner, InitialFree, InitialBalance

VARIABLES
  wallet,    \* wallet[u][w]: reviews left to user u in wallet w
  source,    \* the wallet each review was paid from
  runs,      \* runs[r]: how often the work on r was begun
  returned,  \* <<r, k>> when run k gave the credit back; k = 0: the request
  delivered  \* <<r, k>> when run k gave the owner a report

ledgerVars == <<wallet, source, runs, returned, delivered>>

LedgerInit ==
  /\ wallet = [u \in Users |->
                 [w \in {"free", "balance"} |->
                    IF w = "free" THEN InitialFree ELSE InitialBalance]]
  /\ source = [r \in Reviews |-> "none"]
  /\ runs = [r \in Reviews |-> 0]
  /\ returned = {}
  /\ delivered = {}

Charge(r, w) ==
  LET left == wallet[Owner[r]] IN
    /\ source[r] = "none"
    /\ source' = [source EXCEPT ![r] = w]
    /\ \/ w = "admin" /\ UNCHANGED wallet
       \/ /\ \/ w = "free" /\ left["free"] > 0
             \/ w = "balance" /\ left["free"] = 0 /\ left["balance"] > 0
          /\ wallet' = [wallet EXCEPT ![Owner[r]][w] = @ - 1]
    /\ UNCHANGED <<runs, returned, delivered>>

Begin(r) ==
  /\ source[r] # "none"
  /\ runs' = [runs EXCEPT ![r] = @ + 1]
  /\ UNCHANGED <<wallet, source, returned, delivered>>

\* The run under way has no outcome yet, and the request has not taken r back.
Open(r) ==
  /\ source[r] # "none"
  /\ runs[r] > 0
  /\ <<r, 0>> \notin returned
  /\ <<r, runs[r]>> \notin returned \cup delivered

PayBack(r, k) ==
  /\ returned' = returned \cup {<<r, k>>}
  /\ wallet' = IF source[r] = "admin" THEN wallet
               ELSE [wallet EXCEPT ![Owner[r]][source[r]] = @ + 1]
  /\ UNCHANGED <<source, runs, delivered>>

Return(r) == Open(r) /\ PayBack(r, runs[r])

\* The request gives the credit back before any run came to an outcome.
TakeBack(r) ==
  /\ source[r] # "none"
  /\ \A p \in returned \cup delivered : p[1] # r
  /\ PayBack(r, 0)

Deliver(r) ==
  /\ Open(r)
  /\ delivered' = delivered \cup {<<r, runs[r]>>}
  /\ UNCHANGED <<wallet, source, runs, returned>>

LedgerNext ==
  \E r \in Reviews :
    \/ \E w \in {"admin", "free", "balance"} : Charge(r, w)
    \/ Begin(r) \/ Return(r) \/ TakeBack(r) \/ Deliver(r)

LedgerSpec == LedgerInit /\ [][LedgerNext]_ledgerVars
==============================================================================
