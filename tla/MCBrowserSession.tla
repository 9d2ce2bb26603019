--------------------------- MODULE MCBrowserSession ---------------------------
(***************************************************************************)
(* Instances of BrowserSession for TLC.                                    *)
(***************************************************************************)
EXTENDS BrowserSession, TLC

Alike == Permutations(Users) \cup Permutations(Requests) \cup Permutations(Logins)
===============================================================================
