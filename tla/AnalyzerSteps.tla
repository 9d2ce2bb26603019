---------------------------- MODULE AnalyzerSteps ----------------------------
(***************************************************************************)
(* What a sequence of isolated analyzers promises (core/analyzers/base.py, *)
(* "a failing analyzer is skipped and logged, the Review continues"): in   *)
(* the given order each contributes all it found or nothing, and what an   *)
(* analyzer learns after its turn changes nothing.                         *)
(***************************************************************************)
EXTENDS Integers, Sequences

CONSTANT Analyzers      \* the sequence of analyzers

VARIABLES
  turn,     \* the position of the analyzer whose turn it is
  taken,    \* the analyzers that have contributed
  answers,  \* what each analyzer has found so far
  found     \* the shared list of findings

vars == <<turn, taken, answers, found>>

Names == {Analyzers[i] : i \in DOMAIN Analyzers}

\* What an analyzer knows before its turn is of no concern.
StepsInit ==
  /\ turn = 1
  /\ taken = {}
  /\ DOMAIN answers = Names
  /\ found = <<>>

\* An analyzer that has not contributed learns something, in its turn or late.
Learn(a) ==
  /\ a \notin taken
  /\ \E i \in DOMAIN Analyzers : i <= turn /\ Analyzers[i] = a
  /\ answers' = [answers EXCEPT ![a] = answers'[a]]
  /\ UNCHANGED <<turn, taken, found>>

\* Its turn ends well ...
Contribute ==
  /\ turn \in DOMAIN Analyzers
  /\ turn' = turn + 1
  /\ taken' = taken \cup {Analyzers[turn]}
  /\ found' = found \o answers[Analyzers[turn]]
  /\ UNCHANGED answers

\* ... or badly.
Skip ==
  /\ turn \in DOMAIN Analyzers
  /\ turn' = turn + 1
  /\ UNCHANGED <<taken, answers, found>>

StepsNext == (\E a \in Names : Learn(a)) \/ Contribute \/ Skip

StepsSpec == StepsInit /\ [][StepsNext]_vars
==============================================================================
