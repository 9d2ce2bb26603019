----------------------------- MODULE Aggregation -----------------------------
(***************************************************************************)
(* The pure part of core/aggregate.py: which findings are shown, in which  *)
(* order, and the score of a report.  A finding is a record with a slide   *)
(* (0 for the deck as a whole; numbers above NSlides stand for those that  *)
(* the deck does not have, each a slide of its own) and a severity;        *)
(* `hides' is 0 except in the finding "Прочее" that stands for the ones    *)
(* the cap left out.                                                       *)
(***************************************************************************)
EXTENDS Integers, Sequences, SequencesExt

CONSTANTS
  NSlides,       \* slides are numbered 1..NSlides
  NMissing,      \* how many other numbers a model may name
  MaxPerSlide,   \* MAX_FINDINGS_PER_SLIDE
  ScoreFloor     \* SCORE_FLOOR

ASSUME BoundsAssumption ==
  /\ {NSlides, NMissing} \subseteq Nat /\ MaxPerSlide \in Nat \ {0} /\ ScoreFloor \in 0..100

Severities == <<"critical", "major", "minor">>   \* worst first: _SEVERITY_ORDER
Weight == [critical |-> 12, major |-> 5, minor |-> 1]
NPlaces == NSlides + NMissing + 1
Places == [i \in 1..NPlaces |-> i - 1]           \* in the order of the sort key

\* The findings at the chosen positions, in their order.
Chosen(findings, positions) ==
  FlattenSeq([i \in DOMAIN findings |-> IF i \in positions THEN <<findings[i]>> ELSE <<>>])
Of(findings, place) ==
  Chosen(findings, {i \in DOMAIN findings : findings[i].slide = place})
With(findings, severity) ==
  Chosen(findings, {i \in DOMAIN findings : findings[i].severity = severity})

\* list.sort is stable: equal severities keep their order.
WorstFirst(findings) ==
  FlattenSeq([i \in 1..Len(Severities) |-> With(findings, Severities[i])])

\* A mutation of Capped: the last place is given to the line that counts the
\* rest, and not counted.
CappedShort(findings, place) ==
  LET group == WorstFirst(Of(findings, place))
      extra == Len(group) - MaxPerSlide
  IN  IF extra <= 0 THEN group
      ELSE Append(SubSeq(group, 1, MaxPerSlide - 1),
                  [by |-> "aggregator", slide |-> place, box |-> "none",
                   severity |-> "minor", hides |-> extra])

\* A mutation of Capped: the group is cut before it is sorted.
CappedUnsorted(findings, place) ==
  LET group == Of(findings, place)
      extra == Len(group) - MaxPerSlide
  IN  IF extra <= 0 THEN group
      ELSE Append(SubSeq(group, 1, MaxPerSlide),
                  [by |-> "aggregator", slide |-> place, box |-> "none",
                   severity |-> "minor", hides |-> extra])

\* A mutation of Capped: the line weighs as much as the worst finding shown.
CappedWorst(findings, place) ==
  LET group == WorstFirst(Of(findings, place))
      extra == Len(group) - MaxPerSlide
  IN  IF extra <= 0 THEN group
      ELSE Append(SubSeq(group, 1, MaxPerSlide),
                  [by |-> "aggregator", slide |-> place, box |-> "none",
                   severity |-> group[1].severity, hides |-> extra])

\* The findings of one place, the worst of them only when there are too many.
Capped(findings, place) ==
  LET group == WorstFirst(Of(findings, place))
      extra == Len(group) - MaxPerSlide
  IN  IF extra <= 0 THEN group
      ELSE Append(SubSeq(group, 1, MaxPerSlide),
                  [by |-> "aggregator", slide |-> place, box |-> "none",
                   severity |-> "minor", hides |-> extra])

CapPerSlide(findings) ==
  FlattenSeq([i \in 1..Len(Places) |-> Capped(findings, Places[i])])

\* Severity first, then the slide.  CapPerSlide lists the places in order, so
\* a stable sort by severity is the sort by both keys.
Ordered(findings) == WorstFirst(CapPerSlide(findings))

(***************************************************************************)
(* DeckScorer: 100 - weights / slides, rounded half to even as Python's    *)
(* round() does, between the floor and 100.                                *)
(***************************************************************************)
Sum(numbers) ==
  LET sum[n \in 0..Len(numbers)] == IF n = 0 THEN 0 ELSE sum[n - 1] + numbers[n]
  IN  sum[Len(numbers)]

TotalWeight(findings) == Sum([i \in DOMAIN findings |-> Weight[findings[i].severity]])

RoundedQuotient(n, d) ==
  LET q == n \div d
      r == n % d
  IN  IF 2 * r < d \/ (2 * r = d /\ q % 2 = 0) THEN q ELSE q + 1

Clamp(low, n, high) == IF n < low THEN low ELSE IF n > high THEN high ELSE n

Score(findings) ==
  LET slides == IF NSlides = 0 THEN 1 ELSE NSlides
  IN  Clamp(ScoreFloor,
            RoundedQuotient(100 * slides - TotalWeight(findings), slides), 100)
==============================================================================
