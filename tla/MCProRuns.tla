------------------------------ MODULE MCProRuns ------------------------------
(* Instances of ProRuns. *)
EXTENDS ProRuns

TwoAnalysts == <<"market", "social">>
OneAnalyst == <<"market">>
Buys == {Decision("labelled", "Buy")}
NoHistory == {<< >>}
Day(t, d) == [ticker |-> t, date |-> d]
\* Day 1: today's decision waits, yesterday's can be settled, and another
\* ticker's lesson is there already.
OnDayOne ==
  {<<Pending(Day("T", 1), Decision("labelled", "Sell")),
     Pending(Day("T", 0), Decision("neither", "")),
     Resolved(Pending(Day("U", 0), Decision("prose", "Buy")), 1)>>}
AllThree == [s \in Slots |-> s]
=============================================================================
