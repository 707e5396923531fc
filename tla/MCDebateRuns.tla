----------------------------- MODULE MCDebateRuns -----------------------------
(***************************************************************************)
(* Instances of DebateRuns for TLC.                                        *)
(***************************************************************************)
EXTENDS DebateRuns, TLC

\* A calendar with a two-tick day, a four-tick week and a five-tick month.
Length(w) == CASE w = "day" -> 2 [] w = "week" -> 4 [] w = "month" -> 5

ShortDays == [w \in Windows |-> [t \in 0 .. MaxTime |-> t - (t % Length(w))]]

Paid(pro, est) == [auth |-> "api_key", pro |-> pro, est |-> est]
Free(auth, pro) == [auth |-> auth, pro |-> pro, est |-> 0]

PaidPro   == {Paid(TRUE, 1)}
AnyUse    == {Paid(TRUE, 1), Paid(FALSE, 1), Free("oauth", FALSE), Free("none", TRUE)}

Caps(day, week, month, rate) ==
  [enabled |-> TRUE, rate |-> rate,
   cap |-> [w \in Windows |-> IF w = "day" THEN day ELSE IF w = "week" THEN week ELSE month]]

Off == [enabled |-> FALSE, rate |-> 1, cap |-> [w \in Windows |-> 1]]

OneOrOther == {Caps(1, 3, 0, 0), Caps(0, 0, 0, 1)}
OnOrOff    == {Caps(2, 0, 0, 0), Off}
DailyCap   == {Caps(2, 0, 0, 0)}

Symmetry == Permutations(Runs)
=============================================================================
