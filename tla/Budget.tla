-------------------------------- MODULE Budget --------------------------------
(***************************************************************************)
(* What the reservation table promises, whoever calls it: a run takes at   *)
(* most one hold on the budget; a hold is settled once, with one amount,   *)
(* or lapses; what is settled or lapsed stays as it is.                    *)
(***************************************************************************)
EXTENDS Naturals

CONSTANTS Runs

VARIABLES hold   \* hold[r]: the life of r's hold and the amount settled

States == {"none", "held", "lapsed", "settled"}

TypeOK == hold \in [Runs -> [state : States, amount : Nat]]

Blank == [state |-> "none", amount |-> 0]

Init == hold = [r \in Runs |-> Blank]

\* Any call may find that some holds have lapsed.
Lapsed(L) ==
  [r \in Runs |-> IF r \in L THEN [state |-> "lapsed", amount |-> 0] ELSE hold[r]]

Held == {r \in Runs : hold[r].state = "held"}

LapseOnly(L) == hold' = Lapsed(L)

Take(L, r) ==
  /\ hold[r].state = "none"
  /\ hold' = [Lapsed(L) EXCEPT ![r] = [state |-> "held", amount |-> 0]]

\* The amount settled is the caller's choice.
Settle(L, r) ==
  /\ hold[r].state = "held"
  /\ hold'[r].amount \in Nat
  /\ hold' = [Lapsed(L) EXCEPT ![r] = [state |-> "settled", amount |-> hold'[r].amount]]

Next ==
  \E L \in SUBSET Held :
    \/ LapseOnly(L)
    \/ \E r \in Runs \ L : Take(L, r) \/ Settle(L, r)

Spec == Init /\ [][Next]_hold
=============================================================================
