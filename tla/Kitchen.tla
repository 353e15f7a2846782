------------------------------ MODULE Kitchen -------------------------------
(***************************************************************************)
(* What the order service promises about the kitchen, without queues,      *)
(* updates, links or registries: an order is in one place at a time, it is *)
(* cooked only when it was admitted, it is served only when it was cooked, *)
(* and the kitchen never holds more than it has room for.  A refused, a    *)
(* failed and a forgotten order are all "out".                             *)
(***************************************************************************)
EXTENDS Naturals, FiniteSets

CONSTANTS
  Keys,             \* the orders
  Cooks,            \* how many orders are cooked at once
  Seats             \* how many admitted orders wait

VARIABLE place

Places == {"out", "waiting", "cooking", "ready", "served"}

At(p) == {k \in Keys : place[k] = p}

Init == place = [k \in Keys |-> "out"]

\* The orders of `gone` are forgotten: at most one, and only when served.
Forgettable(gone) == gone \subseteq At("served") /\ Cardinality(gone) <= 1

\* The place of every order once k moved to p and `gone` was forgotten.
Moved(k, p, gone) ==
  [x \in Keys |-> IF x = k THEN p ELSE IF x \in gone THEN "out" ELSE place[x]]

Admit(k) ==
  /\ place[k] = "out" /\ Cardinality(At("waiting")) < Seats
  /\ \E gone \in {{}} \union {{x} : x \in Keys} :
       Forgettable(gone) /\ place' = Moved(k, "waiting", gone)

\* An order is refused and its entry takes the place of a served one.
Forget(k) == place[k] = "served" /\ place' = Moved(k, "out", {})

Cook(k) ==
  /\ place[k] = "waiting" /\ Cardinality(At("cooking")) < Cooks
  /\ place' = Moved(k, "cooking", {})

Prepare(k) == place[k] = "cooking" /\ place' = Moved(k, "ready", {})
Spoil(k) == place[k] = "cooking" /\ place' = Moved(k, "out", {})
Serve(k) == place[k] = "ready" /\ place' = Moved(k, "served", {})
Replay(k) == place[k] = "served" /\ place' = Moved(k, "ready", {})

\* The kitchen closes: whatever it held is lost.
Close == place' = [k \in Keys |-> "out"]

Next ==
  \/ \E k \in Keys : \/ Admit(k) \/ Forget(k) \/ Cook(k) \/ Prepare(k)
                     \/ Spoil(k) \/ Serve(k) \/ Replay(k)
  \/ Close

Spec == Init /\ [][Next]_place
=============================================================================
