------------------------------ MODULE DevicesMC ------------------------------
(* Every list of up to three of a few setpoints in any order, steps of one *)
(* to four, profiles on both sides of zero, errors of either sign and      *)
(* every P around them; of the other devices parameters of either sign,    *)
(* ratings that cut their profile and ratings that do not.                 *)
EXTENDS Devices

Integral(S) == {Num(n) : n \in S}

Curves ==
  {[pp |-> Num(2), p |-> Num(-3)], [pp |-> Frac(1, 3), p |-> Num(1)],
   [pp |-> Num(-1), p |-> Num(1)], [pp |-> Frac(1, 1000000), p |-> Num(1)]}

Batteries ==
  {[kind |-> k, via |-> v, Pmin |-> l, Pmax |-> h, Srated |-> s,
    coeffP |-> f.p, coeffPsquared |-> f.pp] :
     k \in BatteryLike, v \in {"api", "daemon"}, l \in Integral({-3, 0, 1}),
     h \in Integral({-1, 1, 4}), s \in Integral({2, 5}), f \in Curves}

PV(v, slope) ==
  {[kind |-> "pv", via |-> v, Srated |-> s, Pmax |-> h, Pdelta |-> d,
    tanPhi |-> slope, cosPhi |-> slope, a |-> x[1], b |-> x[2]] :
     s \in Integral({3, 5}), h \in Integral({0, 2, 4}), d \in Integral({0, 1, 3}),
     x \in {<<Num(1), Num(2)>>, <<Num(0), Num(1)>>, <<Num(1), Num(-1)>>}}

Plants ==
  PV("api", Frac(1, 2)) \cup PV("daemon", Frac(3, 5)) \cup PV("daemon", Num(1))

Drifting ==
  {[kind |-> k, via |-> "daemon", Pexp |-> e[1], Qexp |-> e[2], Srated |-> s,
    dPup |-> Num(1), dPdown |-> d, dQup |-> Num(2), dQdown |-> Num(0),
    PmaxAbsorb |-> g] :
     k \in Uncontrollable, d \in Integral({0, 2}), s \in Integral({2, 5}),
     g \in Integral({0, 1}),
     e \in {<<Num(-2), Num(1)>>, <<Num(0), Num(0)>>, <<Num(3), Num(-2)>>}}

Switched ==
  {[kind |-> k, via |-> "daemon", alpha |-> Num(2), beta |-> Num(-3)] : k \in Discrete}

MCOrders == Batteries \cup Plants \cup Drifting \cup Switched
\* The orders are of the kind that the theorems are about.
ASSUME OrdersAreSound == 
  \A o \in MCOrders : PlantSound(o) /\ DriftSound(o) /\ RatingSound(o)

MCGrid == Integral(-4 .. 5) \X Integral(-3 .. 3)

MCPointLists == UNION {[1 .. n -> {-3, 0, 1, 4}] : n \in 0 .. 3}
MCProfiles == {<<-7, -1>>, <<-4, 5>>, <<2, 2>>, <<0, 7>>}
MCSteps == 1 .. 4
MCErrors == {-2, 0, 1}
MCPowers == -11 .. 11
==============================================================================
