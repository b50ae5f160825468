----------------------------- MODULE ValidatorMC -----------------------------
(***************************************************************************)
(* Advertisements of InterpreterMC, whole and with parts missing, and ones *)
(* that can be accepted, all offered for validation.                       *)
(***************************************************************************)
EXTENDS Validator, InterpreterMC

Offer(a, has, setpoint, isAdv) ==
  [adv |-> a, has |-> has, setpoint |-> setpoint, isAdv |-> isAdv]

Whole(a) == Offer(a, 1 .. 3, 2, TRUE)

\* Ones to accept: a case distinction that covers the profile by a name in
\* it, by the profile itself.  Then a gap in the cases, a belief that
\* cannot be boxed, and a profile that no random point hits.
MCOffers ==
  {Whole(a) : a \in MCAdvs \cup
     {<<35, 33, 37>>, <<9, 31, 38>>, <<35, 33, 38>>, <<35, 36, 14>>,
      <<39, 31, 13>>,
      \* a cost without a value, sets without a box: the belief at one point,
      \* the profile; a bounded profile; ragged matrices
      <<28, 31, 27>>, <<28, 12, 13>>, <<42, 31, 13>>, <<43, 31, 13>>,
      <<40, 31, 13>>, <<28, 41, 13>>}}
    \cup {Offer(<<1, 28, 2>>, {2, 3}, 2, TRUE), Offer(<<9, 1, 2>>, {1, 3}, 2, TRUE),
          Offer(<<9, 28, 2>>, {1, 2}, 2, TRUE), Offer(<<9, 31, 38>>, 1 .. 3, 1, TRUE),
          Offer(<<9, 31, 38>>, {}, 0, FALSE)}

MCAllAdvs == {o.adv : o \in MCOffers}

ASSUME OneEach == NamesUnique
ASSUME AllReached == WithinReach

\* Points in one part of the profile 35, in both, in the ball as well.
MCPoints == {{}, {28}, {34}, {28, 34, 42}, {9, 28, 34}, {9, 21}}

\* With one of the rectangle's points the sets of 12 have nothing in common.
MCNoBox == [p \in MCPoints |-> {42} \cup IF p = {28} THEN {12} ELSE {}]
==============================================================================
