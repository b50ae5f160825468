------------------------------ MODULE RasterMC -------------------------------
(* Grids of up to three by two points on which a cost may be 0, -1 or 1.   *)
EXTENDS Raster

MCCosts == {-1, 0, 1}
\* In P a profile around zero and one that is a single value.
MCHulls == [P |-> {<<-1, 2>>, <<2, 2>>}, Q |-> {<<-1, 1>>}]
MCNearMinusOne == -7
==============================================================================
