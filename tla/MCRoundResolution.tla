------------------------- MODULE MCRoundResolution -------------------------
(* Values of the parameters for checking RoundResolution with TLC.         *)
EXTENDS RoundResolution, TLC

CONSTANTS a, b, c, d

NoInputs == {}
OneInput == {a}
TwoInputs == {a, b}
NoSources == {}
HalfAndHalf == {{a, b}, Inputs \ {a, b}}
NoCounts == {}
NoRounds == {}
AnyRound == RoundIds
NoEditors == {}

\* The inputs are told apart only by the sets of inputs requests may name.
InputSymmetry ==
  {f \in Permutations(Inputs) :
     /\ \A i \in Inputs : f[i] \in OpenInputs <=> i \in OpenInputs
     /\ \A i \in Inputs : f[i] \in DropOuts <=> i \in DropOuts
     /\ \A s \in Sources : {f[i] : i \in s} \in Sources}
=============================================================================
