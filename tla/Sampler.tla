------------------------------- MODULE Sampler -------------------------------
(***************************************************************************)
(* The weighted choice of the pool: newSampler builds the tables of Vose's *)
(* alias method from the adjusted weights of the nodes, Next draws.        *)
(*                                                                         *)
(* Numbers are exact: every fraction is multiplied by the sum of the       *)
(* weights, so that a probability of 1 is One.  The rounding of the code's *)
(* floats is left out.                                                     *)
(***************************************************************************)
EXTENDS Integers, Sequences, SequencesExt

CONSTANTS
  MaxNodes,   \* bounds of the model: nodes of one priority,
  MaxWeight   \* and the weight of one

VARIABLES
  weights,        \* weights given by the caller, 0 for an unhealthy node
  small, large,   \* work lists
  p,              \* what is left of the scaled probabilities
  probabilities,  \* the tables
  alias,
  step            \* none, scale, distribute, build, built

samplerVars == <<weights, small, large, p, probabilities, alias, step>>

Sum(s) ==
  LET upTo[k \in 0..Len(s)] == IF k = 0 THEN 0 ELSE upTo[k - 1] + s[k]
  IN  upTo[Len(s)]

\* adjustWeights divides by the sum, which is the unit here, and leaves zeros if
\* all weights are zero.
Total == Sum(weights)
One == IF Total = 0 THEN 1 ELSE Total
adjusted == IF Total = 0 THEN [i \in DOMAIN weights |-> 0] ELSE weights

SamplerRest ==
  /\ weights = <<>> /\ small = <<>> /\ large = <<>> /\ p = <<>>
  /\ probabilities = <<>> /\ alias = <<>> /\ step = "none"

SamplerInit ==
  /\ weights \in UNION {[1..n -> 0..MaxWeight] : n \in 1..MaxNodes}
  /\ small = <<>> /\ large = <<>> /\ p = <<>>
  /\ probabilities = [i \in DOMAIN weights |-> 0]
  /\ alias = [i \in DOMAIN weights |-> 1]
  /\ step = "scale"

\* Scaled probabilities.
Scale ==
  /\ step = "scale"
  /\ p' = [i \in DOMAIN weights |-> adjusted[i] * Len(weights)]
  /\ step' = "distribute"
  /\ UNCHANGED <<weights, small, large, probabilities, alias>>

\* The next index goes to one of the lists, which hold all earlier ones.
Distribute ==
  LET i == Len(small) + Len(large) + 1
  IN  /\ step = "distribute"
      /\ small' = IF p[i] < One THEN Append(small, i) ELSE small
      /\ large' = IF p[i] < One THEN large ELSE Append(large, i)
      /\ step' = IF i = Len(weights) THEN "build" ELSE "distribute"
      /\ UNCHANGED <<weights, p, probabilities, alias>>

\* Mutant of Pair: the donor keeps what it gives away.
PairKeeps ==
  /\ step = "build" /\ small # <<>> /\ large # <<>>
  /\ LET l == Last(small)
         g == Last(large)
     IN  /\ probabilities' = [probabilities EXCEPT ![l] = p[l]]
         /\ alias' = [alias EXCEPT ![l] = g]
         /\ small' = Front(small) /\ UNCHANGED <<large, p>>
  /\ UNCHANGED <<weights, step>>

\* The last of the small ones is filled up by the last of the large ones.
Pair ==
  /\ step = "build" /\ small # <<>> /\ large # <<>>
  /\ LET l == Last(small)
         g == Last(large)
         rest == p[g] + p[l] - One
     IN  /\ probabilities' = [probabilities EXCEPT ![l] = p[l]]
         /\ alias' = [alias EXCEPT ![l] = g]
         /\ p' = [p EXCEPT ![g] = rest]
         /\ small' = IF rest < One THEN Append(Front(small), g) ELSE Front(small)
         /\ large' = IF rest < One THEN Front(large) ELSE Append(Front(large), g)
  /\ UNCHANGED <<weights, step>>

\* What is left in either list is drawn with certainty.
Drain ==
  /\ step = "build" /\ (small = <<>> \/ large = <<>>)
  /\ probabilities' = [i \in DOMAIN weights |->
       IF Contains(small, i) \/ Contains(large, i) THEN One ELSE probabilities[i]]
  /\ small' = <<>> /\ large' = <<>> /\ step' = "built"
  /\ UNCHANGED <<weights, p, alias>>

SamplerNext == Scale \/ Distribute \/ Pair \/ Drain

SamplerSpec == SamplerInit /\ [][SamplerNext]_samplerVars

\* Next draws any index, and then it or its alias: how often it draws i, times
\* the number of nodes.
Mass(i) ==
  Sum([j \in DOMAIN weights |-> (IF j = i THEN probabilities[j] ELSE 0)
                                + (IF alias[j] = i THEN One - probabilities[j] ELSE 0)])

\* A node is drawn in proportion to its weight: one of weight zero never, as long
\* as another has a weight, and all alike if none has.
DrawsByWeight ==
  step = "built" =>
    \A i \in DOMAIN weights :
      Mass(i) = IF Total = 0 THEN One ELSE weights[i] * Len(weights)
=============================================================================
