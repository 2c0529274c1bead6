------------------------------- MODULE MCValues -------------------------------
(***************************************************************************)
(* The values a client builds, sends and reads: extended and basic ACLs,   *)
(* tokens, placement policies, and the tables of the pool's sampler.  A    *)
(* behaviour is about one of them.                                         *)
(***************************************************************************)
EXTENDS Eacl, BasicACL, Tokens, Placement, Sampler

CONSTANTS k1, k2, u1, u2

VARIABLE subject

\* Countries of one, two and three nodes, and a node without a country.
Node(country, size, price) == [Country |-> country, Size |-> size, Price |-> price]
MCNetMaps ==
  {<<Node("A", "3", "2"), Node("B", "1", ""), Node("A", "", "1"), Node("", "big", "")>>,
   <<Node("B", "3", "2"), Node("A", "1", ""), Node("A", "", "1"), Node("A", "big", "")>>}

AnyB == leaf("", "Country", "EQ", "B")
Large == leaf("", "Size", "GE", "3")
Cheap == leaf("", "Price", "LT", "2")
LargeOrCheap == compound("", "OR", <<Large, Cheap>>)
RefF == reference("F")
NotBig == leaf("", "Size", "NE", "big")
MCInnerFilters == {AnyB, Large, Cheap, LargeOrCheap, RefF, NotBig}
MCPolicyFilters ==
  {leaf("F", "Price", "LE", "1"), leaf("F", "Size", "GT", "-1"), leaf("", "Size", "NE", ""),
   compound("F", "OR", <<AnyB, LargeOrCheap>>), compound("G", "AND", <<RefF, NotBig>>),
   compound("F", "AND", <<RefF>>)}
MCHeight ==
  LET height[f \in MCPolicyFilters \cup MCInnerFilters] ==
        Max({0} \cup {height[f.inner[i]] + 1 : i \in DOMAIN f.inner})
  IN  height

MCPolicySelectors ==
  {selector("X", 2, "SAME", "Country", "*"), selector("X", 2, "DISTINCT", "Country", "F"),
   selector("X", 1, "", "", "F"), selector("X", 0, "", "", "*"), selector("Y", 2, "", "", "*"),
   selector("Y", 1, "SAME", "Country", "G")}

MCPolicyReplicas == {replica("X", 1), replica("Y", 1), replica("", 2)}

MCInit ==
  /\ subject \in {"filters", "targets", "basic", "token", "policy", "sampler"}
  /\ EaclInit
  /\ IF subject = "basic" THEN ACLInit ELSE ACLRest
  /\ IF subject = "token" THEN TokenInit ELSE TokenRest
  /\ IF subject = "policy" THEN PlacementInit ELSE PlacementRest
  /\ IF subject = "sampler" THEN SamplerInit ELSE SamplerRest

\* Targets only, the other parts at rest.
TargetsInit == MCInit /\ subject = "targets"

\* Extended ACL tables: rules with filters, or targets that share their arrays, in
\* rules for one operation.
TableNext ==
  \/ subject = "filters" /\ (RecordCalls \/ FilterCalls)
  \/ subject = "targets" /\ (RecordCalls \/ TargetCalls) /\ rec'.operation # "Put"

MCNext ==
  /\ UNCHANGED subject
  /\ \/ /\ subject \in {"filters", "targets"} /\ TableNext
        /\ UNCHANGED <<aclVars, tokenVars, placementVars, samplerVars>>
     \/ /\ subject = "basic" /\ ACLNext
        /\ UNCHANGED <<eaclVars, tokenVars, placementVars, samplerVars>>
     \/ /\ subject = "token" /\ TokenNext
        /\ UNCHANGED <<eaclVars, aclVars, placementVars, samplerVars>>
     \/ /\ subject = "policy" /\ PlacementNext
        /\ UNCHANGED <<eaclVars, aclVars, tokenVars, samplerVars>>
     \/ /\ subject = "sampler" /\ SamplerNext
        /\ UNCHANGED <<eaclVars, aclVars, tokenVars, placementVars>>

Symmetry == Permutations(Users) \cup Permutations(Keys)
=============================================================================
