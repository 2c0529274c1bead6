------------------------------ MODULE Placement ------------------------------
(***************************************************************************)
(* Where the objects of a container may be stored: package netmap applies  *)
(* a placement policy to the network map.  A caller builds the policy with *)
(* its setters and asks for the container nodes.                           *)
(*                                                                         *)
(* Nodes are numbered in the order in which HRW sorts them for the         *)
(* container, which depends on hashes and weights; the order of the        *)
(* buckets, which depends on those of their first nodes, is any order.     *)
(***************************************************************************)
EXTENDS Integers, Sequences, FiniteSets, FiniteSetsExt

CONSTANTS
  NetMaps,          \* the network maps that are tried: the attributes of each node
  PolicyFilters,    \* the parts of the policies that are tried: filters,
  InnerFilters,     \* and those within them,
  Height,           \* how deep each of them is nested,
  PolicySelectors,
  PolicyReplicas,
  BackupFactors,
  Nesting,          \* bounds of the model: how deep a filter is nested,
  MaxPolicy,        \* the parts of a policy,
  MaxOfKind         \* and those of one kind

Filters == PolicyFilters \cup InnerFilters

\* What is not a number is not in the cache of the numbers either, where it is zero.
Unsigned == {"0", "1", "2", "3"}
IsNumber(v) == v \in Unsigned
ParseUint(v) == CASE v = "1" -> 1 [] v = "2" -> 2 [] v = "3" -> 3 [] OTHER -> 0

\* Attributes that are numbers if a node has them, and zero otherwise.
Amounts == {"Price", "Capacity"}

ASSUME PlacementAssumption ==
  /\ \A m \in NetMaps :
       /\ Len(m) \in Nat /\ DOMAIN m = 1..Len(m)
       /\ \A n \in DOMAIN m : \A key \in Amounts \cap DOMAIN m[n] : m[n][key] = "" \/ IsNumber(m[n][key])
  /\ Nesting \in Nat /\ Height \in [Filters -> 0..Nesting]
  /\ \A f \in Filters : /\ f.inner \in Seq(InnerFilters)
                        /\ \A i \in DOMAIN f.inner : Height[f.inner[i]] < Height[f]
  /\ BackupFactors \subseteq Nat
  /\ \A s \in PolicySelectors : s.count \in Nat
  /\ \A r \in PolicyReplicas : r.count \in Nat

VARIABLES
  netMap,     \* the attributes of each node
  policy,     \* the policy that is built
  outcome     \* what ContainerNodes returned

placementVars == <<netMap, policy, outcome>>

Nodes == DOMAIN netMap

Attribute(n, key) == IF key \in DOMAIN netMap[n] THEN netMap[n][key] ELSE ""

-----------------------------------------------------------------------------
(* Filters. *)

mainFilterName == "*"
Logical == {"AND", "OR"}
Numeric == {"GT", "GE", "LT", "LE"}

\* The names of the filters before the k-th, which are processed when it is.
namesBefore(p, k) == {p.filters[j].name : j \in 1..(k - 1)}

\* Mutant of checkFilter: the filters within others must be named too.
checkFilterNamed(f, top, processed) ==
  /\ f.name \notin {"", mainFilterName}
  /\ top \/ f.name \in processed
  /\ \/ f.op \in Logical
     \/ /\ f.inner = <<>>
        /\ \/ ~top
           \/ f.op \in {"EQ", "NE"}
           \/ f.op \in Numeric /\ IsNumber(f.value)

\* What processFilter asks of a filter, and then of those within it.
checkFilter(f, top, processed) ==
  /\ f.name # mainFilterName
  /\ top => f.name # ""
  /\ ~top /\ f.name # "" => f.name \in processed
  /\ \/ f.op \in Logical
     \/ /\ f.inner = <<>>
        /\ \/ ~top /\ f.name # ""
           \/ f.op \in {"EQ", "NE"}
           \/ f.op \in Numeric /\ IsNumber(f.value)

processFilter(f, processed) ==
  LET valid[g \in Filters] == /\ checkFilter(g, FALSE, processed)
                              /\ \A i \in DOMAIN g.inner : valid[g.inner[i]]
  IN  /\ checkFilter(f, TRUE, processed)
      /\ \A i \in DOMAIN f.inner : valid[f.inner[i]]

\* Of two filters with one name the later one stays.
processFilters(p) ==
  [err |-> \E k \in DOMAIN p.filters : ~processFilter(p.filters[k], namesBefore(p, k)),
   processed |-> [name \in namesBefore(p, Len(p.filters) + 1) |->
                    p.filters[Max({k \in DOMAIN p.filters : p.filters[k].name = name})]]]

\* An amount that is missing is zero; any other number that is missing is none.
matchKeyValue(f, n) ==
  LET v == Attribute(n, f.key)
      num == IF f.key \in Amounts /\ v = "" THEN "0" ELSE v
  IN  \/ f.op = "EQ" /\ v = f.value
      \/ f.op = "NE" /\ v # f.value
      \/ /\ f.op \in Numeric /\ IsNumber(num)
         /\ \/ f.op = "GT" /\ ParseUint(num) > ParseUint(f.value)
            \/ f.op = "GE" /\ ParseUint(num) >= ParseUint(f.value)
            \/ f.op = "LT" /\ ParseUint(num) < ParseUint(f.value)
            \/ f.op = "LE" /\ ParseUint(num) <= ParseUint(f.value)

\* An AND returns at its first "no" and an OR at its first "yes"; no loop goes on
\* behind a call that does not return.
combined(op, answers) ==
  LET last == IF op = "OR" THEN "yes" ELSE "no"
      stops == {i \in DOMAIN answers : answers[i] \in {last, "endless"}}
  IN  IF stops # {} THEN answers[Min(stops)] ELSE IF op = "OR" THEN "no" ELSE "yes"

\* Calls that are nested deeper than all filters of the policy together have met
\* one of them twice, and never end.
MaxDepth(p) == Len(p.filters) * (Nesting + 1)

match(p, f, n, processed) ==
  LET sub(g) == IF g.name \in DOMAIN processed THEN processed[g.name] ELSE g
      verdict[d \in 0..MaxDepth(p)] ==
        [g \in Filters |->
           IF d = 0 THEN "endless"
           ELSE IF g.op \in Logical
           THEN combined(g.op, [i \in DOMAIN g.inner |-> verdict[d - 1][sub(g.inner[i])]])
           ELSE IF matchKeyValue(g, n) THEN "yes" ELSE "no"]
  IN  verdict[MaxDepth(p)][f]

-----------------------------------------------------------------------------
(* Selectors. *)

calcNodesCount(s) ==
  IF s.clause = "SAME" THEN [buckets |-> 1, nodes |-> s.count]
  ELSE [buckets |-> s.count, nodes |-> 1]

\* The members of S, smallest key first.
sorted(S, key) ==
  CHOOSE s \in [1..Cardinality(S) -> S] :
    \A i, j \in 1..Cardinality(S) : i < j => key[s[i]] < key[s[j]]

\* The nodes a selector chooses from, in buckets of one value of the attribute.
getSelectionBase(s, chosen) ==
  LET bucket(S) == sorted(S, [n \in Nodes |-> n])
  IN  IF s.attribute = "" THEN {<<n>> : n \in chosen}
      ELSE {bucket({n \in chosen : Attribute(n, s.attribute) = v}) :
              v \in {Attribute(n, s.attribute) : n \in chosen}}

\* Without an attribute the nodes that are left are dealt out to the buckets,
\* until one of them is full.
dealtOut(res, count, most) ==
  LET deal[i \in 0..(Len(res) - count)] ==
        IF i = 0 THEN [full |-> FALSE, res |-> SubSeq(res, 1, count)]
        ELSE LET acc == deal[i - 1]
                 index == ((i - 1) % count) + 1
             IN  IF acc.full \/ Len(acc.res[index]) >= most
                 THEN [full |-> TRUE, res |-> acc.res]
                 ELSE [full |-> FALSE, res |-> [acc.res EXCEPT ![index] = @ \o res[count + i]]]
  IN  deal[Len(res) - count].res

Selection(kind, buckets) == [kind |-> kind, buckets |-> buckets]

\* Mutant of fallbackOf: buckets without room for the backups are never used.
fallbackNone(base, least, most) == {}

\* Mutant of fallbackOf: buckets that are too small are used as well.
fallbackAny(base, least, most) == {b \in base : Len(b) < most}

\* Buckets without room for the backups but with enough nodes.
fallbackOf(base, least, most) == {b \in base : least <= Len(b) /\ Len(b) < most}

\* Buckets with room for the backups first, the others if there are too few.
selectionOf(s, cbf, base, rank) ==
  LET c == calcNodesCount(s)
      most == c.nodes * cbf
      large == {b \in base : Len(b) >= most}
      usable == IF Cardinality(large) >= c.buckets THEN large
                ELSE large \cup fallbackOf(base, c.nodes, most)
      order == sorted(usable, [b \in usable |-> rank[b[1]]])
      res == [i \in DOMAIN order |-> SubSeq(order[i], 1, Min({most, Len(order[i])}))]
  IN  IF Cardinality(usable) < c.buckets THEN Selection("error", <<>>)
      ELSE IF s.attribute # "" THEN Selection("ok", SubSeq(res, 1, c.buckets))
      ELSE IF c.buckets > 0 THEN Selection("ok", dealtOut(res, c.buckets, most))
      ELSE IF usable = {} THEN Selection("ok", <<>>)
      ELSE Selection("panic", <<>>)

getSelection(p, s, cbf, processed, rank) ==
  LET verdict == [n \in Nodes |-> IF s.filter = mainFilterName THEN "yes"
                                  ELSE match(p, processed[s.filter], n, processed)]
      chosen == {n \in Nodes : verdict[n] = "yes"}
  IN  IF \E n \in Nodes : verdict[n] = "endless" THEN Selection("endless", <<>>)
      ELSE selectionOf(s, cbf, getSelectionBase(s, chosen), rank)

\* The first selector that fails ends the loop; of two with one name the later
\* one stays.
processSelectors(p, cbf, processed, rank) ==
  LET selection(i) ==
        LET s == p.selectors[i]
        IN  IF s.filter # mainFilterName /\ s.filter \notin DOMAIN processed
            THEN Selection("error", <<>>) ELSE getSelection(p, s, cbf, processed, rank)
      results == [i \in DOMAIN p.selectors |-> selection(i)]
      failed == {i \in DOMAIN p.selectors : results[i].kind # "ok"}
      names == {p.selectors[i].name : i \in DOMAIN p.selectors}
  IN  [kind |-> IF failed = {} THEN "ok" ELSE results[Min(failed)].kind,
       selections |-> [name \in names |->
         results[Max({i \in DOMAIN p.selectors : p.selectors[i].name = name})].buckets]]

-----------------------------------------------------------------------------
(* ContainerNodes. *)

flattenNodes(buckets) ==
  LET upTo[k \in 0..Len(buckets)] == IF k = 0 THEN <<>> ELSE upTo[k - 1] \o buckets[k]
  IN  upTo[Len(buckets)]

Result(kind, lines) == [kind |-> kind, lines |-> lines]

\* What a replica without a selector chooses when the policy has none.
defaultSelector(r) ==
  [name |-> "", count |-> r.count, clause |-> "", attribute |-> "", filter |-> mainFilterName]

\* What the i-th replica adds to the k-th line.  One that names no selector when
\* there are some adds the result of each selector to the line with the number of
\* the SELECTOR.
addedTo(p, i, k, own, selections) ==
  LET r == p.replicas[i]
  IN  IF r.selector # "" THEN IF k = i THEN selections[r.selector] ELSE <<>>
      ELSE IF p.selectors = <<>> THEN IF k = i THEN own[i].buckets ELSE <<>>
      ELSE IF k \in DOMAIN p.selectors THEN selections[p.selectors[k].name] ELSE <<>>

setCBF(f) == IF f = 0 THEN 3 ELSE f

Placed(p, rank) ==
  LET cbf == setCBF(p.backupFactor)
      fs == processFilters(p)
      ss == processSelectors(p, cbf, fs.processed, rank)
      own == [i \in DOMAIN p.replicas |-> getSelection(p, defaultSelector(p.replicas[i]), cbf, <<>>, rank)]
      kind(i) == IF p.replicas[i].selector # ""
                 THEN IF p.replicas[i].selector \in DOMAIN ss.selections THEN "ok" ELSE "error"
                 ELSE IF p.selectors = <<>> THEN own[i].kind
                 ELSE IF Len(p.selectors) > Len(p.replicas) THEN "panic" ELSE "ok"
      failed == {i \in DOMAIN p.replicas : kind(i) # "ok"}
      line(k) == [i \in DOMAIN p.replicas |-> flattenNodes(addedTo(p, i, k, own, ss.selections))]
  IN  IF fs.err THEN Result("error", <<>>)
      ELSE IF ss.kind # "ok" THEN Result(ss.kind, <<>>)
      ELSE IF failed # {} THEN Result(kind(Min(failed)), <<>>)
      ELSE Result("ok", [k \in DOMAIN p.replicas |-> flattenNodes(line(k))])

-----------------------------------------------------------------------------
(* The calls. *)

leaf(name, key, op, value) ==
  [name |-> name, key |-> key, op |-> op, value |-> value, inner |-> <<>>]
compound(name, op, inner) ==
  [name |-> name, key |-> "", op |-> op, value |-> "", inner |-> inner]
reference(name) == leaf(name, "", "", "")

selector(name, count, clause, attribute, filter) ==
  [name |-> name, count |-> count, clause |-> clause, attribute |-> attribute, filter |-> filter]

replica(selectorName, count) == [selector |-> selectorName, count |-> count]

NoOutcome == Result("none", <<>>)
EmptyPolicy == [backupFactor |-> 0, filters |-> <<>>, selectors |-> <<>>, replicas |-> <<>>]

PlacementInit ==
  /\ netMap \in NetMaps
  /\ policy = EmptyPolicy
  /\ outcome = NoOutcome

PlacementRest ==
  netMap = <<>> /\ policy = EmptyPolicy /\ outcome = NoOutcome

\* One of the parts is left for a replica.
policySize(p) == Len(p.filters) + Len(p.selectors) + Max({1, Len(p.replicas)})

Build(p) ==
  /\ outcome = NoOutcome
  /\ policySize(p) <= MaxPolicy
  /\ Len(p.filters) <= MaxOfKind /\ Len(p.selectors) <= MaxOfKind /\ Len(p.replicas) <= MaxOfKind
  /\ policy' = p
  /\ UNCHANGED <<netMap, outcome>>

AddFilters(f) == Build([policy EXCEPT !.filters = Append(@, f)])
AddSelectors(s) == Build([policy EXCEPT !.selectors = Append(@, s)])
AddReplicas(r) == Build([policy EXCEPT !.replicas = Append(@, r)])
SetContainerBackupFactor(n) == Build([policy EXCEPT !.backupFactor = n])

ContainerNodes(rank) ==
  /\ outcome = NoOutcome
  /\ outcome' = Placed(policy, rank)
  /\ UNCHANGED <<netMap, policy>>

\* HRW may put the buckets into any order.
Orders == {rank \in [Nodes -> Nodes] : IsInjective(rank)}

PlacementNext ==
  \/ \E f \in PolicyFilters : AddFilters(f)
  \/ \E s \in PolicySelectors : AddSelectors(s)
  \/ \E r \in PolicyReplicas : AddReplicas(r)
  \/ \E n \in BackupFactors : SetContainerBackupFactor(n)
  \/ \E rank \in Orders : ContainerNodes(rank)

PlacementSpec == PlacementInit /\ [][PlacementNext]_placementVars

-----------------------------------------------------------------------------
(* Properties. *)

\* Policies that say what they mean: names are given once, counts are positive,
\* and either every replica names its selector or there are no selectors.
Once(list) == \A i, j \in DOMAIN list : list[i].name = list[j].name => i = j
Plain ==
  /\ Once(policy.filters) /\ Once(policy.selectors)
  /\ \A i \in DOMAIN policy.selectors : policy.selectors[i].count > 0
  /\ \A i \in DOMAIN policy.replicas : policy.replicas[i].count > 0
  /\ \/ policy.selectors = <<>>
     \/ \A i \in DOMAIN policy.replicas : policy.replicas[i].selector # ""

\* What the filters mean, independently of how they are processed: which of them a
\* node meets, from those without inner filters up.
Says(n, f, met) ==
  LET meets(g) == IF g.name = "" THEN g \in met
                  ELSE \E h \in met \cap Range(policy.filters) : h.name = g.name
  IN  IF f.op = "AND" THEN \A i \in DOMAIN f.inner : meets(f.inner[i])
      ELSE IF f.op = "OR" THEN \E i \in DOMAIN f.inner : meets(f.inner[i])
      ELSE matchKeyValue(f, n)
Met(n) ==
  LET upTo[d \in 0..MaxDepth(policy)] ==
        IF d = 0 THEN {} ELSE LET below == upTo[d - 1] IN {f \in Filters : Says(n, f, below)}
  IN  upTo[MaxDepth(policy)]
Eligible(s) ==
  {n \in Nodes : \/ s.filter = mainFilterName
                 \/ \E f \in Met(n) \cap Range(policy.filters) : f.name = s.filter}

SelectorOf(r) ==
  IF r.selector = "" THEN defaultSelector(r)
  ELSE CHOOSE s \in Range(policy.selectors) : s.name = r.selector

\* Whether the network map can give a selector what it asks for at all.
Groups(s) ==
  IF s.attribute = "" THEN {{n} : n \in Eligible(s)}
  ELSE {{n \in Eligible(s) : Attribute(n, s.attribute) = Attribute(m, s.attribute)} : m \in Eligible(s)}
Enough(s) ==
  IF s.clause = "SAME" THEN \E g \in Groups(s) : Cardinality(g) >= s.count
  ELSE Cardinality(Groups(s)) >= s.count

\* The container nodes of a replica are nodes its selector's filter accepts, none
\* of them twice, as many and as alike or as different in the attribute as the
\* selector says, and no more than the backup factor allows.
LinesFulfilPolicy ==
  outcome.kind = "ok" /\ Plain =>
    \A i \in DOMAIN policy.replicas :
      LET s == SelectorOf(policy.replicas[i])
          line == outcome.lines[i]
          groups == {g \in Groups(s) : g \cap Range(line) # {}}
      IN  /\ IsInjective(line)
          /\ Range(line) \subseteq Eligible(s)
          /\ s.count <= Len(line) /\ Len(line) <= s.count * setCBF(policy.backupFactor)
          /\ s.clause = "SAME" /\ s.attribute # "" => Cardinality(groups) = 1
          /\ s.clause # "SAME" /\ s.attribute # "" => Cardinality(groups) = s.count

\* What the setters of Filter ask for: a top-level filter has a name, no filter has
\* the name of the whole network map, a filter within others is of its own or refers
\* to a filter before it, and only AND and OR have filters within them.
WellFormed(k) ==
  LET f == policy.filters[k]
      Simple(g) == /\ g.inner = <<>>
                   /\ \/ g.op \in {"EQ", "NE"}
                      \/ g.op \in Numeric /\ g.value \in Unsigned
      Refers(g) == /\ g.name \notin {"", mainFilterName}
                   /\ \E j \in 1..(k - 1) : policy.filters[j].name = g.name
  IN  /\ f.name \notin {"", mainFilterName}
      /\ f.op \in Logical \/ Simple(f)
      /\ \E V \in SUBSET InnerFilters :
           /\ \A g \in V \cup {f} : Range(g.inner) \subseteq V
           /\ \A g \in V : \/ g.name = "" /\ (g.op \in Logical \/ Simple(g))
                           \/ Refers(g) /\ (g.op \in Logical \/ g.inner = <<>>)

Unresolved ==
  \/ \E s \in Range(policy.selectors) :
       s.filter # mainFilterName /\ \A f \in Range(policy.filters) : f.name # s.filter
  \/ \E r \in Range(policy.replicas) :
       r.selector # "" /\ \A s \in Range(policy.selectors) : s.name # r.selector

ShortOfNodes ==
  \/ \E s \in Range(policy.selectors) : ~Enough(s)
  \/ \E r \in Range(policy.replicas) : r.selector = "" /\ ~Enough(SelectorOf(r))

\* A policy of well-formed filters that compare with unsigned numbers, whose names
\* resolve, is refused only when the network map cannot give some selector what it
\* asks for; and no policy ends in a panic or not at all.
RefusedOnlyIfShort ==
  Plain =>
    /\ outcome.kind \notin {"panic", "endless"}
    /\ outcome.kind = "error" =>
         \/ \E k \in DOMAIN policy.filters : ~WellFormed(k)
         \/ Unresolved
         \/ ShortOfNodes

\* "Each line of the list corresponds to a replica descriptor": with selectors
\* that choose nodes, no line is empty, and there is no panic.
LinePerReplica ==
  Once(policy.selectors) /\ (\A s \in Range(policy.selectors) : s.count > 0) =>
    /\ outcome.kind # "panic"
    /\ outcome.kind = "ok" => \A i \in DOMAIN outcome.lines : outcome.lines[i] # <<>>
=============================================================================
