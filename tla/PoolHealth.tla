----------------------------- MODULE PoolHealth -----------------------------
(***************************************************************************)
(* Health tracking and balancing of the connection pool (pool/pool.go).    *)
(*                                                                         *)
(* A Pool keeps one clientWrapper per node.  Nodes of equal priority form  *)
(* an inner pool with a weighted sampler.  Three kinds of goroutines share *)
(* this state:                                                             *)
(*   - callers, which take a connection, issue one RPC and report its      *)
(*     error to the client's clientStatusMonitor;                          *)
(*   - startRebalance, which on every tick starts one goroutine per inner  *)
(*     pool, each of which starts one restartIfUnhealthy per client, waits *)
(*     for them and rebuilds the sampler if some status changed;           *)
(*   - the owner of the Pool, who calls Dial and Close.                    *)
(* One action is one stretch of code between two points where another      *)
(* goroutine can get in: an RPC, an atomic flag or a mutex section.        *)
(***************************************************************************)
EXTENDS Naturals, FiniteSets

CONSTANTS
  Clients,         \* the clientWrappers of the pool, one per node
  NGroups,         \* number of inner pools (distinct priorities)
  Group,           \* Group[c]: inner pool of c; 1 is tried first
  Weighted,        \* clients whose configured weight is positive
  ErrorThreshold,  \* InitParameters.errorThreshold
  Callers,         \* goroutines that issue requests through the pool
  Wrapped,         \* callers using the deprecated API (clientWrapper methods)
  MaxConns         \* cap of the connection counters

Groups == 1..NGroups

Members(g) == {c \in Clients : Group[c] = g}

ASSUME ClientsAssumption ==
  /\ IsFiniteSet(Clients) /\ Clients # {}
  /\ NGroups \in Nat \ {0}
  /\ Group \in [Clients -> Groups]
  /\ \A g \in Groups : Members(g) # {}
  /\ Weighted \subseteq Clients

ASSUME LimitsAssumption ==
  /\ ErrorThreshold \in Nat \ {0}
  /\ MaxConns \in Nat \ {0}
  /\ Wrapped \subseteq Callers

VARIABLES
  node,               \* how the node of a client answers now (environment)
  healthy,            \* clientStatusMonitor.healthy
  currentErrorCount,  \* clientStatusMonitor.currentErrorCount
  conns,              \* open gRPC connections per client, capped at MaxConns
  sampled,            \* clients the samplers can draw
  rebalance,          \* Pool life cycle and position of startRebalance
  undialed,           \* clients Dial has not reached yet
  cancelled,          \* the context of startRebalance is done
  group,              \* position of the goroutine of each inner pool
  healthyChanged,     \* the healthyChanged flag of each inner pool's round
  live,               \* clients with a positive weight in bufferWeights
  phase,              \* position of restartIfUnhealthy per client
  wasHealthy,         \* its local variable
  pc,                 \* position of each caller
  inner,              \* inner pool a caller is looking into
  cli                 \* client a caller was given

monitorVars == <<healthy, currentErrorCount>>
roundVars   == <<group, healthyChanged, live, phase, wasHealthy>>
callerVars  == <<pc, inner, cli>>
ownerVars   == <<rebalance, undialed, cancelled>>

vars == <<node, monitorVars, conns, sampled, ownerVars, roundVars, callerVars>>

-----------------------------------------------------------------------------
(* Outcomes of an RPC, told apart the way updateErrorRate does: no error,  *)
(* an error that is counted (transport errors, an ended context, the four  *)
(* statuses named there), an error that is not counted (other statuses).   *)

NodeStates == {"up", "failing", "refusing"}

Outcome == [up |-> "ok", failing |-> "counted", refusing |-> "uncounted"]

\* An RPC under a context that has ended fails with a counted error,
\* unless the answer was there first.
Outcomes(c, ended) == {Outcome[node[c]]} \cup (IF ended THEN {"counted"} ELSE {})

-----------------------------------------------------------------------------
(* clientStatusMonitor *)

\* Mutant of Trips: off by one.
TripsLate(c) == currentErrorCount[c] + 1 > ErrorThreshold

Trips(c) == currentErrorCount[c] + 1 >= ErrorThreshold

\* Value of currentErrorCount after updateErrorRate(err).
CountAfter(c, err) ==
  IF err # "counted" THEN currentErrorCount
  ELSE [currentErrorCount EXCEPT ![c] = IF Trips(c) THEN 0 ELSE @ + 1]

updateErrorRate(c, err) ==
  /\ currentErrorCount' = CountAfter(c, err)
  /\ healthy' = IF err = "counted" /\ Trips(c)
                THEN [healthy EXCEPT ![c] = FALSE] ELSE healthy

\* An RPC error is reported to the monitor, then the client is marked anyway.
failAndSetUnhealthy(c, err) ==
  /\ currentErrorCount' = CountAfter(c, err)
  /\ healthy' = [healthy EXCEPT ![c] = FALSE]

setHealthy(c) ==
  /\ healthy' = [healthy EXCEPT ![c] = TRUE]
  /\ UNCHANGED currentErrorCount

connected(c) ==
  conns' = [conns EXCEPT ![c] = IF @ < MaxConns THEN @ + 1 ELSE @]

\* What a sampler over the weights of the clients in s can draw: the ones
\* with a positive weight, and everyone when the weights are all zero.
Support(g, s) ==
  LET positive == Members(g) \cap Weighted \cap s
  IN  IF positive = {} THEN Members(g) ELSE positive

-----------------------------------------------------------------------------
(* Dial *)

Init ==
  /\ node \in [Clients -> NodeStates]
  /\ healthy = [c \in Clients |-> TRUE]
  /\ currentErrorCount = [c \in Clients |-> 0]
  /\ conns = [c \in Clients |-> 0]
  /\ sampled = UNION {Support(g, Clients) : g \in Groups}
  /\ rebalance = "dialing"
  /\ undialed = Clients
  /\ cancelled = FALSE
  /\ group = [g \in Groups |-> "idle"]
  /\ healthyChanged = [g \in Groups |-> FALSE]
  /\ live = {}
  /\ phase = [c \in Clients |-> "idle"]
  /\ wasHealthy = [c \in Clients |-> FALSE]
  /\ pc = [k \in Callers |-> "idle"]
  /\ inner = [k \in Callers |-> 1]
  /\ cli \in [Callers -> Clients]

\* clientWrapper.dial and the default session for one client succeed.
DialOk(c) ==
  /\ rebalance = "dialing" /\ c \in undialed
  /\ Outcome[node[c]] = "ok"
  /\ undialed' = undialed \ {c}
  /\ connected(c)
  /\ UNCHANGED <<node, monitorVars, sampled, rebalance, cancelled, roundVars, callerVars>>

\* Client.Dial fails: its EndpointInfo reports to the monitor once.
DialFails(c) ==
  /\ rebalance = "dialing" /\ c \in undialed
  /\ Outcome[node[c]] # "ok"
  /\ undialed' = undialed \ {c}
  /\ failAndSetUnhealthy(c, Outcome[node[c]])
  /\ UNCHANGED <<node, conns, sampled, rebalance, cancelled, roundVars, callerVars>>

\* The node is dialed but initSessionForDuration fails with an error that is
\* not counted (a status, an invalid token ID or key) or with a counted one,
\* which the client and its wrapper report once each.
DialNoSession(c) ==
  /\ rebalance = "dialing" /\ c \in undialed
  /\ node[c] = "up"
  /\ undialed' = undialed \ {c}
  /\ connected(c)
  /\ healthy' = [healthy EXCEPT ![c] = FALSE]
  /\ \/ UNCHANGED currentErrorCount
     \/ currentErrorCount' =
          [currentErrorCount EXCEPT ![c] = IF ErrorThreshold <= 2 THEN 0 ELSE 2]
  /\ UNCHANGED <<node, sampled, rebalance, cancelled, roundVars, callerVars>>

\* Dial returns, with the rebalance routine started or with an error.
DialReturns ==
  /\ rebalance = "dialing" /\ undialed = {}
  /\ rebalance' = IF \E c \in Clients : healthy[c] THEN "waiting" ELSE "failed"
  /\ UNCHANGED <<node, monitorVars, conns, sampled, undialed, cancelled, roundVars, callerVars>>

-----------------------------------------------------------------------------
(* startRebalance and updateNodesHealth *)

\* The timer fires: a goroutine per inner pool and per client.  The select
\* may prefer the timer to a context that is done.
Tick ==
  /\ rebalance = "waiting"
  /\ rebalance' = "checking"
  /\ group' = [g \in Groups |-> "checking"]
  /\ phase' = [c \in Clients |-> "start"]
  /\ UNCHANGED <<node, monitorVars, conns, sampled, undialed, cancelled, healthyChanged, live, wasHealthy, callerVars>>

\* restartIfUnhealthy returned (alive, changed) for c, which ends the life of
\* its local variable; the goroutine stores the weight and the flag.
Checked(c, alive, changed) ==
  /\ phase' = [phase EXCEPT ![c] = "done"]
  /\ wasHealthy' = [wasHealthy EXCEPT ![c] = FALSE]
  /\ live' = IF alive THEN live \cup {c} ELSE live \ {c}
  /\ healthyChanged' = [healthyChanged EXCEPT ![Group[c]] = @ \/ changed]

\* endpointInfo calls getClient, which refuses a client marked unhealthy.
CheckStart(c) ==
  /\ phase[c] = "start"
  /\ phase' = [phase EXCEPT ![c] = IF healthy[c] THEN "probe" ELSE "redial"]
  /\ UNCHANGED <<node, monitorVars, conns, sampled, ownerVars, group, healthyChanged, live, wasHealthy, callerVars>>

ProbeOk(c) ==
  /\ phase[c] = "probe"
  /\ "ok" \in Outcomes(c, cancelled)
  /\ Checked(c, TRUE, FALSE)
  /\ UNCHANGED <<node, monitorVars, conns, sampled, ownerVars, group, callerVars>>

\* The client's statistic callback reports the error ...
ProbeFails(c) ==
  /\ phase[c] = "probe"
  /\ \E err \in Outcomes(c, cancelled) \ {"ok"} :
       /\ updateErrorRate(c, err)
       /\ phase' = [phase EXCEPT ![c] = IF err = "counted" THEN "report" ELSE "redial"]
  /\ wasHealthy' = [wasHealthy EXCEPT ![c] = TRUE]
  /\ UNCHANGED <<node, conns, sampled, ownerVars, group, healthyChanged, live, callerVars>>

\* ... and endpointInfo reports it again.
ProbeReports(c) ==
  /\ phase[c] = "report"
  /\ updateErrorRate(c, "counted")
  /\ phase' = [phase EXCEPT ![c] = "redial"]
  /\ UNCHANGED <<node, conns, sampled, ownerVars, group, healthyChanged, live, wasHealthy, callerVars>>

\* Mutant of RedialOk: a dial that did not fail is taken for a live node.
RedialUnconfirmed(c) ==
  /\ phase[c] = "redial"
  /\ setHealthy(c)
  /\ Checked(c, TRUE, ~wasHealthy[c])
  /\ connected(c)
  /\ UNCHANGED <<node, sampled, ownerVars, group, callerVars>>

\* A new client is dialed and replaces the old one, which stays open.
RedialOk(c) ==
  /\ phase[c] = "redial"
  /\ "ok" \in Outcomes(c, cancelled)
  /\ phase' = [phase EXCEPT ![c] = "confirm"]
  /\ connected(c)
  /\ UNCHANGED <<node, monitorVars, sampled, ownerVars, group, healthyChanged, live, wasHealthy, callerVars>>

\* Dial of the new client fails, or the EndpointInfo that follows it.
RestartFails(c) ==
  /\ phase[c] \in {"redial", "confirm"}
  /\ \E err \in Outcomes(c, cancelled) \ {"ok"} : failAndSetUnhealthy(c, err)
  /\ Checked(c, FALSE, wasHealthy[c])
  /\ UNCHANGED <<node, conns, sampled, ownerVars, group, callerVars>>

\* Mutants of RestartOk: the change is not reported; the flag is not raised.
RestartSilent(c) ==
  /\ phase[c] = "confirm"
  /\ "ok" \in Outcomes(c, cancelled)
  /\ setHealthy(c)
  /\ Checked(c, TRUE, FALSE)
  /\ UNCHANGED <<node, conns, sampled, ownerVars, group, callerVars>>

RestartUnmarked(c) ==
  /\ phase[c] = "confirm"
  /\ "ok" \in Outcomes(c, cancelled)
  /\ Checked(c, TRUE, ~wasHealthy[c])
  /\ UNCHANGED <<node, monitorVars, conns, sampled, ownerVars, group, callerVars>>

RestartOk(c) ==
  /\ phase[c] = "confirm"
  /\ "ok" \in Outcomes(c, cancelled)
  /\ setHealthy(c)
  /\ Checked(c, TRUE, ~wasHealthy[c])
  /\ UNCHANGED <<node, conns, sampled, ownerVars, group, callerVars>>

\* Mutant of GroupReturns: the goroutine gives up when the context is done.
GroupReturnsUncancelled(g) ==
  /\ group[g] = "checking" /\ ~cancelled
  /\ \A c \in Members(g) : phase[c] = "done"
  /\ group' = [group EXCEPT ![g] = "finished"]
  /\ phase' = [c \in Clients |-> IF c \in Members(g) THEN "idle" ELSE phase[c]]
  /\ sampled' = IF healthyChanged[g]
                THEN (sampled \ Members(g)) \cup Support(g, live) ELSE sampled
  /\ healthyChanged' = [healthyChanged EXCEPT ![g] = FALSE]
  /\ live' = live \ Members(g)
  /\ UNCHANGED <<node, monitorVars, conns, ownerVars, wasHealthy, callerVars>>

\* updateInnerNodesHealth after its wg.Wait.  healthyChanged is its local
\* variable, and every round rewrites bufferWeights before it reads them.
GroupReturns(g) ==
  /\ group[g] = "checking"
  /\ \A c \in Members(g) : phase[c] = "done"
  /\ group' = [group EXCEPT ![g] = "finished"]
  /\ phase' = [c \in Clients |-> IF c \in Members(g) THEN "idle" ELSE phase[c]]
  /\ sampled' = IF healthyChanged[g]
                THEN (sampled \ Members(g)) \cup Support(g, live) ELSE sampled
  /\ healthyChanged' = [healthyChanged EXCEPT ![g] = FALSE]
  /\ live' = live \ Members(g)
  /\ UNCHANGED <<node, monitorVars, conns, ownerVars, wasHealthy, callerVars>>

\* updateNodesHealth after its wg.Wait; the timer is reset.
RoundReturns ==
  /\ rebalance = "checking"
  /\ \A g \in Groups : group[g] = "finished"
  /\ rebalance' = "waiting"
  /\ group' = [g \in Groups |-> "idle"]
  /\ UNCHANGED <<node, monitorVars, conns, sampled, undialed, cancelled, healthyChanged, live, phase, wasHealthy, callerVars>>

-----------------------------------------------------------------------------
(* Close: cancel, then wait for closedCh *)

CloseCancels ==
  /\ rebalance \in {"waiting", "checking"} /\ ~cancelled
  /\ cancelled' = TRUE
  /\ UNCHANGED <<node, monitorVars, conns, sampled, rebalance, undialed, roundVars, callerVars>>

\* Mutant of CloseReturns: Close does not wait for the round in progress.
CloseUnwaited ==
  /\ rebalance \in {"waiting", "checking"} /\ cancelled
  /\ rebalance' = "stopped"
  /\ UNCHANGED <<node, monitorVars, conns, sampled, undialed, cancelled, roundVars, callerVars>>

CloseReturns ==
  /\ rebalance = "waiting" /\ cancelled
  /\ rebalance' = "stopped"
  /\ UNCHANGED <<node, monitorVars, conns, sampled, undialed, cancelled, roundVars, callerVars>>

-----------------------------------------------------------------------------
(* Callers *)

\* Mutant of Request: the search goes on where the last one ended.
RequestSticky(k) ==
  /\ rebalance \in {"waiting", "checking", "stopped"}
  /\ pc[k] = "idle"
  /\ pc' = [pc EXCEPT ![k] = "connection"]
  /\ UNCHANGED <<node, monitorVars, conns, sampled, ownerVars, roundVars, inner, cli>>

Request(k) ==
  /\ rebalance \in {"waiting", "checking", "stopped"}
  /\ pc[k] = "idle"
  /\ pc' = [pc EXCEPT ![k] = "connection"]
  /\ inner' = [inner EXCEPT ![k] = 1]
  /\ UNCHANGED <<node, monitorVars, conns, sampled, ownerVars, roundVars, cli>>

\* innerPool.connection draws a healthy client ...
ConnectionFound(k) ==
  /\ pc[k] = "connection"
  /\ \E c \in Members(inner[k]) :
       /\ c \in sampled \/ Members(inner[k]) = {c}
       /\ healthy[c]
       /\ cli' = [cli EXCEPT ![k] = c]
  /\ pc' = [pc EXCEPT ![k] = "getClient"]
  /\ UNCHANGED <<node, monitorVars, conns, sampled, ownerVars, roundVars, inner>>

\* ... or all its draws are unhealthy: the next inner pool, if any, is tried.
ConnectionMissed(k) ==
  /\ pc[k] = "connection"
  /\ \E c \in Members(inner[k]) :
       /\ c \in sampled \/ Members(inner[k]) = {c}
       /\ ~healthy[c]
  /\ IF inner[k] < NGroups
     THEN inner' = [inner EXCEPT ![k] = @ + 1] /\ UNCHANGED pc
     ELSE pc' = [pc EXCEPT ![k] = "idle"] /\ UNCHANGED inner
  /\ UNCHANGED <<node, monitorVars, conns, sampled, ownerVars, roundVars, cli>>

\* getClient looks at the flag again; it may have fallen since.
GetClient(k) ==
  /\ pc[k] = "getClient"
  /\ pc' = [pc EXCEPT ![k] = IF healthy[cli[k]] THEN "rpc" ELSE "idle"]
  /\ UNCHANGED <<node, monitorVars, conns, sampled, ownerVars, roundVars, inner, cli>>

\* The RPC ends without error or with one that is not counted.
RequestOk(k) ==
  /\ pc[k] = "rpc"
  /\ Outcome[node[cli[k]]] # "counted"
  /\ pc' = [pc EXCEPT ![k] = "idle"]
  /\ UNCHANGED <<node, monitorVars, conns, sampled, ownerVars, roundVars, inner, cli>>

\* The RPC fails, or the caller's own context ends: the client's statistic
\* callback reports the error ...
RequestFails(k) ==
  /\ pc[k] = "rpc"
  /\ updateErrorRate(cli[k], "counted")
  /\ pc' = [pc EXCEPT ![k] = IF k \in Wrapped THEN "report" ELSE "idle"]
  /\ UNCHANGED <<node, conns, sampled, ownerVars, roundVars, inner, cli>>

\* ... and a clientWrapper method reports it again.
WrapperReports(k) ==
  /\ pc[k] = "report"
  /\ updateErrorRate(cli[k], "counted")
  /\ pc' = [pc EXCEPT ![k] = "idle"]
  /\ UNCHANGED <<node, conns, sampled, ownerVars, roundVars, inner, cli>>

-----------------------------------------------------------------------------
(* A node changes the way it answers. *)
NodeChanges(c) ==
  /\ \E s \in NodeStates \ {node[c]} : node' = [node EXCEPT ![c] = s]
  /\ UNCHANGED <<monitorVars, conns, sampled, ownerVars, roundVars, callerVars>>

OwnerNext ==
  \/ DialReturns \/ CloseCancels \/ CloseReturns
  \/ \E c \in Clients : DialOk(c) \/ DialFails(c) \/ DialNoSession(c)

CheckNext(c) ==
  \/ CheckStart(c) \/ ProbeOk(c) \/ ProbeFails(c) \/ ProbeReports(c)
  \/ RedialOk(c) \/ RestartFails(c) \/ RestartOk(c)

RequestNext(k) ==
  \/ ConnectionFound(k) \/ ConnectionMissed(k) \/ GetClient(k)
  \/ RequestOk(k) \/ RequestFails(k) \/ WrapperReports(k)

Next ==
  \/ OwnerNext
  \/ Tick \/ RoundReturns
  \/ \E g \in Groups : GroupReturns(g)
  \/ \E c \in Clients : CheckNext(c) \/ NodeChanges(c)
  \/ \E k \in Callers : Request(k) \/ RequestNext(k)

Spec == Init /\ [][Next]_vars

(* Fairness: the runtime schedules every goroutine, the RPCs of a check end *)
(* (they run under nodeRequestTimeout), the timer fires, and a select with  *)
(* two ready cases does not always prefer the timer (strong fairness of     *)
(* CloseReturns).  A request, once issued, ends (stream timeout).  Nobody   *)
(* has to issue requests or to call Close, and nodes owe nothing.           *)
Fairness ==
  /\ WF_vars(DialReturns)
  /\ WF_vars(\E c \in Clients : DialOk(c) \/ DialFails(c) \/ DialNoSession(c))
  /\ WF_vars(Tick) /\ WF_vars(RoundReturns)
  /\ SF_vars(CloseReturns)
  /\ \A g \in Groups : WF_vars(GroupReturns(g))
  /\ \A c \in Clients : WF_vars(CheckNext(c))
  /\ \A k \in Callers : WF_vars(RequestNext(k))

FairSpec == Spec /\ Fairness

-----------------------------------------------------------------------------
(* Properties *)

\* Values of the variables.  The error counter stays below the threshold: it
\* starts over as soon as the threshold is reached.
TypeOK ==
  /\ node \in [Clients -> NodeStates]
  /\ healthy \in [Clients -> BOOLEAN]
  /\ currentErrorCount \in [Clients -> 0..(ErrorThreshold - 1)]
  /\ conns \in [Clients -> 0..MaxConns]
  /\ sampled \in SUBSET Clients
  /\ rebalance \in {"dialing", "failed", "waiting", "checking", "stopped"}
  /\ undialed \in SUBSET Clients
  /\ cancelled \in BOOLEAN
  /\ group \in [Groups -> {"idle", "checking", "finished"}]
  /\ healthyChanged \in [Groups -> BOOLEAN]
  /\ live \in SUBSET Clients
  /\ phase \in [Clients -> {"idle", "start", "probe", "report", "redial", "confirm", "done"}]
  /\ wasHealthy \in [Clients -> BOOLEAN]
  /\ pc \in [Callers -> {"idle", "connection", "getClient", "rpc", "report"}]
  /\ inner \in [Callers -> Groups]
  /\ cli \in [Callers -> Clients]

\* The sampler of g is about to be rebuilt with c in it.
Reinstating(c) ==
  /\ group[Group[c]] = "checking"
  /\ phase[c] = "done"
  /\ c \in live
  /\ healthyChanged[Group[c]]

\* No healthy node is starved: a client whose flag says healthy can be drawn
\* by its inner pool, or a rebuild that puts it back is already certain.
\* updateInnerNodesHealth only rebuilds the sampler when some check reported
\* a change, so a revival that is not reported would lose the node for good.
HealthyIsSampled ==
  \A c \in Weighted : healthy[c] => c \in sampled \/ Reinstating(c)

(* What HealthyIsSampled needs to be inductive. *)

\* Check goroutines exist only inside their group's part of a round.
RoundShape ==
  /\ rebalance # "checking" => \A g \in Groups : group[g] = "idle"
  /\ \A c \in Clients : phase[c] # "idle" => group[Group[c]] = "checking"

\* A client that was healthy when its check began is in the sampler, so its
\* revival by the same check is rightly not reported as a change.
CheckedFromSampled ==
  \A c \in Clients :
    /\ wasHealthy[c] => phase[c] \in {"report", "redial", "confirm"}
    /\ c \in Weighted /\ (wasHealthy[c] \/ phase[c] = "probe") => c \in sampled

\* A check that ended in failure leaves the flag down until the next round.
DeadStaysDown ==
  \A c \in Clients : phase[c] = "done" /\ c \notin live => ~healthy[c]

SamplerInv ==
  /\ TypeOK
  /\ HealthyIsSampled
  /\ RoundShape
  /\ CheckedFromSampled
  /\ DeadStaysDown

\* Close returns only after every goroutine of the health check has ended:
\* from then on no client is revived and no connection is opened.
NothingRunsAfterClose ==
  [][rebalance = "stopped" =>
       \A c \in Clients : /\ healthy'[c] => healthy[c]
                          /\ conns'[c] = conns[c]
                          /\ phase'[c] = "idle"]_vars

\* Close never hangs: once the context is cancelled the rebalance routine
\* ends, whatever the nodes do.
CloseEnds == cancelled ~> rebalance = "stopped"

Open == rebalance \in {"waiting", "checking"} /\ ~cancelled

\* A node that comes back is used again: while the pool is open, a client
\* whose node answers from some time on is again and again both healthy and
\* in the sampler (callers that cancel their own requests may still make it
\* unhealthy for a round).
NodeServes ==
  \A c \in Weighted :
    <>[](Open /\ node[c] = "up") => []<>(healthy[c] /\ c \in sampled)

\* A node that is gone is shunned: while the pool is open, a client whose
\* node fails from some time on ends up unhealthy and stays so.
DeadNodeShunned ==
  \A c \in Clients : <>[](Open /\ node[c] = "failing") => <>[](~healthy[c])

\* Traffic falls back: once the only node of the first priority is healthy for
\* good, requests end up on that node only, the ones that were given another
\* node before have run out.
FailBack ==
  \A k \in Callers, c \in Clients :
    Members(1) = {c} =>
      (<>[](healthy[c]) => <>[](pc[k] \in {"getClient", "rpc", "report"} => cli[k] = c))
=============================================================================
