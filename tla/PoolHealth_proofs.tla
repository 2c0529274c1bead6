------------------------- MODULE PoolHealth_proofs -------------------------
(***************************************************************************)
(* Proofs about PoolHealth, for every set of clients, partition into       *)
(* priorities, error threshold and set of callers.                         *)
(***************************************************************************)
EXTENDS PoolHealth, TLAPS

-----------------------------------------------------------------------------
(* Type correctness *)

LEMMA SupportType ==
  ASSUME NEW g, NEW s
  PROVE  Support(g, s) \in SUBSET Clients
  BY DEF Support, Members

LEMMA TypeInit == Init => TypeOK
<1> SUFFICES ASSUME Init PROVE TypeOK
  OBVIOUS
<1>1. sampled \in SUBSET Clients
  BY SupportType DEF Init
<1>2. /\ 0 \in 0..(ErrorThreshold - 1)
      /\ 0 \in 0..MaxConns
  BY LimitsAssumption
<1>3. 1 \in Groups
  BY ClientsAssumption DEF Groups
<1> QED
  BY <1>1, <1>2, <1>3 DEF Init, TypeOK

LEMMA CountAfterType ==
  ASSUME TypeOK, NEW c \in Clients, NEW err
  PROVE  CountAfter(c, err) \in [Clients -> 0..(ErrorThreshold - 1)]
  BY LimitsAssumption DEF TypeOK, CountAfter, Trips

LEMMA ConnectedType ==
  ASSUME TypeOK, NEW c \in Clients, connected(c)
  PROVE  conns' \in [Clients -> 0..MaxConns]
  BY LimitsAssumption DEF TypeOK, connected

LEMMA MonitorType ==
  ASSUME TypeOK, NEW c \in Clients, NEW err,
         updateErrorRate(c, err) \/ failAndSetUnhealthy(c, err)
  PROVE  /\ healthy' \in [Clients -> BOOLEAN]
         /\ currentErrorCount' \in [Clients -> 0..(ErrorThreshold - 1)]
<1>1. healthy' \in [Clients -> BOOLEAN]
  BY DEF TypeOK, updateErrorRate, failAndSetUnhealthy
<1>2. currentErrorCount' \in [Clients -> 0..(ErrorThreshold - 1)]
  BY CountAfterType DEF updateErrorRate, failAndSetUnhealthy
<1> QED
  BY <1>1, <1>2

LEMMA CheckedType ==
  ASSUME TypeOK, NEW c \in Clients, NEW alive \in BOOLEAN,
         NEW changed \in BOOLEAN, Checked(c, alive, changed)
  PROVE  /\ phase' \in [Clients -> {"idle", "start", "probe", "report", "redial", "confirm", "done"}]
         /\ wasHealthy' \in [Clients -> BOOLEAN]
         /\ live' \in SUBSET Clients
         /\ healthyChanged' \in [Groups -> BOOLEAN]
  BY ClientsAssumption DEF TypeOK, Checked

LEMMA TypeStep == TypeOK /\ [Next]_vars => TypeOK'
<1> SUFFICES ASSUME TypeOK, [Next]_vars PROVE TypeOK'
  OBVIOUS
<1> USE ClientsAssumption, LimitsAssumption
<1>1. ASSUME NEW c \in Clients, DialOk(c) PROVE TypeOK'
  BY <1>1, ConnectedType DEF DialOk, TypeOK, monitorVars, roundVars, callerVars
<1>2. ASSUME NEW c \in Clients, DialFails(c) PROVE TypeOK'
  BY <1>2, MonitorType DEF DialFails, TypeOK, roundVars, callerVars
<1>3. ASSUME NEW c \in Clients, DialNoSession(c) PROVE TypeOK'
  <2>1. currentErrorCount' \in [Clients -> 0..(ErrorThreshold - 1)]
    BY <1>3 DEF DialNoSession, TypeOK
  <2> QED
    BY <1>3, <2>1, ConnectedType DEF DialNoSession, TypeOK, roundVars, callerVars
<1>4. ASSUME DialReturns PROVE TypeOK'
  BY <1>4 DEF DialReturns, TypeOK, monitorVars, roundVars, callerVars
<1>5. ASSUME Tick PROVE TypeOK'
  BY <1>5 DEF Tick, TypeOK, monitorVars, callerVars
<1>6. ASSUME NEW c \in Clients, CheckStart(c) PROVE TypeOK'
  BY <1>6 DEF CheckStart, TypeOK, monitorVars, ownerVars, callerVars
<1>7. ASSUME NEW c \in Clients, ProbeOk(c) PROVE TypeOK'
  BY <1>7, CheckedType DEF ProbeOk, TypeOK, monitorVars, ownerVars, callerVars
<1>8. ASSUME NEW c \in Clients, ProbeFails(c) PROVE TypeOK'
  BY <1>8, MonitorType DEF ProbeFails, TypeOK, ownerVars, callerVars
<1>9. ASSUME NEW c \in Clients, ProbeReports(c) PROVE TypeOK'
  BY <1>9, MonitorType DEF ProbeReports, TypeOK, ownerVars, callerVars
<1>10. ASSUME NEW c \in Clients, RedialOk(c) PROVE TypeOK'
  BY <1>10, ConnectedType DEF RedialOk, TypeOK, monitorVars, ownerVars, callerVars
<1>11. ASSUME NEW c \in Clients, RestartFails(c) PROVE TypeOK'
  <2>1. wasHealthy[c] \in BOOLEAN
    BY DEF TypeOK
  <2> QED
    BY <1>11, <2>1, MonitorType, CheckedType DEF RestartFails, TypeOK, ownerVars, callerVars
<1>12. ASSUME NEW c \in Clients, RestartOk(c) PROVE TypeOK'
  <2>1. (~wasHealthy[c]) \in BOOLEAN
    OBVIOUS
  <2> QED
    BY <1>12, <2>1, CheckedType DEF RestartOk, setHealthy, TypeOK, ownerVars, callerVars
<1>13. ASSUME NEW g \in Groups, GroupReturns(g) PROVE TypeOK'
  BY <1>13 DEF GroupReturns, TypeOK, Support, Members, monitorVars, ownerVars, callerVars
<1>14. ASSUME RoundReturns PROVE TypeOK'
  BY <1>14 DEF RoundReturns, TypeOK, monitorVars, callerVars
<1>15. ASSUME CloseCancels \/ CloseReturns PROVE TypeOK'
  BY <1>15 DEF CloseCancels, CloseReturns, TypeOK, monitorVars, roundVars, callerVars
<1>16. ASSUME NEW k \in Callers, Request(k) PROVE TypeOK'
  BY <1>16 DEF Request, TypeOK, Groups, monitorVars, ownerVars, roundVars
<1>17. ASSUME NEW k \in Callers, ConnectionFound(k) PROVE TypeOK'
  BY <1>17 DEF ConnectionFound, TypeOK, Members, monitorVars, ownerVars, roundVars
<1>18. ASSUME NEW k \in Callers, ConnectionMissed(k) PROVE TypeOK'
  <2>1. inner' \in [Callers -> Groups]
    <3>1. inner[k] < NGroups => inner[k] + 1 \in Groups
      BY DEF TypeOK, Groups
    <3> QED
      BY <1>18, <3>1 DEF ConnectionMissed, TypeOK
  <2> QED
    BY <1>18, <2>1 DEF ConnectionMissed, TypeOK, monitorVars, ownerVars, roundVars
<1>19. ASSUME NEW k \in Callers, GetClient(k) \/ RequestOk(k) PROVE TypeOK'
  BY <1>19 DEF GetClient, RequestOk, TypeOK, monitorVars, ownerVars, roundVars
<1>20. ASSUME NEW k \in Callers, RequestFails(k) \/ WrapperReports(k) PROVE TypeOK'
  <2>1. cli[k] \in Clients
    BY DEF TypeOK
  <2> QED
    BY <1>20, <2>1, MonitorType DEF RequestFails, WrapperReports, TypeOK, ownerVars, roundVars
<1>21. ASSUME NEW c \in Clients, NodeChanges(c) PROVE TypeOK'
  BY <1>21 DEF NodeChanges, TypeOK, monitorVars, ownerVars, roundVars, callerVars
<1>22. CASE UNCHANGED vars
  BY <1>22 DEF TypeOK, vars, monitorVars, ownerVars, roundVars, callerVars
<1> QED
  BY <1>1, <1>2, <1>3, <1>4, <1>5, <1>6, <1>7, <1>8, <1>9, <1>10, <1>11, <1>12,
     <1>13, <1>14, <1>15, <1>16, <1>17, <1>18, <1>19, <1>20, <1>21, <1>22
     DEF Next, OwnerNext, CheckNext, RequestNext

\* Every variable keeps its type; in particular the error counter of a client
\* never reaches the threshold (incErrorRate starts it over).
THEOREM TypeCorrect == Spec => []TypeOK
  BY TypeInit, TypeStep, PTL DEF Spec

-----------------------------------------------------------------------------
(* No healthy node is starved *)

LEMMA SamplerInit == Init => SamplerInv
<1> SUFFICES ASSUME Init PROVE SamplerInv
  OBVIOUS
<1>1. TypeOK
  BY TypeInit
<1>2. HealthyIsSampled
  <2> SUFFICES ASSUME NEW c \in Weighted PROVE c \in sampled
    BY DEF HealthyIsSampled
  <2>1. Group[c] \in Groups /\ c \in Clients
    BY ClientsAssumption
  <2>2. c \in Support(Group[c], Clients)
    BY <2>1, ClientsAssumption DEF Support, Members
  <2> QED
    BY <2>1, <2>2 DEF Init
<1>3. RoundShape /\ CheckedFromSampled /\ DeadStaysDown
  BY ClientsAssumption DEF Init, RoundShape, CheckedFromSampled, DeadStaysDown
<1> QED
  BY <1>1, <1>2, <1>3 DEF SamplerInv

\* The monitor never raises a flag by itself.
LEMMA MonitorLowers ==
  ASSUME TypeOK, NEW c \in Clients, NEW err,
         updateErrorRate(c, err) \/ failAndSetUnhealthy(c, err),
         NEW d \in Clients
  PROVE  healthy'[d] => healthy[d]
  BY DEF TypeOK, updateErrorRate, failAndSetUnhealthy

\* Steps that touch neither the round nor the samplers and raise no flag.
LEMMA QuietStep ==
  ASSUME SamplerInv, TypeOK',
         UNCHANGED <<sampled, roundVars>>,
         rebalance' # "checking" => rebalance' = rebalance \/ rebalance # "checking",
         \A d \in Clients : healthy'[d] => healthy[d]
  PROVE  SamplerInv'
  BY ClientsAssumption
     DEF SamplerInv, HealthyIsSampled, Reinstating, RoundShape,
         CheckedFromSampled, DeadStaysDown, roundVars

LEMMA SamplerStep == SamplerInv /\ [Next]_vars => SamplerInv'
<1> SUFFICES ASSUME SamplerInv, [Next]_vars PROVE SamplerInv'
  OBVIOUS
<1> USE ClientsAssumption
<1>0. TypeOK /\ TypeOK'
  BY TypeStep DEF SamplerInv
<1>1. ASSUME NEW c \in Clients, DialOk(c) \/ DialFails(c) \/ DialNoSession(c)
      PROVE  SamplerInv'
  <2>1. \A d \in Clients : healthy'[d] => healthy[d]
    BY <1>0, <1>1, MonitorLowers DEF DialOk, DialFails, DialNoSession, TypeOK, monitorVars
  <2> QED
    BY <1>0, <1>1, <2>1, QuietStep DEF DialOk, DialFails, DialNoSession
<1>2. ASSUME DialReturns \/ CloseCancels \/ CloseReturns PROVE SamplerInv'
  BY <1>0, <1>2, QuietStep DEF DialReturns, CloseCancels, CloseReturns, monitorVars
<1>3. ASSUME NEW k \in Callers, RequestFails(k) \/ WrapperReports(k) PROVE SamplerInv'
  <2>1. cli[k] \in Clients
    BY <1>0 DEF TypeOK
  <2>2. \A d \in Clients : healthy'[d] => healthy[d]
    BY <1>0, <1>3, <2>1, MonitorLowers DEF RequestFails, WrapperReports
  <2> QED
    BY <1>0, <1>3, <2>2, QuietStep DEF RequestFails, WrapperReports, ownerVars
<1>4. ASSUME NEW k \in Callers,
             Request(k) \/ ConnectionFound(k) \/ ConnectionMissed(k) \/ GetClient(k) \/ RequestOk(k)
      PROVE  SamplerInv'
  BY <1>0, <1>4, QuietStep
     DEF Request, ConnectionFound, ConnectionMissed, GetClient, RequestOk, monitorVars, ownerVars
<1>5. ASSUME NEW c \in Clients, NodeChanges(c) PROVE SamplerInv'
  BY <1>0, <1>5, QuietStep DEF NodeChanges, monitorVars, ownerVars
<1>6. CASE UNCHANGED vars
  BY <1>0, <1>6, QuietStep DEF vars, monitorVars, ownerVars
<1>7. ASSUME Tick PROVE SamplerInv'
  <2>1. \A c \in Clients : phase[c] = "idle"
    BY <1>7, <1>0 DEF Tick, SamplerInv, RoundShape
  <2> QED
    BY <1>0, <1>7, <2>1
       DEF Tick, SamplerInv, HealthyIsSampled, Reinstating, RoundShape,
           CheckedFromSampled, DeadStaysDown, monitorVars, TypeOK
<1>8. ASSUME RoundReturns PROVE SamplerInv'
  <2>1. \A c \in Clients : phase[c] = "idle"
    BY <1>8, <1>0 DEF RoundReturns, SamplerInv, RoundShape
  <2> QED
    BY <1>0, <1>8, <2>1
       DEF RoundReturns, SamplerInv, HealthyIsSampled, Reinstating, RoundShape,
           CheckedFromSampled, DeadStaysDown, monitorVars
<1>9. ASSUME NEW c \in Clients, CheckStart(c) PROVE SamplerInv'
  <2>1. c \in Weighted /\ healthy[c] => c \in sampled
    BY <1>9 DEF CheckStart, SamplerInv, HealthyIsSampled, Reinstating
  <2>2. /\ wasHealthy'= wasHealthy /\ live' = live /\ sampled' = sampled
        /\ healthy' = healthy /\ group' = group /\ healthyChanged' = healthyChanged
        /\ rebalance' = rebalance
    BY <1>9 DEF CheckStart, monitorVars, ownerVars
  <2>3. /\ phase'[c] # "done" /\ phase'[c] # "idle" /\ phase[c] = "start"
        /\ phase'[c] = "probe" => healthy[c]
        /\ \A d \in Clients \ {c} : phase'[d] = phase[d]
    BY <1>0, <1>9 DEF CheckStart, TypeOK
  <2>4. HealthyIsSampled' /\ RoundShape' /\ DeadStaysDown'
    BY <2>2, <2>3
       DEF SamplerInv, HealthyIsSampled, Reinstating, RoundShape, DeadStaysDown
  <2>5. ~wasHealthy[c]
    BY <2>3 DEF SamplerInv, CheckedFromSampled
  <2>6. CheckedFromSampled'
    BY <2>1, <2>2, <2>3, <2>5 DEF SamplerInv, CheckedFromSampled
  <2> QED
    BY <1>0, <2>4, <2>6 DEF SamplerInv
<1>10. ASSUME NEW c \in Clients, ProbeOk(c) PROVE SamplerInv'
  BY <1>0, <1>10
     DEF ProbeOk, Checked, SamplerInv, HealthyIsSampled, Reinstating, RoundShape,
         CheckedFromSampled, DeadStaysDown, monitorVars, ownerVars, TypeOK
<1>11. ASSUME NEW c \in Clients, ProbeFails(c) \/ ProbeReports(c) PROVE SamplerInv'
  <2>1. \A d \in Clients : healthy'[d] => healthy[d]
    BY <1>0, <1>11, MonitorLowers DEF ProbeFails, ProbeReports
  <2> QED
    BY <1>0, <1>11, <2>1
       DEF ProbeFails, ProbeReports, SamplerInv, HealthyIsSampled, Reinstating, RoundShape,
           CheckedFromSampled, DeadStaysDown, ownerVars, TypeOK
<1>12. ASSUME NEW c \in Clients, RedialOk(c) PROVE SamplerInv'
  BY <1>0, <1>12
     DEF RedialOk, SamplerInv, HealthyIsSampled, Reinstating, RoundShape,
         CheckedFromSampled, DeadStaysDown, monitorVars, ownerVars, TypeOK
<1>13. ASSUME NEW c \in Clients, RestartFails(c) PROVE SamplerInv'
  <2>1. /\ \A d \in Clients : healthy'[d] => healthy[d]
        /\ ~healthy'[c]
    BY <1>0, <1>13 DEF RestartFails, failAndSetUnhealthy, TypeOK
  <2> QED
    BY <1>0, <1>13, <2>1
       DEF RestartFails, Checked, SamplerInv, HealthyIsSampled, Reinstating, RoundShape,
           CheckedFromSampled, DeadStaysDown, ownerVars, TypeOK
<1>14. ASSUME NEW c \in Clients, RestartOk(c) PROVE SamplerInv'
  <2>1. \A d \in Clients \ {c} : healthy'[d] = healthy[d]
    BY <1>0, <1>14 DEF RestartOk, setHealthy, TypeOK
  <2> QED
    BY <1>0, <1>14, <2>1
       DEF RestartOk, Checked, SamplerInv, HealthyIsSampled, Reinstating, RoundShape,
           CheckedFromSampled, DeadStaysDown, ownerVars, TypeOK
<1>15. ASSUME NEW g \in Groups, GroupReturns(g) PROVE SamplerInv'
  <2>1. ASSUME NEW c \in Clients
        PROVE  /\ Group[c] = g => c \in Members(g) /\ phase[c] = "done" /\ phase'[c] = "idle"
               /\ Group[c] # g => /\ c \notin Members(g) /\ phase'[c] = phase[c]
                                  /\ c \in live' <=> c \in live
                                  /\ group'[Group[c]] = group[Group[c]]
                                  /\ healthyChanged'[Group[c]] = healthyChanged[Group[c]]
    BY <1>0, <1>15 DEF GroupReturns, Members, TypeOK
  <2>2. \A c \in Clients : Group[c] # g => (c \in sampled => c \in sampled')
    BY <1>15, <2>1 DEF GroupReturns
  <2>3. ASSUME NEW c \in Weighted, healthy[c], Group[c] = g PROVE c \in sampled'
    <3>1. c \in live /\ c \in Members(g)
      BY <2>1, <2>3 DEF SamplerInv, DeadStaysDown
    <3>2. CASE healthyChanged[g]
      BY <1>15, <3>1, <3>2 DEF GroupReturns, Support
    <3>3. CASE ~healthyChanged[g]
      BY <1>15, <2>3, <3>3 DEF GroupReturns, SamplerInv, HealthyIsSampled, Reinstating
    <3> QED
      BY <3>2, <3>3
  <2>4. HealthyIsSampled'
    <3> SUFFICES ASSUME NEW c \in Weighted, healthy'[c]
                 PROVE  c \in sampled' \/ Reinstating(c)'
      BY DEF HealthyIsSampled
    <3>1. healthy[c] /\ c \in Clients
      BY <1>15 DEF GroupReturns, monitorVars
    <3>2. CASE Group[c] = g
      BY <2>3, <3>1, <3>2
    <3>3. CASE Group[c] # g
      BY <2>1, <2>2, <3>1, <3>3 DEF SamplerInv, HealthyIsSampled, Reinstating
    <3> QED
      BY <3>2, <3>3
  <2>5. RoundShape'
    BY <1>0, <1>15, <2>1 DEF GroupReturns, SamplerInv, RoundShape, ownerVars, TypeOK
  <2>6. CheckedFromSampled' /\ DeadStaysDown'
    BY <1>15, <2>1, <2>2
       DEF GroupReturns, SamplerInv, CheckedFromSampled, DeadStaysDown, monitorVars
  <2> QED
    BY <1>0, <2>4, <2>5, <2>6 DEF SamplerInv
<1> QED
  BY <1>1, <1>2, <1>3, <1>4, <1>5, <1>6, <1>7, <1>8, <1>9, <1>10, <1>11, <1>12,
     <1>13, <1>14, <1>15
     DEF Next, OwnerNext, CheckNext, RequestNext

\* In every reachable state of the pool, a healthy client with a positive
\* weight can be drawn by its sampler or its reinstatement is under way.
THEOREM HealthyAlwaysSampled == Spec => []HealthyIsSampled
<1>1. Spec => []SamplerInv
  BY SamplerInit, SamplerStep, PTL DEF Spec
<1> QED
  BY <1>1, PTL DEF SamplerInv

-----------------------------------------------------------------------------
(* Nothing runs after Close *)

\* Once Close has returned no check goroutine is left: no flag is raised, no
\* connection is opened and no check is started by any later step.
THEOREM CloseIsQuiet == Spec => NothingRunsAfterClose
<1> DEFINE Quiet == rebalance = "stopped" =>
             \A c \in Clients : /\ healthy'[c] => healthy[c]
                                /\ conns'[c] = conns[c]
                                /\ phase'[c] = "idle"
<1>1. SamplerInv /\ [Next]_vars => [Quiet]_vars
  <2> SUFFICES ASSUME SamplerInv, Next, rebalance = "stopped", NEW d \in Clients
               PROVE  /\ healthy'[d] => healthy[d]
                      /\ conns'[d] = conns[d]
                      /\ phase'[d] = "idle"
    OBVIOUS
  <2>1. TypeOK /\ \A c \in Clients : phase[c] = "idle"
    BY ClientsAssumption DEF SamplerInv, RoundShape
  <2>2. \A g \in Groups : group[g] = "idle"
    BY DEF SamplerInv, RoundShape
  <2>3. CASE OwnerNext
    BY <2>3 DEF OwnerNext, DialOk, DialFails, DialNoSession, DialReturns, CloseCancels, CloseReturns
  <2>4. CASE Tick \/ RoundReturns \/ \E g \in Groups : GroupReturns(g)
    BY <2>2, <2>4 DEF Tick, RoundReturns, GroupReturns
  <2>5. ASSUME NEW c \in Clients, CheckNext(c) PROVE FALSE
    BY <2>1, <2>5 DEF CheckNext, CheckStart, ProbeOk, ProbeFails, ProbeReports,
                      RedialOk, RestartFails, RestartOk
  <2>6. ASSUME NEW c \in Clients, NodeChanges(c) PROVE UNCHANGED <<healthy, conns, phase>>
    BY <2>6 DEF NodeChanges, monitorVars, roundVars
  <2>7. ASSUME NEW k \in Callers, RequestFails(k) \/ WrapperReports(k)
        PROVE  (healthy'[d] => healthy[d]) /\ UNCHANGED <<conns, phase>>
    <3>1. cli[k] \in Clients
      BY <2>1 DEF TypeOK
    <3> QED
      BY <2>1, <2>7, <3>1, MonitorLowers DEF RequestFails, WrapperReports, roundVars
  <2>8. ASSUME NEW k \in Callers,
               Request(k) \/ ConnectionFound(k) \/ ConnectionMissed(k) \/ GetClient(k) \/ RequestOk(k)
        PROVE  UNCHANGED <<healthy, conns, phase>>
    BY <2>8 DEF Request, ConnectionFound, ConnectionMissed, GetClient, RequestOk,
                monitorVars, roundVars
  <2> QED
    BY <2>1, <2>3, <2>4, <2>5, <2>6, <2>7, <2>8 DEF Next, RequestNext
<1>2. Spec => []SamplerInv
  BY SamplerInit, SamplerStep, PTL DEF Spec
<1> QED
  BY <1>1, <1>2, PTL DEF Spec, NothingRunsAfterClose
=============================================================================
