---------------------------- MODULE Waiter_proofs ----------------------------
(***************************************************************************)
(* Waiter for any set of nodes and any number of changes and failures: a   *)
(* wait that ends well has seen the state it waited for.                   *)
(***************************************************************************)
EXTENDS Waiter, TLAPS

USE WaiterAssumption

\* The operation asks for a change: the state it started from is not its goal.
StartsElsewhere == log[1] # Goal(op)

\* The request is made once and applied at most once.
AppliedOnce ==
  /\ pc = "init" => ~pending
  /\ pc = "init" \/ pending => Len(log) = 1 + changes
  /\ Len(log) <= 2 + changes

IInv == TypeOK /\ StartsElsewhere /\ AppliedOnce /\ SuccessWasReached

\* The three logics of poll and the three conditions of waitFor succeed on the
\* goal of their operation and on no other answer.
LEMMA OnlyGoalSucceeds ==
  ASSUME op \in Ops, NEW answer, answer \in States(op) \/ answer = "failed"
  PROVE  /\ pollLogic(answer) = "ok" => answer = Goal(op)
         /\ condition(answer) => answer = Goal(op)
         /\ pollLogic(answer) \in {"ok", "retry", "fatal"}
BY DEF Ops, States, Goal, pollLogic, putLogic, deleteLogic, eaclLogic,
       condition, containerPresence, containerRemoved, eaclPresence

LEMMA GoalIsState == op \in Ops => Goal(op) \in States(op)
BY DEF Ops, Goal, States

LEMMA InitIInv == Init => IInv
<1> SUFFICES ASSUME Init PROVE IInv
  OBVIOUS
<1>1. PICK s \in States(op) \ {Goal(op)} : log = <<s>>
  BY DEF Init
<1>2. log \in Seq(States(op)) /\ Len(log) = 1 /\ log[1] = s
  BY <1>1
<1>3. view \in [Nodes -> 1..Len(log)] /\ Len(log) \in 1..(2 + MaxChanges)
  <2>1. 1 \in 1..1 /\ 1 \in 1..(2 + MaxChanges)
    BY MaxChanges \in Nat
  <2> QED BY <1>2, <2>1 DEF Init
<1>4. result \in {"none", "ok", "request"} \cup
        (IF impl = "poll" THEN {"poller", "confirmationTimeout"} ELSE {"context"})
  BY DEF Init
<1>5. changes \in 0..MaxChanges /\ faults \in 0..MaxFaults
  BY DEF Init
<1>6. TypeOK
  BY <1>2, <1>3, <1>4, <1>5 DEF Init, TypeOK
<1> QED BY <1>1, <1>2, <1>6 DEF Init, IInv, StartsElsewhere, AppliedOnce, SuccessWasReached

\* A log grows at its end only, by a state of its kind.
LEMMA LogGrows ==
  ASSUME IInv, op' = op, impl' = impl, NEW s \in States(op), log' = Append(log, s),
         result' = result, view' = view, Len(log) < 2 + MaxChanges
  PROVE  /\ log' \in Seq(States(op)) /\ Len(log') \in 1..(2 + MaxChanges)
         /\ view' \in [Nodes -> 1..Len(log')]
         /\ StartsElsewhere' /\ SuccessWasReached'
<1>1. log \in Seq(States(op)) /\ Len(log) \in Nat /\ Len(log) >= 1
  BY DEF IInv, TypeOK
<1>2. /\ log' \in Seq(States(op)) /\ Len(log') = Len(log) + 1
      /\ \A i \in 1..Len(log) : log'[i] = log[i]
  BY <1>1
<1>3. view' \in [Nodes -> 1..Len(log')]
  BY <1>1, <1>2 DEF IInv, TypeOK
<1>4. StartsElsewhere'
  BY <1>1, <1>2 DEF IInv, StartsElsewhere
<1>5. SuccessWasReached'
  BY <1>1, <1>2 DEF IInv, SuccessWasReached
<1> QED BY <1>1, <1>2, <1>3, <1>4, <1>5

LEMMA StepIInv == IInv /\ [Next]_vars => IInv'
<1> SUFFICES ASSUME IInv, [Next]_vars PROVE IInv'
  OBVIOUS
<1> USE DEF IInv
<1>1. CASE RequestAccepted
  BY <1>1 DEF RequestAccepted, TypeOK, StartsElsewhere, AppliedOnce, SuccessWasReached
<1>2. CASE RequestFails
  BY <1>2 DEF RequestFails, Done, timers, TypeOK, StartsElsewhere, AppliedOnce, SuccessWasReached
<1>3. CASE SelectTick
  BY <1>3 DEF SelectTick, network, TypeOK, StartsElsewhere, AppliedOnce, SuccessWasReached
<1>4. CASE SelectDone
  BY <1>4 DEF SelectDone, Done, network, timers, TypeOK, StartsElsewhere, AppliedOnce, SuccessWasReached
<1>5. ASSUME NEW answer, Answered(answer), answer = "failed" \/ answer = log[view[at]],
             faults' \in 0..MaxFaults
      PROVE  IInv'
  <2>1. UNCHANGED <<impl, op, tick, at, ctxDone, expired, log, view, pending, changes>>
    BY <1>5 DEF Answered, network
  <2>2. log[view[at]] \in States(op) /\ view[at] \in 1..Len(log)
    BY DEF TypeOK
  <2>3. /\ \/ Done("ok") /\ answer = Goal(op)
           \/ impl = "poll" /\ Done("poller")
           \/ pc' = "wait" /\ result' = result
        /\ armed' \in BOOLEAN
    <3>1. op \in Ops /\ (answer \in States(op) \/ answer = "failed") /\ armed \in BOOLEAN
      BY <1>5, <2>2 DEF TypeOK
    <3>2. CASE pollAnswered(answer)
      BY <3>1, <3>2, OnlyGoalSucceeds DEF pollAnswered
    <3>3. CASE waitForAnswered(answer)
      BY <3>1, <3>3, OnlyGoalSucceeds DEF waitForAnswered
    <3> QED BY <1>5, <3>2, <3>3 DEF Answered
  <2>4. TypeOK'
    BY <1>5, <2>1, <2>3 DEF Done, TypeOK
  <2>5. answer = Goal(op) => view[at] # 1 /\ log[view[at]] = Goal(op)
    BY <1>5 DEF StartsElsewhere, TypeOK, Ops, Goal
  <2>6. SuccessWasReached'
    BY <2>1, <2>2, <2>3, <2>5 DEF Done, SuccessWasReached, TypeOK
  <2>7. AppliedOnce'
    BY <2>1, <2>3 DEF Done, AppliedOnce
  <2> QED BY <2>1, <2>4, <2>6, <2>7 DEF StartsElsewhere
<1>6. CASE QueryAnswered
  BY <1>5, <1>6 DEF QueryAnswered, TypeOK
<1>7. CASE QueryFails
  BY <1>5, <1>7 DEF QueryFails, TypeOK
<1>8. CASE Tick
  BY <1>8 DEF Tick, network, TypeOK, StartsElsewhere, AppliedOnce, SuccessWasReached
<1>9. CASE ContextEnds
  BY <1>9 DEF ContextEnds, network, timers, TypeOK, StartsElsewhere, AppliedOnce, SuccessWasReached
<1>10. CASE TimeoutPasses
  BY <1>10 DEF TimeoutPasses, network, timers, TypeOK, StartsElsewhere, AppliedOnce, SuccessWasReached
<1>11. CASE Apply
  <2>1. Goal(op) \in States(op) /\ Len(log) = 1 + changes /\ changes \in 0..MaxChanges
    BY <1>11, GoalIsState DEF Apply, TypeOK, AppliedOnce
  <2>2. /\ log' \in Seq(States(op)) /\ Len(log') \in 1..(2 + MaxChanges)
        /\ view' \in [Nodes -> 1..Len(log')]
        /\ StartsElsewhere' /\ SuccessWasReached'
    BY <1>11, <2>1, LogGrows DEF Apply
  <2>3. Len(log') = Len(log) + 1
    BY <1>11, <2>1 DEF Apply, TypeOK
  <2>4. TypeOK'
    BY <1>11, <2>2 DEF Apply, timers, TypeOK
  <2>5. pc' # "init" /\ ~pending'
    BY <1>11, Zenon DEF Apply, AppliedOnce
  <2>6. AppliedOnce'
    BY <1>11, <2>1, <2>3, <2>5 DEF Apply, AppliedOnce
  <2> QED BY <2>2, <2>4, <2>6
<1>12. CASE Drop
  BY <1>12 DEF Drop, timers, TypeOK, StartsElsewhere, AppliedOnce, SuccessWasReached
<1>13. CASE OtherChange
  BY <1>13, LogGrows DEF OtherChange, timers, TypeOK, AppliedOnce
<1>14. ASSUME NEW n \in Nodes, CatchUp(n) PROVE IInv'
  BY <1>14 DEF CatchUp, timers, TypeOK, StartsElsewhere, AppliedOnce, SuccessWasReached
<1>15. CASE UNCHANGED vars
  BY <1>15 DEF vars, network, timers, TypeOK, StartsElsewhere, AppliedOnce, SuccessWasReached
<1> QED
  BY <1>1, <1>2, <1>3, <1>4, <1>6, <1>7, <1>8, <1>9, <1>10, <1>11, <1>12, <1>13, <1>14,
     <1>15 DEF Next, WaitNext

\* For any nodes, changes by others and failures, a put, delete or eACL wait of
\* package waiter or of the pool returns nil only after the network has been in
\* the state that was asked for.
THEOREM SuccessIsTrue == Spec => []SuccessWasReached
<1>1. IInv => SuccessWasReached
  BY DEF IInv
<1> QED BY <1>1, InitIInv, StepIInv, PTL DEF Spec

\* For any nodes, changes by others and failures, the variables keep their types;
\* in particular each implementation ends with the errors it documents only.
THEOREM WaiterTypes == Spec => []TypeOK
<1>1. IInv => TypeOK
  BY DEF IInv
<1> QED BY <1>1, InitIInv, StepIInv, PTL DEF Spec
=============================================================================
