-------------------------------- MODULE Waiter --------------------------------
(***************************************************************************)
(* Waiting for container operations: package waiter (poll) and the wait    *)
(* functions of the pool (waitFor).  Both send a request, which only       *)
(* schedules a change, and then ask storage nodes until they see it.       *)
(*                                                                         *)
(* The network is a log of the states of the container (or of its eACL);   *)
(* a node has seen a prefix of it.  Other users change the state as well.  *)
(***************************************************************************)
EXTENDS Naturals, Sequences

CONSTANTS
  Nodes,       \* storage nodes a query may go to
  MaxChanges,  \* bound of the model: changes by others
  MaxFaults    \* bound of the model: queries that fail for other reasons

ASSUME WaiterAssumption ==
  Nodes # {} /\ MaxChanges \in Nat /\ MaxFaults \in Nat

VARIABLES
  impl,      \* poll (package waiter) or waitFor (pool)
  op,        \* put, delete, eacl
  pc,        \* init, wait (in select), query (in an RPC), done
  result,    \* none, ok, or why the operation failed
  tick,      \* a tick waits in the channel of the timer
  armed,     \* the timer of waitFor runs (a ticker always does)
  at,        \* node the query went to
  ctxDone,   \* the caller's context has ended
  expired,   \* the wait timeout of waitFor has passed
  log, view, pending, changes, faults

network == <<log, view, pending, changes>>
timers == <<tick, armed>>
vars == <<impl, op, pc, result, timers, at, ctxDone, expired, network, faults>>

Ops == {"put", "delete", "eacl"}

\* States of what the operation changes, as a query tells them apart, and the
\* one the caller waits for.
States(o) == IF o = "eacl" THEN {"none", "old", "new"} ELSE {"absent", "present"}
Goal(o) == CASE o = "put" -> "present" [] o = "delete" -> "absent" [] o = "eacl" -> "new"

Latest == log[Len(log)]

-----------------------------------------------------------------------------
(* What a query means.  "failed" is any error but the absence itself. *)

\* Logic of ContainerPutWaiter.ContainerPut.
putLogic(answer) ==
  CASE answer = "present" -> "ok" [] answer = "absent" -> "retry" [] OTHER -> "fatal"

\* Logic of ContainerDeleteWaiter.ContainerDelete.
deleteLogic(answer) ==
  CASE answer = "absent" -> "ok" [] answer = "present" -> "retry" [] OTHER -> "fatal"

\* Mutant of eaclLogic: any table will do.
eaclLogicAnyTable(answer) ==
  CASE answer \in {"new", "old"} -> "ok" [] answer = "none" -> "retry" [] OTHER -> "fatal"

\* Logic of ContainerSetEACLWaiter.ContainerSetEACL: the tables are compared.
eaclLogic(answer) ==
  CASE answer = "new" -> "ok" [] answer \in {"old", "none"} -> "retry" [] OTHER -> "fatal"

pollLogic(answer) ==
  CASE op = "put" -> putLogic(answer)
    [] op = "delete" -> deleteLogic(answer)
    [] op = "eacl" -> eaclLogic(answer)

\* Conditions of waitForContainerPresence, ...Removed, waitForEACLPresence: an
\* error is like an answer that does not fit.
containerPresence(answer) == answer = "present"

containerRemoved(answer) == answer = "absent"

eaclPresence(answer) == answer = "new"

condition(answer) ==
  CASE op = "put" -> containerPresence(answer)
    [] op = "delete" -> containerRemoved(answer)
    [] op = "eacl" -> eaclPresence(answer)

-----------------------------------------------------------------------------
\* The state before the operation is known to all nodes, and it is not the goal.
Init ==
  /\ impl \in {"poll", "waitFor"} /\ op \in Ops
  /\ log \in {<<s>> : s \in States(op) \ {Goal(op)}}
  /\ view = [n \in Nodes |-> 1]
  /\ pc = "init" /\ result = "none" /\ tick = FALSE /\ armed = FALSE
  /\ at \in Nodes /\ ctxDone = FALSE /\ expired = FALSE
  /\ pending = FALSE /\ changes = 0 /\ faults = 0

Done(r) == pc' = "done" /\ result' = r

\* The request was taken, and the timers start.
RequestAccepted ==
  /\ pc = "init"
  /\ pc' = "wait" /\ pending' = TRUE /\ armed' = TRUE
  /\ UNCHANGED <<impl, op, result, tick, at, ctxDone, expired, log, view, changes, faults>>

\* The client reports a failure; the request may have come through.
RequestFails ==
  /\ pc = "init"
  /\ pending' \in BOOLEAN
  /\ Done("request")
  /\ UNCHANGED <<impl, op, timers, at, ctxDone, expired, log, view, changes, faults>>

-----------------------------------------------------------------------------
(* Timers and contexts. *)

Tick ==
  /\ pc \in {"wait", "query"} /\ ~tick /\ armed
  /\ tick' = TRUE /\ armed' = (impl = "poll")
  /\ UNCHANGED <<impl, op, pc, result, at, ctxDone, expired, network, faults>>

ContextEnds ==
  /\ ~ctxDone
  /\ ctxDone' = TRUE
  /\ UNCHANGED <<impl, op, pc, result, timers, at, expired, network, faults>>

TimeoutPasses ==
  /\ impl = "waitFor" /\ pc \in {"wait", "query"} /\ ~expired
  /\ expired' = TRUE
  /\ UNCHANGED <<impl, op, pc, result, timers, at, ctxDone, network, faults>>

-----------------------------------------------------------------------------
(* The loops of poll and waitFor. *)

\* The tick is chosen; an RPC to some node begins.
SelectTick ==
  /\ pc = "wait" /\ tick
  /\ tick' = FALSE /\ pc' = "query" /\ at' \in Nodes
  /\ UNCHANGED <<impl, op, result, armed, ctxDone, expired, network, faults>>

\* Mutant of SelectDone: the timeout of waitFor is not among the cases.
SelectCallerDone ==
  /\ pc = "wait" /\ ctxDone
  /\ Done(IF impl = "poll" THEN "confirmationTimeout" ELSE "context")
  /\ UNCHANGED <<impl, op, timers, at, ctxDone, expired, network, faults>>

\* The end of a context is chosen.
SelectDone ==
  /\ pc = "wait"
  /\ ctxDone \/ (impl = "waitFor" /\ expired)
  /\ Done(IF impl = "poll" THEN "confirmationTimeout" ELSE "context")
  /\ UNCHANGED <<impl, op, timers, at, ctxDone, expired, network, faults>>

\* poll: errRetry waits for another tick, any other error is final.
pollAnswered(answer) ==
  /\ impl = "poll"
  /\ CASE pollLogic(answer) = "ok"    -> Done("ok")
       [] pollLogic(answer) = "retry" -> pc' = "wait" /\ UNCHANGED result
       [] pollLogic(answer) = "fatal" -> Done("poller")
  /\ UNCHANGED armed

\* Mutant of waitForAnswered: the timer is not reset.
waitForUnarmed(answer) ==
  /\ impl = "waitFor"
  /\ IF condition(answer) THEN Done("ok") ELSE pc' = "wait" /\ UNCHANGED result
  /\ UNCHANGED armed

\* waitFor: whatever does not fulfil the condition resets the timer.
waitForAnswered(answer) ==
  /\ impl = "waitFor"
  /\ IF condition(answer)
     THEN Done("ok") /\ UNCHANGED armed
     ELSE pc' = "wait" /\ armed' = TRUE /\ UNCHANGED result

Answered(answer) ==
  /\ pollAnswered(answer) \/ waitForAnswered(answer)
  /\ UNCHANGED <<impl, op, tick, at, ctxDone, expired, network>>

\* The node answers with what it has seen.
QueryAnswered ==
  /\ pc = "query"
  /\ Answered(log[view[at]])
  /\ UNCHANGED faults

\* The RPC runs under the caller's context, and fails with it or by itself.
QueryFails ==
  /\ pc = "query"
  /\ ctxDone \/ faults < MaxFaults
  /\ faults' = IF ctxDone THEN faults ELSE faults + 1
  /\ Answered("failed")

-----------------------------------------------------------------------------
(* The network. *)

\* The scheduled change is made, or lost.
Apply ==
  /\ pending /\ pending' = FALSE
  /\ log' = Append(log, Goal(op))
  /\ UNCHANGED <<impl, op, pc, result, timers, at, ctxDone, expired, view, changes, faults>>

Drop ==
  /\ pending /\ pending' = FALSE
  /\ UNCHANGED <<impl, op, pc, result, timers, at, ctxDone, expired, log, view, changes, faults>>

OtherChange ==
  /\ changes < MaxChanges /\ changes' = changes + 1
  /\ \E s \in States(op) \ {Latest} : log' = Append(log, s)
  /\ UNCHANGED <<impl, op, pc, result, timers, at, ctxDone, expired, view, pending, faults>>

CatchUp(n) ==
  /\ view[n] < Len(log)
  /\ view' = [view EXCEPT ![n] = @ + 1]
  /\ UNCHANGED <<impl, op, pc, result, timers, at, ctxDone, expired, log, pending, changes, faults>>

-----------------------------------------------------------------------------
WaitNext ==
  \/ RequestAccepted \/ RequestFails
  \/ SelectTick \/ SelectDone
  \/ QueryAnswered \/ QueryFails

Next ==
  \/ WaitNext
  \/ Tick \/ ContextEnds \/ TimeoutPasses
  \/ Apply \/ Drop \/ OtherChange
  \/ \E n \in Nodes : CatchUp(n)

Spec == Init /\ [][Next]_vars

\* The timers run, RPCs end (the client has a timeout for every operation of a
\* stream), nodes follow the network.  select picks at random among the ready
\* cases, so a context that stays done is picked in the end.
FairSpec ==
  /\ Spec
  /\ WF_vars(Tick) /\ WF_vars(SelectTick) /\ SF_vars(SelectDone)
  /\ WF_vars(QueryAnswered \/ QueryFails)
  /\ \A n \in Nodes : WF_vars(CatchUp(n))

-----------------------------------------------------------------------------
TypeOK ==
  /\ impl \in {"poll", "waitFor"} /\ op \in Ops
  /\ pc \in {"init", "wait", "query", "done"}
  /\ result \in {"none", "ok", "request"} \cup
       (IF impl = "poll" THEN {"poller", "confirmationTimeout"} ELSE {"context"})
  /\ tick \in BOOLEAN /\ armed \in BOOLEAN /\ at \in Nodes
  /\ ctxDone \in BOOLEAN /\ expired \in BOOLEAN /\ pending \in BOOLEAN
  /\ log \in Seq(States(op)) /\ Len(log) \in 1..(2 + MaxChanges)
  /\ view \in [Nodes -> 1..Len(log)]
  /\ changes \in 0..MaxChanges /\ faults \in 0..MaxFaults

\* Success is never guessed: when an operation returns nil, the network has been
\* in the state it asked for since the request, whatever failed, lagged behind
\* or was changed by others meanwhile.
SuccessWasReached ==
  result = "ok" => \E i \in 2..Len(log) : log[i] = Goal(op)

\* A wait outlives neither the caller's context nor, in the pool, its timeout,
\* even if an RPC is under way when they end.
DeadlineKept ==
  pc = "wait" /\ (ctxDone \/ expired) ~> pc = "done"

\* A change that is made and stays is noticed: the operation returns, through a
\* node that lags behind as well.
ChangeIsNoticed ==
  (pc # "init" /\ <>[](Latest = Goal(op))) ~> pc = "done"
=============================================================================
