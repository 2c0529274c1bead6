--------------------------------- MODULE Calls ---------------------------------
(***************************************************************************)
(* Unary operations of client.Client, alone and behind the wrapper of the  *)
(* pool: checks of the arguments, signing, the RPC, the stages of the      *)
(* response, the statistics (package stat) and the error counter.          *)
(*                                                                         *)
(* Several callers share one client of one node.                           *)
(***************************************************************************)
EXTENDS Naturals, Sequences, FiniteSets, FiniteSetsExt, Status

CONSTANTS
  Callers,
  MaxCalls,   \* bound of the model: calls made
  MaxPairs    \* bound of the model: X-headers of a request

ASSUME CallsAssumption == IsFiniteSet(Callers) /\ MaxCalls \in Nat /\ MaxPairs \in Nat

VARIABLES
  stage,     \* of a caller: idle, sent, heard, report, count, blame, wait
  call,      \* of a caller: the operation until it returns, and who called it
  awaits,    \* of a caller: the method of the wrapper that waits for its effect
  reply,     \* of a caller: what there is to know of the response
  err,       \* of a caller: the error that is returned
  told,      \* of a caller: the response callback has seen the response
  nodeKey,   \* Dial has stored the key of the node
  monitors,  \* monitors PoolStat has created; the last one is in its map
  at,        \* of a caller: the monitor OperationCallback works on
  blamed,    \* errors counted by updateErrorRate
  history    \* results of the calls; equal ones are numbered

callVars == <<stage, call, awaits, reply, err, told, nodeKey, monitors, at, blamed, history>>

-----------------------------------------------------------------------------
(* Operations: the checks before the request in their order, who signs the *)
(* request, whether the response goes through contextCall, and the fields  *)
(* of the response with what is looked for in them.                        *)

ContainerPut == [checks |-> <<"signer", "body">>, by |-> "client", viaContext |-> TRUE,
                 fields |-> <<{"missing", "invalid"}>>]
ContainerGet == [checks |-> <<>>, by |-> "client", viaContext |-> TRUE,
                 fields |-> <<{"missing", "invalid"}>>]
ContainerList == [checks |-> <<>>, by |-> "client", viaContext |-> TRUE,
                  fields |-> <<{"invalid"}>>]
ContainerDelete == [checks |-> <<"signer", "body">>, by |-> "client", viaContext |-> TRUE,
                    fields |-> <<>>]
ContainerEACL == [checks |-> <<>>, by |-> "client", viaContext |-> TRUE,
                  fields |-> <<{"missing"}>>]
ContainerSetEACL == [checks |-> <<"signer", "input", "body">>, by |-> "client", viaContext |-> TRUE,
                     fields |-> <<>>]
ContainerAnnounceUsedSpace == [checks |-> <<"input">>, by |-> "client", viaContext |-> TRUE,
                               fields |-> <<>>]

EndpointInfo == [checks |-> <<>>, by |-> "client", viaContext |-> TRUE,
                 fields |-> <<{"missing", "invalid"}, {"missing", "invalid"}>>]
NetworkInfo == [checks |-> <<>>, by |-> "client", viaContext |-> TRUE,
                fields |-> <<{"missing", "invalid"}>>]
NetMapSnapshot == [checks |-> <<>>, by |-> "client", viaContext |-> FALSE,
                   fields |-> <<{"missing", "invalid"}>>]

BalanceGet == [checks |-> <<"input">>, by |-> "client", viaContext |-> TRUE,
               fields |-> <<{"missing", "invalid"}>>]
AnnounceLocalTrust == [checks |-> <<"input">>, by |-> "client", viaContext |-> TRUE,
                       fields |-> <<>>]
AnnounceIntermediateTrust == [checks |-> <<"input">>, by |-> "client", viaContext |-> TRUE,
                              fields |-> <<>>]
SessionCreate == [checks |-> <<"signer">>, by |-> "caller", viaContext |-> TRUE,
                  fields |-> <<{"missing"}, {"missing"}>>]

ObjectDelete == [checks |-> <<"signer">>, by |-> "caller", viaContext |-> FALSE,
                 fields |-> <<{"missing", "invalid"}>>]
ObjectHash == [checks |-> <<"input", "signer">>, by |-> "caller", viaContext |-> FALSE,
               fields |-> <<{"missing"}>>]
\* "invalid" stands for an unexpected type of the header.
ObjectHead == [checks |-> <<"signer">>, by |-> "caller", viaContext |-> FALSE,
               fields |-> <<{"missing", "invalid", "split"}>>]

ops == [ContainerPut |-> ContainerPut, ContainerGet |-> ContainerGet,
        ContainerList |-> ContainerList, ContainerDelete |-> ContainerDelete,
        ContainerEACL |-> ContainerEACL, ContainerSetEACL |-> ContainerSetEACL,
        ContainerAnnounceUsedSpace |-> ContainerAnnounceUsedSpace,
        EndpointInfo |-> EndpointInfo, NetworkInfo |-> NetworkInfo,
        NetMapSnapshot |-> NetMapSnapshot, BalanceGet |-> BalanceGet,
        AnnounceLocalTrust |-> AnnounceLocalTrust,
        AnnounceIntermediateTrust |-> AnnounceIntermediateTrust,
        SessionCreate |-> SessionCreate, ObjectDelete |-> ObjectDelete,
        ObjectHash |-> ObjectHash, ObjectHead |-> ObjectHead]

Methods == DOMAIN ops

\* Operations the wrapper of the pool has a method for.
containerMethods == {"ContainerPut", "ContainerGet", "ContainerList", "ContainerDelete",
                     "ContainerEACL", "ContainerSetEACL"}
infoMethods == {"EndpointInfo", "NetworkInfo", "BalanceGet"}
objectMethods == {"ObjectDelete", "ObjectHead"}

\* Methods of the wrapper that wait for their effect once the operation has
\* succeeded, with the method they poll, and those of them that count an error of
\* the wait.
waits == [ContainerPut |-> "ContainerGet", ContainerDelete |-> "ContainerGet",
          ContainerSetEACL |-> "ContainerEACL"]
countedWaits == {"ContainerPut", "ContainerSetEACL"}

\* Whether a poll that ended with e ends the wait of method m.  The table a node
\* returns may still be another one.
met(m, e) ==
  CASE m = "ContainerPut" -> {e = "nil"}
    [] m = "ContainerDelete" -> {e = "ContainerNotFound"}
    [] m = "ContainerSetEACL" -> IF e = "nil" THEN BOOLEAN ELSE {FALSE}

wrapperMethods == containerMethods \cup infoMethods \cup objectMethods \cup {"SessionCreate"}

Args == [signer : {"nil", "good", "bad"}, input : BOOLEAN, pairs : 0..MaxPairs]

-----------------------------------------------------------------------------
\* X-headers are written at every second place of a list with half as many places.
writeXHeadersToMeta(pairs) == \A i \in 0..(pairs - 1) : 2 * i < pairs

fails(check, args) ==
  CASE check = "signer" -> args.signer = "nil"
    [] check = "input" -> ~args.input
    [] check \in {"body", "request"} -> args.signer = "bad"

checkError(check) ==
  CASE check = "signer" -> "ErrMissingSigner" [] check = "input" -> "input" [] OTHER -> "sign"

\* Checks up to the RPC; signing the request fails with the caller's signer only.
stagesBefore(op) == op.checks \o IF op.by = "caller" THEN <<"request">> ELSE <<>>

refusal(op, args) ==
  LET s == stagesBefore(op)
      failing == {i \in DOMAIN s : fails(s[i], args)}
  IN  IF failing = {} THEN "nil" ELSE checkError(s[Min(failing)])

\* The result closures: the first field that is wrong decides.
result(op, fields) ==
  LET bad == {i \in DOMAIN fields : fields[i] \in op.fields[i]}
  IN  IF bad = {} THEN "nil" ELSE fields[Min(bad)]

\* Mutant of processResponse: the status is looked at before the signature.
processStatusFirst(verifies, st) ==
  IF ErrorFromV2(st).type # "nil" THEN ErrorFromV2(st).type
  ELSE IF ~verifies THEN "signature" ELSE "nil"

\* Of Client and contextCall, after the callback.
processResponse(verifies, st) ==
  IF ~verifies THEN "signature" ELSE ErrorFromV2(st).type

-----------------------------------------------------------------------------
\* One status of every kind processResponse, updateErrorRate and met tell apart.
ReplyStatuses == {[code |-> k, message |-> "", details |-> <<>>] :
                    k \in {OK, codes["ServerInternal"], codes["ContainerNotFound"], <<"new", 0>>}}

NoCall == [op |-> "none", by |-> "none"]
Waiting == [op |-> "none", by |-> "wrapper"]
NoReply == [verifies |-> FALSE, status |-> <<"none", 0>>, complete |-> FALSE]

CallsInit ==
  /\ stage = [c \in Callers |-> "idle"]
  /\ call = [c \in Callers |-> NoCall] /\ awaits = [c \in Callers |-> "none"]
  /\ reply = [c \in Callers |-> NoReply]
  /\ err = [c \in Callers |-> "nil"]
  /\ told = [c \in Callers |-> FALSE] /\ nodeKey = FALSE /\ monitors = <<>>
  /\ at = [c \in Callers |-> 0]
  /\ blamed = 0 /\ history = {}

started == Cardinality({c \in Callers : stage[c] # "idle"}) + Cardinality(history)

Goto(c, s) == stage' = [stage EXCEPT ![c] = s]

\* The operation returns e, and what it has deferred begins.  Which operation it
\* was matters only to a method that will wait.
Return(c, by, e) ==
  LET waiting == e = "nil" /\ by = "wrapper" /\ call[c].op \in DOMAIN waits
  IN  /\ err' = [err EXCEPT ![c] = e] /\ Goto(c, "report")
      /\ call' = [call EXCEPT ![c] = [op |-> IF waiting THEN @.op ELSE "none", by |-> by]]

Sent(c, m, by) ==
  /\ call' = [call EXCEPT ![c] = [op |-> m, by |-> by]] /\ Goto(c, "sent")
  /\ UNCHANGED err

Remember(e, by) ==
  LET equal == {h \in history : h.err = e /\ h.by = by}
  IN  history' = history \cup {[n |-> Cardinality(equal) + 1, err |-> e, by |-> by]}

\* The checks of Dial itself fail: no endpoint, or a timeout that is not positive.
DialRefused(c) ==
  /\ ~nodeKey /\ stage[c] = "idle" /\ started < MaxCalls
  /\ Remember("input", "arguments")
  /\ UNCHANGED <<stage, call, awaits, reply, err, told, nodeKey, monitors, at, blamed>>

\* Dial asks for the endpoint info.
Dial(c) ==
  /\ ~nodeKey /\ started < MaxCalls /\ \A d \in Callers : stage[d] = "idle"
  /\ Sent(c, "EndpointInfo", "dial")
  /\ UNCHANGED <<awaits, reply, told, nodeKey, monitors, at, blamed, history>>

Begin(c, m, args, by) ==
  /\ nodeKey /\ stage[c] = "idle" /\ started < MaxCalls
  /\ by = "wrapper" => m \in wrapperMethods /\ args.pairs = 0
  /\ \/ /\ refusal(ops[m], args) # "nil"
        /\ Return(c, by, refusal(ops[m], args))
     \/ /\ refusal(ops[m], args) = "nil" /\ ~writeXHeadersToMeta(args.pairs)
        /\ Return(c, by, "panic")
     \/ /\ refusal(ops[m], args) = "nil" /\ writeXHeadersToMeta(args.pairs)
        /\ Sent(c, m, by)
  /\ UNCHANGED <<awaits, reply, told, nodeKey, monitors, at, blamed, history>>

\* The RPC fails, or its context ends.
TransportFails(c) ==
  /\ stage[c] = "sent"
  /\ Return(c, call[c].by, "transport")
  /\ UNCHANGED <<awaits, reply, told, nodeKey, monitors, at, blamed, history>>

\* An answer comes.  The callback sees it before it is verified, and may refuse
\* it; operations without a contextCall do not call it.
RunCallback(c) ==
  /\ stage[c] = "sent"
  /\ IF ops[call[c].op].viaContext
     THEN /\ told' = [told EXCEPT ![c] = TRUE]
          /\ \/ Goto(c, "heard") /\ UNCHANGED <<call, err>>
             \/ Return(c, call[c].by, "callback")
     ELSE Goto(c, "heard") /\ UNCHANGED <<call, told, err>>
  /\ UNCHANGED <<awaits, reply, nodeKey, monitors, at, blamed, history>>

\* The answer is anything the client can tell apart.
ReadResponse(c, verifies, status, fields) ==
  LET op == ops[call[c].op]
      e == processResponse(verifies, status)
  IN  /\ stage[c] = "heard"
      /\ DOMAIN fields = DOMAIN op.fields
      /\ \A i \in DOMAIN fields : fields[i] \in {"ok"} \cup op.fields[i]
      /\ reply' = [reply EXCEPT ![c] =
           [verifies |-> verifies, status |-> status.code,
            complete |-> \A i \in DOMAIN fields : fields[i] = "ok"]]
      /\ Return(c, call[c].by, IF e # "nil" THEN e ELSE result(op, fields))
      /\ UNCHANGED <<awaits, told, nodeKey, monitors, at, blamed, history>>

-----------------------------------------------------------------------------
(* Deferred: sendStatistic reads the local variable err, which the early   *)
(* return for a missing signer does not set and a panic has not reached.   *)

reportedError(c) == IF err[c] \in {"ErrMissingSigner", "panic"} THEN "nil" ELSE err[c]

\* Mutant of counted: any status of the API counts.
countedAny(e) == e \notin {"nil", "split"}

\* clientStatusMonitor.updateErrorRate.
counted(e) ==
  CASE e = "nil" -> FALSE
    [] e \in Types -> e \in DOMAIN commonCodes
    [] e = "split" -> FALSE
    [] OTHER -> TRUE

\* Mutant of Locate: a monitor is created without looking for one.
LocateNew(c) ==
  /\ stage[c] = "report"
  /\ blamed' = blamed + IF counted(reportedError(c)) THEN 1 ELSE 0
  /\ IF ~nodeKey
     THEN Goto(c, "blame") /\ UNCHANGED <<monitors, at>>
     ELSE /\ monitors' = Append(monitors, [requests |-> 0, errors |-> 0])
          /\ at' = [at EXCEPT ![c] = Len(monitors')]
          /\ Goto(c, "count")
  /\ UNCHANGED <<call, awaits, reply, err, told, nodeKey, history>>

\* The middleware of the wrapper counts the error for the node, then
\* PoolStat.OperationCallback looks for the monitor under its mutex: without a
\* node key (the call of Dial) it counts nothing.
Locate(c) ==
  /\ stage[c] = "report"
  /\ blamed' = blamed + IF counted(reportedError(c)) THEN 1 ELSE 0
  /\ IF ~nodeKey
     THEN Goto(c, "blame") /\ UNCHANGED <<monitors, at>>
     ELSE /\ monitors' = IF monitors = <<>> THEN <<[requests |-> 0, errors |-> 0]>> ELSE monitors
          /\ at' = [at EXCEPT ![c] = Len(monitors')]
          /\ Goto(c, "count")
  /\ UNCHANGED <<call, awaits, reply, err, told, nodeKey, history>>

\* incRequests (the time is taken when the call is over, and may be zero; then
\* the request is not counted) and incErrorRate.
Count(c, duration) ==
  /\ stage[c] = "count" /\ Goto(c, "blame")
  /\ monitors' = [monitors EXCEPT
       ![at[c]].requests = IF duration > 0 THEN @ + 1 ELSE @,
       ![at[c]].errors = IF reportedError(c) # "nil" THEN @ + 1 ELSE @]
  /\ UNCHANGED <<call, awaits, reply, err, told, nodeKey, at, blamed, history>>

\* What the caller waits for when it is back from the operation, or from a poll.
awaitsNext(c) ==
  IF call[c].op \in DOMAIN waits THEN {call[c].op}
  ELSE IF awaits[c] = "none" THEN {"none"}
  ELSE {IF done THEN "none" ELSE awaits[c] : done \in met(awaits[c], err[c])}

\* Back at the caller; a method of the wrapper counts the error once more, and then
\* may wait.
Leave(c) ==
  /\ stage[c] = "blame"
  /\ \E a \in awaitsNext(c) :
       /\ awaits' = [awaits EXCEPT ![c] = a]
       /\ Goto(c, IF a = "none" THEN "idle" ELSE "wait")
       /\ call' = [call EXCEPT ![c] = IF a = "none" THEN NoCall ELSE Waiting]
  /\ blamed' = blamed + IF call[c].by = "wrapper" /\ counted(err[c]) THEN 1 ELSE 0
  /\ nodeKey' = (nodeKey \/ (call[c].by = "dial" /\ err[c] = "nil"))
  /\ Remember(err[c], call[c].by)
  /\ reply' = [reply EXCEPT ![c] = NoReply]
  /\ err' = [err EXCEPT ![c] = "nil"] /\ at' = [at EXCEPT ![c] = 0]
  /\ told' = [told EXCEPT ![c] = FALSE]
  /\ UNCHANGED monitors

-----------------------------------------------------------------------------
(* waitFor, seen from the node; Waiter has its timers. *)

\* A poll is a call of the wrapper like any other.
Poll(c) ==
  /\ stage[c] = "wait" /\ Cardinality(history) < MaxCalls
  /\ Sent(c, waits[awaits[c]], "wrapper")
  /\ UNCHANGED <<awaits, reply, told, nodeKey, monitors, at, blamed, history>>

\* The context of the caller or of the wait ends.
WaitEnds(c) ==
  /\ stage[c] = "wait" /\ Goto(c, "idle")
  /\ blamed' = blamed + IF awaits[c] \in countedWaits /\ counted("context") THEN 1 ELSE 0
  /\ Remember("context", IF awaits[c] \in countedWaits THEN "wait" ELSE "removal")
  /\ awaits' = [awaits EXCEPT ![c] = "none"] /\ call' = [call EXCEPT ![c] = NoCall]
  /\ UNCHANGED <<reply, err, told, nodeKey, monitors, at>>

CallsNext ==
  \E c \in Callers :
    \/ DialRefused(c) \/ Dial(c)
    \/ \E m \in Methods, args \in Args, by \in {"direct", "wrapper"} : Begin(c, m, args, by)
    \/ TransportFails(c) \/ RunCallback(c)
    \/ \E verifies \in BOOLEAN, st \in ReplyStatuses,
          fields \in UNION {[1..n -> {"ok", "missing", "invalid", "split"}] : n \in 0..2} :
         ReadResponse(c, verifies, st, fields)
    \/ Locate(c) \/ (\E d \in 0..1 : Count(c, d)) \/ Leave(c)
    \/ Poll(c) \/ WaitEnds(c)

CallsSpec == CallsInit /\ [][CallsNext]_callVars

-----------------------------------------------------------------------------
Returning(c) == stage[c] \in {"report", "count", "blame"}

\* Whatever a caller learns of an answer was verified: a result, a status and a
\* complaint about a field are never those of an answer whose signature is
\* wrong, and a result is only returned with status OK and all its fields.
OnlyVerifiedReturned ==
  \A c \in Callers : Returning(c) /\ reply[c] # NoReply /\ err[c] \notin {"callback", "signature"} =>
    /\ reply[c].verifies
    /\ err[c] = "nil" => reply[c].status = OK /\ reply[c].complete

Idle == \A c \in Callers : stage[c] = "idle"

\* Number of past calls with one of these errors.
past(errors, callers) ==
  Cardinality({h \in history : h.err \in errors /\ h.by \in callers})

Errors == {h.err : h \in history} \ {"nil"}

\* When no call is under way, PoolStat shows every failed call exactly once and
\* no call twice, with several callers and with the first monitor created in a
\* race; a call that failed for want of a signer and the call of Dial are the
\* ones it does not know of.
StatisticsAddUp ==
  Idle /\ monitors # <<>> =>
    LET m == monitors[Len(monitors)] IN
    /\ m.errors = past(Errors \ {"ErrMissingSigner", "panic"}, {"direct", "wrapper"})
    /\ m.requests <= past(Errors \cup {"nil"}, {"direct", "wrapper"})

operations == {"dial", "direct", "wrapper"}

\* What tells of the node or of the connection, and what does not.
connectionErrors == {"transport", "signature", "missing", "invalid"} \cup DOMAIN commonCodes
requestErrors == {"nil", "split", "panic"} \cup (Types \ DOMAIN commonCodes)

\* Of an error on the connection the node hears at least once, whoever has called
\* and whatever else goes on at the same time; and as long as every call has
\* succeeded or was answered with a status that tells of the request, it hears of
\* nothing, waits with all their polls included.
NodeBlamed ==
  Idle => /\ past(connectionErrors, operations) <= blamed
          /\ (\A h \in history : h.err \in requestErrors) => blamed = 0
=============================================================================
