# A TLA+ verification of neofs-sdk-go

This directory models the parts of the SDK that have state, concurrency and failure to get
wrong, checks the models with TLC on small instances and proves the most important facts with
TLAPS for every instance. Paths such as `pool/pool.go` are relative to the repository.
`PROJECT.json` maps every definition to the lines it models and lists runs, mutants, findings,
hazards and theorems.

## 1. Inventory

| Component | State | Operations | What is hard |
|---|---|---|---|
| `pool`: health and balancing (`pool.go`, `sampler.go`) | per node: a health flag, an error counter, the current client; per priority: a sampler; the rebalance routine | `Dial`, `Close`, rounds of `restartIfUnhealthy`, `connection`, every request | requests, two levels of check goroutines and `Close` share flags and samplers without one lock |
| `pool`: automatic sessions (`cache.go`, `session.go`, `object.go`) | LRU cache of tokens, a session per node, two copies of the current epoch | get, open, put, evict, expire, update epoch | check-then-act on the cache and the epochs, node restarts, two request paths over one cache |
| `object/slicer` | buffer, two running hashes, size counter, split flags, list of children | `Write`, `Close`, `Put` | exact fills, order of the resets, a failure at any object |
| `waiter`, wait functions of `pool` | poll timer, context, wait timeout | send an operation, poll until confirmed | timer against context against answer; nodes that lag; other users |
| `client`: object streams | tail of the last chunk, remaining length, sticky error | `Read`, `Write`, `Close`, `Iterate` | chunk borders, early end, error reported late |
| `client`: unary calls, signing, statuses | call context, layers of headers | `processCall`, sign and verify, map statuses both ways | which of several errors wins; a structure that is used again; several hops |
| `object/relations` | the part of the chain found so far | restore a split chain by calls of an executor | runs beside the writer; missing links, a choice between three ways, headers that are wrong |
| `netmap` | parsed policy, network map | filters, selectors, placement | numeric edges, fallback of selectors |
| `eacl`, `container/acl` | tables whose records and targets share arrays, 32-bit masks | build, compare, encode, `CalculateAction`; bits per operation and role | order of records, unmatched filters, sharing, bits in another order than their constants |
| `session`, `bearer` | token fields and their flags | setters, sign, encode, decode, assertions | reading into a variable that is used, setters after signing |
| `stat` | counters per node and method | concurrent `OperationCallback`, `Statistic` | the first call of a node creates its monitor |
| value types (`accounting`, `checksum`, `version`, `audit`, `reputation`, `storagegroup`, IDs) | fields | setters, encodings | little |
| `netmap/parser` | | | generated by ANTLR, left out |
| `crypto` | | sign, verify | cryptography, left out; signatures are symbols elsewhere |

How they interact: the pool owns one `client.Client` per node and hears about the error of an RPC
through the client's statistic callback and, when its own wrapper made the call, from the wrapper
method once more; every answer also
carries the epoch, which reaches the wrapper and the session cache through the response
callback. The health check of a node evicts its sessions. The slicer writes its objects through
a client or the pool; a waiter drives either and polls.

What makes each modelled part correct: a healthy node can be drawn and a dead one is left alone;
`Close` outlasts everything it started; a request carries a live session of the node it goes to;
the objects of a sliced payload are sound one by one and give back exactly the input; a stream
gives or takes every byte once, in order, and tells an end from a failure; a wait ends with success
only if what was asked for came about; a call returns only what was verified, and every call is
counted; and the values that decide about access and placement decide the same after they were
built, sent, read and compared.

## 2. Modules

| Module | Models |
|---|---|
| `PoolHealth` | life cycle of `Pool`, `clientStatusMonitor`, rebalancing rounds, requests |
| `PoolSessions` | session cache, node sessions, epochs, both request paths |
| `Sampler` | `newSampler` and `Next`: the alias tables behind a draw |
| `Slicer`, `SlicerPut` | `PayloadWriter`; the read loop of `slice` on top of it |
| `PayloadStream`, `SlicerRefinement` | what a payload stream promises; the mapping under which `Slicer` keeps it |
| `Relations` | `object/relations.Get`, composed with `Slicer` |
| `ObjectReader`, `ObjectWriter` | the streams of the client |
| `Waiter` | `waiter.poll` and `pool.waitFor` with the operations that use them |
| `Calls` | unary operations of the client, the wrapper of the pool, `stat` |
| `Status`, `Sign` | `client/status`; `client/sign.go` |
| `Eacl`, `BasicACL`, `Tokens`, `Placement` | packages `eacl`, `container/acl`, `session` and `bearer`, `netmap` |
| `MCPoolHealth`, `MCPoolSessions`, `MCWaiter`, `MCClient`, `MCValues` | constants of the runs; the last two put several independent parts into one run |
| `PoolHealth_proofs`, `PoolSessions_proofs`, `ObjectReader_proofs`, `Waiter_proofs`, `Placement_proofs` | theorems about the module of that name |
| `Slicer_proofs` | theorems about `Slicer`, `SlicerRefinement` and `Relations` |
| `Client_proofs` | theorems about `Calls`, `Status`, `Sign` and `ObjectWriter` |
| `Values_proofs` | theorems about `Eacl`, `BasicACL`, `Tokens` and `Sampler` |

Definitions commented as a *mutant* of another one are not part of a specification. Each is the
operation with one plausible mistake; `PROJECT.json` pairs it with the property that must notice
when it takes the operation's place.

### PoolHealth

One action is the code between two points where another goroutine can get in: an RPC, an atomic
flag, a mutex section.

- `healthy`, `currentErrorCount` are the fields of `clientStatusMonitor`; `sampled` is what the
  current samplers can draw (clients with positive weight in the last rebuild, everyone if there
  was none); `live` and `healthyChanged` are the locals of `updateInnerNodesHealth`; `phase` and
  `wasHealthy` belong to `restartIfUnhealthy`; `pc`, `inner`, `cli` to a caller.
- A round is `Tick`, then per client `CheckStart`, `ProbeOk` or `ProbeFails`/`ProbeReports`
  (the same error is reported twice), `RedialOk`, `RestartOk` or `RestartFails`, then
  `GroupReturns` per priority with the rebuild, and `RoundReturns`.
- A node answers, fails in a way `updateErrorRate` counts, or fails in one it does not count
  (other API statuses). It changes its mind at any time (`NodeChanges`). After `Close` has
  cancelled the context an RPC of the check may also fail for that reason.
- The draw of `innerPool.connection` is any client the sampler can draw; it misses when an
  unhealthy one can be drawn (all `3n` draws may hit it).

Left out: `clientBuilder` failing (its only implementation cannot); operations that poll after
their RPC (they are in `Waiter`). That the sampler draws exactly the clients of positive weight, or
all of them if there are none, is what `Sampler` shows.

### PoolSessions

The cache is a function from keys to sessions. A key is the node's address, the signer and, in
the current API, verb and container (`Scopes`). `Longer[n]` are addresses that begin with the
string `n`: `DeleteByPrefix` takes their keys too. A session carries what the storage node and
the pool tell apart: node, owner, life of the node (restarts forget sessions), expiration.

`HearEpoch` and `StoreEpoch` are the load and the store of `updateEpoch` and of the wrapper's
callback, so a late store can move an epoch back. `checkSessionTokenErr` follows a refused
request in the deprecated API only, and only if the caller gets to see the status: a put with a
payload (`Streaming`) may be refused while it is written, and then ends with the `io.EOF` of the
write (`PutCutShort`). `AutoSessionWorks` is about the callers that see the status.
`Wrapped` callers put or delete; `DeleteObject` asks for the relatives of the object by the current
API first, which is a request of its own here. LRU order is left open: a full cache drops any entry.
`Init` is the state `Dial` leaves. Storage nodes and epochs are external.

### Sampler

The scaled probabilities are multiplied by the sum of the weights, so the tables are built in exact
integers; rounding of the code's floats is left out. One action is one turn of a loop of `newSampler`:
`Distribute` puts the next index into a work list, `Pair` takes one pair of them; `Scale` and `Drain`,
whose turns do not depend on each other, are whole loops.
`DrawsByWeight` compares the chance of each node under the finished tables with its weight.

### Slicer and Relations

Bytes are positions of the input; the buffer and everything hashed are ranges of positions, so
"the checksum of an object is that of its payload" is the equality of two ranges. `stored` holds
the objects the `ObjectWriter` took, with payload, hashed range, header or stub, split ID,
previous child, children and attached root header. `OverflowFails` and `CloseFails` let the
writer fail with or without having stored the object. `Retry` says whether the caller goes on
after an error of `Write`. An object handed to the writer is taken as serialised at once: the
header structures that the code shares between objects are changed after the write has returned.

`PayloadStream` is the promise: bytes are accepted, nothing can be read under the root ID before
`Close`, and from then on exactly the accepted bytes can be, also when an error is returned.
`SlicerRefinement` computes what can be read by walking back along the previous-child references
from an object with a root header.

In `Relations`, `Get` runs over the objects of `Slicer`, also while `Close` stores them. Every call
of the executor is a step: the head of the root (which answers with the split information), the
search for siblings, the heads of the linking object and of the children. A call may fail, the nodes
may know less than is stored, and one header may name a wrong previous child, so that the walk can
be led back into the chain.

### ObjectReader and ObjectWriter

The three readers share their loop, so `ObjectReader` models them together; `kind` says which one
it is, and the differences are where the code has them: a header and a length for `get`, a length
for `range`, a bare flag instead of an error and `Iterate` for `list`. An item is its position in
what the server sends. There is no wire: the next message is chosen when `stream.Read` is entered,
which is all a reader can tell of an untrusted server. `got` is the history of what the caller
received. Up to `MaxBad` of the IDs of a search are `malformed`: `copyIDBuffers` counts such an ID and
leaves the entry of the buffer as it was, which `got` notes as `Stale`. `InOrder` and
`CleanCloseMeansAll` therefore say that every item that can be read is given once and in its place, and
that a malformed one takes one place; that the caller is not told is in section 4. Lengths are unsigned on the wire and become an `int` (`ToInt`), which may be negative.
A caller stops after a failure, as `io.Reader` asks, and may read on after `io.EOF`.

In `ObjectWriter` the server may refuse the object at any time (`ServerEnds`); the transport may
still take messages after that, and they are lost, or fail with `io.EOF`. `inbox` is what the
server has read. A caller whose `Write` failed may go on with the rest, as `io.Writer` allows. The
ways out of `Close` are one action each. A response whose ID cannot be read makes `Close` return
nil with a zero ID (`CloseStored("invalid")`).

Left out: the statistic callbacks and the parameters of the requests.

### Waiter

The network is a log of the states of the container or its table; a storage node has seen a prefix
of it, and a query goes to any node. Others change the state too. The request only schedules the
change; it may be dropped, or be applied at any time before or after the wait has ended. `poll` has
a ticker (a tick that nobody took is kept, further ones are lost); `waitFor` has a timer that is set
again after each answer, and a timeout of its own. What an answer means is one operator per
operation (`putLogic`, `deleteLogic`, `eaclLogic`) for `poll`, and `waitForAnswered` for the pool; tables
are compared by value here, and `Eacl` is about that comparison.

### Calls, Status, Sign

A call goes through the stages of the code: checks of the arguments (what each of the operations
requires is a table over their names), `writeRequest`, the RPC, `processResponse` with callback,
signature and status in that order, reading of the result, the statistic, and the error
counter if the pool made the call. Three methods of the wrapper then wait for their effect (`waits`):
each poll is a call of the wrapper (`Poll`), what ends the wait is `met`, and of a wait that runs out
(`WaitEnds`) two of the three count the error (`countedWaits`). `NodeBlamed` says what the counter has
to do whoever calls: no error on the connection is missing, and nothing is counted if all calls
succeeded or got a status about the request. What the code counts more than once, or without need, is in
section 4. `reply` says all there is to know of a response. `history` holds
the calls that have returned; equal ones are numbered, so it is a set that counts. The map of
`stat.PoolStat` is a list of the monitors that were created, of which the last is in the map, so a
monitor that replaces another loses its counts.

`Status` converts errors to messages and back over several hops, with defaults of the messages,
details and wrapping. `ErrorSurvives` is about the statuses the package knows and about errors that are
no status. In `Sign` a signature is a symbol (who, and of what); a message carries stacks
of meta and verification headers; the transport damages one part.

### Eacl, BasicACL, Tokens, Placement

A behaviour is a sequence of calls that build one value, and calls that convert or use it.

- `Eacl`: records are built with the package's calls and added. The filters and targets of a record and
  the keys of a target are slices: a number of an array in `arrays` and a length. `AddRecord`,
  `AddRecordTarget` and `TakeRecord` (a copy of one of `Records()`, to make another rule of it) copy
  slices, not arrays. `appended` is Go's `append`: it writes into the array while there is room and else
  makes one with room for as many again (what `growslice` gives for so few elements of these sizes);
  `overwritten` is the loop of `SetTargetECDSAKeys`. `rules` notes each record as it was when it was
  added; `RulesStayAsAdded` compares. Everything that reads a table reads the arrays as they are then
  (`Seen`), so the decision, the wire form and the comparison are checked on tables that share. `ToV2`/`ReadFromV2` convert enumerations,
  typed filter keys and texts. `CalculateAction` is the loops of the code as functions over the
  number of records, filters and targets (`tryRecord` is one turn of the outer one);
  `FirstRuleDecides` compares it with a declarative definition.
- `BasicACL`: the number is the set of its bits; `Rewrite` writes it as hexadecimal text and reads
  it again, with leading zeros or too many digits.
- `Tokens`: one record holds the fields of object sessions, container sessions and bearer tokens
  with the flags of the code. The receiver reads into a variable that may hold an earlier token or
  the rest of a failed read, with the presence checks (`ReadFromV2`, `readHow = "strict"`) or without
  them (`Unmarshal`). `VerifiedIsAsSigned` compares the answers of a token whose signature verifies
  with those noted when that signature was made (`sig.said`).
- `Placement`: filters, selectors and replicas of a policy are added one by one, then
  `ContainerNodes` is asked. A network map is the attributes of each node; the network maps and the
  parts of policies are constants. Filters contain filters or refer to earlier ones; `Height` says
  how deep each is nested, so that the recursions of the code are recursive functions. `match` is
  defined by the number of nested calls that may be used (`MaxDepth`); when they are used up a filter
  has met itself and the call never returns. Nodes are numbered in HRW order; the order of buckets is
  any of `Orders`. `LinesFulfilPolicy` and `RefusedOnlyIfShort` say declaratively what a selection is and when there
  is none, for policies that name things once and ask for at least one node (`Plain`): a refusal needs a
  filter that is not `WellFormed`, a name that does not resolve (`Unresolved`) or too few nodes
  (`ShortOfNodes`), each defined without the operators that model the code; `Met` gives the meaning
  of filters from the innermost up, without the loops of the code. The clauses `SAME` and `DISTINCT`
  are about an attribute: without one every node is a bucket of its own, and the nodes of several
  buckets are joined.

## 3. Runs

| Run | Expected | Checks |
|---|---|---|
| `pool_health` | pass | `TypeOK`, `HealthyIsSampled`, `NothingRunsAfterClose` |
| `pool_health_live` | pass | `CloseEnds`, `NodeServes`, `DeadNodeShunned`, `FailBack` |
| `pool_sessions` | pass | `SessionOfTheNode`, `SessionOfTheSigner` |
| `pool_sessions_live` | pass | `AutoSessionWorks`, deprecated API |
| `pool_sessions_put` | violation | `RefusedTokenRemoved` |
| `slicer` (module `Relations`) | pass | `PayloadWithinLimit`, `MetaMatchesPayload`, `ChainContiguous`, `ChainComplete`, `ImplementsPayloadStream`, `GetReturns` |
| `slicer_put` | violation | `PutStoresInput` |
| `waiter` | pass | `SuccessWasReached`, `DeadlineKept`, `ChangeIsNoticed` |
| `client` | pass | calls: `OnlyVerifiedReturned`, `StatisticsAddUp`, `NodeBlamed`; statuses: `ErrorSurvives`; signatures: `VerifiesAsSigned`; reading: `InOrder`, `LengthReported`, `CleanCloseMeansAll`; writing: `ServerReadsInOrder`, `CloseNilMeansStored`, `RefusalReported` |
| `values` | pass | `FirstRuleDecides`, `DecisionSurvivesWire`, `EqualTablesDecideAlike`, `AllowedIsWhatWasGranted`, `ReadReplacesAll`, `VerifiedIsAsSigned`, `LinesFulfilPolicy`, `RefusedOnlyIfShort`, `DrawsByWeight` |
| `eacl_sharing` | violation | `RulesStayAsAdded` |
| `netmap_replicas` | violation | `LinePerReplica` |

In `client` and `values` a behaviour is about one of several subjects (`subject`), whose variables do
not meet: the state space is the sum of theirs. Extended ACL tables are two subjects, filters, and
records and targets that share arrays; `eacl_sharing` is about the latter alone (`TargetsInit`).

Bounds.

- Pool: two nodes in one inner pool are what the sampler properties are about: one changes, the
  other does or does not; two priorities with one node each are enough for falling back. A threshold
  of 3 lets the counter be reached by a single report, by a double report and across both; the
  liveness run has 2 to stay small. One caller suffices for safety of the flags because all its steps
  can be interleaved with two check goroutines that use the same operations. `MaxConns = 1` keeps
  whether a connection was ever opened.
- Sessions: two callers race over one cache entry, the cache holds one or two entries so that it is
  full, `MaxUint` is within reach of the epochs so that the expiration saturates, `MaxFaults` faults
  are spread over restarts, failed calls and failed checks. One of the two callers of the liveness run
  puts payloads, so the other one has to get along with the dead tokens it leaves behind.
- Slicer: a limit of 3 and 16 bytes give up to six children and every position relative to an object
  border; `Get` may start at any point and one header is wrong.
- Streams: buffers and chunks of up to 3 items meet in every relation, including several chunks in
  one buffer and a tail that outlives a `Read`; a greatest `int` of 3 puts lengths beyond it within
  reach; two of seven IDs may be malformed, next to each other or not (`MaxBad`); pieces of 2 bytes out of 7 give full, partial and repeated pieces.
- Waiter: two nodes, so that one is ahead of the other; two changes by others, so that the state
  asked for can come and go; one failing query.
- Calls: two callers, three calls, so that two first calls race and a third finds the monitor; one
  X-header (two are out of range, see below); a poll is a call, so a wait is polled up to twice; three
  hops and three layers.
- Eacl: two records, and three of filters and targets added and key arrays made (`MaxParts`). An array of
  targets with room to spare needs three targets in one record, hence three records and five parts,
  without keys, in `eacl_sharing`.
- Values: three calls that allow; two setters or
  signatures after the first; four nodes in two network maps (countries of one, two and three nodes,
  and a node without a country; sizes and prices that are missing, numbers, or not numbers), policies
  of at most four filters, selectors and replicas of which at most two of a kind, so that a filter can
  refer to an earlier one or, by a name used twice, to itself, filters nested two deep, and all 24
  bucket orders; up to four nodes of weight up to 3.

The pool never deadlocks, so deadlock is checked there; the others stop when their calls are over or
a bound is met (`CHECK_DEADLOCK FALSE`).

Fairness. Goroutines run; the RPCs of a check end because they run under `nodeRequestTimeout`, a
caller's because of the stream timeout; the timer fires. `CloseReturns` is strongly fair: the
`select` of `startRebalance` chooses at random when the timer and `ctx.Done` are both ready. No
fairness is assumed of nodes, of callers issuing requests (in `PoolSessions` a caller that keeps
trying is what the property is about) or of anyone calling `Close`. Waiter: timers run, queries end,
nodes follow the network; `SelectDone` is strongly fair for the same reason as `CloseReturns`.
Nothing makes the request be applied or the context end; the properties say what follows if they do.
Relations: the calls of the executor end.

## 4. What the violations show

- `slicer_put`: bytes returned together with `io.EOF` are dropped and `Put` succeeds.
- `netmap_replicas`: a replica that names no selector takes the nodes of all selectors, but
  `ContainerNodes` files the nodes of selector number k under line k. With more selectors than
  replicas the index is out of range; with more replicas than selectors a line stays empty and
  another is doubled.
- `pool_sessions_put`: when the node refuses a put while the payload is written, `objectPut` returns the
  `io.EOF` of the write and does not close the writer, so the status is never read; `PutObject` finds no
  session error to act on, and the next put takes the dead session from the cache again.
- `eacl_sharing`: `AddRecordTarget` appends to an array of targets that copies of the record share, so a
  target added to a copy replaces one of a rule that is in the table already. With keys in the instance
  the property fails sooner: `SetTargetECDSAKeys` on a target that a rule was made of changes the keys of
  that rule.

Seen while modelling, without a run:

- pool: when requests notice a dead node before the health check does, the check finds the flag
  down already, reports no change, and the sampler keeps drawing the node; requests then fail over by
  luck (`3n` draws) or end with "no healthy client";
- pool: the current API never evicts a session the node refuses; after a restart of the node
  its requests are refused until the token expires (`pool/object.go:55` does it for the deprecated one);
- pool: the session kept per node is reused for every signer (current API);
- pool: the statistic callback and the wrapper method both report the error of a call, so the error
  threshold is reached after half of the "errors on connection" `SetErrorThreshold` speaks of
  (`pool.go:923`); errors of arguments and of signing, and waits that ran out (`pool.go:370`, `480`),
  count against the node too;
- pool: neither `Close` nor a restart of a pool client closes a gRPC connection, though
  `Pool.Close` is said to release all resources;
- slicer: after a failed first child, another `Write` sends the child with the metadata of zero bytes
  (hence `Retry = FALSE`);
- client: `copyIDBuffers` drops the error of `ReadFromV2`: for an ID it could not read, a search hands out
  what the buffer held before, `Iterate` the ID of the turn before (or a zero one), and ends with nil,
  although `Iterate` is said to return "an error if object can't be read" (`object_search.go:145`);
- client: `DefaultObjectWriter.Close` returns nil when the ID in the response cannot be read;
- client: a payload longer than declared is reported as an overflow only by a `Read` that fills its
  buffer; one that meets the end of the stream first returns `io.EOF`;
- client: `ObjectSearchInit` does not cancel the context of a stream it could not open;
- client: the callback that `ObjectGetInit` installs builds the statistic of a read and never sends it;
  other statistics take the start of a call at its end, so durations are near zero;
- client: `writeXHeadersToMeta` is out of range with two or more pairs;
- client: operations that do not go through `contextCall` never call the response callback;
- status: `UnrecognizedStatusV2` has no `ErrorToV2`, though it is said to implement `StatusV2`
  (`v2.go:23`, `unrecognized.go:12`): a status this version does not know becomes an internal error at
  the next hop, so `ErrorToV2` is no inverse of `ErrorFromV2` there;
- status: statuses of objects, containers and sessions replace their message by the default; a second
  `WriteCorrectMagic` is stored but not read;
- waiter: `poll` may return the error of a query instead of the end of the context that caused it;
- eacl: `Target.ToV2` shares the array of keys with the target, so a message that was made changes with
  it; `AddFormedTarget` makes an array of keys of its own, but its target can be replaced like any other
  by an `append` to a copy of the record;
- session: signing again keeps the first issuer; `AssertContainer` ignores that no container was set,
  which `Unmarshal` lets through;
- netmap: `NumericGT` and its like take an `int64`, and `ContainerNodes` reads the number as unsigned
  (`filter.go:59`): a policy that compares with a negative number is refused (`RefusedOnlyIfShort` is
  about unsigned ones);
- netmap: a selector of count 0 without an attribute and with backup factor 1 divides by zero
  (`selector.go:116`); of two filters with one name the second may refer to itself, and matching then
  recurses for ever; nodes without the attribute form a bucket of their own.

## 5. Proofs

Every theorem holds for every value of the constants that satisfies the named ASSUMEs of the
specification, which TLC evaluates in the runs; the bounds of section 3 are constants, so a theorem
is about any number of calls, nodes, bytes, faults or hops.

`PoolHealth_proofs` (any finite set of clients, any priorities, weights, threshold, callers):

- `TypeCorrect`: `Spec => []TypeOK`.
- `HealthyAlwaysSampled`: `Spec => []HealthyIsSampled`. The inductive invariant is `SamplerInv`.
  `HealthyIsSampled` alone is not inductive: `RestartOk` reports no change when `wasHealthy`, so
  one needs that such a client is in the sampler still (`CheckedFromSampled`), that a check that
  failed leaves the flag down until the rebuild (`DeadStaysDown`), and that checks exist only
  inside their group's part of a round (`RoundShape`).
- `CloseIsQuiet`: `Spec => NothingRunsAfterClose`, from `RoundShape`.

`PoolSessions_proofs` (any nodes, addresses that begin with one another, signers, callers of both
APIs, cache size, epochs and faults):

- `NodeKept`, `SignerKept`: `SessionOfTheNode` and `SessionOfTheSigner` always hold. A token in a
  caller's hand came from the cache, from the wrapper or from the node, so the invariant is about all
  three: what is kept for a node is a session of it (`KeptByNode`), the keys of the deprecated API
  hold sessions of the signer they name (`KeptBySigner`), a request's key names its node and its API
  (`KeyFits`), and a token in hand fits (`TokenFits`). `SignerKept` rests on the two APIs never
  sharing a key and on the deprecated one never reusing the wrapper's session; it does not hold for
  the current API (section 4).
- `SessionTypes`: `TypeOK`; it needs that a node restarts only by a fault (`LifeCounted`).

`Slicer_proofs` (any limit and input, when the caller stops at the first error, `~Retry`):

- `LimitKept`, `MetaCorrect`, `ChainCorrect`: `PayloadWithinLimit`, `MetaMatchesPayload` and
  `ChainContiguous` always hold. The inductive invariant is `SlicerInv`: the buffer, the counter
  and both hashes agree about the bytes since the last child (`WriterInv`), children are stored
  objects (`ChildrenStored`) and the last one is full and ends where the buffer begins
  (`ChainEnds`). `~Retry` cannot be dropped: see the note on the slicer above.
- `SlicerImplements`: `Spec => ImplementsPayloadStream`. What can be read is defined by a recursive
  walk along the references, whose value is shown to be the end of the last object's payload
  (`ReadableOfRoots`) by a least counterexample. The steps then need that references lead back to an
  adjoining object (`Backward`), that nothing stored before `Close` has the root header
  (`Unpublished`), and what an object with the root header or a list of children looks like
  (`Published`). Every step of the slicer is a step of `PayloadStream` or changes nothing there.
- `GetComplete`: `RelationsSpec => []ChainComplete`. `GetInv` adds what `Get` has found so far
  (`Found`), that the walk has collected an end of the chain and goes to strictly earlier objects, so
  that it meets none twice (`Walked`), and what an answer is (`Answered`).

`ObjectReader_proofs` (any greatest `int`, chunk and buffer sizes):

- `ReadInOrder`, `LengthCorrect`, `CleanCloseCorrect`, `ReaderTypes`: `InOrder`, `LengthReported`,
  `CleanCloseMeansAll` and `ReaderTypeOK` always hold, whichever IDs are malformed. The invariant `IInv` says
  that what was given, what the `Read` under way holds and the tail follow each other, readable items in
  their places, and are as many as were sent (`Aligned`),
  that a `Read` that waits has emptied the tail (`Waiting`), that nothing is held back at the end
  (`Ended`), and that `remaining` is the declared length, as an `int`, less what was given
  (`Remaining`).

`Waiter_proofs` (any nodes, changes by others and failures):

- `SuccessIsTrue`: `SuccessWasReached` always holds: both ways to wait return nil only after the
  network has been in the state asked for. `WaiterTypes`: `TypeOK`. The inductive invariant adds
  that the network does not start in that state (`StartsElsewhere`) and that the request is applied
  once (`AppliedOnce`); a node's view is a prefix of the log, so what a query sees the network has been.

`Client_proofs`:

- `ErrorCorrect` (any hops): `StatusSpec => []ErrorSurvives`. The invariant `StatusInv` restates the
  property with the types; the lemmas say what one conversion to a message and back does to each
  type, its message and its details.
- `SignedCorrect` (any layers and signers): `SignSpec => []VerifiesAsSigned`. `SignInv`: a message is
  as it was written, or it does not verify. The lemma on a new layer (`OnTop`) shows that the layers
  below are verified as before; damage of each part fails the layer that signed it.
- `VerifiedCorrect`, `StatisticsCorrect`, `BlameCorrect` (any finite set of callers, any number of
  calls): `OnlyVerifiedReturned`, `StatisticsAddUp` and `NodeBlamed` always hold. `CallsInv` says for
  each caller what its stage implies, that `Dial` calls alone, that there is one monitor at most, and
  that the counters are what the finished calls amount to plus the calls under way that were counted
  already (`RequestTally`, `ErrorTally`, `BlameTally`, by cardinalities of sets).
- `WriteInOrder`, `CloseNilCorrect`, `RefusalCorrect` (any `maxChunkLen`, payload and number of
  failures of the signer): `ServerReadsInOrder`, `CloseNilMeansStored`
  and `RefusalReported` always hold. The inductive invariant `IInv` adds that a server that still
  reads has read the header and that pieces are sent with the chunk part (`Progress`), that an error
  other than `io.EOF` has the signer or a broken stream behind it (`Blame`), and `NoStreamLeft`:
  nothing happens to a stream after `Close`, which is `StreamsEnd`.

`Values_proofs` (any number of calls, so tables, lists and numbers of any size):

- `FirstRuleCorrect`, `WireCorrect`, `EqualCorrect`: `FirstRuleDecides`, `DecisionSurvivesWire` and
  `EqualTablesDecideAlike` always hold. `LoopIs` gives the value of the loop over the records after
  each turn: its start, or the answer of the first record that applies. Equal tables then have the
  same first record and the same answer (`EqualDecide`), and `TablesInv` keeps that the table that was
  read equals the one that was sent, up to what the wire form does to enumerations and filter keys.
  That slices lie within arrays that exist is `ArraysInv`; what the two kinds of writes do to an array
  and to the slices that share it are the lemmas `AppendedIs`, `OverwrittenIs` and `SlicesKept`.
- `ReadCorrect`, `SignatureCorrect`: `TokenSpec => []ReadReplacesAll` and `[]VerifiedIsAsSigned`.
  `TokenInv`: every signature around was made of the body of some token and noted what that token
  answered; the fields a token's type does not have are untouched; after a strict read all fields that
  are asked about agree with the sender's. The signed body determines the answers (`Bodies`,
  `AgreeAnswer`), and each kind of damage is refused or leaves a body the signature does not fit
  (`DamageNoticed`).
- `GrantedCorrect`: `ACLSpec => []AllowedIsWhatWasGranted`. `ACLInv`: the bits are those of what was
  granted. It rests on the bits of two pairs or marks being different (`BitsDiffer`, `MarksAre`), on
  the digits of each name (`PrivateSays` and the like), and on `ReadAsWritten`: the text of a 32-bit
  number, with zeros in front, is read as that number (`LongRefused` is about too many digits).
- `DrawsCorrect`: `SamplerSpec => []DrawsByWeight`, for any number of nodes and any weights. `DrawInv`:
  what all columns owe a node, the finished ones by probability and alias and those on a work list by
  what is left of them, is the node's weight (`Building`); what the columns on the lists have above a
  full one equals what others lack, so that the lists run dry together (`NoneLeft`). A pair changes two
  terms of each sum and not the sum (`PairExchanges`, by `SumExchange`). The laws of `Sum` are proved by
  a least counterexample (`Inductive`).

`Placement_proofs` (any network maps, policies of any size with filters nested to any depth, any
backup factors, any order of the buckets):

- `LinesFulfilPolicyHolds`, `RefusedOnlyIfShortHolds`: `PlacementSpec => []LinesFulfilPolicy` and
  `[]RefusedOnlyIfShort`. `PlacementInv` says that the outcome is `Placed` of the policy, which no call
  changes any more (`SamePlaced`); all the rest is what `Placed` computes. Lists: a sorted set is a list
  of its members without repetition (`SortedIs`), joined buckets that share no node keep that and add
  up their lengths (`FlattenApart`), nodes that are dealt out end in one bucket each and no bucket
  passes the limit (`DealtOutApart`). Buckets: the base has one bucket for each group of accepted nodes
  (`BaseOfNodes`, `BaseOfValues`), and `SelectionOfIs` finds that buckets are too few exactly when the
  network map is too small (`TooFew`). Filters: a filter that was processed refers only to earlier ones
  (`TopReady`, `InnerReady`), so matching the k-th filter needs no more nested calls than the filters
  up to it are deep together; with that many calls the answer of the code and the meaning agree
  (`AgreeStep`, `MatchMeans`). Then a selector gets what it asks for or there is not enough
  (`SelectionMeans`), and so does a replica (`ReplicaMeans`). A filter that is well-formed by the
  declarative definition passes the checks of the code (`WellFormedPasses`). What a filter without inner ones says of
  a node (`matchKeyValue`) plays no part, so the numbers the model knows are no restriction. Assumed of
  the constants (`PlacementAssumption`): counts are numbers, filters are finite trees, prices and
  capacities are numbers where they are given (`NodeInfo.ReadFromV2` refuses others).

Looking for these proofs has changed the models. `Placement` had recursive operators, which the
prover does not read, and policies from a fixed list. An earlier form of
`VerifiedIsAsSigned` held within the bound of its run and was false beyond it; the one here compares
with the answers noted in the signature itself. `CASE` expressions with arms that overlap leave the
choice open in TLA+ (TLC takes the first); they are nested IFs now, as in the code.

Only model-checked:

- everything that needs fairness: `CloseEnds`, `NodeServes`, `DeadNodeShunned`, `FailBack`,
  `AutoSessionWorks`, `ChangeIsNoticed`, `DeadlineKept`, `GetReturns` (the prover handles neither
  fairness nor ENABLED). Every invariant and action property the runs check is proved.

## 6. Not modelled

- `netmap/parser` is generated by ANTLR; text forms of policies and filters go with it.
- Weights of nodes for HRW (`netmap/aggregator.go`) and `PlacementVectors`, which only sorts: both
  give an order, and the model takes any.
- `object`, identifiers, `container`, node and network information, `accounting`, `checksum`,
  `version`, `audit`, `reputation`, `storagegroup`: setters and encodings of one message without an
  order of calls that could go wrong beyond what their unit tests do.
- `crypto`: signatures and hashes are symbols.
- `pool`: options, and the wrapper methods one by one; `writePayload` between a reader and a writer.

## 7. Plan

What is left: `writePayload` as a composition of `ObjectReader` and `ObjectWriter`: an object copied
from one node to another is the same or an error. Then the text form of policies, which needs a model
of the parser's grammar.
