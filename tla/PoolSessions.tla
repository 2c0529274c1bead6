---------------------------- MODULE PoolSessions ----------------------------
(***************************************************************************)
(* Automatic sessions of the pool: the token cache shared by all callers   *)
(* (pool/cache.go), the session kept per node by clientWrapper, the epochs *)
(* learned from responses, and the two request paths that use them:        *)
(*   deprecated API  openDefaultSession, call, checkSessionTokenErr        *)
(*                   (pool/pool.go);                                       *)
(*   current API     withinContainerSession, initSession (pool/session.go).*)
(* The storage nodes are external: a session lives until its expiration    *)
(* epoch or the restart of the node that opened it, whichever is first     *)
(* (client.SessionCreate: "The session lifetime coincides with the server  *)
(* lifetime").                                                             *)
(***************************************************************************)
EXTENDS Integers, FiniteSets

CONSTANTS
  Nodes,      \* addresses of the pool's nodes
  Longer,     \* Longer[n]: other addresses that begin with the string n
  Signers,    \* keys requests are signed with
  Callers,    \* goroutines issuing object operations
  Signer,     \* Signer[k]: the key of caller k
  PoolSigner, \* the key Dial opens the first sessions with
  Wrapped,    \* callers that use the deprecated API: PutObject, or the delete of DeleteObject
  Streaming,  \* those of them that put objects with a payload
  Probers,    \* health checks, whose answers carry the epoch too
  Scopes,     \* pairs of a verb and a container
  Base,       \* scope of the keys formCacheKey makes: none
  None,       \* a nil token
  CacheSize,  \* capacity of the LRU cache
  Duration,   \* InitParameters.sessionExpirationDuration
  MaxUint,    \* math.MaxUint64
  MaxEpoch,   \* bound of the model: last epoch reached
  MaxFaults   \* bound of the model: restarts, failed RPCs and failed checks

Keys == Nodes \X Signers \X (Scopes \cup {Base})

\* A session: where, by whom and in which life of the node it was opened, and
\* its expiration.  Tokens of the same session that are bound to different
\* scopes are told apart by the cache key only.
Tokens == [node : Nodes, owner : Signers, life : 0..MaxFaults, exp : 0..MaxUint]

ASSUME SessionsAssumption ==
  /\ Longer \in [Nodes -> SUBSET Nodes]
  /\ Signer \in [Callers -> Signers] /\ PoolSigner \in Signers
  /\ Wrapped \subseteq Callers /\ Streaming \subseteq Wrapped
  /\ Callers \cap Probers = {}
  /\ Base \notin Scopes
  /\ None \notin Tokens
  /\ {CacheSize, Duration} \subseteq Nat \ {0}
  /\ {MaxUint, MaxEpoch, MaxFaults} \subseteq Nat
  /\ MaxEpoch <= MaxUint

VARIABLES
  epoch,        \* epoch of the network
  life,         \* number of restarts of each node
  faults,       \* faults so far
  cache,        \* sessionCache.cache: the keys present and their tokens
  cacheEpoch,   \* sessionCache.currentEpoch
  wrapEpoch,    \* clientWrapper.epoch per node
  nodeSession,  \* clientWrapper.nodeSession per node
  pc,           \* position of each caller and prober
  at,           \* node a caller or prober talks to
  key,          \* cache key of a caller's request
  heard,        \* epoch an answer carried
  tok,          \* token a caller holds
  result        \* how the caller's last request ended

nodeVars  == <<epoch, life, faults>>
epochVars == <<cacheEpoch, wrapEpoch>>
vars == <<nodeVars, cache, epochVars, nodeSession, pc, at, key, heard, tok, result>>

-----------------------------------------------------------------------------
(* sessionCache *)

ExpiredAt(t, e) == t.exp < e

CacheRemove(keys) == [x \in DOMAIN cache \ keys |-> cache[x]]

\* Put of a key; a full LRU drops another one.  Which one depends on the order
\* of use, which the model leaves open.
CachePut(x, t) ==
  LET put(kept) == cache' = [y \in kept \cup {x} |-> IF y = x THEN t ELSE cache[y]]
  IN  IF x \in DOMAIN cache \/ Cardinality(DOMAIN cache) < CacheSize
      THEN put(DOMAIN cache)
      ELSE \E dropped \in DOMAIN cache : put(DOMAIN cache \ {dropped})

\* Keys begin with the address: a prefix takes the keys of longer addresses too.
KeysWithPrefix(n) == {x \in DOMAIN cache : x[1] = n \/ x[1] \in Longer[n]}

\* cache.DeleteByPrefix and SetNodeSession(nil), which follow each other in
\* checkSessionTokenErr and in the health check of a dead node.
Forget(n) ==
  /\ cache' = CacheRemove(KeysWithPrefix(n))
  /\ nodeSession' = [nodeSession EXCEPT ![n] = None]

\* Mutant of formCacheKey: the address is left out.
KeyWithoutNode(n, s) == <<CHOOSE m \in Nodes : TRUE, s, Base>>

formCacheKey(n, s) == <<n, s, Base>>

cacheKeyForSession(n, s, scope) == <<n, s, scope>>

\* GetNodeSession hides a token that has expired.
GetNodeSession(n) ==
  IF nodeSession[n] # None /\ ~ExpiredAt(nodeSession[n], wrapEpoch[n])
  THEN nodeSession[n] ELSE None

\* Expiration requested from the node, without wrapping around.
Expiration(e) == IF MaxUint - e < Duration THEN MaxUint ELSE e + Duration

-----------------------------------------------------------------------------
\* Dial has put a session of the pool's signer into the cache for every node
\* it could connect to, at least one.
Dialed(nodes) ==
  [x \in {formCacheKey(n, PoolSigner) : n \in nodes} |->
     [node |-> x[1], owner |-> PoolSigner, life |-> 0, exp |-> Expiration(0)]]

Init ==
  /\ epoch = 0
  /\ life = [n \in Nodes |-> 0]
  /\ faults = 0
  /\ \E nodes \in SUBSET Nodes :
       nodes # {} /\ Cardinality(nodes) <= CacheSize /\ cache = Dialed(nodes)
  /\ cacheEpoch = 0
  /\ wrapEpoch = [n \in Nodes |-> 0]
  /\ nodeSession = [n \in Nodes |-> None]
  /\ pc = [x \in Callers \cup Probers |-> "idle"]
  /\ at \in [Callers \cup Probers -> Nodes]
  /\ key = [k \in Callers |-> formCacheKey(at[k], Signer[k])]
  /\ heard = [x \in Callers \cup Probers |-> 0]
  /\ tok = [k \in Callers |-> None]
  /\ result = [k \in Callers |-> "none"]

Goto(x, label) == pc' = [pc EXCEPT ![x] = label]

\* The caller returns; its locals are gone.
Return(k, res) ==
  /\ Goto(k, "idle")
  /\ tok' = [tok EXCEPT ![k] = None]
  /\ heard' = [heard EXCEPT ![k] = 0]
  /\ result' = [result EXCEPT ![k] = res]

-----------------------------------------------------------------------------
(* A request: find a token *)

\* connection() gives a node; the cache key is formed from its address.
Request(k) ==
  /\ pc[k] = "idle"
  /\ Goto(k, "get")
  /\ \E n \in Nodes :
       /\ at' = [at EXCEPT ![k] = n]
       /\ \/ /\ k \in Wrapped
             /\ key' = [key EXCEPT ![k] = formCacheKey(n, Signer[k])]
          \/ /\ k \notin Wrapped
             /\ \E s \in Scopes :
                  key' = [key EXCEPT ![k] = cacheKeyForSession(n, Signer[k], s)]
  /\ UNCHANGED <<nodeVars, cache, epochVars, nodeSession, heard, tok, result>>

\* cache.Get: a hit is a token that has not expired at the known epoch.
CacheHit(k) ==
  /\ pc[k] = "get"
  /\ key[k] \in DOMAIN cache /\ ~ExpiredAt(cache[key[k]], cacheEpoch)
  /\ tok' = [tok EXCEPT ![k] = cache[key[k]]]
  /\ Goto(k, "send")
  /\ UNCHANGED <<nodeVars, cache, epochVars, nodeSession, at, key, heard, result>>

\* Mutant of CacheMiss: the deprecated API uses the node's session as well.
CacheMissShared(k) ==
  /\ pc[k] = "get"
  /\ key[k] \in DOMAIN cache => ExpiredAt(cache[key[k]], cacheEpoch)
  /\ cache' = CacheRemove({key[k]})
  /\ Goto(k, "nodeSession")
  /\ UNCHANGED <<nodeVars, epochVars, nodeSession, at, key, heard, tok, result>>

\* On a miss the current API first asks the wrapper for the node's session.
CacheMiss(k) ==
  /\ pc[k] = "get"
  /\ key[k] \in DOMAIN cache => ExpiredAt(cache[key[k]], cacheEpoch)
  /\ cache' = CacheRemove({key[k]})
  /\ Goto(k, IF k \in Wrapped THEN "networkInfo" ELSE "nodeSession")
  /\ UNCHANGED <<nodeVars, epochVars, nodeSession, at, key, heard, tok, result>>

NodeSession(k) ==
  /\ pc[k] = "nodeSession"
  /\ tok' = [tok EXCEPT ![k] = GetNodeSession(at[k])]
  /\ Goto(k, IF GetNodeSession(at[k]) # None THEN "put" ELSE "networkInfo")
  /\ UNCHANGED <<nodeVars, cache, epochVars, nodeSession, at, key, heard, result>>

-----------------------------------------------------------------------------
(* Open a session: initSessionForDuration, initSession *)

\* The answer of the node is there: its epoch is compared with the two known
\* ones (clientWrapper's callback and sessionCache.updateEpoch) ...
HearEpoch(x) ==
  /\ pc[x] \in {"networkInfo", "probe"}
  /\ heard' = [heard EXCEPT ![x] = epoch]
  /\ Goto(x, IF epoch > cacheEpoch
             THEN IF epoch > wrapEpoch[at[x]] THEN "storeBoth" ELSE "storeCache"
             ELSE IF epoch > wrapEpoch[at[x]] THEN "storeWrap"
             ELSE IF x \in Callers THEN "create" ELSE "idle")
  /\ UNCHANGED <<nodeVars, cache, epochVars, nodeSession, at, key, tok, result>>

\* ... and stored afterwards: a load and a store, so an older value can
\* overwrite a newer one that another goroutine stored in between.
StoreEpoch(x) ==
  /\ pc[x] \in {"storeBoth", "storeCache", "storeWrap"}
  /\ cacheEpoch' = IF pc[x] = "storeWrap" THEN cacheEpoch ELSE heard[x]
  /\ wrapEpoch' = IF pc[x] = "storeCache" THEN wrapEpoch
                  ELSE [wrapEpoch EXCEPT ![at[x]] = heard[x]]
  /\ heard' = IF x \in Callers THEN heard ELSE [heard EXCEPT ![x] = 0]
  /\ Goto(x, IF x \in Callers THEN "create" ELSE "idle")
  /\ UNCHANGED <<nodeVars, cache, nodeSession, at, key, tok, result>>

\* The node opens a session for the signer.  (Its answer carries the epoch as
\* well; the race of these updates is the one above.)
SessionCreate(k) ==
  /\ pc[k] = "create"
  /\ tok' = [tok EXCEPT ![k] = [node |-> at[k], owner |-> Signer[k],
                                life |-> life[at[k]], exp |-> Expiration(heard[k])]]
  /\ heard' = [heard EXCEPT ![k] = 0]
  /\ Goto(k, IF k \in Wrapped THEN "put" ELSE "setNodeSession")
  /\ UNCHANGED <<nodeVars, cache, epochVars, nodeSession, at, key, result>>

SetNodeSession(k) ==
  /\ pc[k] = "setNodeSession"
  /\ nodeSession' = [nodeSession EXCEPT ![at[k]] = tok[k]]
  /\ Goto(k, "put")
  /\ UNCHANGED <<nodeVars, cache, epochVars, at, key, heard, tok, result>>

Put(k) ==
  /\ pc[k] = "put"
  /\ CachePut(key[k], tok[k])
  /\ Goto(k, "send")
  /\ UNCHANGED <<nodeVars, epochVars, nodeSession, at, key, heard, tok, result>>

-----------------------------------------------------------------------------
(* The operation itself *)

\* The node knows the session.
Valid(t) == t.life = life[t.node] /\ ~ExpiredAt(t, epoch)

SendAccepted(k) ==
  /\ pc[k] = "send"
  /\ Valid(tok[k])
  /\ Return(k, "accepted")
  /\ UNCHANGED <<nodeVars, cache, epochVars, nodeSession, at, key>>

\* SessionTokenNotFound or SessionTokenExpired: the deprecated API evicts, the
\* current one returns the error.
SendRefused(k) ==
  /\ pc[k] = "send"
  /\ ~Valid(tok[k])
  /\ \/ /\ k \in Wrapped
        /\ Goto(k, "evict")
        /\ UNCHANGED <<heard, tok, result>>
     \/ k \notin Wrapped /\ Return(k, "refused")
  /\ UNCHANGED <<nodeVars, cache, epochVars, nodeSession, at, key>>

\* A put that the node refuses while the payload is written: Write gives io.EOF,
\* and objectPut returns that without a Close, which would have given the status.
\* checkSessionTokenErr finds nothing to do.
PutCutShort(k) ==
  /\ pc[k] = "send" /\ k \in Streaming
  /\ ~Valid(tok[k])
  /\ Return(k, "cutShort")
  /\ UNCHANGED <<nodeVars, cache, epochVars, nodeSession, at, key>>

\* Mutant of checkSessionTokenErr: only the node's own session is dropped.
RefusedButCached(k) ==
  /\ pc[k] = "evict"
  /\ nodeSession' = [nodeSession EXCEPT ![at[k]] = None]
  /\ Return(k, "refused")
  /\ UNCHANGED <<nodeVars, cache, epochVars, at, key>>

checkSessionTokenErr(k) ==
  /\ pc[k] = "evict"
  /\ Forget(at[k])
  /\ Return(k, "refused")
  /\ UNCHANGED <<nodeVars, epochVars, at, key>>

-----------------------------------------------------------------------------
(* Health checks *)

ProbeStart(x) ==
  /\ pc[x] = "idle"
  /\ \E n \in Nodes : at' = [at EXCEPT ![x] = n]
  /\ Goto(x, "probe")
  /\ UNCHANGED <<nodeVars, cache, epochVars, nodeSession, key, heard, tok, result>>

\* updateInnerNodesHealth finds the node dead.
ProbeFails(x) ==
  /\ pc[x] = "probe" /\ faults < MaxFaults
  /\ faults' = faults + 1
  /\ Forget(at[x])
  /\ Goto(x, "idle")
  /\ UNCHANGED <<epoch, life, epochVars, at, key, heard, tok, result>>

-----------------------------------------------------------------------------
(* Faults and time *)

\* An RPC of a request fails for a reason that is not about the session.
RPCFails(k) ==
  /\ pc[k] \in {"networkInfo", "create", "send"} /\ faults < MaxFaults
  /\ faults' = faults + 1
  /\ Return(k, "failed")
  /\ UNCHANGED <<epoch, life, cache, epochVars, nodeSession, at, key>>

\* A node restarts and loses the sessions it opened.
NodeRestarts(n) ==
  /\ faults < MaxFaults
  /\ faults' = faults + 1
  /\ life' = [life EXCEPT ![n] = @ + 1]
  /\ UNCHANGED <<epoch, cache, epochVars, nodeSession, pc, at, key, heard, tok, result>>

NewEpoch ==
  /\ epoch < MaxEpoch
  /\ epoch' = epoch + 1
  /\ UNCHANGED <<life, faults, cache, epochVars, nodeSession, pc, at, key, heard, tok, result>>

-----------------------------------------------------------------------------
CallerNext(k) ==
  \/ CacheHit(k) \/ CacheMiss(k) \/ NodeSession(k)
  \/ HearEpoch(k) \/ StoreEpoch(k) \/ SessionCreate(k) \/ SetNodeSession(k) \/ Put(k)
  \/ SendAccepted(k) \/ SendRefused(k) \/ PutCutShort(k) \/ checkSessionTokenErr(k)

Next ==
  \/ \E k \in Callers : Request(k) \/ CallerNext(k) \/ RPCFails(k)
  \/ \E x \in Probers : ProbeStart(x) \/ HearEpoch(x) \/ StoreEpoch(x) \/ ProbeFails(x)
  \/ \E n \in Nodes : NodeRestarts(n)
  \/ NewEpoch

Spec == Init /\ [][Next]_vars

(* Fairness: goroutines run, RPCs end, and callers keep issuing requests (a *)
(* caller that gives up is of no interest to the liveness property).        *)
FairSpec ==
  /\ Spec
  /\ \A k \in Callers : WF_vars(CallerNext(k)) /\ WF_vars(Request(k))

-----------------------------------------------------------------------------
(* Properties *)

\* Values of the variables.
TypeOK ==
  /\ epoch \in 0..MaxEpoch
  /\ life \in [Nodes -> 0..MaxFaults]
  /\ faults \in 0..MaxFaults
  /\ DOMAIN cache \subseteq Keys
  /\ \A x \in DOMAIN cache : cache[x] \in Tokens
  /\ cacheEpoch \in 0..MaxEpoch
  /\ wrapEpoch \in [Nodes -> 0..MaxEpoch]
  /\ nodeSession \in [Nodes -> Tokens \cup {None}]
  /\ pc \in [Callers \cup Probers ->
              {"idle", "get", "nodeSession", "networkInfo", "probe", "storeBoth", "storeCache",
               "storeWrap", "create", "setNodeSession", "put", "send", "evict"}]
  /\ at \in [Callers \cup Probers -> Nodes]
  /\ key \in [Callers -> Keys]
  /\ heard \in [Callers \cup Probers -> 0..MaxEpoch]
  /\ tok \in [Callers -> Tokens \cup {None}]
  /\ result \in [Callers -> {"none", "accepted", "refused", "cutShort", "failed"}]

\* A request never carries a session of another node, in either API: not after
\* an eviction, a restart or a reuse of the node's session.
SessionOfTheNode ==
  \A k \in Callers : pc[k] \in {"put", "send"} => tok[k].node = at[k]

\* A request of the deprecated API carries a session opened by its own signer,
\* whatever callers of the current API put into the same cache.
SessionOfTheSigner ==
  \A k \in Wrapped : pc[k] \in {"put", "send"} => tok[k].owner = Signer[k]

\* Sessions never outlive a node unnoticed in the deprecated API: once restarts,
\* failures and epochs are over, all requests of a caller that keeps trying are
\* accepted, whoever shares the cache with it.  The caller must be one that gets to
\* see the status of a refusal; RefusedTokenRemoved is about the others.
AutoSessionWorks ==
  \A k \in Wrapped \ Streaming : <>[](result[k] = "accepted")

\* "removes session token from cache in case of token error": when the deprecated
\* API returns from a request that the node has refused for its session, the
\* session is no longer what the next request of that caller would take.
RefusedTokenRemoved ==
  [][\A k \in Wrapped :
       pc[k] # "idle" /\ pc'[k] = "idle" /\ result'[k] \in {"refused", "cutShort"} =>
         (key[k] \in DOMAIN cache' => cache'[key[k]] # tok[k])]_vars
=============================================================================
