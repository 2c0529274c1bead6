-------------------------- MODULE PoolSessions_proofs --------------------------
(***************************************************************************)
(* The sessions of the pool for any nodes, signers, callers, cache size    *)
(* and addresses that are prefixes of each other: a request carries a      *)
(* session of its node and, in the deprecated API, of its signer.          *)
(***************************************************************************)
EXTENDS PoolSessions, TLAPS

USE SessionsAssumption

-----------------------------------------------------------------------------
(* The inductive invariant. *)

\* A node restarts only by a fault.
LifeCounted == \A n \in Nodes : life[n] <= faults

\* Every token the pool keeps is one of the node it is kept for.
KeptByNode ==
  /\ \A x \in DOMAIN cache : cache[x].node = x[1]
  /\ \A n \in Nodes : nodeSession[n] # None => nodeSession[n].node = n

\* The keys of the deprecated API hold sessions of the signer they name; the
\* keys of the current API, which may not, have a scope.
KeptBySigner == \A x \in DOMAIN cache : x[3] = Base => cache[x].owner = x[2]

\* The key of a request names its node, and tells which API it belongs to.
KeyFits ==
  \A k \in Callers :
    /\ key[k][1] = at[k]
    /\ k \in Wrapped => key[k] = formCacheKey(at[k], Signer[k])
    /\ k \notin Wrapped /\ pc[k] # "idle" => key[k][3] # Base

\* A caller that has got a token got one of its node; one of the deprecated
\* API never touches the session of the wrapper.
Holding == {"setNodeSession", "put", "send", "evict"}

TokenFits ==
  \A k \in Callers :
    /\ pc[k] \in Holding => tok[k] \in Tokens /\ tok[k].node = at[k]
    /\ k \in Wrapped => pc[k] \notin {"nodeSession", "setNodeSession"}
    /\ k \in Wrapped /\ pc[k] \in Holding => tok[k].owner = Signer[k]

IInv == TypeOK /\ LifeCounted /\ KeptByNode /\ KeptBySigner /\ KeyFits /\ TokenFits

-----------------------------------------------------------------------------
(* Facts about the operators. *)

LEMMA ExpirationType == \A e \in 0..MaxEpoch : Expiration(e) \in 0..MaxUint
  BY DEF Expiration

LEMMA FormedKey ==
  ASSUME NEW n \in Nodes, NEW s \in Signers
  PROVE  /\ formCacheKey(n, s) \in Keys
         /\ formCacheKey(n, s)[1] = n /\ formCacheKey(n, s)[2] = s /\ formCacheKey(n, s)[3] = Base
  BY DEF formCacheKey, Keys

LEMMA ScopedKey ==
  ASSUME NEW n \in Nodes, NEW s \in Signers, NEW scope \in Scopes
  PROVE  /\ cacheKeyForSession(n, s, scope) \in Keys
         /\ cacheKeyForSession(n, s, scope)[1] = n
         /\ cacheKeyForSession(n, s, scope)[3] # Base
  BY DEF cacheKeyForSession, Keys

\* What a cache may hold, as a predicate of its contents.
CacheSound(c) ==
  /\ DOMAIN c \subseteq Keys
  /\ \A x \in DOMAIN c : c[x] \in Tokens /\ c[x].node = x[1]
  /\ \A x \in DOMAIN c : x[3] = Base => c[x].owner = x[2]

\* Removing keys keeps the cache sound, whichever they are.
LEMMA RemoveSound ==
  ASSUME CacheSound(cache), NEW keys
  PROVE  CacheSound(CacheRemove(keys))
  BY DEF CacheSound, CacheRemove

\* So does a Put, whichever entry a full cache drops for it.
LEMMA PutSound ==
  ASSUME CacheSound(cache), NEW x \in Keys, NEW t \in Tokens, t.node = x[1],
         x[3] = Base => t.owner = x[2], CachePut(x, t)
  PROVE  CacheSound(cache')
<1>1. PICK kept \in SUBSET DOMAIN cache :
        cache' = [y \in kept \cup {x} |-> IF y = x THEN t ELSE cache[y]]
  <2>1. CASE x \in DOMAIN cache \/ Cardinality(DOMAIN cache) < CacheSize
    BY <2>1 DEF CachePut
  <2>2. CASE ~(x \in DOMAIN cache \/ Cardinality(DOMAIN cache) < CacheSize)
    BY <2>2 DEF CachePut
  <2> QED BY <2>1, <2>2
<1> QED BY <1>1 DEF CacheSound

-----------------------------------------------------------------------------
LEMMA InitIInv == Init => IInv
<1> SUFFICES ASSUME Init PROVE IInv
  OBVIOUS
<1>1. PICK nodes \in SUBSET Nodes : cache = Dialed(nodes)
  BY DEF Init
<1>2. CacheSound(cache)
  <2>1. Expiration(0) \in 0..MaxUint /\ 0 \in 0..MaxFaults
    BY ExpirationType
  <2>2. \A n \in nodes : formCacheKey(n, PoolSigner) \in Keys
                         /\ formCacheKey(n, PoolSigner)[1] = n
                         /\ formCacheKey(n, PoolSigner)[2] = PoolSigner
    BY DEF formCacheKey, Keys
  <2>3. /\ DOMAIN cache = {formCacheKey(n, PoolSigner) : n \in nodes}
        /\ \A x \in DOMAIN cache :
             cache[x] = [node |-> x[1], owner |-> PoolSigner, life |-> 0, exp |-> Expiration(0)]
    BY <1>1 DEF Dialed
  <2>4. ASSUME NEW x \in DOMAIN cache
        PROVE  /\ x \in Keys /\ cache[x] \in Tokens /\ cache[x].node = x[1]
               /\ cache[x].owner = x[2]
    <3>1. PICK n \in nodes : x = formCacheKey(n, PoolSigner)
      BY <2>3
    <3>2. x \in Keys /\ x[1] = n /\ x[2] = PoolSigner
      BY <2>2, <3>1
    <3>3. cache[x] = [node |-> n, owner |-> PoolSigner, life |-> 0, exp |-> Expiration(0)]
      BY <2>3, <3>2
    <3>4. n \in Nodes /\ PoolSigner \in Signers
      OBVIOUS
    <3> QED BY <2>1, <3>2, <3>3, <3>4 DEF Tokens
  <2> QED BY <2>4 DEF CacheSound
<1>3. key \in [Callers -> Keys] /\ KeyFits
  BY FormedKey DEF Init, KeyFits
<1>4. TypeOK
  BY <1>2, <1>3 DEF Init, TypeOK, CacheSound
<1>5. LifeCounted /\ TokenFits
  BY DEF Init, LifeCounted, TokenFits, Holding
<1> QED BY <1>2, <1>3, <1>4, <1>5 DEF Init, IInv, KeptByNode, KeptBySigner, CacheSound

-----------------------------------------------------------------------------
(* Steps.  A caller's step touches its own entries only. *)

\* The parts of the invariant that are about the cache and the wrappers.
Stores == CacheSound(cache) /\ nodeSession \in [Nodes -> Tokens \cup {None}]
          /\ \A n \in Nodes : nodeSession[n] # None => nodeSession[n].node = n

LEMMA StoresOfIInv == IInv => Stores
  BY DEF IInv, Stores, TypeOK, KeptByNode, KeptBySigner, CacheSound

\* Forgetting the sessions of a node.
LEMMA ForgetStores ==
  ASSUME Stores, NEW n \in Nodes, Forget(n)
  PROVE  Stores'
  BY RemoveSound DEF Stores, Forget

LEMMA StepCallerFind ==
  ASSUME IInv, NEW k \in Callers,
         Request(k) \/ CacheHit(k) \/ CacheMiss(k) \/ NodeSession(k)
  PROVE  IInv'
<1> USE DEF IInv
<1>1. CASE Request(k)
  <2>1. PICK n \in Nodes :
          /\ at' = [at EXCEPT ![k] = n]
          /\ \/ /\ k \in Wrapped
                /\ key' = [key EXCEPT ![k] = formCacheKey(n, Signer[k])]
             \/ /\ k \notin Wrapped
                /\ \E s \in Scopes :
                     key' = [key EXCEPT ![k] = cacheKeyForSession(n, Signer[k], s)]
    BY <1>1 DEF Request
  <2>2. Signer[k] \in Signers
    OBVIOUS
  <2>3. PICK x \in Keys : /\ key' = [key EXCEPT ![k] = x] /\ x[1] = n
                          /\ k \in Wrapped => x = formCacheKey(n, Signer[k])
                          /\ k \notin Wrapped => x[3] # Base
    <3>1. CASE k \in Wrapped
      BY <2>1, <2>2, <3>1, FormedKey
    <3>2. CASE k \notin Wrapped
      BY <2>1, <2>2, <3>2, ScopedKey
    <3> QED BY <3>1, <3>2
  <2>4. KeyFits'
    BY <1>1, <2>1, <2>3 DEF Request, Goto, KeyFits, TypeOK
  <2>5. TokenFits'
    BY <1>1, <2>1 DEF Request, Goto, TokenFits, Holding, TypeOK
  <2> QED BY <1>1, <2>1, <2>3, <2>4, <2>5
          DEF Request, Goto, nodeVars, epochVars, TypeOK, LifeCounted, KeptByNode, KeptBySigner
<1>2. CASE CacheHit(k)
  <2>1. cache[key[k]] \in Tokens /\ cache[key[k]].node = at[k]
        /\ (k \in Wrapped => cache[key[k]].owner = Signer[k])
    <3>1. key[k] \in DOMAIN cache /\ key[k][1] = at[k] /\ at[k] \in Nodes /\ Signer[k] \in Signers
      BY <1>2 DEF CacheHit, KeyFits, TypeOK
    <3>2. k \in Wrapped => key[k][2] = Signer[k] /\ key[k][3] = Base
      BY <3>1, FormedKey DEF KeyFits
    <3> QED BY <3>1, <3>2 DEF TypeOK, KeptByNode, KeptBySigner
  <2>2. TokenFits'
    BY <1>2, <2>1 DEF CacheHit, Goto, TokenFits, Holding, TypeOK
  <2>3. KeyFits'
    BY <1>2 DEF CacheHit, Goto, KeyFits, TypeOK
  <2> QED BY <1>2, <2>1, <2>2, <2>3
          DEF CacheHit, Goto, nodeVars, epochVars, TypeOK, LifeCounted, KeptByNode, KeptBySigner
<1>3. CASE CacheMiss(k)
  <2>1. CacheSound(cache')
    BY <1>3, RemoveSound, StoresOfIInv DEF CacheMiss, Stores
  <2>2. TokenFits'
    BY <1>3 DEF CacheMiss, Goto, TokenFits, Holding, TypeOK
  <2>3. KeyFits'
    BY <1>3 DEF CacheMiss, Goto, KeyFits, TypeOK
  <2> QED BY <1>3, <2>1, <2>2, <2>3
          DEF CacheMiss, Goto, nodeVars, epochVars, TypeOK, LifeCounted, KeptByNode, KeptBySigner,
              CacheSound
<1>4. CASE NodeSession(k)
  <2>1. at[k] \in Nodes /\ k \notin Wrapped
    BY <1>4 DEF NodeSession, TypeOK, TokenFits
  <2>2. /\ GetNodeSession(at[k]) \in Tokens \cup {None}
        /\ GetNodeSession(at[k]) # None => GetNodeSession(at[k]).node = at[k]
    BY <2>1 DEF GetNodeSession, TypeOK, KeptByNode
  <2>3. TokenFits'
    BY <1>4, <2>1, <2>2 DEF NodeSession, Goto, TokenFits, Holding, TypeOK
  <2>4. KeyFits'
    BY <1>4 DEF NodeSession, Goto, KeyFits, TypeOK
  <2> QED BY <1>4, <2>2, <2>3, <2>4
          DEF NodeSession, Goto, nodeVars, epochVars, TypeOK, LifeCounted, KeptByNode, KeptBySigner
<1> QED BY <1>1, <1>2, <1>3, <1>4

LEMMA StepEpoch ==
  ASSUME IInv, NEW x \in Callers \cup Probers, HearEpoch(x) \/ StoreEpoch(x)
  PROVE  IInv'
<1> USE DEF IInv
<1>1. CASE HearEpoch(x)
  <2>1. PICK label \in {"storeBoth", "storeCache", "storeWrap", "create", "idle"} :
          /\ pc' = [pc EXCEPT ![x] = label]
          /\ x \in Callers => label # "idle"
    <3> DEFINE label ==
          IF epoch > cacheEpoch
          THEN IF epoch > wrapEpoch[at[x]] THEN "storeBoth" ELSE "storeCache"
          ELSE IF epoch > wrapEpoch[at[x]] THEN "storeWrap"
          ELSE IF x \in Callers THEN "create" ELSE "idle"
    <3>1. pc' = [pc EXCEPT ![x] = label]
      BY <1>1 DEF HearEpoch, Goto
    <3>2. /\ label \in {"storeBoth", "storeCache", "storeWrap", "create", "idle"}
          /\ x \in Callers => label # "idle"
      OBVIOUS
    <3> QED BY <3>1, <3>2
  <2>2. TokenFits'
    BY <1>1, <2>1 DEF HearEpoch, TokenFits, Holding, TypeOK
  <2>3. KeyFits'
    BY <1>1, <2>1 DEF HearEpoch, KeyFits, TypeOK
  <2> QED BY <1>1, <2>1, <2>2, <2>3
          DEF HearEpoch, nodeVars, epochVars, TypeOK, LifeCounted, KeptByNode, KeptBySigner
<1>2. CASE StoreEpoch(x)
  <2>1. at[x] \in Nodes /\ heard[x] \in 0..MaxEpoch
    BY DEF TypeOK
  <2>2. cacheEpoch' \in 0..MaxEpoch /\ wrapEpoch' \in [Nodes -> 0..MaxEpoch]
    BY <1>2, <2>1 DEF StoreEpoch, TypeOK
  <2>3. heard' \in [Callers \cup Probers -> 0..MaxEpoch]
    BY <1>2 DEF StoreEpoch, TypeOK
  <2>4. PICK label \in {"create", "idle"} :
          /\ pc' = [pc EXCEPT ![x] = label]
          /\ x \in Callers => label # "idle"
    BY <1>2 DEF StoreEpoch, Goto
  <2>5. TokenFits'
    BY <1>2, <2>4 DEF StoreEpoch, TokenFits, Holding, TypeOK
  <2>6. KeyFits'
    BY <1>2, <2>4 DEF StoreEpoch, KeyFits, TypeOK
  <2> QED BY <1>2, <2>2, <2>3, <2>4, <2>5, <2>6
          DEF StoreEpoch, nodeVars, TypeOK, LifeCounted, KeptByNode, KeptBySigner
<1> QED BY <1>1, <1>2

LEMMA StepCallerOpen ==
  ASSUME IInv, NEW k \in Callers, SessionCreate(k) \/ SetNodeSession(k) \/ Put(k)
  PROVE  IInv'
<1> USE DEF IInv
<1>1. CASE SessionCreate(k)
  <2> DEFINE t == [node |-> at[k], owner |-> Signer[k],
                   life |-> life[at[k]], exp |-> Expiration(heard[k])]
  <2>1. at[k] \in Nodes /\ Signer[k] \in Signers /\ Expiration(heard[k]) \in 0..MaxUint
    BY ExpirationType DEF TypeOK
  <2>2. t \in Tokens /\ t.node = at[k] /\ t.owner = Signer[k]
    BY <2>1 DEF TypeOK, Tokens
  <2>3. tok' = [tok EXCEPT ![k] = t]
    BY <1>1 DEF SessionCreate
  <2> HIDE DEF t
  <2>4. TokenFits'
    BY <1>1, <2>2, <2>3 DEF SessionCreate, Goto, TokenFits, Holding, TypeOK
  <2>5. KeyFits'
    BY <1>1 DEF SessionCreate, Goto, KeyFits, TypeOK
  <2> QED BY <1>1, <2>2, <2>3, <2>4, <2>5
          DEF SessionCreate, Goto, nodeVars, epochVars, TypeOK, LifeCounted, KeptByNode, KeptBySigner
<1>2. CASE SetNodeSession(k)
  <2>1. tok[k] \in Tokens /\ tok[k].node = at[k] /\ at[k] \in Nodes
    BY <1>2 DEF SetNodeSession, TokenFits, Holding, TypeOK
  <2>2. TokenFits'
    BY <1>2 DEF SetNodeSession, Goto, TokenFits, Holding, TypeOK
  <2>3. KeyFits'
    BY <1>2 DEF SetNodeSession, Goto, KeyFits, TypeOK
  <2> QED BY <1>2, <2>1, <2>2, <2>3
          DEF SetNodeSession, Goto, nodeVars, epochVars, TypeOK, LifeCounted, KeptByNode, KeptBySigner
<1>3. CASE Put(k)
  <2>1. tok[k] \in Tokens /\ tok[k].node = key[k][1] /\ key[k] \in Keys
    BY <1>3 DEF Put, TokenFits, KeyFits, Holding, TypeOK
  <2>2. key[k][3] = Base => tok[k].owner = key[k][2]
    <3>1. at[k] \in Nodes /\ Signer[k] \in Signers
      BY DEF TypeOK
    <3>2. CASE k \in Wrapped
      BY <1>3, <3>1, <3>2, FormedKey DEF Put, TokenFits, KeyFits, Holding
    <3>3. CASE k \notin Wrapped
      BY <1>3, <3>3 DEF Put, KeyFits
    <3> QED BY <3>2, <3>3
  <2>3. CacheSound(cache')
    BY <1>3, <2>1, <2>2, PutSound, StoresOfIInv DEF Put, Stores
  <2>4. TokenFits'
    BY <1>3 DEF Put, Goto, TokenFits, Holding, TypeOK
  <2>5. KeyFits'
    BY <1>3 DEF Put, Goto, KeyFits, TypeOK
  <2> QED BY <1>3, <2>3, <2>4, <2>5
          DEF Put, Goto, nodeVars, epochVars, TypeOK, LifeCounted, KeptByNode, KeptBySigner, CacheSound
<1> QED BY <1>1, <1>2, <1>3

LEMMA StepCallerEnd ==
  ASSUME IInv, NEW k \in Callers,
         SendAccepted(k) \/ SendRefused(k) \/ PutCutShort(k) \/ checkSessionTokenErr(k) \/ RPCFails(k)
  PROVE  IInv'
<1> USE DEF IInv
<1>1. ASSUME NEW res \in {"accepted", "refused", "cutShort", "failed"}, Return(k, res), UNCHANGED <<at, key>>
      PROVE  /\ TokenFits' /\ KeyFits'
             /\ pc' \in [Callers \cup Probers ->
                  {"idle", "get", "nodeSession", "networkInfo", "probe", "storeBoth", "storeCache",
                   "storeWrap", "create", "setNodeSession", "put", "send", "evict"}]
             /\ heard' \in [Callers \cup Probers -> 0..MaxEpoch]
             /\ tok' \in [Callers -> Tokens \cup {None}]
             /\ result' \in [Callers -> {"none", "accepted", "refused", "cutShort", "failed"}]
  BY <1>1 DEF Return, Goto, TokenFits, KeyFits, Holding, TypeOK
<1>2. CASE SendAccepted(k)
  BY <1>1, <1>2
     DEF SendAccepted, nodeVars, epochVars, TypeOK, LifeCounted, KeptByNode, KeptBySigner
<1>3. CASE SendRefused(k) /\ k \notin Wrapped
  BY <1>1, <1>3
     DEF SendRefused, nodeVars, epochVars, TypeOK, LifeCounted, KeptByNode, KeptBySigner
<1>7. CASE PutCutShort(k)
  BY <1>1, <1>7
     DEF PutCutShort, nodeVars, epochVars, TypeOK, LifeCounted, KeptByNode, KeptBySigner
<1>4. CASE SendRefused(k) /\ k \in Wrapped
  <2>1. TokenFits'
    BY <1>4 DEF SendRefused, Goto, TokenFits, Holding, TypeOK
  <2>2. KeyFits'
    BY <1>4 DEF SendRefused, Goto, KeyFits, TypeOK
  <2> QED BY <1>4, <2>1, <2>2
          DEF SendRefused, Goto, nodeVars, epochVars, TypeOK, LifeCounted, KeptByNode, KeptBySigner
<1>5. CASE checkSessionTokenErr(k)
  <2>1. at[k] \in Nodes
    BY DEF TypeOK
  <2>2. Stores'
    BY <1>5, <2>1, ForgetStores, StoresOfIInv DEF checkSessionTokenErr
  <2> QED BY <1>1, <1>5, <2>2
          DEF checkSessionTokenErr, nodeVars, epochVars, TypeOK, LifeCounted, KeptByNode, KeptBySigner,
              Stores, CacheSound
<1>6. CASE RPCFails(k)
  <2>1. faults' \in 0..MaxFaults /\ LifeCounted'
    BY <1>6 DEF RPCFails, TypeOK, LifeCounted
  <2> QED BY <1>1, <1>6, <2>1
          DEF RPCFails, epochVars, TypeOK, KeptByNode, KeptBySigner
<1> QED BY <1>2, <1>3, <1>4, <1>5, <1>6, <1>7

LEMMA StepProber ==
  ASSUME IInv, NEW x \in Probers, ProbeStart(x) \/ ProbeFails(x)
  PROVE  IInv'
<1> USE DEF IInv
<1>1. x \notin Callers
  OBVIOUS
<1>2. CASE ProbeStart(x)
  <2>1. PICK n \in Nodes : at' = [at EXCEPT ![x] = n]
    BY <1>2 DEF ProbeStart
  <2>2. TokenFits'
    BY <1>1, <1>2, <2>1 DEF ProbeStart, Goto, TokenFits, Holding, TypeOK
  <2>3. KeyFits'
    BY <1>1, <1>2, <2>1 DEF ProbeStart, Goto, KeyFits, TypeOK
  <2> QED BY <1>2, <2>1, <2>2, <2>3
          DEF ProbeStart, Goto, nodeVars, epochVars, TypeOK, LifeCounted, KeptByNode, KeptBySigner
<1>3. CASE ProbeFails(x)
  <2>1. at[x] \in Nodes
    BY DEF TypeOK
  <2>2. Stores'
    BY <1>3, <2>1, ForgetStores, StoresOfIInv DEF ProbeFails
  <2>3. TokenFits'
    BY <1>1, <1>3 DEF ProbeFails, Goto, TokenFits, Holding, TypeOK
  <2>4. KeyFits'
    BY <1>1, <1>3 DEF ProbeFails, Goto, KeyFits, TypeOK
  <2>5. faults' \in 0..MaxFaults /\ LifeCounted'
    BY <1>3 DEF ProbeFails, TypeOK, LifeCounted
  <2> QED BY <1>3, <2>2, <2>3, <2>4, <2>5
          DEF ProbeFails, Goto, epochVars, TypeOK, KeptByNode, KeptBySigner, Stores, CacheSound
<1> QED BY <1>2, <1>3

LEMMA StepWorld ==
  ASSUME IInv, NewEpoch \/ \E n \in Nodes : NodeRestarts(n)
  PROVE  IInv'
<1> USE DEF IInv
<1>1. CASE NewEpoch
  BY <1>1 DEF NewEpoch, epochVars, TypeOK, LifeCounted, KeptByNode, KeptBySigner, KeyFits, TokenFits
<1>2. ASSUME NEW n \in Nodes, NodeRestarts(n) PROVE IInv'
  <2>1. /\ life' \in [Nodes -> 0..MaxFaults] /\ faults' \in 0..MaxFaults /\ LifeCounted'
    BY <1>2 DEF NodeRestarts, TypeOK, LifeCounted
  <2> QED BY <1>2, <2>1
          DEF NodeRestarts, epochVars, TypeOK, KeptByNode, KeptBySigner, KeyFits, TokenFits
<1> QED BY <1>1, <1>2

LEMMA StepIInv == IInv /\ [Next]_vars => IInv'
<1> SUFFICES ASSUME IInv, [Next]_vars PROVE IInv'
  OBVIOUS
<1>1. CASE UNCHANGED vars
  BY <1>1 DEF vars, nodeVars, epochVars, IInv, TypeOK, LifeCounted, KeptByNode, KeptBySigner,
              KeyFits, TokenFits
<1>2. CASE Next
  BY <1>2, StepCallerFind, StepEpoch, StepCallerOpen, StepCallerEnd, StepProber, StepWorld
     DEF Next, CallerNext
<1> QED BY <1>1, <1>2

-----------------------------------------------------------------------------
\* For any nodes (whose addresses may begin with each other), callers, signers and
\* cache size, no request of either API carries a session of another node: keys of
\* the cache and the session of a wrapper stay with their node through evictions,
\* restarts, expirations and races.
THEOREM NodeKept == Spec => []SessionOfTheNode
<1>1. IInv => SessionOfTheNode
  BY DEF IInv, TokenFits, Holding, SessionOfTheNode
<1> QED BY <1>1, InitIInv, StepIInv, PTL DEF Spec

\* For any configuration, a request of the deprecated API carries a session opened
\* by its own signer, though callers of the current API put sessions of others into
\* the same cache and the same wrapper.
THEOREM SignerKept == Spec => []SessionOfTheSigner
<1>1. IInv => SessionOfTheSigner
  BY DEF IInv, TokenFits, Holding, SessionOfTheSigner
<1> QED BY <1>1, InitIInv, StepIInv, PTL DEF Spec

\* For any configuration the variables keep their types: in particular no
\* expiration that the pool asks for wraps around.
THEOREM SessionTypes == Spec => []TypeOK
<1>1. IInv => TypeOK
  BY DEF IInv
<1> QED BY <1>1, InitIInv, StepIInv, PTL DEF Spec
=============================================================================
