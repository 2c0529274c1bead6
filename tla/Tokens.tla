-------------------------------- MODULE Tokens --------------------------------
(***************************************************************************)
(* Session tokens of objects and containers, and bearer tokens: packages   *)
(* session and bearer.  An issuer fills a token with the setters, signs it *)
(* and sends it; the other side reads it into a variable that may hold an  *)
(* earlier token, or what a failed read has left there, and asks it.       *)
(*                                                                         *)
(* One record holds the fields of all three types.  A field with a flag    *)
(* keeps its value when the flag is cleared, as in the code.               *)
(***************************************************************************)
EXTENDS Integers, Sequences, FiniteSets

CONSTANTS
  Users,      \* the users, who are also signers
  MaxSets     \* bound of the model: calls of setters and Sign

VARIABLES
  kind,       \* "object", "container" or "bearer": the type of token
  tok,        \* the issuer's token
  got,        \* the variable of the other side
  sentTok,    \* ghost: the token that was read last
  readHow,    \* how it was read: "strict", "lenient" or "failed"
  sets

tokenVars == <<kind, tok, got, sentTok, readHow, sets>>

\* A field that may be absent is a sequence of at most one value.
Absent == <<>>
Cnrs == {"c1", "c2"}
Objects == {"o1", "o2"}
Epochs == 0..2
NoLifetime == [iat |-> 0, nbf |-> 0, exp |-> 0]

NoSig == [by |-> "none", body |-> Absent, said |-> Absent]

ZeroToken ==
  [idSet |-> FALSE, id |-> "nil", issuerSet |-> FALSE, issuer |-> "zero",
   lifetimeSet |-> FALSE, life |-> NoLifetime, authKey |-> "",
   verb |-> "zero", cnrSet |-> FALSE, cnr |-> "zero", objs |-> {},
   userSet |-> FALSE, user |-> "zero", tableSet |-> FALSE, table |-> "none",
   sigSet |-> FALSE, sig |-> NoSig]

-----------------------------------------------------------------------------
(* The wire form. *)

IfSet(flag, v) == IF flag THEN <<v>> ELSE Absent

objectContext(x) ==
  [type |-> "object", verb |-> x.verb, wildcard |-> FALSE, cnr |-> IfSet(x.cnrSet, x.cnr), objs |-> x.objs]

containerContext(x) ==
  [type |-> "container", verb |-> x.verb, wildcard |-> ~x.cnrSet, cnr |-> IfSet(x.cnrSet, x.cnr), objs |-> {}]

writeContext(k, x) == IF k = "object" THEN objectContext(x) ELSE containerContext(x)

\* Mutant of sessionBody: the lifetime is not part of the body that is signed.
sessionBodyTimeless(k, x) ==
  [id |-> IfSet(x.idSet, x.id), issuer |-> IfSet(x.issuerSet, x.issuer),
   life |-> Absent, key |-> x.authKey, ctx |-> <<writeContext(k, x)>>]

sessionBody(k, x) ==
  [id |-> IfSet(x.idSet, x.id), issuer |-> IfSet(x.issuerSet, x.issuer),
   life |-> IfSet(x.lifetimeSet, x.life), key |-> x.authKey, ctx |-> <<writeContext(k, x)>>]

\* A bearer token in which nothing is set has no body.
bearerBody(x) ==
  IF ~x.tableSet /\ ~x.userSet /\ ~x.lifetimeSet THEN Absent
  ELSE <<[table |-> IfSet(x.tableSet, x.table), user |-> IfSet(x.userSet, x.user),
          life |-> IfSet(x.lifetimeSet, x.life)]>>

fillBody(k, x) == IF k = "bearer" THEN bearerBody(x) ELSE <<sessionBody(k, x)>>

WriteToV2(k, x) == [body |-> fillBody(k, x), sig |-> IfSet(x.sigSet, x.sig)]

-----------------------------------------------------------------------------
(* Reading.  Each reader continues what the one before it has read, and    *)
(* leaves the rest of the variable alone when that has failed.             *)

Failed(x) == [x |-> x, err |-> TRUE]
Read(x) == [x |-> x, err |-> FALSE]

\* An ID of a wrong length is not written, one of a wrong version is.
ReadID(st, v, strict) ==
  LET y == [st.x EXCEPT !.idSet = v # Absent]
  IN  IF st.err THEN st
      ELSE IF v = Absent THEN [x |-> y, err |-> strict]
      ELSE IF v = <<"short">> THEN Failed(y)
      ELSE [x |-> [y EXCEPT !.id = v[1]], err |-> v = <<"v1">>]

ReadIssuer(st, v, strict) ==
  LET y == [st.x EXCEPT !.issuerSet = v # Absent]
  IN  IF st.err THEN st
      ELSE IF v = Absent THEN [x |-> y, err |-> strict]
      ELSE IF v = <<"bad">> THEN Failed(y)
      ELSE Read([y EXCEPT !.issuer = v[1]])

ReadLifetime(st, v, strict) ==
  LET y == [st.x EXCEPT !.lifetimeSet = v # Absent]
  IN  IF st.err THEN st
      ELSE IF v = Absent THEN [x |-> y, err |-> strict]
      ELSE Read([y EXCEPT !.life = v[1]])

ReadKey(st, v, strict) ==
  IF st.err THEN st
  ELSE [x |-> [st.x EXCEPT !.authKey = v], err |-> strict /\ v = ""]

\* Mutant of objectReadContext: a limit of an earlier token stays when there is none.
objectReadContextStale(x, c, strict) ==
  LET y == [x EXCEPT !.cnrSet = c.cnr # Absent]
      z == IF c.cnr = Absent THEN y ELSE [y EXCEPT !.cnr = c.cnr[1]]
      w == IF c.objs = {} THEN z ELSE [z EXCEPT !.objs = c.objs]
  IN  IF c.cnr = <<"bad">> \/ (c.cnr = Absent /\ strict) THEN Failed(y)
      ELSE IF "bad" \in c.objs THEN Failed([z EXCEPT !.objs = {"zero"}])
      ELSE Read([w EXCEPT !.verb = c.verb])

\* An object ID that is malformed leaves zero IDs in the list.
objectReadContext(x, c, strict) ==
  LET y == [x EXCEPT !.cnrSet = c.cnr # Absent]
      z == IF c.cnr = Absent THEN y ELSE [y EXCEPT !.cnr = c.cnr[1]]
  IN  IF c.cnr = <<"bad">> \/ (c.cnr = Absent /\ strict) THEN Failed(y)
      ELSE IF "bad" \in c.objs THEN Failed([z EXCEPT !.objs = {"zero"}])
      ELSE Read([z EXCEPT !.objs = c.objs, !.verb = c.verb])

containerReadContext(x, c, strict) ==
  LET y == [x EXCEPT !.cnrSet = ~c.wildcard]
      z == IF c.cnr = Absent THEN y ELSE [y EXCEPT !.cnr = c.cnr[1]]
  IN  IF \/ y.cnrSet /\ (c.cnr = <<"bad">> \/ (c.cnr = Absent /\ strict))
         \/ ~y.cnrSet /\ c.cnr # Absent
      THEN Failed(y) ELSE Read([z EXCEPT !.verb = c.verb])

ReadContext(st, k, c, strict) ==
  IF st.err THEN st
  ELSE IF c = Absent THEN [x |-> st.x, err |-> strict]
  ELSE IF c[1].type # k THEN Failed(st.x)
  ELSE IF k = "object" THEN objectReadContext(st.x, c[1], strict)
  ELSE containerReadContext(st.x, c[1], strict)

ReadSig(st, v, strict) ==
  LET y == [st.x EXCEPT !.sigSet = v # Absent]
  IN  IF st.err THEN st
      ELSE IF v = Absent THEN [x |-> y, err |-> strict]
      ELSE Read([y EXCEPT !.sig = v[1]])

ReadTable(st, v, strict) ==
  LET y == [st.x EXCEPT !.tableSet = v # Absent]
  IN  IF v = Absent THEN [x |-> y, err |-> strict] ELSE Read([y EXCEPT !.table = v[1]])

ReadUser(st, v) ==
  LET y == [st.x EXCEPT !.userSet = v # Absent]
  IN  IF st.err THEN st
      ELSE IF v = Absent THEN Read(y)
      ELSE IF v = <<"bad">> THEN Failed(y)
      ELSE Read([y EXCEPT !.user = v[1]])

EmptySession == [id |-> Absent, issuer |-> Absent, life |-> Absent, key |-> "", ctx |-> Absent]
EmptyBearer == [table |-> Absent, user |-> Absent, life |-> Absent]

sessionReadFromV2(x, k, m, strict) ==
  LET b == IF m.body = Absent THEN EmptySession ELSE m.body[1]
      start == [x |-> x, err |-> FALSE]
      lifetime == ReadLifetime(ReadIssuer(ReadID(start, b.id, strict), b.issuer, strict),
                               b.life, strict)
  IN  IF strict /\ m.body = Absent THEN Failed(x)
      ELSE ReadSig(ReadContext(ReadKey(lifetime, b.key, strict), k, b.ctx, strict), m.sig, strict)

bearerReadFromV2(x, m, strict) ==
  LET b == IF m.body = Absent THEN EmptyBearer ELSE m.body[1]
      start == [x |-> x, err |-> FALSE]
  IN  IF strict /\ m.body = Absent THEN Failed(x)
      ELSE ReadSig(ReadLifetime(ReadUser(ReadTable(start, b.table, strict), b.user),
                                b.life, strict), m.sig, strict)

readFromV2(x, k, m, strict) ==
  IF k = "bearer" THEN bearerReadFromV2(x, m, strict) ELSE sessionReadFromV2(x, k, m, strict)

-----------------------------------------------------------------------------
(* What a token can be asked. *)

InvalidAt(x, epoch) ==
  ~x.lifetimeSet \/ x.life.exp < epoch \/ x.life.nbf > epoch \/ x.life.iat > epoch

objectAssertContainer(x, c) == x.cnr = c
AppliedTo(x, c) == ~x.cnrSet \/ x.cnr = c
bearerAssertContainer(x, c) == ~x.tableSet \/ x.table \in {"any", c}

AssertContainer(k, x, c) ==
  CASE k = "object" -> objectAssertContainer(x, c)
    [] k = "container" -> AppliedTo(x, c)
    [] k = "bearer" -> bearerAssertContainer(x, c)

AssertObject(x, o) == x.objs = {} \/ o \in x.objs
AssertUser(x, u) == ~x.userSet \/ x.user = u
Issuer(x) == IF x.issuerSet THEN x.issuer ELSE "zero"
ID(x) == IF x.idSet THEN x.id ELSE "nil"

Answers(k, x) ==
  [valid |-> {e \in Epochs : ~InvalidAt(x, e)},
   containers |-> {c \in Cnrs : AssertContainer(k, x, c)},
   objects |-> {o \in Objects : AssertObject(x, o)},
   users |-> {u \in Users : AssertUser(x, u)},
   verb |-> x.verb, key |-> x.authKey, issuer |-> Issuer(x), id |-> ID(x)]

\* The signature covers the body; "said" is a ghost, what the token answered.
VerifySignature(k, x) == x.sigSet /\ x.sig.body = fillBody(k, x)

-----------------------------------------------------------------------------
(* The calls. *)

\* A token with all it needs but a signature.
Complete(k) ==
  IF k = "bearer"
  THEN [ZeroToken EXCEPT !.tableSet = TRUE, !.table = "any",
                         !.lifetimeSet = TRUE, !.life = [iat |-> 0, nbf |-> 0, exp |-> 2]]
  ELSE [ZeroToken EXCEPT !.idSet = TRUE, !.id = "i1", !.authKey = "k1", !.verb = "v1",
                         !.cnrSet = TRUE, !.cnr = "c1",
                         !.lifetimeSet = TRUE, !.life = [iat |-> 0, nbf |-> 0, exp |-> 2]]

\* A session without an issuer is given the signer's user before it is signed.
sessionIssued(x, u) ==
  IF x.issuerSet THEN x ELSE [x EXCEPT !.issuer = u, !.issuerSet = TRUE]

\* A bearer token has no issuer but the key of its signature.
bearerIssued(x, u) == x

Signed(k, x, u) ==
  LET y == IF k = "bearer" THEN bearerIssued(x, u) ELSE sessionIssued(x, u)
  IN  [y EXCEPT !.sigSet = TRUE,
         !.sig = [by |-> u, body |-> fillBody(k, y), said |-> <<Answers(k, y)>>]]

TokenInit ==
  /\ kind \in {"object", "container", "bearer"}
  /\ tok \in {Complete(kind)} \cup {Signed(kind, Complete(kind), u) : u \in Users}
  /\ got = ZeroToken
  /\ sentTok = ZeroToken
  /\ readHow = "none"
  /\ sets = 0

TokenRest ==
  /\ kind = "object" /\ tok = ZeroToken /\ got = ZeroToken /\ sentTok = ZeroToken
  /\ readHow = "none" /\ sets = 0

Change(t) ==
  /\ sets < MaxSets
  /\ sets' = sets + 1
  /\ tok' = t
  /\ UNCHANGED <<kind, got, sentTok, readHow>>

\* Another variable is declared and used from now on.
NewToken == Change(ZeroToken)

SetExp(e) == Change([tok EXCEPT !.life.exp = e, !.lifetimeSet = TRUE])
SetNbf(e) == Change([tok EXCEPT !.life.nbf = e, !.lifetimeSet = TRUE])
SetIat(e) == Change([tok EXCEPT !.life.iat = e, !.lifetimeSet = TRUE])

SetID(i) == kind # "bearer" /\ Change([tok EXCEPT !.id = i, !.idSet = TRUE])
SetAuthKey(k) == kind # "bearer" /\ Change([tok EXCEPT !.authKey = k])
SetIssuer(u) == kind # "bearer" /\ Change([tok EXCEPT !.issuer = u, !.issuerSet = TRUE])
ForVerb(v) == kind # "bearer" /\ Change([tok EXCEPT !.verb = v])

BindContainer(c) == kind = "object" /\ Change([tok EXCEPT !.cnr = c, !.cnrSet = TRUE])
ApplyOnlyTo(c) == kind = "container" /\ Change([tok EXCEPT !.cnr = c, !.cnrSet = TRUE])
LimitByObjects(os) == kind = "object" /\ Change([tok EXCEPT !.objs = os])

SetEACLTable(t) == kind = "bearer" /\ Change([tok EXCEPT !.table = t, !.tableSet = TRUE])
ForUser(u) == kind = "bearer" /\ Change([tok EXCEPT !.user = u, !.userSet = TRUE])

Sign(u) == Change(Signed(kind, tok, u))

\* What a message may suffer from: a field that is not there, or malformed.
DamagedSession(b, damage) ==
  CASE damage = "id" -> [b EXCEPT !.id = <<"short">>]
    [] damage = "version" -> [b EXCEPT !.id = <<"v1">>]
    [] damage = "issuer" -> [b EXCEPT !.issuer = <<"bad">>]
    [] damage = "cnr" -> [b EXCEPT !.ctx[1].cnr = <<"bad">>]
    [] damage = "objs" /\ kind = "object" -> [b EXCEPT !.ctx[1].objs = {"bad"}]
    [] damage = "context" -> [b EXCEPT !.ctx = Absent]
    [] damage = "type" -> [b EXCEPT !.ctx[1].type = "other"]
    [] OTHER -> b

DamagedBearer(b, damage) == IF damage = "issuer" THEN [b EXCEPT !.user = <<"bad">>] ELSE b

DamagedBody(b, damage) ==
  IF b = Absent \/ damage = "body" THEN Absent
  ELSE <<IF kind = "bearer" THEN DamagedBearer(b[1], damage) ELSE DamagedSession(b[1], damage)>>

Damaged(m, damage) == [m EXCEPT !.body = DamagedBody(m.body, damage)]

Damages == {"none", "body", "id", "version", "issuer", "cnr", "objs", "context", "type"}

\* ReadFromV2 wants every field the protocol requires, Unmarshal and UnmarshalJSON
\* take a message without them.
Deliver(strict, damage) ==
  LET r == readFromV2(got, kind, Damaged(WriteToV2(kind, tok), damage), strict)
  IN  /\ got' = r.x
      /\ sentTok' = tok
      /\ readHow' = IF r.err THEN "failed" ELSE IF strict THEN "strict" ELSE "lenient"
      /\ UNCHANGED <<kind, tok, sets>>

LifetimeCalls == SetExp(1) \/ SetNbf(1) \/ SetIat(2)

SessionCalls ==
  \/ SetID("i2")
  \/ SetAuthKey("k2")
  \/ \E u \in Users : SetIssuer(u)
  \/ ForVerb("v2")
  \/ BindContainer("c2")
  \/ ApplyOnlyTo("c2")
  \/ \E os \in {{}, {"o1"}} : LimitByObjects(os)

BearerCalls ==
  \/ \E t \in {"any", "c2"} : SetEACLTable(t)
  \/ \E u \in Users : ForUser(u)

TokenNext ==
  \/ NewToken
  \/ LifetimeCalls
  \/ SessionCalls
  \/ BearerCalls
  \/ \E u \in Users : Sign(u)
  \/ \E strict \in BOOLEAN, damage \in Damages : Deliver(strict, damage)

TokenSpec == TokenInit /\ [][TokenNext]_tokenVars

-----------------------------------------------------------------------------
(* Properties. *)

\* A token that ReadFromV2 has read answers as the token that was sent, whatever
\* the variable held before, an earlier token or the rest of a read that failed.
\* Nothing of the earlier contents shows through.
ReadReplacesAll ==
  readHow = "strict" =>
    /\ Answers(kind, got) = Answers(kind, sentTok)
    /\ VerifySignature(kind, got) = VerifySignature(kind, sentTok)

\* A token whose signature verifies answers what it answered when it was signed:
\* neither a setter called after Sign, nor a variable that was read several times
\* or half, yields a verified token that grants something the signer has not
\* signed.  (A read object session without a container is the exception, which
\* Unmarshal lets through: the container is compared without a look at the flag.)
VerifiedIsAsSigned ==
  /\ VerifySignature(kind, tok) => <<Answers(kind, tok)>> = tok.sig.said
  /\ (kind = "object" => got.cnrSet) /\ VerifySignature(kind, got) =>
       <<Answers(kind, got)>> = got.sig.said
=============================================================================
