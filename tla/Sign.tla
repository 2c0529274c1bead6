--------------------------------- MODULE Sign ---------------------------------
(***************************************************************************)
(* Signing of requests and responses: client/sign.go.  A message carries a *)
(* stack of meta headers and a stack of verification headers, newest       *)
(* first; every server that forwards a request adds one of each.  A        *)
(* signature is a symbol: who signed, and what.                            *)
(***************************************************************************)
EXTENDS Naturals, Sequences

CONSTANTS
  Signers,     \* the client and the servers on the way
  Bodies,      \* bodies of messages
  MaxLayers    \* bound of the model: verification headers of a message

VARIABLES
  message,   \* body, metas, verifs
  intent,    \* what was really written: the body, and the metas, newest first
  garbled    \* the transport has changed a part of the message

signVars == <<message, intent, garbled>>

\* A part that is not there is signed and verified as one without bytes.
Nothing == <<>>
NoSig == [by |-> Nothing, of |-> Nothing]

\* A signer has a key.
ASSUME SignAssumption == Nothing \notin Signers

Sig(s, part) == [by |-> s, of |-> part]

-----------------------------------------------------------------------------
\* The body is signed by the first signer only; the meta header stands for the
\* whole stack below it, the verification header for the one it wraps.
signServiceMessage(s, msg) ==
  LET header == [body   |-> IF msg.verifs = <<>> THEN Sig(s, msg.body) ELSE NoSig,
                 meta   |-> Sig(s, msg.metas),
                 origin |-> Sig(s, msg.verifs)]
  IN  [msg EXCEPT !.verifs = <<header>> \o @]

\* signature.VerifyDataWithSource: a signature is there and is one of this part.
verifyServiceMessagePart(part, sig) == sig # NoSig /\ sig.of = part

\* Level i of the stacks; metas may end before the verification headers do.
metaAt(msg, i) == SubSeq(msg.metas, i, Len(msg.metas))
originAt(msg, i) == SubSeq(msg.verifs, i + 1, Len(msg.verifs))

\* Mutant of verifyMatryoshkaLevel: the meta header is verified on the first level only.
verifyLevelFirstMeta(msg, i) ==
  LET v == msg.verifs[i] IN
  /\ i = 1 => verifyServiceMessagePart(metaAt(msg, i), v.meta)
  /\ verifyServiceMessagePart(originAt(msg, i), v.origin)
  /\ IF originAt(msg, i) = Nothing
     THEN verifyServiceMessagePart(msg.body, v.body)
     ELSE v.body = NoSig

verifyMatryoshkaLevel(msg, i) ==
  LET v == msg.verifs[i] IN
  /\ verifyServiceMessagePart(metaAt(msg, i), v.meta)
  /\ verifyServiceMessagePart(originAt(msg, i), v.origin)
  /\ IF originAt(msg, i) = Nothing
     THEN verifyServiceMessagePart(msg.body, v.body)
     ELSE v.body = NoSig

verifyServiceMessage(msg) ==
  msg.verifs # <<>> /\ \A i \in 1..Len(msg.verifs) : verifyMatryoshkaLevel(msg, i)

-----------------------------------------------------------------------------
Empty == [body |-> Nothing, metas |-> <<>>, verifs |-> <<>>]

SignInit ==
  /\ message = Empty
  /\ intent = [body |-> Nothing, metas |-> <<>>]
  /\ garbled = FALSE

\* A request structure is filled, and signed after its verification header was
\* taken away (contextCall.writeRequest, DefaultObjectWriter): the structure may
\* be the one of an earlier message.
WriteRequest(s, b) ==
  /\ ~garbled
  /\ message' = signServiceMessage(s, [body |-> b, metas |-> <<s>>, verifs |-> <<>>])
  /\ intent' = [body |-> b, metas |-> <<s>>]
  /\ UNCHANGED garbled

\* A server forwards the message under a meta header of its own (external; what
\* sign_test.go does with a request), damaged or not.
Forward(s) ==
  /\ Len(message.verifs) \in 1..(MaxLayers - 1)
  /\ message' = signServiceMessage(s, [message EXCEPT !.metas = <<s>> \o @])
  /\ intent' = [intent EXCEPT !.metas = <<s>> \o @]
  /\ UNCHANGED garbled

\* One part of the message is damaged on its way (external).
Garble ==
  /\ ~garbled /\ garbled' = TRUE /\ message.verifs # <<>>
  /\ \/ \E b \in Bodies \ {message.body} : message' = [message EXCEPT !.body = b]
     \/ \E i \in DOMAIN message.metas, s \in Signers :
          /\ message.metas[i] # s
          /\ message' = [message EXCEPT !.metas[i] = s]
     \/ \E i \in DOMAIN message.verifs :
          \/ message' = [message EXCEPT !.verifs[i].meta = NoSig]
          \/ message' = [message EXCEPT !.verifs[i].body =
                           IF @ = NoSig THEN message.verifs[Len(message.verifs)].body ELSE NoSig]
          \/ message' = [message EXCEPT !.verifs = SubSeq(@, 1, i - 1) \o SubSeq(@, i + 1, Len(@))]
     \/ message' = [message EXCEPT !.metas = Tail(@)]
  /\ UNCHANGED intent

SignNext ==
  \/ \E s \in Signers, b \in Bodies : WriteRequest(s, b)
  \/ \E s \in Signers : Forward(s)
  \/ Garble

SignSpec == SignInit /\ [][SignNext]_signVars

-----------------------------------------------------------------------------
\* A request the client has signed verifies, also when its structure was used
\* before and after any number of servers have forwarded it; and what verifies is
\* what was signed: a message that lost, gained or changed one part on its way is
\* refused.
VerifiesAsSigned ==
  /\ message.verifs # <<>> /\ ~garbled => verifyServiceMessage(message)
  /\ verifyServiceMessage(message) =>
       message.body = intent.body /\ message.metas = intent.metas
=============================================================================
