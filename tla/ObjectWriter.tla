----------------------------- MODULE ObjectWriter -----------------------------
(***************************************************************************)
(* The writing stream of the client: ObjectPutInit and                     *)
(* DefaultObjectWriter.  One request is reused for all messages: it        *)
(* carries the header first and pieces of the payload from the first Write *)
(* on.  The server may end the stream at any time with a failure status,   *)
(* which the writer learns of as io.EOF of a later message.                *)
(*                                                                         *)
(* Bytes are positions of the payload; a piece is the range from + 1..to.  *)
(***************************************************************************)
EXTENDS Naturals, Sequences

CONSTANTS
  MaxChunkLen,  \* maxChunkLen
  MaxPayload,   \* bound of the model: bytes the caller has to write
  MaxSignFails  \* bound of the model: messages the signer fails to sign

ASSUME WriterAssumption ==
  /\ MaxChunkLen \in Nat \ {0}
  /\ MaxPayload \in Nat /\ MaxSignFails \in Nat

VARIABLES
  pc,         \* init, header, idle, writing, closed, refused
  ctx,        \* the context of the stream: none, live, cancelled
  objectPart, \* what the request carries: init, chunk
  pending,    \* rest of the chunk of the Write in progress
  accepted,   \* bytes Write has counted as written
  writerErr,  \* the field err: nil, eof, failure
  res,        \* what the last call returned: nil, eof, failure, status
  obj,        \* res.obj: zero, id
  server,     \* reading, ended (with a failure status), broken
  status,     \* the response: none, ok, failure
  inbox,      \* messages the server has read
  signFails   \* messages the signer failed to sign so far

clientVars == <<pc, ctx, objectPart, pending, accepted, writerErr, res, obj, signFails>>
serverVars == <<server, status, inbox>>
vars == <<clientVars, serverVars>>

-----------------------------------------------------------------------------
Init ==
  /\ pc = "init" /\ ctx = "none" /\ objectPart = "init"
  /\ pending = 0 /\ accepted = 0 /\ writerErr = "nil" /\ res = "nil" /\ obj = "zero"
  /\ server = "reading" /\ status = "none" /\ inbox = <<>> /\ signFails = 0

\* The server refuses the object while it is being written.
ServerEnds ==
  /\ ctx = "live" /\ server = "reading"
  /\ server' = "ended" /\ status' = "failure"
  /\ UNCHANGED <<clientVars, inbox>>

ServerBreaks ==
  /\ ctx = "live" /\ server \in {"reading", "ended"}
  /\ server' = "broken" /\ status' = "none"
  /\ UNCHANGED <<clientVars, inbox>>

-----------------------------------------------------------------------------
(* Messages.  The transport takes a message to a server that reads, and may *)
(* still take one to a server that has ended; that one is lost.             *)

Transmit(msg) ==
  /\ server # "broken"
  /\ inbox' = IF server = "reading" THEN Append(inbox, msg) ELSE inbox
  /\ writerErr' = "nil"

\* What stream.Write may fail with.
WriteErrors ==
  CASE server = "reading" -> {}
    [] server = "ended" -> {"eof"}
    [] server = "broken" -> {"eof", "failure"}

\* The signer fails, or the stream.
MessageFails ==
  \/ /\ signFails < MaxSignFails
     /\ signFails' = signFails + 1 /\ writerErr' = "failure"
  \/ /\ writerErr' \in WriteErrors
     /\ UNCHANGED signFails

\* objectPart of the request and, for a chunk, the bytes from + 1..to.
Message(part, a, b) == [part |-> part, from |-> a, to |-> b]

-----------------------------------------------------------------------------
(* ObjectPutInit. *)

\* No signer, or the RPC cannot be started; the latter cancels its context.
OpenFails ==
  /\ pc = "init"
  /\ pc' = "refused" /\ res' = "failure"
  /\ ctx' \in {"none", "cancelled"}
  /\ UNCHANGED <<objectPart, pending, accepted, writerErr, obj, signFails, serverVars>>

Open ==
  /\ pc = "init"
  /\ pc' = "header" /\ ctx' = "live"
  /\ UNCHANGED <<objectPart, pending, accepted, writerErr, res, obj, signFails, serverVars>>

WriteHeader ==
  /\ pc = "header"
  /\ Transmit(Message(objectPart, 0, 0))
  /\ pc' = "idle"
  /\ UNCHANGED <<ctx, objectPart, pending, accepted, res, obj, signFails, server, status>>

\* ObjectPutInit closes the writer and ignores what Close returns.
HeaderFails ==
  /\ pc = "header"
  /\ MessageFails
  /\ pc' = "refused" /\ ctx' = "cancelled" /\ res' = "failure"
  /\ UNCHANGED <<objectPart, pending, accepted, obj, serverVars>>

-----------------------------------------------------------------------------
(* Write.  A caller goes on where the last Write stopped. *)

\* Mutant of Write: the request still carries the header.
WriteKeepsHeader(n) ==
  /\ pc = "idle"
  /\ accepted + n <= MaxPayload
  /\ pending' = n
  /\ pc' = IF n = 0 THEN "idle" ELSE "writing"
  /\ res' = IF n = 0 THEN "nil" ELSE res
  /\ UNCHANGED <<ctx, objectPart, accepted, writerErr, obj, signFails, serverVars>>

Write(n) ==
  /\ pc = "idle"
  /\ accepted + n <= MaxPayload
  /\ objectPart' = "chunk"
  /\ pending' = n
  /\ pc' = IF n = 0 THEN "idle" ELSE "writing"
  /\ res' = IF n = 0 THEN "nil" ELSE res
  /\ UNCHANGED <<ctx, accepted, writerErr, obj, signFails, serverVars>>

\* chunk[:ln].
Piece == IF pending > MaxChunkLen THEN MaxChunkLen ELSE pending

WritePiece ==
  /\ pc = "writing"
  /\ Transmit(Message(objectPart, accepted, accepted + Piece))
  /\ accepted' = accepted + Piece
  /\ pending' = pending - Piece
  /\ pc' = IF pending = Piece THEN "idle" ELSE "writing"
  /\ res' = IF pending = Piece THEN "nil" ELSE res
  /\ UNCHANGED <<ctx, objectPart, obj, signFails, server, status>>

\* Write returns the bytes written so far and the error.
PieceFails ==
  /\ pc = "writing"
  /\ MessageFails
  /\ pc' = "idle" /\ pending' = 0 /\ res' = writerErr'
  /\ UNCHANGED <<ctx, objectPart, accepted, obj, serverVars>>

-----------------------------------------------------------------------------
(* Close.  Every way out cancels the context. *)

Closed(result) == pc' = "closed" /\ ctx' = "cancelled" /\ res' = result

\* Mutant of Final: io.EOF ends Close as well.
FinalEOF(e) == e # "nil"

\* The errors of a message after which the response is not asked for.  io.EOF
\* is not one: the server has ended the stream and says why in its response.
Final(e) == e = "failure"

CloseFailed ==
  /\ pc = "idle" /\ Final(writerErr)
  /\ Closed(writerErr)
  /\ UNCHANGED <<objectPart, pending, accepted, writerErr, obj, signFails, serverVars>>

\* stream.Close fails.
CloseBroken ==
  /\ pc = "idle" /\ ~Final(writerErr) /\ server = "broken"
  /\ writerErr' = "failure" /\ Closed("failure")
  /\ UNCHANGED <<objectPart, pending, accepted, obj, signFails, serverVars>>

\* Mutant of CloseStatus: a failure status is taken for an answer.
CloseStatusIgnored ==
  /\ pc = "idle" /\ ~Final(writerErr) /\ server # "broken"
  /\ status' = "failure"
  /\ writerErr' = "nil" /\ Closed("nil")
  /\ UNCHANGED <<objectPart, pending, accepted, obj, signFails, server, inbox>>

\* The server has refused the object before, or does so now.  A response
\* with a wrong signature ends the same way.
CloseStatus ==
  /\ pc = "idle" /\ ~Final(writerErr) /\ server # "broken"
  /\ status' = "failure"
  /\ writerErr' = "failure" /\ Closed("status")
  /\ UNCHANGED <<objectPart, pending, accepted, obj, signFails, server, inbox>>

\* The server has stored what it read, and answers with an ID, without one, or
\* with one that cannot be read: then the error is kept in the field err and
\* Close returns nil.
CloseStored(id) ==
  /\ pc = "idle" /\ ~Final(writerErr) /\ server = "reading"
  /\ status' = "ok"
  /\ CASE id = "missing" -> writerErr' = "nil" /\ Closed("failure") /\ UNCHANGED obj
       [] id = "invalid" -> writerErr' = "failure" /\ Closed("nil") /\ UNCHANGED obj
       [] id = "valid"   -> writerErr' = "nil" /\ Closed("nil") /\ obj' = "id"
  /\ UNCHANGED <<objectPart, pending, accepted, signFails, server, inbox>>

-----------------------------------------------------------------------------
Step ==
  \/ WriteHeader
  \/ HeaderFails
  \/ WritePiece
  \/ PieceFails

Call ==
  \/ OpenFails
  \/ Open
  \/ \E n \in 0..MaxPayload : Write(n)
  \/ CloseFailed
  \/ CloseBroken
  \/ CloseStatus
  \/ \E id \in {"missing", "invalid", "valid"} : CloseStored(id)

Server == ServerEnds \/ ServerBreaks

Next == Step \/ Call \/ Server

Spec == Init /\ [][Next]_vars

-----------------------------------------------------------------------------
Messages == [part : {"init", "chunk"}, from : Nat, to : Nat]

TypeOK ==
  /\ pc \in {"init", "header", "idle", "writing", "closed", "refused"}
  /\ ctx \in {"none", "live", "cancelled"}
  /\ objectPart \in {"init", "chunk"}
  /\ accepted \in 0..MaxPayload /\ pending \in 0..(MaxPayload - accepted)
  /\ writerErr \in {"nil", "eof", "failure"}
  /\ res \in {"nil", "eof", "failure", "status"}
  /\ obj \in {"zero", "id"}
  /\ server \in {"reading", "ended", "broken"}
  /\ status \in {"none", "ok", "failure"}
  /\ inbox \in Seq(Messages)
  /\ signFails \in 0..MaxSignFails

\* The server reads the header once, first, and then pieces of at most
\* maxChunkLen bytes that follow each other; while it reads, it has every byte
\* that Write has counted as written, also when a Write failed in the middle
\* and the caller went on from there.
ServerReadsInOrder ==
  /\ \A i \in 1..Len(inbox) :
       /\ inbox[i].part = IF i = 1 THEN "init" ELSE "chunk"
       /\ inbox[i].to - inbox[i].from <= MaxChunkLen
       /\ inbox[i].from = IF i = 1 THEN 0 ELSE inbox[i - 1].to
  /\ server = "reading" /\ inbox # <<>> => inbox[Len(inbox)].to = accepted

\* Close returns nil only if the server has stored all bytes Write has
\* accepted: a refusal of the server is never lost, though messages sent after
\* it may have been taken without an error.
CloseNilMeansStored ==
  pc = "closed" /\ res = "nil" =>
    status = "ok" /\ inbox[Len(inbox)].to = accepted

\* When the server has ended the stream with a status, Close returns that
\* status, and neither nil nor the io.EOF by which a Write learned of the end;
\* only a failure of the signer comes before it.
RefusalReported ==
  pc = "closed" /\ server = "ended" =>
    res = "status" \/ (res = "failure" /\ signFails > 0)

\* A writer that has been closed, or was never handed out, holds no stream.
NoStreamLeft == pc \in {"closed", "refused"} => ctx # "live"
=============================================================================
