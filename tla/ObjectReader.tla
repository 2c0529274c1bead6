----------------------------- MODULE ObjectReader -----------------------------
(***************************************************************************)
(* The reading streams of the client: PayloadReader (ObjectGetInit),       *)
(* ObjectRangeReader (ObjectRangeInit) and ObjectListReader                *)
(* (ObjectSearchInit).  They cut the chunks of the server into the buffers *)
(* of the caller and keep the rest of a chunk as a tail.                   *)
(*                                                                         *)
(* An item (a byte of the payload, or an object ID of a search) is its     *)
(* position in what the server sends.  The server is not trusted: it sends *)
(* more or fewer items than it declared, and ends or fails at any point.   *)
(* Some of the IDs it sends may be malformed: copyIDBuffers counts such an *)
(* ID like any other and leaves the entry of the caller's buffer as it was.*)
(***************************************************************************)
EXTENDS Integers, Sequences, FiniteSets

CONSTANTS
  MaxInt,    \* greatest int; the lengths on the wire are unsigned
  MaxSent,   \* bound of the model: items the server sends
  MaxChunk,  \* bound of the model: items of one message
  MaxBuf,    \* bound of the model: length of a caller's buffer
  MaxBad     \* bound of the model: malformed IDs

ASSUME ReaderAssumption ==
  /\ MaxInt \in Nat \ {0} /\ MaxSent \in Nat
  /\ MaxChunk \in Nat \ {0} /\ MaxBuf \in Nat \ {0} /\ MaxBad \in Nat

VARIABLES
  kind,       \* get, range, list
  malformed,  \* the items of the server that are IDs nobody can read
  phase,      \* init, header, idle, recv (in stream.Read), closed, refused
  readCtx,    \* the context of the stream: none, live, cancelled
  stream,     \* open, eof, broken
  sent,       \* items the server has sent so far
  declared,   \* payload length of the header, or length of the range
  remaining,  \* remainingPayloadLen
  readErr,    \* the field err: nil, eof, failure
  tail,       \* tailPayload, tail
  room,       \* length of the buffer of the Read in progress
  part,       \* what that Read has put into the buffer
  iterating,  \* the Read is one of Iterate
  got,        \* history: all the caller was given
  returned    \* what the last call returned

readerVars == <<kind, malformed, phase, readCtx, stream, sent, declared, remaining, readErr, tail,
                room, part, iterating, got, returned>>

Kinds == {"get", "range", "list"}
MaxUint == 2 * MaxInt + 1
ReadErrors == {"nil", "eof", "failure"}
Results == {"nil", "eof", "unexpectedEOF", "overflow", "failure", "false"}

\* int(x) of an unsigned length.
ToInt(x) == IF x <= MaxInt THEN x ELSE x - (MaxUint + 1)

\* The next n items the server sends.
Items(n) == [i \in 1..n |-> sent + i]

Shorter(a, b) == IF a <= b THEN a ELSE b
First(s, n) == SubSeq(s, 1, n)
Rest(s, n) == SubSeq(s, n + 1, Len(s))

\* What an entry of the caller's buffer held before the call: a zero ID, or one that
\* was given earlier, as always in Iterate behind its first turn.
Stale == 0

\* Mutant of copyIDBuffers: a malformed ID is skipped.
copyReadable(src) == SelectSeq(src, LAMBDA x : x \notin malformed)

\* Copies the items at the front of the tail or of a message; the errors of
\* ReadFromV2 are dropped.
copyIDBuffers(src) == [i \in 1..Len(src) |-> IF src[i] \in malformed THEN Stale ELSE src[i]]

-----------------------------------------------------------------------------
ReaderInit ==
  /\ kind \in Kinds
  /\ malformed \in {S \in SUBSET (1..MaxSent) : Cardinality(S) <= MaxBad}
  /\ kind # "list" => malformed = {}
  /\ phase = "init" /\ readCtx = "none" /\ stream = "open"
  /\ sent = 0 /\ declared = 0 /\ remaining = 0 /\ readErr = "nil"
  /\ tail = <<>> /\ room = 0 /\ part = <<>> /\ iterating = FALSE
  /\ got = <<>> /\ returned = "nil"

\* The variables while a behaviour is about something else.
ReaderRest == ReaderInit /\ kind = "range" /\ malformed = {}

\* No signer, an empty range, or a request that cannot be signed.
OpenRefused ==
  /\ phase = "init"
  /\ phase' = "refused" /\ returned' = "failure"
  /\ UNCHANGED <<kind, malformed, readCtx, stream, sent, declared, remaining, readErr, tail, room,
                 part, iterating, got>>

\* The RPC cannot be started.  ObjectSearchInit leaves its context alone.
OpenReaderFails ==
  /\ phase = "init"
  /\ phase' = "refused" /\ returned' = "failure" /\ stream' = "broken"
  /\ readCtx' = IF kind = "list" THEN "live" ELSE "cancelled"
  /\ UNCHANGED <<kind, malformed, sent, declared, remaining, readErr, tail, room, part,
                 iterating, got>>

\* len is the length of the requested range, which is never 0.
OpenRange(len) ==
  /\ phase = "init" /\ kind = "range" /\ len > 0
  /\ phase' = "idle" /\ readCtx' = "live"
  /\ declared' = len /\ remaining' = ToInt(len)
  /\ UNCHANGED <<kind, malformed, stream, sent, readErr, tail, room, part, iterating, got, returned>>

OpenList ==
  /\ phase = "init" /\ kind = "list"
  /\ phase' = "idle" /\ readCtx' = "live"
  /\ UNCHANGED <<kind, malformed, stream, sent, declared, remaining, readErr, tail, room, part,
                 iterating, got, returned>>

OpenGet ==
  /\ phase = "init" /\ kind = "get"
  /\ phase' = "header" /\ readCtx' = "live"
  /\ UNCHANGED <<kind, malformed, stream, sent, declared, remaining, readErr, tail, room, part,
                 iterating, got, returned>>

\* readHeader with a proper first message.
HeaderOk(len) ==
  /\ phase = "header"
  /\ phase' = "idle" /\ declared' = len /\ remaining' = ToInt(len)
  /\ UNCHANGED <<kind, malformed, readCtx, stream, sent, readErr, tail, room, part, iterating, got, returned>>

\* The stream ends or fails, or the first message is refused (signature,
\* status, split information, another part); ObjectGetInit then calls Close.
ReadHeaderFails(e) ==
  /\ phase = "header"
  /\ e \in {"eof", "failure"}
  /\ phase' = "refused" /\ readErr' = e /\ readCtx' = "cancelled" /\ returned' = "failure"
  /\ UNCHANGED <<kind, malformed, stream, sent, declared, remaining, tail, room, part,
                 iterating, got>>

-----------------------------------------------------------------------------
(* The ends of a Read. *)

\* Mutant of CloseResult: every error of the stream is taken for its end.
CloseAlwaysNil(e) == "nil"

\* close(ignoreEOF = true), and Close of the list.
CloseResult(e) == IF e = "failure" THEN "failure" ELSE "nil"

\* Mutant of EndResult: a payload that lacks its last item is complete.
EndResultLax(e, left) ==
  CASE e = "failure" -> "failure"
    [] e = "eof" /\ left > 1 -> "unexpectedEOF"
    [] OTHER -> "eof"

\* close(ignoreEOF = false).
EndResult(e, left) ==
  CASE e = "failure" -> "failure"
    [] e = "eof" /\ left > 0 -> "unexpectedEOF"
    [] OTHER -> "eof"

Left(n) == IF kind = "list" THEN remaining ELSE remaining - n

\* Read has more than was declared.
Surplus(left) == kind # "list" /\ left < 0

\* readChunk returned (len(bytes), true).  Iterate hands the ID to its
\* callback, which may stop it; it then returns without a Close.
ReadOk(bytes) ==
  /\ phase' = "idle" /\ room' = 0 /\ part' = <<>>
  /\ got' = got \o bytes
  /\ remaining' = Left(Len(bytes))
  /\ returned' = IF Surplus(Left(Len(bytes))) THEN "overflow" ELSE "nil"
  /\ iterating' \in (IF iterating THEN BOOLEAN ELSE {FALSE})
  /\ UNCHANGED readCtx

\* readChunk returned (len(bytes), false) with e.  Readers of payload close
\* the stream at once, and so does Iterate.
ReadFailed(bytes, e) ==
  /\ room' = 0 /\ part' = <<>>
  /\ got' = got \o bytes
  /\ readErr' = e
  /\ remaining' = Left(Len(bytes))
  /\ phase' = IF iterating THEN "closed" ELSE "idle"
  /\ readCtx' = IF kind = "list" /\ ~iterating THEN readCtx ELSE "cancelled"
  /\ iterating' = FALSE
  /\ returned' = IF kind # "list" THEN EndResult(e, Left(Len(bytes)))
            ELSE IF iterating THEN CloseResult(e) ELSE "false"
  /\ UNCHANGED tail

\* A caller stops after a failure; readers until EOF may ask once more.
MayRead == phase = "idle" /\ readErr # "failure"

\* The tail comes first; the stream is read only if it does not fill the
\* buffer.
ReadStart(m) ==
  LET n == Shorter(m, Len(tail)) IN
  /\ tail' = Rest(tail, n)
  /\ IF n = m
     THEN ReadOk(copyIDBuffers(First(tail, n)))
     ELSE /\ phase' = "recv" /\ room' = m /\ part' = copyIDBuffers(First(tail, n))
          /\ UNCHANGED <<readCtx, remaining, iterating, got, returned>>
  /\ UNCHANGED <<kind, malformed, stream, sent, declared, readErr>>

\* ObjectListReader.Read panics on an empty buffer.
Read(m) ==
  /\ MayRead /\ ~iterating
  /\ kind = "list" => m > 0
  /\ ReadStart(m)

\* Iterate: one Read of one ID after another.
IterateStart ==
  /\ MayRead /\ ~iterating /\ kind = "list"
  /\ iterating' = TRUE
  /\ UNCHANGED <<kind, malformed, phase, readCtx, stream, sent, declared, remaining, readErr, tail,
                 room, part, got, returned>>

IterateNext ==
  /\ MayRead /\ iterating
  /\ ReadStart(1)

-----------------------------------------------------------------------------
(* The loop of readChunk: one step per stream.Read. *)

\* Mutant of TakeChunk: what does not fit into the buffer is dropped.
TakeChunkTruncated(n) ==
  LET l == Shorter(room - Len(part), n)
      filled == part \o copyIDBuffers(First(Items(n), l))
  IN  /\ phase = "recv" /\ stream = "open"
      /\ sent + n <= MaxSent
      /\ sent' = sent + n /\ readErr' = "nil"
      /\ tail' = tail
      /\ IF Len(filled) = room
         THEN ReadOk(filled)
         ELSE /\ part' = filled
              /\ UNCHANGED <<phase, readCtx, remaining, room, iterating, got, returned>>
      /\ UNCHANGED <<kind, malformed, stream, declared>>

\* A message with n items; an empty one is skipped.
TakeChunk(n) ==
  LET l == Shorter(room - Len(part), n)
      filled == part \o copyIDBuffers(First(Items(n), l))
  IN  /\ phase = "recv" /\ stream = "open"
      /\ sent + n <= MaxSent
      /\ sent' = sent + n /\ readErr' = "nil"
      /\ tail' = tail \o Rest(Items(n), l)
      /\ IF Len(filled) = room
         THEN ReadOk(filled)
         ELSE /\ part' = filled
              /\ UNCHANGED <<phase, readCtx, remaining, room, iterating, got, returned>>
      /\ UNCHANGED <<kind, malformed, stream, declared>>

\* The server has ended the stream; the end is reported again to whoever
\* reads on.
StreamEnds ==
  /\ phase = "recv" /\ stream \in {"open", "eof"}
  /\ stream' = "eof"
  /\ ReadFailed(part, "eof")
  /\ UNCHANGED <<kind, malformed, sent, declared>>

\* The transport fails, times out, or the caller's context is cancelled.
StreamFails ==
  /\ phase = "recv" /\ stream = "open"
  /\ stream' = "broken"
  /\ ReadFailed(part, "failure")
  /\ UNCHANGED <<kind, malformed, sent, declared>>

\* A message with n items is refused: wrong signature, a failure status,
\* split information, or a part of another type.
RejectMessage(n) ==
  /\ phase = "recv" /\ stream = "open"
  /\ sent + n <= MaxSent
  /\ sent' = sent + n
  /\ ReadFailed(part, "failure")
  /\ UNCHANGED <<kind, malformed, stream, declared>>

Close ==
  /\ phase = "idle" /\ ~iterating
  /\ phase' = "closed" /\ readCtx' = "cancelled" /\ returned' = CloseResult(readErr)
  /\ UNCHANGED <<kind, malformed, stream, sent, declared, remaining, readErr, tail, room, part,
                 iterating, got>>

-----------------------------------------------------------------------------
OpenReader ==
  \/ OpenRefused
  \/ OpenReaderFails
  \/ OpenList
  \/ OpenGet
  \/ \E len \in 0..MaxUint : OpenRange(len)
  \/ \E len \in 0..MaxUint : HeaderOk(len)
  \/ \E e \in ReadErrors : ReadHeaderFails(e)

ReaderCall ==
  \/ \E m \in 0..MaxBuf : Read(m)
  \/ IterateStart
  \/ IterateNext
  \/ Close

Receive ==
  \/ \E n \in 0..MaxChunk : TakeChunk(n)
  \/ StreamEnds
  \/ StreamFails
  \/ \E n \in 0..MaxChunk : RejectMessage(n)

ReaderNext == OpenReader \/ ReaderCall \/ Receive

ReaderSpec == ReaderInit /\ [][ReaderNext]_readerVars

-----------------------------------------------------------------------------
ReaderTypeOK ==
  /\ kind \in Kinds /\ malformed \subseteq Nat
  /\ phase \in {"init", "header", "idle", "recv", "closed", "refused"}
  /\ readCtx \in {"none", "live", "cancelled"}
  /\ stream \in {"open", "eof", "broken"}
  /\ sent \in Nat /\ declared \in 0..MaxUint
  /\ remaining \in -(MaxUint + MaxSent)..MaxInt /\ readErr \in ReadErrors
  /\ tail \in Seq(Nat) /\ part \in Seq(Nat) /\ got \in Seq(Nat)
  /\ room \in Nat /\ iterating \in BOOLEAN /\ returned \in Results

\* What the callers of Read were given, followed by what the reader holds, is
\* what the server sent from its start: no item is lost, repeated or swapped
\* where a chunk, the tail and a buffer meet, also in a Read that fails.  A
\* malformed ID takes up its place like any other; what the caller finds there
\* is what its buffer held before.
InOrder ==
  LET seen == got \o part \o tail
  IN  /\ Len(seen) <= sent
      /\ \A i \in 1..Len(seen) : i \notin malformed => seen[i] = i

\* The end of a payload tells whether it was complete, however it was cut into
\* Reads: io.ErrUnexpectedEOF if items are missing, io.EOF if none is (lengths
\* that an int holds), and no Read succeeds once the caller has been given more
\* than was declared, nor after a length that an int does not hold.
LengthReported ==
  kind # "list" =>
    /\ declared <= MaxInt =>
         /\ returned = "unexpectedEOF" => Len(got) < declared
         /\ returned = "eof" => Len(got) >= declared /\ tail = <<>>
    /\ phase = "idle" /\ got # <<>> /\ returned = "nil" =>
         Len(got) <= declared /\ declared <= MaxInt

\* A Close (or Iterate) that returns nil after the reader said that there is no
\* more has delivered, each in its place, every item the server sent that could be
\* read, and counted the malformed ones.
CleanCloseMeansAll ==
  phase = "closed" /\ returned = "nil" /\ readErr # "nil" =>
    /\ stream = "eof" /\ Len(got) = sent
    /\ \A i \in 1..sent : i \notin malformed => got[i] = i
=============================================================================
