-------------------------- MODULE ObjectReader_proofs --------------------------
(***************************************************************************)
(* The reading streams of the client for any lengths of payloads, chunks   *)
(* and buffers, and any server: nothing is lost, repeated or swapped, and  *)
(* the end of a stream is told from its failure.                           *)
(***************************************************************************)
EXTENDS ObjectReader, TLAPS

USE ReaderAssumption

-----------------------------------------------------------------------------
(* Runs of consecutive items. *)

\* s holds the items that follow item a.
Run(s, a) == s \in Seq(Nat) /\ \A i \in 1..Len(s) : s[i] = a + i

LEMMA RunEmpty == \A a \in Nat : Run(<<>>, a) /\ Len(<<>>) = 0
  BY DEF Run

LEMMA RunConcat ==
  ASSUME NEW s, NEW t, NEW a \in Nat, Run(s, a), Run(t, a + Len(s))
  PROVE  Run(s \o t, a) /\ Len(s \o t) = Len(s) + Len(t)
  BY DEF Run

LEMMA RunSplit ==
  ASSUME NEW s, NEW a \in Nat, Run(s, a), NEW n \in 0..Len(s)
  PROVE  /\ Run(First(s, n), a) /\ Len(First(s, n)) = n
         /\ Run(Rest(s, n), a + n) /\ Len(Rest(s, n)) = Len(s) - n
<1>1. Run(First(s, n), a) /\ Len(First(s, n)) = n
  BY DEF Run, First
<1>2. Run(Rest(s, n), a + n) /\ Len(Rest(s, n)) = Len(s) - n
  BY DEF Run, Rest
<1> QED BY <1>1, <1>2

LEMMA RunLen == \A s, a : Run(s, a) => Len(s) \in Nat /\ s \in Seq(Nat)
  BY DEF Run

LEMMA RunNone == \A s, a : Run(s, a) /\ Len(s) = 0 => s = <<>>
  BY DEF Run

\* s holds what the caller is given for the items that follow item a, of which those
\* in bad are malformed.
Given(s, a, bad) ==
  /\ s \in Seq(Nat)
  /\ \A i \in 1..Len(s) : s[i] = IF a + i \in bad THEN Stale ELSE a + i

LEMMA GivenEmpty == \A a \in Nat : \A bad : Given(<<>>, a, bad) /\ Len(<<>>) = 0
  BY DEF Given

LEMMA GivenConcat ==
  ASSUME NEW s, NEW t, NEW a \in Nat, NEW bad, Given(s, a, bad), Given(t, a + Len(s), bad)
  PROVE  Given(s \o t, a, bad) /\ Len(s \o t) = Len(s) + Len(t)
<1>1. s \in Seq(Nat) /\ t \in Seq(Nat) /\ Len(s) \in Nat /\ Len(t) \in Nat
  BY DEF Given
<1>2. s \o t \in Seq(Nat) /\ Len(s \o t) = Len(s) + Len(t)
  BY <1>1
<1>3. ASSUME NEW i \in 1..Len(s \o t)
      PROVE  (s \o t)[i] = IF a + i \in bad THEN Stale ELSE a + i
  <2>1. CASE i <= Len(s)
    BY <1>1, <1>2, <2>1 DEF Given
  <2>2. CASE i > Len(s)
    <3>1. PICK j \in 1..Len(t) : i = Len(s) + j
      <4>1. i - Len(s) \in 1..Len(t) /\ i = Len(s) + (i - Len(s))
        BY <1>1, <1>2, <2>2
      <4> QED BY <4>1
    <3>2. (s \o t)[i] = t[j] /\ (a + Len(s)) + j = a + i
      BY <1>1, <1>2, <3>1
    <3> QED BY <3>2 DEF Given
  <2> QED BY <1>1, <2>1, <2>2
<1> QED BY <1>2, <1>3 DEF Given

LEMMA GivenLen == \A s, a, bad : Given(s, a, bad) => Len(s) \in Nat /\ s \in Seq(Nat)
  BY DEF Given

\* copyIDBuffers takes one entry of the buffer for every item.
LEMMA CopiedGiven ==
  ASSUME NEW s, NEW a \in Nat, Run(s, a)
  PROVE  Given(copyIDBuffers(s), a, malformed) /\ Len(copyIDBuffers(s)) = Len(s)
<1>1. s \in Seq(Nat) /\ Len(s) \in Nat /\ \A i \in 1..Len(s) : s[i] = a + i /\ s[i] \in Nat
  BY DEF Run
<1>2. copyIDBuffers(s) \in Seq(Nat) /\ Len(copyIDBuffers(s)) = Len(s)
  BY <1>1 DEF copyIDBuffers, Stale
<1>3. \A i \in 1..Len(s) : copyIDBuffers(s)[i] = IF a + i \in malformed THEN Stale ELSE a + i
  BY <1>1 DEF copyIDBuffers
<1> QED BY <1>2, <1>3 DEF Given

LEMMA ItemsRun ==
  ASSUME sent \in Nat, NEW n \in Nat
  PROVE  Run(Items(n), sent) /\ Len(Items(n)) = n
  BY DEF Run, Items

LEMMA ShorterIs ==
  ASSUME NEW a \in Nat, NEW b \in Nat
  PROVE  Shorter(a, b) \in 0..a /\ Shorter(a, b) \in 0..b /\ Shorter(a, b) \in {a, b}
  BY DEF Shorter

LEMMA ToIntIs ==
  ASSUME NEW x \in 0..MaxUint
  PROVE  /\ ToInt(x) \in -(MaxInt + 1)..MaxInt
         /\ x <= MaxInt => ToInt(x) = x
         /\ x > MaxInt => ToInt(x) < 0
  BY DEF ToInt, MaxUint

-----------------------------------------------------------------------------
(* The inductive invariant. *)

Started == phase \in {"idle", "recv", "closed"}

\* What was given, what the current Read holds, and the tail follow each other;
\* together they are all that was sent, until a message is refused.
Aligned ==
  /\ Given(got, 0, malformed) /\ Given(part, Len(got), malformed)
  /\ Run(tail, Len(got) + Len(part))
  /\ Len(got) + Len(part) + Len(tail) <= sent
  /\ readErr # "failure" => Len(got) + Len(part) + Len(tail) = sent

\* A Read that waits for a message has taken all of the tail and has room left;
\* no Read is in progress otherwise.
Waiting ==
  /\ phase = "recv" => tail = <<>> /\ Len(part) < room /\ readErr # "failure"
  /\ phase # "recv" => part = <<>>
  /\ ~Started => got = <<>> /\ tail = <<>>
  /\ phase \in {"init", "header"} => readErr = "nil" /\ returned = "nil"

\* Nothing is held back once the end of the stream was seen.
Ended == readErr = "eof" /\ Started => stream = "eof" /\ tail = <<>> /\ part = <<>>

\* The bytes left are those declared and not given.
Remaining == kind # "list" /\ Started => remaining = ToInt(declared) - Len(got)

Bounded == sent <= MaxSent

\* Only lists are iterated over.
OverLists == iterating => kind = "list"

\* A clean end after the last item was seen leaves nothing behind.
CleanClose == phase = "closed" /\ returned = "nil" /\ readErr # "nil" => stream = "eof" /\ Len(got) = sent

IInv == /\ ReaderTypeOK /\ Aligned /\ Waiting /\ Ended /\ Remaining /\ Bounded /\ OverLists
        /\ LengthReported /\ CleanClose

LEMMA InOrderFollows == IInv => InOrder
<1> SUFFICES ASSUME IInv PROVE InOrder
  OBVIOUS
<1>1. /\ Given(got, 0, malformed) /\ Given(part, 0 + Len(got), malformed)
      /\ Run(tail, Len(got) + Len(part)) /\ tail \in Seq(Nat)
      /\ Len(got) \in Nat /\ Len(part) \in Nat /\ Len(tail) \in Nat
  BY RunLen, GivenLen DEF IInv, Aligned
<1>2. Given(got \o part, 0, malformed) /\ Len(got \o part) = Len(got) + Len(part)
  BY <1>1, GivenConcat
<1> DEFINE front == got \o part
           seen == front \o tail
<1>3. front \in Seq(Nat) /\ Len(front) \in Nat
  BY <1>2, GivenLen
<1>4. Len(seen) = Len(front) + Len(tail)
  <2> HIDE DEF front
  <2> QED BY <1>1, <1>3
<1>5. ASSUME NEW i \in 1..Len(seen), i \notin malformed PROVE seen[i] = i
  <2> HIDE DEF front
  <2>1. CASE i <= Len(front)
    <3>1. front[i] = i
      <4>1. Given(front, 0, malformed) /\ i \in 1..Len(front) /\ 0 + i = i
        BY <1>2, <1>3, <1>4, <2>1 DEF front
      <4> QED BY <1>5, <4>1 DEF Given
    <3> QED BY <1>1, <1>3, <2>1, <3>1
  <2>2. CASE i > Len(front)
    <3>1. PICK j \in 1..Len(tail) : i = Len(front) + j
      <4>1. i - Len(front) \in 1..Len(tail) /\ i = Len(front) + (i - Len(front))
        <5> HIDE DEF seen
        <5> QED BY <1>1, <1>3, <1>4, <2>2
      <4> QED BY <4>1
    <3>2. tail[j] = Len(got) + Len(part) + j /\ seen[i] = tail[j]
      BY <1>1, <1>3, <3>1 DEF Run
    <3> QED BY <1>2, <3>1, <3>2 DEF front
  <2> QED BY <1>3, <1>4, <2>1, <2>2
<1> QED BY <1>2, <1>4, <1>5 DEF IInv, Aligned, InOrder

LEMMA CleanCloseFollows == IInv => CleanCloseMeansAll
<1> SUFFICES ASSUME IInv, phase = "closed", returned = "nil", readErr # "nil"
             PROVE  stream = "eof" /\ Len(got) = sent
                    /\ \A i \in 1..sent : i \notin malformed => got[i] = i
  BY DEF CleanCloseMeansAll
<1>1. stream = "eof" /\ Len(got) = sent
  BY DEF IInv, CleanClose
<1>2. \A i \in 1..Len(got) : got[i] = IF 0 + i \in malformed THEN Stale ELSE 0 + i
  BY DEF IInv, Aligned, Given
<1>3. sent \in Nat /\ \A i \in 1..sent : 0 + i = i
  BY DEF IInv, ReaderTypeOK
<1> QED BY <1>1, <1>2, <1>3

LEMMA InitIInv == ReaderInit => IInv
<1> SUFFICES ASSUME ReaderInit PROVE IInv
  OBVIOUS
<1>1. Run(<<>>, 0) /\ Given(<<>>, 0, malformed) /\ Len(<<>>) = 0 /\ <<>> \in Seq(Nat)
  BY RunEmpty, GivenEmpty
<1>2. ReaderTypeOK
  <2>1. 0 \in Nat /\ 0 \in 0..MaxUint /\ 0 \in -(MaxUint + MaxSent)..MaxInt
        /\ malformed \subseteq Nat
    BY DEF MaxUint, ReaderInit
  <2> QED BY <1>1, <2>1 DEF ReaderInit, ReaderTypeOK, Kinds, ReadErrors, Results
<1>3. Aligned
  BY <1>1 DEF ReaderInit, Aligned
<1> QED BY <1>2, <1>3 DEF ReaderInit, IInv, Waiting, Ended, Remaining, Bounded, OverLists, Started,
                          LengthReported, CleanClose

-----------------------------------------------------------------------------
(* The ends of a Read. *)

\* A Read that succeeds with bytes, which continue what was given.
LEMMA ReadOkStep ==
  ASSUME IInv, phase \in {"idle", "recv"}, NEW bytes, ReadOk(bytes),
         Given(bytes, Len(got), malformed), Run(tail', Len(got) + Len(bytes)),
         sent' \in Nat, sent' <= MaxSent, Len(got) + Len(bytes) + Len(tail') = sent',
         readErr' \in {"nil", "eof"}, readErr' = "eof" => stream = "eof" /\ tail' = <<>>,
         UNCHANGED <<kind, malformed, declared, stream>>
  PROVE  IInv'
<1>1. /\ Len(got) \in Nat /\ Len(bytes) \in Nat /\ Len(tail') \in Nat
      /\ bytes \in Seq(Nat) /\ tail' \in Seq(Nat)
      /\ Given(got, 0, malformed) /\ Given(bytes, 0 + Len(got), malformed)
  BY RunLen, GivenLen DEF IInv, Aligned
<1>2. /\ Given(got', 0, malformed') /\ Len(got') = Len(got) + Len(bytes)
      /\ part' = <<>> /\ room' = 0
  BY <1>1, GivenConcat DEF ReadOk
<1>3. Aligned'
  <2>1. Given(part', Len(got'), malformed') /\ Len(part') = 0
    BY <1>1, <1>2, GivenEmpty
  <2>2. Run(tail', Len(got') + Len(part'))
    BY <1>1, <1>2, <2>1
  <2> QED BY <1>1, <1>2, <2>1, <2>2 DEF Aligned
<1>4. declared \in 0..MaxUint /\ ToInt(declared) \in -(MaxInt + 1)..MaxInt
  BY ToIntIs DEF IInv, ReaderTypeOK
<1>5. /\ remaining' \in -(MaxUint + MaxSent)..MaxInt
      /\ kind # "list" => remaining' = ToInt(declared) - Len(got')
  <2>1. CASE kind = "list"
    BY <2>1 DEF ReadOk, Left, IInv, ReaderTypeOK
  <2>2. CASE kind # "list"
    <3>1. remaining' = ToInt(declared) - Len(got')
      BY <1>1, <1>2, <1>4, <2>2 DEF ReadOk, Left, IInv, Remaining, Started
    <3>2. Len(got') <= MaxSent
      BY <1>1, <1>2
    <3> QED BY <1>1, <1>2, <1>4, <3>1, <3>2 DEF MaxUint
  <2> QED BY <2>1, <2>2
<1>6. phase' = "idle" /\ returned' \in {"overflow", "nil"}
      /\ (kind # "list" /\ returned' = "nil" => ~(remaining' < 0))
  BY DEF ReadOk, Surplus
<1>7. ReaderTypeOK'
  <2>1. iterating' \in BOOLEAN
    BY DEF ReadOk, IInv, ReaderTypeOK
  <2>2. part' \in Seq(Nat) /\ got' \in Seq(Nat)
    BY <1>2, GivenLen
  <2> QED BY <1>1, <1>2, <1>5, <1>6, <2>1, <2>2 DEF IInv, ReaderTypeOK, ReadOk, Results, ReadErrors
<1>11. OverLists'
  BY DEF IInv, OverLists, ReadOk
<1>8. Waiting' /\ Ended' /\ Bounded' /\ CleanClose'
  BY <1>2, <1>6 DEF Waiting, Started, Ended, Bounded, CleanClose
<1>9. Remaining'
  BY <1>5 DEF Remaining
<1>10. LengthReported'
  <2>1. ASSUME kind # "list", returned' = "nil" PROVE Len(got') <= declared /\ declared <= MaxInt
    BY <1>1, <1>2, <1>4, <1>5, <1>6, <2>1, ToIntIs
  <2> QED BY <1>6, <2>1 DEF LengthReported
<1> QED BY <1>3, <1>7, <1>8, <1>9, <1>10, <1>11 DEF IInv

LEMMA EndResultIs ==
  ASSUME NEW e \in {"eof", "failure"}, NEW left \in Int
  PROVE  /\ EndResult(e, left) \in {"failure", "unexpectedEOF", "eof"}
         /\ EndResult(e, left) = "unexpectedEOF" => e = "eof" /\ left > 0
         /\ EndResult(e, left) = "eof" => e = "eof" /\ left <= 0
<1>1. CASE e = "failure"
  BY <1>1 DEF EndResult
<1>2. CASE e = "eof" /\ left > 0
  BY <1>2 DEF EndResult
<1>3. CASE e = "eof" /\ ~(left > 0)
  BY <1>3 DEF EndResult
<1> QED BY <1>1, <1>2, <1>3

\* A Read that ends with the end or a failure of the stream, or with a message
\* that is refused, gives what it holds.
LEMMA ReadFailedStep ==
  ASSUME IInv, phase = "recv", NEW e \in {"eof", "failure"}, ReadFailed(part, e),
         UNCHANGED <<kind, malformed, declared>>, sent' \in Nat, sent <= sent', sent' <= MaxSent,
         stream' \in {"open", "eof", "broken"},
         e = "eof" => sent' = sent /\ stream' = "eof"
  PROVE  IInv'
<1>1. /\ Len(got) \in Nat /\ Len(part) \in Nat /\ tail = <<>> /\ Len(tail) = 0
      /\ Given(got, 0, malformed) /\ Given(part, 0 + Len(got), malformed)
      /\ Len(got) + Len(part) = sent /\ sent \in Nat
  BY GivenLen, RunEmpty DEF IInv, Aligned, Waiting, ReaderTypeOK
<1>2. /\ Given(got', 0, malformed') /\ Len(got') = Len(got) + Len(part) /\ part' = <<>>
      /\ room' = 0 /\ tail' = <<>> /\ readErr' = e /\ Len(got') = sent
  BY <1>1, GivenConcat DEF ReadFailed
<1>3. Aligned'
  <2>1. /\ Run(<<>>, Len(got')) /\ Given(<<>>, Len(got'), malformed')
        /\ Len(<<>>) = 0 /\ Len(got') + 0 = Len(got')
    BY <1>1, <1>2, RunEmpty, GivenEmpty
  <2> QED BY <1>1, <1>2, <2>1 DEF Aligned
<1>4. declared \in 0..MaxUint /\ ToInt(declared) \in -(MaxInt + 1)..MaxInt
  BY ToIntIs DEF IInv, ReaderTypeOK
<1>5. /\ remaining' \in -(MaxUint + MaxSent)..MaxInt
      /\ kind # "list" => remaining' = ToInt(declared) - Len(got')
      /\ kind # "list" => Left(Len(part)) = remaining'
  <2>1. CASE kind = "list"
    BY <2>1 DEF ReadFailed, Left, IInv, ReaderTypeOK
  <2>2. CASE kind # "list"
    <3>1. remaining' = ToInt(declared) - Len(got') /\ remaining' = Left(Len(part))
      BY <1>1, <1>2, <1>4, <2>2 DEF ReadFailed, Left, IInv, Remaining, Started
    <3> QED BY <1>1, <1>2, <1>4, <3>1 DEF MaxUint
  <2> QED BY <2>1, <2>2
<1>6. /\ phase' \in {"idle", "closed"}
      /\ iterating' = FALSE
      /\ readCtx' \in {"none", "live", "cancelled"}
  BY DEF ReadFailed, IInv, ReaderTypeOK
<1>7. CASE kind # "list"
  <2>1. returned' = EndResult(e, remaining')
    BY <1>5, <1>7 DEF ReadFailed, IInv, OverLists
  <2>2. /\ returned' \in {"failure", "unexpectedEOF", "eof"}
        /\ returned' = "unexpectedEOF" => e = "eof" /\ remaining' > 0
        /\ returned' = "eof" => e = "eof" /\ remaining' <= 0
    BY <1>5, <2>1, EndResultIs
  <2>3. ReaderTypeOK'
    <3>1. <<>> \in Seq(Nat) /\ got' \in Seq(Nat)
      BY <1>2, GivenLen
    <3> QED BY <1>2, <1>5, <1>6, <2>2, <3>1 DEF IInv, ReaderTypeOK, Results, ReadErrors
  <2>4. LengthReported'
    BY <1>1, <1>2, <1>4, <1>5, <2>2, ToIntIs DEF LengthReported
  <2>5. CleanClose' /\ Waiting' /\ Ended' /\ Bounded' /\ OverLists' /\ Remaining'
    BY <1>2, <1>5, <1>6, <2>2
       DEF CleanClose, Waiting, Ended, Bounded, OverLists, Remaining, Started
  <2> QED BY <1>3, <2>3, <2>4, <2>5 DEF IInv
<1>8. CASE kind = "list"
  <2>1. /\ returned' \in {"failure", "nil", "false"}
        /\ returned' = "nil" => e = "eof"
    BY <1>8 DEF ReadFailed, CloseResult
  <2>2. ReaderTypeOK'
    <3>1. <<>> \in Seq(Nat) /\ got' \in Seq(Nat)
      BY <1>2, GivenLen
    <3> QED BY <1>2, <1>5, <1>6, <2>1, <3>1 DEF IInv, ReaderTypeOK, Results, ReadErrors
  <2>3. CleanClose' /\ Waiting' /\ Ended' /\ Bounded' /\ OverLists' /\ Remaining' /\ LengthReported'
    BY <1>2, <1>6, <1>8, <2>1
       DEF CleanClose, Waiting, Ended, Bounded, OverLists, Remaining, Started, LengthReported
  <2> QED BY <1>3, <2>2, <2>3 DEF IInv
<1> QED BY <1>7, <1>8

-----------------------------------------------------------------------------
(* Every action. *)

LEMMA OpenStep == IInv /\ OpenReader => IInv'
<1> SUFFICES ASSUME IInv, OpenReader PROVE IInv'
  OBVIOUS
<1>1. /\ phase \in {"init", "header"} /\ phase' \in {"refused", "idle", "header"}
      /\ UNCHANGED <<kind, malformed, sent, tail, room, part, iterating, got>>
      /\ stream' \in {"open", "eof", "broken"} /\ readCtx' \in {"none", "live", "cancelled"}
  BY DEF OpenReader, OpenRefused, OpenReaderFails, OpenList, OpenGet, OpenRange, HeaderOk,
         ReadHeaderFails, IInv, ReaderTypeOK
<1>2. got = <<>> /\ tail = <<>> /\ part = <<>>
  BY <1>1 DEF IInv, Waiting, Started
<1>3. /\ readErr = "nil" /\ returned = "nil"
      /\ Len(<<>>) = 0
      /\ sent = 0
  BY <1>1, <1>2, RunEmpty DEF IInv, Waiting, Aligned, ReaderTypeOK
<1>4. /\ readErr' \in ReadErrors /\ (readErr' # "nil" => phase' = "refused")
      /\ returned' \in {"nil", "failure"}
      /\ phase' = "header" => returned' = "nil"
  BY <1>3 DEF OpenReader, OpenRefused, OpenReaderFails, OpenList, OpenGet, OpenRange, HeaderOk,
         ReadHeaderFails, ReadErrors
<1>5. /\ declared' \in 0..MaxUint
      /\ remaining' \in -(MaxUint + MaxSent)..MaxInt
      /\ kind # "list" /\ phase' = "idle" => remaining' = ToInt(declared')
  <2>1. CASE UNCHANGED <<declared, remaining>> /\ ~(kind # "list" /\ phase' = "idle")
    BY <2>1 DEF IInv, ReaderTypeOK
  <2>2. CASE \E len \in 0..MaxUint : declared' = len /\ remaining' = ToInt(len)
    BY <2>2, ToIntIs DEF MaxUint
  <2> QED BY <2>1, <2>2 DEF OpenReader, OpenRefused, OpenReaderFails, OpenList, OpenGet, OpenRange,
                            HeaderOk, ReadHeaderFails
<1>6. Aligned' /\ Waiting' /\ Bounded' /\ OverLists'
  <2>1. Aligned'
    BY <1>1, <1>2, <1>3, RunEmpty, GivenEmpty DEF Aligned, IInv
  <2> QED BY <1>1, <1>2, <1>4, <2>1 DEF IInv, Waiting, Bounded, OverLists, Started
<1>7. ReaderTypeOK'
  BY <1>1, <1>4, <1>5 DEF IInv, ReaderTypeOK, Results
<1>8. Remaining'
  BY <1>1, <1>2, <1>3, <1>5, ToIntIs DEF Remaining, Started
<1>9. Ended' /\ LengthReported' /\ CleanClose'
  BY <1>1, <1>2, <1>4 DEF Ended, LengthReported, CleanClose, Started
<1> QED BY <1>6, <1>7, <1>8, <1>9 DEF IInv

LEMMA ReadStartStep ==
  ASSUME IInv, MayRead, NEW m \in Nat, ReadStart(m)
  PROVE  IInv'
<1> DEFINE n == Shorter(m, Len(tail))
           copied == copyIDBuffers(First(tail, n))
<1>1. /\ Len(got) \in Nat /\ Len(tail) \in Nat /\ part = <<>> /\ Len(part) = 0
      /\ Run(tail, Len(got)) /\ Len(got) + Len(tail) = sent
      /\ sent \in Nat /\ sent <= MaxSent
  BY RunLen, GivenLen, RunEmpty DEF IInv, Aligned, Waiting, ReaderTypeOK, MayRead, Bounded
<1>2. n \in 0..Len(tail) /\ n \in 0..m /\ n \in {m, Len(tail)}
  BY <1>1, ShorterIs
<1>3. /\ Run(First(tail, n), Len(got)) /\ Len(First(tail, n)) = n
      /\ Run(Rest(tail, n), Len(got) + n) /\ Len(Rest(tail, n)) = Len(tail) - n
  BY <1>1, <1>2, RunSplit
<1>8. Given(copied, Len(got), malformed) /\ Len(copied) = n
  <2> HIDE DEF n
  <2> QED BY <1>1, <1>3, CopiedGiven
<1>4. tail' = Rest(tail, n) /\ UNCHANGED <<kind, malformed, stream, sent, declared, readErr>>
  BY DEF ReadStart
<1>5. readErr' \in {"nil", "eof"} /\ (readErr' = "eof" => stream = "eof" /\ tail = <<>>)
  BY <1>4 DEF MayRead, IInv, ReaderTypeOK, ReadErrors, Ended, Started
<1>6. CASE n = m
  <2>1. ReadOk(copied)
    BY <1>6 DEF ReadStart
  <2>2. readErr' = "eof" => stream = "eof" /\ tail' = <<>>
    BY <1>1, <1>2, <1>3, <1>4, <1>5, RunNone, RunEmpty
  <2>3. /\ phase \in {"idle", "recv"}
        /\ Run(tail', Len(got) + Len(copied))
        /\ Len(got) + Len(copied) + Len(tail') = sent'
    <3> HIDE DEF copied, n
    <3> QED BY <1>1, <1>2, <1>3, <1>4, <1>8 DEF MayRead
  <2>4. sent' \in Nat /\ sent' <= MaxSent
    BY <1>1, <1>4
  <2> HIDE DEF n, copied
  <2> QED BY <1>4, <1>5, <1>8, <2>1, <2>2, <2>3, <2>4, ReadOkStep
<1>7. CASE n # m
  <2>1. /\ phase' = "recv" /\ room' = m /\ part' = copied
        /\ UNCHANGED <<readCtx, remaining, iterating, got, returned>>
    BY <1>7 DEF ReadStart
  <2>2. n = Len(tail) /\ n < m
    BY <1>1, <1>2, <1>7
  <2>3. Len(tail') = 0 /\ tail' = <<>>
    BY <1>1, <1>3, <1>4, <2>2, RunNone
  <2>4. Given(part', Len(got), malformed') /\ Len(part') = Len(tail)
    BY <1>4, <1>8, <2>1, <2>2
  <2>5. Run(tail', Len(got) + Len(part'))
    BY <1>1, <2>3, <2>4, RunEmpty
  <2> HIDE DEF n, copied
  <2>6. Aligned'
    BY <1>1, <1>4, <2>1, <2>3, <2>4, <2>5 DEF IInv, Aligned
  <2>7. part' \in Seq(Nat) /\ tail' \in Seq(Nat)
    BY <2>4, <2>5, RunLen, GivenLen
  <2>8. ReaderTypeOK'
    BY <1>4, <2>1, <2>7 DEF IInv, ReaderTypeOK
  <2>9. Waiting'
    BY <1>5, <2>1, <2>2, <2>3, <2>4 DEF Waiting, Started
  <2>10. Ended'
    BY <1>1, <1>4, <1>5, <2>1, <2>3, <2>4, RunEmpty, RunNone DEF Ended
  <2>11. Bounded' /\ OverLists' /\ Remaining'
    BY <1>4, <2>1 DEF IInv, Bounded, OverLists, Remaining, Started, MayRead
  <2>12. LengthReported' /\ CleanClose'
    BY <1>4, <2>1, <2>3 DEF IInv, LengthReported, CleanClose, MayRead
  <2> QED BY <2>6, <2>8, <2>9, <2>10, <2>11, <2>12 DEF IInv
<1> QED BY <1>6, <1>7

LEMMA CallStep == IInv /\ ReaderCall => IInv'
<1> SUFFICES ASSUME IInv, ReaderCall PROVE IInv'
  OBVIOUS
<1>1. CASE \E m \in 0..MaxBuf : Read(m)
  BY <1>1, ReadStartStep DEF Read
<1>2. CASE IterateNext
  BY <1>2, ReadStartStep DEF IterateNext
<1>3. CASE IterateStart
  BY <1>3 DEF IterateStart, MayRead, IInv, ReaderTypeOK, Aligned, Run, Waiting, Ended, Remaining,
              Bounded, OverLists, LengthReported, CleanClose, Started, Given
<1>4. CASE Close
  <2>1. returned' \in {"nil", "failure"} /\ (returned' = "nil" => readErr # "failure")
    BY <1>4 DEF Close, CloseResult
  <2>2. /\ phase = "idle" /\ phase' = "closed" /\ readCtx' = "cancelled"
        /\ UNCHANGED <<kind, malformed, stream, sent, declared, remaining, readErr, tail, room,
                       part, iterating, got>>
    BY <1>4 DEF Close
  <2>3. ReaderTypeOK'
    BY <2>1, <2>2 DEF IInv, ReaderTypeOK, Results
  <2>4. Aligned' /\ Waiting' /\ Ended' /\ Remaining' /\ Bounded' /\ OverLists'
    BY <2>2 DEF IInv, Aligned, Run, Given, Waiting, Ended, Remaining, Bounded, OverLists, Started
  <2>5. LengthReported'
    BY <2>1, <2>2 DEF LengthReported
  <2>6. CleanClose'
    <3> SUFFICES ASSUME returned' = "nil", readErr # "nil" PROVE stream = "eof" /\ Len(got) = sent
      BY <2>2 DEF CleanClose
    <3>1. readErr = "eof" /\ stream = "eof" /\ tail = <<>> /\ part = <<>>
      BY <2>1, <2>2 DEF IInv, ReaderTypeOK, ReadErrors, Ended, Started
    <3>2. Len(got) + Len(part) + Len(tail) = sent /\ Len(got) \in Nat
      BY <3>1, GivenLen DEF IInv, Aligned
    <3> QED BY <3>1, <3>2, RunEmpty
  <2> QED BY <2>3, <2>4, <2>5, <2>6 DEF IInv
<1> QED BY <1>1, <1>2, <1>3, <1>4 DEF ReaderCall

LEMMA TakeChunkStep ==
  ASSUME IInv, NEW n \in Nat, TakeChunk(n)
  PROVE  IInv'
<1> DEFINE l == Shorter(room - Len(part), n)
           copied == copyIDBuffers(First(Items(n), l))
           filled == part \o copied
<1>1. /\ Len(got) \in Nat /\ Len(part) \in Nat /\ tail = <<>> /\ Len(tail) = 0
      /\ Given(part, Len(got), malformed) /\ Len(got) + Len(part) = sent
      /\ sent \in Nat /\ room \in Nat /\ Len(part) < room /\ phase = "recv"
  BY GivenLen, RunEmpty DEF IInv, Aligned, Waiting, ReaderTypeOK, TakeChunk
<1>2. room - Len(part) \in Nat
  BY <1>1
<1>3. l \in 0..n /\ l \in 0..(room - Len(part)) /\ l \in {room - Len(part), n}
  BY <1>2, ShorterIs
<1>4. Run(Items(n), sent) /\ Len(Items(n)) = n
  BY <1>1, ItemsRun
<1>5. /\ Run(First(Items(n), l), sent) /\ Len(First(Items(n), l)) = l
      /\ Run(Rest(Items(n), l), sent + l) /\ Len(Rest(Items(n), l)) = n - l
  <2> HIDE DEF l
  <2>1. l \in 0..Len(Items(n))
    BY <1>3, <1>4
  <2>2. sent \in Nat /\ Run(Items(n), sent)
    BY <1>1, <1>4
  <2>3. /\ Run(First(Items(n), l), sent) /\ Len(First(Items(n), l)) = l
        /\ Run(Rest(Items(n), l), sent + l) /\ Len(Rest(Items(n), l)) = Len(Items(n)) - l
    <3> HIDE DEF filled
    <3> QED BY <2>1, <2>2, RunSplit
  <2> QED BY <1>4, <2>3
<1>13. Given(copied, Len(got) + Len(part), malformed) /\ Len(copied) = l
  <2> HIDE DEF l, filled
  <2> QED BY <1>1, <1>5, CopiedGiven
<1>6. Given(filled, Len(got), malformed) /\ Len(filled) = Len(part) + l
  <2> HIDE DEF l, copied
  <2> QED BY <1>1, <1>13, GivenConcat
<1>7. tail' = tail \o Rest(Items(n), l) /\ sent' = sent + n /\ sent' <= MaxSent
      /\ readErr' = "nil" /\ UNCHANGED <<kind, malformed, stream, declared>>
  BY DEF TakeChunk
<1>8. tail' = Rest(Items(n), l)
  BY <1>1, <1>5, <1>7 DEF Run
<1>9. Run(tail', Len(got) + Len(filled)) /\ Len(tail') = n - l
  <2> HIDE DEF l, copied, filled
  <2>1. Len(got) + Len(filled) = sent + l
    BY <1>1, <1>3, <1>6
  <2> QED BY <1>5, <1>8, <2>1
<1>10. sent' \in Nat /\ Len(got) + Len(filled) + Len(tail') = sent'
  BY <1>1, <1>3, <1>6, <1>7, <1>9
<1>11. CASE Len(filled) = room
  <2>1. ReadOk(filled)
    BY <1>11 DEF TakeChunk
  <2> HIDE DEF l, copied, filled
  <2> QED BY <1>1, <1>6, <1>7, <1>9, <1>10, <2>1, ReadOkStep
<1>12. CASE Len(filled) # room
  <2>1. part' = filled /\ UNCHANGED <<phase, readCtx, remaining, room, iterating, got, returned>>
    BY <1>12 DEF TakeChunk
  <2>2. l = n /\ Len(filled) < room
    BY <1>1, <1>3, <1>6, <1>12
  <2>3. Len(tail') = 0 /\ tail' = <<>>
    BY <1>9, <2>2, RunNone
  <2> HIDE DEF l, copied, filled
  <2>4. Aligned'
    BY <1>6, <1>7, <1>9, <1>10, <2>1 DEF IInv, Aligned
  <2>5. part' \in Seq(Nat) /\ tail' \in Seq(Nat)
    BY <1>6, <1>7, <1>9, <2>1, RunLen, GivenLen
  <2>6. ReaderTypeOK'
    BY <1>7, <1>10, <2>1, <2>5 DEF IInv, ReaderTypeOK, ReadErrors
  <2>7. Waiting' /\ Ended' /\ Bounded' /\ OverLists' /\ Remaining'
    BY <1>1, <1>7, <2>1, <2>2, <2>3
       DEF IInv, Waiting, Ended, Bounded, OverLists, Remaining, Started
  <2>8. LengthReported' /\ CleanClose'
    BY <1>1, <1>7, <2>1, <2>3 DEF IInv, LengthReported, CleanClose
  <2> QED BY <2>4, <2>6, <2>7, <2>8 DEF IInv
<1> QED BY <1>11, <1>12

LEMMA ReceiveStep == IInv /\ Receive => IInv'
<1> SUFFICES ASSUME IInv, Receive PROVE IInv'
  OBVIOUS
<1>1. sent \in Nat /\ sent <= MaxSent /\ stream \in {"open", "eof", "broken"}
  BY DEF IInv, ReaderTypeOK, Bounded
<1>2. CASE \E n \in 0..MaxChunk : TakeChunk(n)
  BY <1>2, TakeChunkStep
<1>3. CASE StreamEnds
  BY <1>1, <1>3, ReadFailedStep DEF StreamEnds
<1>4. CASE StreamFails
  BY <1>1, <1>4, ReadFailedStep DEF StreamFails
<1>5. CASE \E n \in 0..MaxChunk : RejectMessage(n)
  <2>1. PICK n \in 0..MaxChunk : RejectMessage(n)
    BY <1>5
  <2>2. sent' \in Nat /\ sent <= sent' /\ sent' <= MaxSent
    BY <1>1, <2>1 DEF RejectMessage
  <2> QED BY <1>1, <2>1, <2>2, ReadFailedStep DEF RejectMessage
<1> QED BY <1>2, <1>3, <1>4, <1>5 DEF Receive

LEMMA StutterStep == IInv /\ UNCHANGED readerVars => IInv'
  BY DEF readerVars, IInv, ReaderTypeOK, Aligned, Run, Given, Waiting, Ended, Remaining, Bounded, OverLists,
         LengthReported, CleanClose, Started

\* The inductive invariant.
LEMMA ReaderInvariant == ReaderSpec => []IInv
<1>1. IInv /\ [ReaderNext]_readerVars => IInv'
  BY OpenStep, CallStep, ReceiveStep, StutterStep DEF ReaderNext
<1> QED BY InitIInv, <1>1, PTL DEF ReaderSpec

-----------------------------------------------------------------------------
\* The variables of a reader keep their types; the bytes left never drop below
\* what an int holds by more than what was sent.
THEOREM ReaderTypes == ReaderSpec => []ReaderTypeOK
<1>1. IInv => ReaderTypeOK
  BY DEF IInv
<1> QED BY <1>1, ReaderInvariant, PTL

\* However the chunks of the server, the tail and the buffers of the caller are
\* cut, every readable item that was sent reaches the caller in its own place, in
\* order and without a gap, and a malformed ID takes up one place.
THEOREM ReadInOrder == ReaderSpec => []InOrder
  BY InOrderFollows, ReaderInvariant, PTL

\* The end of a payload tells whether it was complete, and no Read succeeds
\* beyond the declared length, for every length that the wire can carry.
THEOREM LengthCorrect == ReaderSpec => []LengthReported
<1>1. IInv => LengthReported
  BY DEF IInv
<1> QED BY <1>1, ReaderInvariant, PTL

\* A Close or an Iterate that returns nil after the end was seen has counted every
\* item that was sent and delivered every one that could be read.
THEOREM CleanCloseCorrect == ReaderSpec => []CleanCloseMeansAll
  BY CleanCloseFollows, ReaderInvariant, PTL
===============================================================================
