------------------------------- MODULE Slicer -------------------------------
(***************************************************************************)
(* object/slicer: PayloadWriter cuts a payload stream into child objects   *)
(* of at most Limit bytes and binds them with a linking object.            *)
(*                                                                         *)
(* Bytes are positions of the input stream; everything the writer buffers, *)
(* hashes or stores is a contiguous range of them.  The length and the     *)
(* checksums of dynamicObjectMetadata are the range they were computed     *)
(* over, so an object is sound when that range is the one it carries.      *)
(***************************************************************************)
EXTENDS Naturals, Sequences

CONSTANTS
  Limit,     \* childPayloadSizeLimit
  MaxInput,  \* bound of the model: bytes the caller has to write
  Retry      \* the caller goes on writing after a failed Write

ASSUME SlicerAssumption ==
  /\ Limit \in Nat \ {0}
  /\ MaxInput \in Nat
  /\ Retry \in BOOLEAN

VARIABLES
  pc,                 \* idle, writing, linking (in Close), closed, failed
  pending,            \* rest of the chunk of the Write in progress
  received,           \* bytes taken from the caller so far
  buf,                \* PayloadWriter.buf
  rootMeta,           \* range hashed by rootMeta
  childMeta,          \* range hashed by childMeta
  childHashed,        \* currentWriter.base includes childMeta
  written,            \* limitedWriter.written
  withSplit,          \* a split ID has been generated
  isHeaderWriteStep,  \* the next object carries the header of the caller
  writtenChildren,    \* IDs of the children written so far
  rootID,             \* rootID has been set
  stored              \* objects the ObjectWriter has taken, in order

writerVars == <<buf, rootMeta, childMeta, childHashed, written, withSplit, isHeaderWriteStep>>
vars == <<pc, pending, received, writerVars, writtenChildren, rootID, stored>>

-----------------------------------------------------------------------------
(* A range of bytes; an empty one keeps the position it starts at. *)

Span(a, b) == [from |-> a, to |-> b]
Size(r) == r.to - r.from
Grown(r, n) == [r EXCEPT !.to = @ + n]

\* Mutant of LastOf: the first child instead of the last.
FirstOf(s) == IF s = <<>> THEN 0 ELSE s[1]

LastOf(s) == IF s = <<>> THEN 0 ELSE s[Len(s)]

(* An object: its ID is its place in stored.  meta is the range its payload *)
(* size and checksums cover, prev the previous child (0: none), children    *)
(* the list of a linking object, root the range the attached parent header  *)
(* covers.                                                                  *)
NoRoot == Span(0, 0)

\* Mutant of Child: every child carries the root header.
ChildWithParent(payload, meta, split) ==
  [payload |-> payload, meta |-> meta, header |-> FALSE, split |-> split,
   prev |-> LastOf(writtenChildren), children |-> <<>>,
   parent |-> TRUE, root |-> NoRoot]

Child(payload, meta, split) ==
  [payload |-> payload, meta |-> meta, header |-> FALSE, split |-> split,
   prev |-> LastOf(writtenChildren), children |-> <<>>,
   parent |-> FALSE, root |-> NoRoot]

Header(payload, meta) ==
  [payload |-> payload, meta |-> meta, header |-> TRUE, split |-> FALSE,
   prev |-> 0, children |-> <<>>, parent |-> FALSE, root |-> NoRoot]

-----------------------------------------------------------------------------
Init ==
  /\ pc = "idle" /\ pending = 0 /\ received = 0
  /\ buf = Span(0, 0) /\ rootMeta = Span(0, 0) /\ childMeta = Span(0, 0)
  /\ childHashed = FALSE /\ written = 0
  /\ withSplit = FALSE /\ isHeaderWriteStep = TRUE
  /\ writtenChildren = <<>> /\ rootID = FALSE /\ stored = <<>>

Room == Limit - written

\* The caller hands over a chunk (an empty one changes nothing).
Write(n) ==
  /\ pc = "idle"
  /\ received + n <= MaxInput
  /\ pc' = "writing" /\ pending' = n
  /\ UNCHANGED <<received, writerVars, writtenChildren, rootID, stored>>

\* limitedWriter.Write: n bytes go to the buffer and to the attached hashes.
Take(n) ==
  /\ received' = received + n
  /\ rootMeta' = Grown(rootMeta, n)

\* The chunk fits.
WriteFits ==
  /\ pc = "writing" /\ pending <= Room
  /\ Take(pending)
  /\ buf' = Grown(buf, pending)
  /\ childMeta' = IF childHashed THEN Grown(childMeta, pending) ELSE childMeta
  /\ written' = written + pending
  /\ pc' = "idle" /\ pending' = 0
  /\ UNCHANGED <<childHashed, withSplit, isHeaderWriteStep, writtenChildren, rootID, stored>>

\* The object _writeChild(last = false) forms when the limit is exceeded: the
\* first overflow uses rootMeta, the next ones childMeta.
FilledChild ==
  LET full == Grown(buf, Room)
      meta == IF ~withSplit THEN Grown(rootMeta, Room)
              ELSE IF childHashed THEN Grown(childMeta, Room) ELSE childMeta
  IN  IF isHeaderWriteStep THEN Header(full, meta)
      ELSE Child(full, meta, TRUE)

\* Mutants of WriteOverflows: the buffer, or the child's hashes, are not reset;
\* the full child is not written.
OverflowKeeps(b, m) ==
  /\ pc = "writing" /\ pending > Room
  /\ Take(Room)
  /\ withSplit' = TRUE
  /\ stored' = Append(stored, FilledChild)
  /\ writtenChildren' = Append(writtenChildren, Len(stored) + 1)
  /\ childHashed' = (childHashed \/ ~withSplit)
  /\ buf' = b /\ childMeta' = m
  /\ written' = 0 /\ isHeaderWriteStep' = FALSE
  /\ pending' = pending - Room
  /\ UNCHANGED <<pc, rootID>>

OverflowKeepsBuffer == OverflowKeeps(Grown(buf, Room), Span(received', received'))

OverflowKeepsHash == OverflowKeeps(Span(received', received'), Grown(childMeta, Room))

\* The chunk exceeds the limit: as much as fits is taken, the full child is
\* written and Write goes on with the rest.
WriteOverflows ==
  /\ pc = "writing" /\ pending > Room
  /\ Take(Room)
  /\ withSplit' = TRUE
  /\ stored' = Append(stored, FilledChild)
  /\ writtenChildren' = Append(writtenChildren, Len(stored) + 1)
  /\ childHashed' = (childHashed \/ ~withSplit)
  /\ buf' = Span(received', received')
  /\ childMeta' = Span(received', received')
  /\ written' = 0
  /\ isHeaderWriteStep' = FALSE
  /\ pending' = pending - Room
  /\ UNCHANGED <<pc, rootID>>

\* The same, but the ObjectWriter returns an error (with or without having
\* stored the object): Write returns it with the number of bytes taken.
OverflowFails ==
  /\ pc = "writing" /\ pending > Room
  /\ Take(Room)
  /\ withSplit' = TRUE
  /\ stored' \in {stored, Append(stored, FilledChild)}
  /\ buf' = Grown(buf, Room)
  /\ childMeta' = IF childHashed THEN Grown(childMeta, Room) ELSE childMeta
  /\ written' = Limit
  /\ pc' = (IF Retry THEN "idle" ELSE "failed") /\ pending' = 0
  /\ UNCHANGED <<childHashed, isHeaderWriteStep, writtenChildren, rootID>>

\* The object _writeChild(last = true) writes first: the only object, which is
\* the root, or the last child with the root header attached.
LastObject ==
  IF isHeaderWriteStep THEN Header(buf, rootMeta)
  ELSE [Child(buf, childMeta, withSplit) EXCEPT !.parent = TRUE, !.root = rootMeta]

LinkObject ==
  [payload |-> Span(received, received), meta |-> Span(received, received),
   header |-> FALSE, split |-> TRUE, prev |-> 0, children |-> writtenChildren,
   parent |-> TRUE, root |-> rootMeta]

Close ==
  /\ pc = "idle"
  /\ rootID' = TRUE
  /\ stored' = Append(stored, LastObject)
  /\ writtenChildren' = Append(writtenChildren, Len(stored) + 1)
  /\ pc' = IF withSplit THEN "linking" ELSE "closed"
  /\ UNCHANGED <<pending, received, writerVars>>

CloseLinks ==
  /\ pc = "linking"
  /\ stored' = Append(stored, LinkObject)
  /\ pc' = "closed"
  /\ UNCHANGED <<pending, received, writerVars, writtenChildren, rootID>>

\* The ObjectWriter fails in Close, with or without having stored the object.
CloseFails ==
  /\ \/ /\ pc = "idle"
        /\ rootID' = TRUE
        /\ stored' \in {stored, Append(stored, LastObject)}
     \/ /\ pc = "linking"
        /\ stored' \in {stored, Append(stored, LinkObject)}
        /\ UNCHANGED rootID
  /\ pc' = "failed"
  /\ UNCHANGED <<pending, received, writerVars, writtenChildren>>

Next ==
  \/ \E n \in 1..MaxInput : Write(n)
  \/ WriteFits \/ WriteOverflows \/ OverflowFails
  \/ Close \/ CloseLinks \/ CloseFails

Spec == Init /\ [][Next]_vars

-----------------------------------------------------------------------------
(* Properties *)

Ranges == [from : Nat, to : Nat]

Objects ==
  [payload : Ranges, meta : Ranges, header : BOOLEAN, split : BOOLEAN,
   prev : Nat, children : Seq(Nat), parent : BOOLEAN, root : Ranges]

\* Values of the variables.
TypeOK ==
  /\ pc \in {"idle", "writing", "linking", "closed", "failed"}
  /\ pending \in Nat /\ received \in Nat
  /\ buf \in Ranges /\ rootMeta \in Ranges /\ childMeta \in Ranges
  /\ childHashed \in BOOLEAN /\ withSplit \in BOOLEAN
  /\ isHeaderWriteStep \in BOOLEAN /\ rootID \in BOOLEAN
  /\ written \in 0..Limit
  /\ writtenChildren \in Seq(Nat)
  /\ stored \in Seq(Objects)

\* "object payload must not overflow the limit" (slicer_test.go), for every way
\* the input is cut into Write calls and wherever a write fails.
PayloadWithinLimit ==
  \A i \in 1..Len(stored) : Size(stored[i].payload) <= Limit

\* Payload size and checksums of every object that leaves the slicer are those
\* of the bytes it carries.
MetaMatchesPayload ==
  \A i \in 1..Len(stored) : stored[i].meta = stored[i].payload

\* The split chain: each child refers to the child before it, takes up the
\* payload where that one ends, and only the last may be shorter than Limit.
ChainContiguous ==
  \A i \in 1..Len(writtenChildren) :
    LET o == stored[writtenChildren[i]]
        p == stored[writtenChildren[i - 1]]
    IN  IF i = 1 THEN o.payload.from = 0 /\ o.prev = 0
        ELSE /\ o.prev = writtenChildren[i - 1]
             /\ o.payload.from = p.payload.to
             /\ Size(p.payload) = Limit

(* What the properties above need to be inductive when nobody goes on after *)
(* an error.                                                                *)

\* The buffer holds the bytes since the last child; both hashes cover what the
\* object they are meant for will carry.
WriterInv ==
  /\ buf.from + written = buf.to /\ buf.to = received
  /\ rootMeta = Span(0, received)
  /\ ~withSplit => isHeaderWriteStep /\ ~childHashed /\ buf.from = 0
  /\ withSplit /\ pc # "failed" => childHashed /\ ~isHeaderWriteStep /\ childMeta = buf

ChildrenStored ==
  \A i \in 1..Len(writtenChildren) : writtenChildren[i] \in 1..Len(stored)

\* Before Close all children are full and end where the buffer begins.
ChainEnds ==
  pc \in {"idle", "writing"} =>
    IF writtenChildren = <<>> THEN buf.from = 0
    ELSE LET o == stored[writtenChildren[Len(writtenChildren)]]
         IN  o.payload.to = buf.from /\ Size(o.payload) = Limit

SlicerInv ==
  /\ TypeOK /\ PayloadWithinLimit /\ MetaMatchesPayload /\ ChainContiguous
  /\ WriterInv /\ ChildrenStored /\ ChainEnds
  /\ pc \in {"idle", "writing"} => (withSplit <=> writtenChildren # <<>>)
=============================================================================
