--------------------------- MODULE Slicer_proofs ---------------------------
(***************************************************************************)
(* Proofs about Slicer, for every payload limit and every way to cut the   *)
(* input, under the assumption that the caller stops at the first error.   *)
(***************************************************************************)
EXTENDS Relations, FiniteSetTheorems, WellFoundedInduction, TLAPS

-----------------------------------------------------------------------------
(* Facts about ranges, objects and appending *)

LEMMA SpanType ==
  ASSUME NEW a \in Nat, NEW b \in Nat
  PROVE  /\ Span(a, b) \in Ranges
         /\ Span(a, b).from = a /\ Span(a, b).to = b
  BY DEF Span, Ranges

LEMMA GrownType ==
  ASSUME NEW r \in Ranges, NEW n \in Nat
  PROVE  /\ Grown(r, n) \in Ranges
         /\ Grown(r, n).from = r.from /\ Grown(r, n).to = r.to + n
  BY DEF Grown, Ranges

LEMMA RangeEqual ==
  ASSUME NEW r \in Ranges, NEW q \in Ranges, r.from = q.from, r.to = q.to
  PROVE  r = q
  BY DEF Ranges

LEMMA AppendFacts ==
  ASSUME NEW S, NEW s \in Seq(S), NEW x \in S
  PROVE  /\ Append(s, x) \in Seq(S)
         /\ Len(Append(s, x)) = Len(s) + 1
         /\ Len(s) \in Nat
         /\ \A i \in 1..Len(s) : Append(s, x)[i] = s[i]
         /\ Append(s, x)[Len(s) + 1] = x
         /\ Append(s, x) # <<>>
  OBVIOUS

LEMMA LastOfType ==
  ASSUME NEW s \in Seq(Nat)
  PROVE  LastOf(s) \in Nat
  BY DEF LastOf

LEMMA ChildType ==
  ASSUME TypeOK, NEW p \in Ranges, NEW m \in Ranges, NEW b \in BOOLEAN
  PROVE  /\ Child(p, m, b) \in Objects
         /\ Child(p, m, b).payload = p /\ Child(p, m, b).meta = m
         /\ Child(p, m, b).prev = LastOf(writtenChildren)
  <1>1. LastOf(writtenChildren) \in Nat
    BY LastOfType DEF TypeOK
  <1>2. <<>> \in Seq(Nat)
    OBVIOUS
  <1> QED
    BY <1>1, <1>2, SpanType DEF Child, Objects, NoRoot

LEMMA HeaderType ==
  ASSUME NEW p \in Ranges, NEW m \in Ranges
  PROVE  /\ Header(p, m) \in Objects
         /\ Header(p, m).payload = p /\ Header(p, m).meta = m
         /\ Header(p, m).prev = 0
  <1>1. <<>> \in Seq(Nat)
    OBVIOUS
  <1> QED
    BY <1>1, SpanType DEF Header, Objects, NoRoot

-----------------------------------------------------------------------------
(* One more object *)

Sound(o) == o \in Objects /\ Size(o.payload) <= Limit /\ o.meta = o.payload

LEMMA StoreSound ==
  ASSUME TypeOK, PayloadWithinLimit, MetaMatchesPayload, ChainContiguous, ChildrenStored,
         NEW o, Sound(o), stored' = Append(stored, o)
  PROVE  /\ stored' \in Seq(Objects)
         /\ PayloadWithinLimit' /\ MetaMatchesPayload'
         /\ writtenChildren' = writtenChildren => ChainContiguous' /\ ChildrenStored'
<1> USE DEF Sound
<1>1. /\ stored' \in Seq(Objects) /\ Len(stored') = Len(stored) + 1 /\ Len(stored) \in Nat
      /\ \A i \in 1..Len(stored) : stored'[i] = stored[i]
      /\ stored'[Len(stored) + 1] = o
  BY AppendFacts DEF TypeOK
<1>2. PayloadWithinLimit' /\ MetaMatchesPayload'
  BY <1>1 DEF PayloadWithinLimit, MetaMatchesPayload
<1>3. ASSUME writtenChildren' = writtenChildren PROVE ChainContiguous' /\ ChildrenStored'
  <2>1. Len(writtenChildren) \in Nat
    BY DEF TypeOK
  <2>2. \A i \in 1..Len(writtenChildren) : stored'[writtenChildren[i]] = stored[writtenChildren[i]]
    BY <1>1 DEF ChildrenStored
  <2>3. ChildrenStored'
    BY <1>1, <1>3 DEF ChildrenStored
  <2>4. ChainContiguous'
    <3> SUFFICES ASSUME NEW i \in 1..Len(writtenChildren)
                 PROVE  LET o1 == stored'[writtenChildren[i]]
                            p1 == stored'[writtenChildren[i - 1]]
                        IN  IF i = 1 THEN o1.payload.from = 0 /\ o1.prev = 0
                            ELSE /\ o1.prev = writtenChildren[i - 1]
                                 /\ o1.payload.from = p1.payload.to
                                 /\ Size(p1.payload) = Limit
      BY <1>3 DEF ChainContiguous
    <3>1. stored'[writtenChildren[i]] = stored[writtenChildren[i]]
      BY <2>2
    <3>2. i # 1 => i - 1 \in 1..Len(writtenChildren)
      BY <2>1
    <3>3. i # 1 => stored'[writtenChildren[i - 1]] = stored[writtenChildren[i - 1]]
      BY <2>2, <3>2
    <3> QED
      BY <3>1, <3>3 DEF ChainContiguous
  <2> QED
    BY <2>3, <2>4
<1> QED
  BY <1>1, <1>2, <1>3

LEMMA StoreChild ==
  ASSUME TypeOK, PayloadWithinLimit, MetaMatchesPayload, ChainContiguous, ChildrenStored,
         NEW o, Sound(o), stored' = Append(stored, o),
         writtenChildren' = Append(writtenChildren, Len(stored) + 1),
         o.prev = LastOf(writtenChildren),
         IF writtenChildren = <<>> THEN o.payload.from = 0
         ELSE LET q == stored[writtenChildren[Len(writtenChildren)]]
              IN  q.payload.to = o.payload.from /\ Size(q.payload) = Limit
  PROVE  /\ writtenChildren' \in Seq(Nat) /\ writtenChildren' # <<>>
         /\ writtenChildren'[Len(writtenChildren')] = Len(stored) + 1
         /\ stored'[Len(stored) + 1] = o
         /\ ChildrenStored' /\ ChainContiguous'
<1> DEFINE n == Len(writtenChildren)
<1>1. /\ Len(stored') = Len(stored) + 1 /\ Len(stored) \in Nat
      /\ \A i \in 1..Len(stored) : stored'[i] = stored[i]
      /\ stored'[Len(stored) + 1] = o
  BY AppendFacts DEF TypeOK, Sound
<1>2. Len(stored) + 1 \in Nat
  BY <1>1
<1>3. /\ writtenChildren' \in Seq(Nat) /\ Len(writtenChildren') = n + 1 /\ n \in Nat
      /\ \A i \in 1..n : writtenChildren'[i] = writtenChildren[i]
      /\ writtenChildren'[n + 1] = Len(stored) + 1
      /\ writtenChildren' # <<>>
  BY <1>2, AppendFacts DEF TypeOK
<1>4. \A i \in 1..n : stored'[writtenChildren'[i]] = stored[writtenChildren[i]]
  BY <1>1, <1>3 DEF ChildrenStored
<1>5. ChildrenStored'
  BY <1>1, <1>3 DEF ChildrenStored
<1>6. ChainContiguous'
  <2> SUFFICES ASSUME NEW i \in 1..(n + 1)
               PROVE  LET o1 == stored'[writtenChildren'[i]]
                          p1 == stored'[writtenChildren'[i - 1]]
                      IN  IF i = 1 THEN o1.payload.from = 0 /\ o1.prev = 0
                          ELSE /\ o1.prev = writtenChildren'[i - 1]
                               /\ o1.payload.from = p1.payload.to
                               /\ Size(p1.payload) = Limit
    BY <1>3 DEF ChainContiguous
  <2>1. CASE i \in 1..n
    <3>1. i # 1 => i - 1 \in 1..n
      BY <1>3
    <3> QED
      BY <1>3, <1>4, <2>1, <3>1 DEF ChainContiguous
  <2>2. CASE i = n + 1 /\ n = 0
    <3>1. writtenChildren = <<>>
      BY <2>2 DEF TypeOK
    <3> QED
      BY <1>1, <1>3, <2>2, <3>1 DEF LastOf
  <2>3. CASE i = n + 1 /\ n # 0
    <3>1. writtenChildren # <<>> /\ i # 1 /\ i - 1 = n /\ n \in 1..n
      BY <1>3, <2>3
    <3> QED
      BY <1>1, <1>3, <1>4, <2>3, <3>1 DEF LastOf
  <2>4. \/ i \in 1..n
        \/ i = n + 1 /\ n = 0
        \/ i = n + 1 /\ n # 0
    BY <1>3
  <2> QED
    BY <2>1, <2>2, <2>3, <2>4
<1> QED
  BY <1>1, <1>3, <1>5, <1>6

\* The size of a range follows from its bounds.
LEMMA SizeOfBounds ==
  ASSUME NEW r, NEW a, NEW b, r.from = a, r.to = b
  PROVE  Size(r) = b - a
BY DEF Size

\* The objects the writer forms are sound and continue the chain.
LEMMA FilledChildSound ==
  ASSUME SlicerInv, pc = "writing"
  PROVE  /\ Sound(FilledChild)
         /\ FilledChild.payload.from = buf.from
         /\ FilledChild.payload.to = received + Room
         /\ Size(FilledChild.payload) = Limit
         /\ FilledChild.prev = LastOf(writtenChildren)
<1>1. TypeOK /\ WriterInv /\ Room \in Nat
  BY SlicerAssumption DEF SlicerInv, TypeOK, Room
<1>2. /\ Grown(buf, Room) \in Ranges /\ Grown(buf, Room).from = buf.from
      /\ Grown(buf, Room).to = received + Room
      /\ Size(Grown(buf, Room)) = Limit
  <2>1. buf \in Ranges /\ buf.from \in Nat /\ buf.to \in Nat /\ received \in Nat
    BY <1>1 DEF TypeOK, Ranges
  <2>2. /\ Grown(buf, Room) \in Ranges /\ Grown(buf, Room).from = buf.from
        /\ Grown(buf, Room).to = buf.to + Room
    BY <1>1, <2>1, GrownType
  <2>3. (buf.to + Room) - buf.from = Limit
    <3>1. buf.from + written = buf.to /\ written \in 0..Limit /\ Limit \in Nat
      BY <1>1, SlicerAssumption DEF TypeOK, WriterInv
    <3>2. \A a, b, w, l \in Nat : a + w = b => (b + (l - w)) - a = l
      OBVIOUS
    <3> QED
      BY <2>1, <3>1, <3>2 DEF Room
  <2>4. buf.to = received
    BY <1>1 DEF WriterInv
  <2>5. Size(Grown(buf, Room)) = (buf.to + Room) - buf.from
    BY <2>2, SizeOfBounds
  <2> QED
    BY <2>2, <2>3, <2>4, <2>5
<1>3. CASE ~withSplit
  <2>1. isHeaderWriteStep /\ writtenChildren = <<>> /\ buf.from = 0
    BY <1>1, <1>3 DEF SlicerInv, WriterInv
  <2>2. /\ Grown(rootMeta, Room) \in Ranges /\ Grown(rootMeta, Room).from = 0
        /\ Grown(rootMeta, Room).to = received + Room
    <3>1. /\ rootMeta \in Ranges /\ received \in Nat
          /\ rootMeta.from = 0 /\ rootMeta.to = received
      BY <1>1, SpanType DEF TypeOK, WriterInv
    <3> QED
      BY <1>1, <3>1, GrownType
  <2>3. Grown(rootMeta, Room) = Grown(buf, Room)
    BY <1>2, <2>1, <2>2, RangeEqual
  <2>4. FilledChild = Header(Grown(buf, Room), Grown(buf, Room))
    BY <1>3, <2>1, <2>3 DEF FilledChild
  <2> QED
    BY <1>2, <2>1, <2>4, HeaderType, SlicerAssumption DEF Sound, LastOf
<1>4. CASE withSplit
  <2>1. FilledChild = Child(Grown(buf, Room), Grown(buf, Room), TRUE)
    BY <1>1, <1>4 DEF FilledChild, WriterInv
  <2>2. /\ FilledChild \in Objects
        /\ FilledChild.payload = Grown(buf, Room) /\ FilledChild.meta = Grown(buf, Room)
        /\ FilledChild.prev = LastOf(writtenChildren)
    BY <1>1, <1>2, <2>1, ChildType
  <2> QED
    BY <1>2, <2>2, SlicerAssumption DEF Sound
<1> QED
  BY <1>1, <1>3, <1>4 DEF TypeOK

LEMMA LastObjectSound ==
  ASSUME SlicerInv, pc = "idle"
  PROVE  /\ Sound(LastObject)
         /\ LastObject.payload = buf
         /\ LastObject.prev = LastOf(writtenChildren)
<1>1. TypeOK /\ WriterInv /\ buf \in Ranges /\ rootMeta \in Ranges
  BY DEF SlicerInv, TypeOK
<1>2. Size(buf) <= Limit
  BY <1>1, SlicerAssumption DEF TypeOK, WriterInv, Size, Ranges
<1>3. CASE ~withSplit
  <2>1. isHeaderWriteStep /\ writtenChildren = <<>> /\ rootMeta = buf
    BY <1>1, <1>3, RangeEqual, SpanType DEF SlicerInv, WriterInv, TypeOK
  <2> QED
    BY <1>1, <1>2, <2>1, HeaderType DEF LastObject, Sound, LastOf
<1>4. CASE withSplit
  <2> DEFINE c == Child(buf, buf, withSplit)
  <2>1. LastObject = [c EXCEPT !.parent = TRUE, !.root = rootMeta]
    BY <1>1, <1>4 DEF LastObject, WriterInv
  <2>2. /\ c \in Objects /\ c.payload = buf /\ c.meta = buf
        /\ c.prev = LastOf(writtenChildren)
    BY <1>1, ChildType DEF TypeOK
  <2>3. /\ LastObject \in Objects /\ LastObject.payload = c.payload
        /\ LastObject.meta = c.meta /\ LastObject.prev = c.prev
    BY <1>1, <2>1, <2>2 DEF Objects
  <2> QED
    BY <1>2, <2>2, <2>3 DEF Sound
<1> QED
  BY <1>1, <1>3, <1>4 DEF TypeOK

LEMMA LinkObjectSound ==
  ASSUME SlicerInv
  PROVE  Sound(LinkObject)
<1>1. TypeOK /\ Span(received, received) \in Ranges
  BY SpanType DEF SlicerInv, TypeOK
<1>2. LinkObject \in Objects
  BY <1>1 DEF LinkObject, Objects, TypeOK
<1>3. Size(Span(received, received)) <= Limit
  BY <1>1, SpanType, SlicerAssumption DEF TypeOK, Size
<1> QED
  BY <1>2, <1>3 DEF LinkObject, Sound

-----------------------------------------------------------------------------
(* The invariant *)

LEMMA SlicerInit == Init => SlicerInv
<1> SUFFICES ASSUME Init PROVE SlicerInv
  OBVIOUS
<1>1. TypeOK
  <2>1. Span(0, 0) \in Ranges /\ 0 \in 0..Limit /\ <<>> \in Seq(Nat) /\ <<>> \in Seq(Objects)
    BY SpanType, SlicerAssumption
  <2> QED
    BY <2>1 DEF Init, TypeOK
<1>2. WriterInv
  BY SpanType DEF Init, WriterInv
<1>3. PayloadWithinLimit /\ MetaMatchesPayload /\ ChainContiguous /\ ChildrenStored /\ ChainEnds
  BY SpanType DEF Init, PayloadWithinLimit, MetaMatchesPayload, ChainContiguous,
                   ChildrenStored, ChainEnds
<1> QED
  BY <1>1, <1>2, <1>3 DEF SlicerInv, Init

\* Steps that store nothing keep the facts about what is stored.
LEMMA NothingStored ==
  ASSUME SlicerInv, UNCHANGED <<stored, writtenChildren>>
  PROVE  /\ PayloadWithinLimit' /\ MetaMatchesPayload'
         /\ ChainContiguous' /\ ChildrenStored'
  BY DEF SlicerInv, PayloadWithinLimit, MetaMatchesPayload, ChainContiguous, ChildrenStored

LEMMA RootGrows ==
  ASSUME TypeOK, WriterInv, NEW n \in Nat, Take(n)
  PROVE  /\ received' = received + n /\ received' \in Nat
         /\ rootMeta' \in Ranges /\ rootMeta' = Span(0, received')
<1>1. /\ received \in Nat /\ rootMeta \in Ranges
      /\ rootMeta.from = 0 /\ rootMeta.to = received
  BY SpanType DEF TypeOK, WriterInv
<1>2. received' = received + n /\ received' \in Nat
  BY <1>1 DEF Take
<1>3. rootMeta' \in Ranges /\ rootMeta'.from = 0 /\ rootMeta'.to = received'
  BY <1>1, <1>2, GrownType DEF Take
<1>4. /\ Span(0, received') \in Ranges /\ Span(0, received').from = 0
      /\ Span(0, received').to = received'
  BY <1>2, SpanType
<1> QED
  BY <1>2, <1>3, <1>4, RangeEqual

LEMMA SlicerStep ==
  ASSUME ~Retry, SlicerInv, [Next]_vars
  PROVE  SlicerInv'
<1>1. /\ TypeOK /\ WriterInv /\ ChainEnds /\ Room \in Nat
      /\ PayloadWithinLimit /\ MetaMatchesPayload /\ ChainContiguous /\ ChildrenStored
      /\ pc \in {"idle", "writing"} => (withSplit <=> writtenChildren # <<>>)
  BY SlicerAssumption DEF SlicerInv, TypeOK, Room
<1>0. /\ buf.from \in Nat /\ buf.to \in Nat /\ received \in Nat /\ pending \in Nat
      /\ written \in Nat /\ Limit \in Nat /\ written <= Limit
      /\ buf.from + written = buf.to /\ buf.to = received
  BY <1>1, SlicerAssumption DEF TypeOK, WriterInv, Ranges
<1>2. ASSUME NEW n \in 1..MaxInput, Write(n) PROVE SlicerInv'
  <2>1. TypeOK' /\ WriterInv' /\ ChainEnds'
    BY <1>1, <1>2 DEF Write, TypeOK, WriterInv, ChainEnds, writerVars
  <2> QED
    BY <1>1, <1>2, <2>1, NothingStored DEF Write, SlicerInv, writerVars
<1>3. CASE WriteFits
  <2>1. /\ buf' = Grown(buf, pending) /\ buf' \in Ranges
        /\ buf'.from = buf.from /\ buf'.to = buf.to + pending
    BY <1>1, <1>3, GrownType DEF WriteFits, TypeOK
  <2>2. /\ rootMeta' \in Ranges /\ rootMeta' = Span(0, received')
        /\ received' = received + pending /\ received' \in Nat
    BY <1>0, <1>1, <1>3, RootGrows DEF WriteFits
  <2>4. childMeta' \in Ranges /\ (childHashed /\ childMeta = buf => childMeta' = buf')
    BY <1>1, <1>3, GrownType DEF WriteFits, TypeOK
  <2>5. written' \in 0..Limit /\ written' = written + pending
    BY <1>1, <1>3, SlicerAssumption DEF WriteFits, TypeOK, Room
  <2>6. buf'.from + written' = buf'.to /\ buf'.to = received'
    BY <1>0, <2>1, <2>2, <2>5
  <2>7. TypeOK'
    BY <1>1, <1>3, <2>1, <2>2, <2>4, <2>5 DEF WriteFits, TypeOK
  <2>8. WriterInv'
    BY <1>1, <1>3, <2>1, <2>2, <2>4, <2>6 DEF WriteFits, WriterInv
  <2>9. ChainEnds'
    BY <1>1, <1>3, <2>1 DEF WriteFits, ChainEnds
  <2> QED
    BY <1>1, <1>3, <2>7, <2>8, <2>9, NothingStored DEF WriteFits, SlicerInv
<1>4. CASE WriteOverflows
  <2>1. /\ Sound(FilledChild) /\ FilledChild.payload.from = buf.from
        /\ FilledChild.payload.to = received + Room
        /\ Size(FilledChild.payload) = Limit
        /\ FilledChild.prev = LastOf(writtenChildren)
    BY <1>4, FilledChildSound DEF WriteOverflows
  <2>2. /\ received' = received + Room /\ received' \in Nat
        /\ rootMeta' \in Ranges /\ rootMeta' = Span(0, received')
    BY <1>1, <1>4, RootGrows DEF WriteOverflows
  <2>4. /\ stored' \in Seq(Objects) /\ PayloadWithinLimit' /\ MetaMatchesPayload'
    BY <1>1, <1>4, <2>1, StoreSound DEF WriteOverflows
  <2>5. /\ writtenChildren' \in Seq(Nat) /\ writtenChildren' # <<>>
        /\ writtenChildren'[Len(writtenChildren')] = Len(stored) + 1
        /\ stored'[Len(stored) + 1] = FilledChild
        /\ ChildrenStored' /\ ChainContiguous'
    BY <1>1, <1>4, <2>1, StoreChild DEF WriteOverflows, ChainEnds
  <2>6. pending' \in Nat
    BY <1>1, <1>4 DEF WriteOverflows, TypeOK
  <2>7. buf' \in Ranges /\ buf'.from = received' /\ buf'.to = received' /\ childMeta' = buf'
    BY <1>4, <2>2, SpanType DEF WriteOverflows
  <2>8. TypeOK'
    <3>1. childHashed' \in BOOLEAN /\ written' \in 0..Limit
      BY <1>0, <1>4 DEF WriteOverflows
    <3> QED
      BY <1>1, <1>4, <2>2, <2>4, <2>5, <2>6, <2>7, <3>1 DEF WriteOverflows, TypeOK
  <2>9. WriterInv'
    <3>1. childHashed'
      BY <1>1, <1>4 DEF WriteOverflows, WriterInv
    <3>2. written' = 0 /\ withSplit' /\ ~isHeaderWriteStep'
      BY <1>4 DEF WriteOverflows
    <3>3. buf'.from + written' = buf'.to
      BY <2>2, <2>7, <3>2
    <3> QED
      BY <2>2, <2>7, <3>1, <3>2, <3>3 DEF WriterInv
  <2>10. ChainEnds'
    BY <2>1, <2>2, <2>5, <2>7 DEF ChainEnds
  <2> QED
    BY <1>4, <2>4, <2>5, <2>8, <2>9, <2>10 DEF WriteOverflows, SlicerInv
<1>5. CASE OverflowFails
  <2>1. Sound(FilledChild)
    BY <1>5, FilledChildSound DEF OverflowFails
  <2>2. /\ received' = received + Room /\ received' \in Nat
        /\ rootMeta' \in Ranges /\ rootMeta' = Span(0, received')
    BY <1>1, <1>5, RootGrows DEF OverflowFails
  <2>4. /\ stored' \in Seq(Objects) /\ PayloadWithinLimit' /\ MetaMatchesPayload'
        /\ ChildrenStored' /\ ChainContiguous'
    <3>1. CASE stored' = stored
      BY <1>1, <1>5, <3>1, NothingStored DEF OverflowFails, TypeOK
    <3>2. CASE stored' = Append(stored, FilledChild)
      BY <1>1, <1>5, <2>1, <3>2, StoreSound DEF OverflowFails
    <3> QED
      BY <1>5, <3>1, <3>2 DEF OverflowFails
  <2>5. buf' \in Ranges /\ buf'.from = buf.from /\ buf'.to = buf.to + Room
    BY <1>1, <1>5, GrownType DEF OverflowFails, TypeOK
  <2>6. childMeta' \in Ranges
    BY <1>1, <1>5, GrownType DEF OverflowFails, TypeOK
  <2>7. buf'.from + Limit = buf'.to /\ buf'.to = received'
    BY <1>0, <2>2, <2>5 DEF Room
  <2>8. TypeOK'
    BY <1>1, <1>5, <2>2, <2>4, <2>5, <2>6, SlicerAssumption DEF OverflowFails, TypeOK
  <2>9. WriterInv'
    BY <1>1, <1>5, <2>2, <2>5, <2>7 DEF OverflowFails, WriterInv
  <2>10. ChainEnds' /\ pc' = "failed"
    BY <1>5 DEF OverflowFails, ChainEnds
  <2> QED
    BY <2>4, <2>8, <2>9, <2>10 DEF SlicerInv
<1>6. CASE Close
  <2>1. Sound(LastObject) /\ LastObject.payload = buf /\ LastObject.prev = LastOf(writtenChildren)
    BY <1>6, LastObjectSound DEF Close
  <2>2. /\ stored' \in Seq(Objects) /\ PayloadWithinLimit' /\ MetaMatchesPayload'
    BY <1>1, <1>6, <2>1, StoreSound DEF Close
  <2>3. writtenChildren' \in Seq(Nat) /\ ChildrenStored' /\ ChainContiguous'
    BY <1>1, <1>6, <2>1, StoreChild DEF Close, ChainEnds
  <2>4. TypeOK' /\ WriterInv'
    BY <1>1, <1>6, <2>2, <2>3 DEF Close, TypeOK, WriterInv, writerVars
  <2>5. ChainEnds' /\ pc' \notin {"idle", "writing"}
    BY <1>6 DEF Close, ChainEnds
  <2> QED
    BY <2>2, <2>3, <2>4, <2>5 DEF SlicerInv
<1>7. CASE CloseLinks
  <2>1. /\ stored' \in Seq(Objects) /\ PayloadWithinLimit' /\ MetaMatchesPayload'
        /\ ChildrenStored' /\ ChainContiguous'
    BY <1>1, <1>7, LinkObjectSound, StoreSound DEF CloseLinks
  <2>2. TypeOK' /\ WriterInv' /\ ChainEnds' /\ pc' = "closed"
    BY <1>1, <1>7, <2>1 DEF CloseLinks, TypeOK, WriterInv, ChainEnds, writerVars
  <2> QED
    BY <2>1, <2>2 DEF SlicerInv
<1>8. CASE CloseFails
  <2>1. /\ stored' \in Seq(Objects) /\ PayloadWithinLimit' /\ MetaMatchesPayload'
        /\ ChildrenStored' /\ ChainContiguous'
    <3>1. CASE stored' = stored
      BY <1>1, <1>8, <3>1, NothingStored DEF CloseFails, TypeOK
    <3>2. CASE pc = "idle" /\ stored' = Append(stored, LastObject)
      BY <1>1, <1>8, <3>2, LastObjectSound, StoreSound DEF CloseFails
    <3>3. CASE pc = "linking" /\ stored' = Append(stored, LinkObject)
      BY <1>1, <1>8, <3>3, LinkObjectSound, StoreSound DEF CloseFails
    <3> QED
      BY <1>8, <3>1, <3>2, <3>3 DEF CloseFails
  <2>2. TypeOK' /\ WriterInv' /\ ChainEnds' /\ pc' = "failed"
    BY <1>1, <1>8, <2>1 DEF CloseFails, TypeOK, WriterInv, ChainEnds, writerVars
  <2> QED
    BY <2>1, <2>2 DEF SlicerInv
<1>9. CASE UNCHANGED vars
  <2>1. TypeOK' /\ WriterInv' /\ ChainEnds'
    BY <1>1, <1>9 DEF vars, writerVars, TypeOK, WriterInv, ChainEnds
  <2> QED
    BY <1>1, <1>9, <2>1, NothingStored DEF vars, writerVars, SlicerInv
<1> QED
  BY <1>2, <1>3, <1>4, <1>5, <1>6, <1>7, <1>8, <1>9 DEF Next

LEMMA SlicerInvariant ==
  ASSUME ~Retry
  PROVE  Spec => []SlicerInv
<1>1. SlicerInv /\ [Next]_vars => SlicerInv'
  BY SlicerStep
<1> QED
  BY <1>1, SlicerInit, PTL DEF Spec

\* No object that leaves the slicer exceeds the payload limit.
THEOREM LimitKept ==
  ASSUME ~Retry
  PROVE  Spec => []PayloadWithinLimit
<1>1. SlicerInv => PayloadWithinLimit
  BY DEF SlicerInv
<1> QED
  BY <1>1, SlicerInvariant, PTL

\* The payload size and checksums in the header of every object are computed
\* over exactly the bytes the object carries.
THEOREM MetaCorrect ==
  ASSUME ~Retry
  PROVE  Spec => []MetaMatchesPayload
<1>1. SlicerInv => MetaMatchesPayload
  BY DEF SlicerInv
<1> QED
  BY <1>1, SlicerInvariant, PTL

\* The children form one chain without gaps or overlaps, all but the last one
\* being full.
THEOREM ChainCorrect ==
  ASSUME ~Retry
  PROVE  Spec => []ChainContiguous
<1>1. SlicerInv => ChainContiguous
  BY DEF SlicerInv
<1> QED
  BY <1>1, SlicerInvariant, PTL

-----------------------------------------------------------------------------
(* What can be read *)

\* Every set of naturals that is not empty has a least member.
LEMMA LeastMember ==
  ASSUME NEW T \in SUBSET Nat, T # {}
  PROVE  \E n \in T : \A m \in T : n <= m
<1>1. PICK n \in T : \A m \in T : ~(<<m, n>> \in OpToRel(<, Nat))
  BY NatLessThanWellFounded, WFMin
<1>2. \A m \in T : ~(m < n)
  BY <1>1 DEF OpToRel
<1> QED BY <1>2

\* References lead back to an earlier child, whose payload ends where this one
\* begins; only a linking object refers to nothing and is not the first child.
Backward ==
  \A i \in Ids :
    LET o == stored[i] IN
    /\ o.prev \in 0..(i - 1)
    /\ o.prev # 0 => /\ o.payload.from = stored[o.prev].payload.to
                     /\ stored[o.prev].children = <<>>
    /\ o.prev = 0 /\ o.children = <<>> => o.payload.from = 0

\* Until Close nothing that is stored has the root header or a list of children.
Unpublished ==
  pc \in {"idle", "writing"} =>
    /\ ~rootID /\ (~withSplit => stored = <<>>)
    /\ \A i \in Ids : ~stored[i].parent /\ stored[i].children = <<>>

\* The chain ends with the last byte.
Complete ==
  /\ withSplit /\ writtenChildren # <<>>
  /\ stored[writtenChildren[Len(writtenChildren)]].payload.to = received

\* The last child ends with the last byte, and a linking object lists all of the
\* chain.
Published ==
  /\ pc = "linking" => Complete
  /\ \A i \in Ids :
       LET o == stored[i] IN
       /\ IsLastChild(o) => withSplit /\ o.payload.to = received
       /\ o.children # <<>> => o.children = writtenChildren /\ Complete /\ o.parent

StoredInv == SlicerInv /\ Backward /\ Unpublished /\ Published

\* What Assembled computes.
SizeUpTo(i) ==
  IF i = 0 THEN 0
  ELSE IF stored[i].prev = 0 THEN Size(stored[i].payload) ELSE stored[i].payload.to

LEMMA SizeEquation ==
  ASSUME TypeOK, Backward, NEW i \in Ids
  PROVE  SizeUpTo(i) = Size(stored[i].payload) + SizeUpTo(stored[i].prev)
<1> USE DEF Ids
<1>1. stored[i].prev \in 0..(i - 1) /\ Len(stored) \in Nat
  BY DEF TypeOK, Backward
<1>2. stored[i] \in Objects
  BY DEF TypeOK
<1>3. stored[i].payload.from \in Nat /\ stored[i].payload.to \in Nat
  BY <1>2 DEF Objects, Ranges
<1>4. CASE stored[i].prev = 0
  BY <1>3, <1>4 DEF SizeUpTo, Size
<1>5. CASE stored[i].prev # 0
  <2> DEFINE p == stored[i].prev
  <2>1. p \in 1..Len(stored) /\ p # 0
    BY <1>1, <1>5
  <2>2. stored[p] \in Objects
    BY <2>1 DEF TypeOK
  <2>3. stored[p].payload.from \in Nat /\ stored[p].payload.to \in Nat
    BY <2>2 DEF Objects, Ranges
  <2>4. stored[i].payload.from = stored[p].payload.to /\ stored[p].children = <<>>
    BY <1>5 DEF Backward
  <2>5. stored[p].prev = 0 => stored[p].payload.from = 0
    BY <2>1, <2>4 DEF Backward
  <2>6. SizeUpTo(p) = stored[p].payload.to
    BY <2>1, <2>3, <2>5 DEF SizeUpTo, Size
  <2>7. SizeUpTo(i) = stored[i].payload.to
    BY <1>5 DEF SizeUpTo
  <2> QED BY <1>3, <2>3, <2>4, <2>6, <2>7 DEF Size
<1> QED BY <1>4, <1>5

LEMMA AssembledIs ==
  ASSUME TypeOK, Backward
  PROVE  \A i \in Ids : Assembled[i] = SizeUpTo(i)
<1> USE DEF Ids
<1> DEFINE N == 0..Len(stored)
           Def(f) == [i \in N |-> IF i = 0 THEN 0 ELSE Size(stored[i].payload) + f[stored[i].prev]]
           sizes == [i \in N |-> SizeUpTo(i)]
<1>0. Len(stored) \in Nat /\ \A i \in 1..Len(stored) : stored[i].prev \in 0..(i - 1)
  BY DEF TypeOK, Backward
<1>1. sizes = Def(sizes)
  <2> SUFFICES ASSUME NEW i \in N
               PROVE  SizeUpTo(i) = (IF i = 0 THEN 0 ELSE Size(stored[i].payload) + sizes[stored[i].prev])
    OBVIOUS
  <2>1. CASE i = 0
    BY <2>1 DEF SizeUpTo
  <2>2. CASE i # 0
    <3>1. i \in 1..Len(stored) /\ stored[i].prev \in N
      BY <1>0, <2>2
    <3> QED BY <2>2, <3>1, SizeEquation
  <2> QED BY <2>1, <2>2
<1>2. Assembled = CHOOSE f : f = Def(f)
  BY DEF Assembled
<1>3. Assembled = Def(Assembled)
  <2> HIDE DEF Def, sizes
  <2> QED BY <1>1, <1>2
<1>4. \A i \in N : Assembled[i] = IF i = 0 THEN 0 ELSE Size(stored[i].payload) + Assembled[stored[i].prev]
  BY <1>3
<1> DEFINE Wrong == {i \in N : Assembled[i] # SizeUpTo(i)}
<1>5. Wrong = {}
  <2> SUFFICES ASSUME Wrong # {} PROVE FALSE
    OBVIOUS
  <2>0. Wrong \in SUBSET Nat
    BY <1>0
  <2>1. PICK i \in Wrong : \A m \in Wrong : i <= m
    <3> HIDE DEF Wrong
    <3> QED BY <2>0, LeastMember
  <2>2. i # 0
    BY <1>4, <2>1 DEF SizeUpTo
  <2>3. i \in 1..Len(stored) /\ stored[i].prev \in N /\ stored[i].prev < i
    BY <1>0, <2>1, <2>2
  <2>4. Assembled[stored[i].prev] = SizeUpTo(stored[i].prev)
    BY <1>0, <2>1, <2>3
  <2>5. Assembled[i] = Size(stored[i].payload) + Assembled[stored[i].prev]
    BY <1>4, <2>2, <2>3
  <2> QED BY <2>1, <2>3, <2>4, <2>5, SizeEquation
<1> QED BY <1>0, <1>5

-----------------------------------------------------------------------------
(* One more object that can, or cannot, be read *)

LEMMA StoreBackward ==
  ASSUME TypeOK, Backward, NEW o \in Objects, stored' = Append(stored, o),
         o.prev \in 0..Len(stored),
         o.prev # 0 => /\ o.payload.from = stored[o.prev].payload.to
                       /\ stored[o.prev].children = <<>>,
         o.prev = 0 /\ o.children = <<>> => o.payload.from = 0
  PROVE  Backward'
<1>1. /\ Len(stored') = Len(stored) + 1 /\ Len(stored) \in Nat
      /\ \A i \in 1..Len(stored) : stored'[i] = stored[i]
      /\ stored'[Len(stored) + 1] = o
  BY AppendFacts DEF TypeOK
<1> SUFFICES ASSUME NEW i \in 1..(Len(stored) + 1)
             PROVE  LET p == stored'[i] IN
                    /\ p.prev \in 0..(i - 1)
                    /\ p.prev # 0 => /\ p.payload.from = stored'[p.prev].payload.to
                                     /\ stored'[p.prev].children = <<>>
                    /\ p.prev = 0 /\ p.children = <<>> => p.payload.from = 0
  BY <1>1 DEF Backward, Ids
<1>2. CASE i \in 1..Len(stored)
  <2>1. stored'[i] = stored[i] /\ stored[i].prev \in 0..(i - 1)
    BY <1>1, <1>2 DEF Backward, Ids
  <2>2. stored[i].prev # 0 => stored'[stored[i].prev] = stored[stored[i].prev]
    BY <1>1, <1>2, <2>1
  <2> QED BY <1>2, <2>1, <2>2 DEF Backward, Ids
<1>3. CASE i = Len(stored) + 1
  <2>1. stored'[i] = o /\ o.prev \in 0..(i - 1)
    BY <1>1, <1>3
  <2>2. o.prev # 0 => stored'[o.prev] = stored[o.prev]
    BY <1>1
  <2> QED BY <2>1, <2>2
<1> QED BY <1>1, <1>2, <1>3

\* An object that takes up the chain.
LEMMA ContinuesChain ==
  ASSUME StoredInv, pc \in {"idle", "writing"}, NEW o \in Objects,
         o.prev = LastOf(writtenChildren), o.payload.from = buf.from
  PROVE  /\ o.prev \in 0..Len(stored)
         /\ o.prev # 0 => /\ o.payload.from = stored[o.prev].payload.to
                          /\ stored[o.prev].children = <<>>
         /\ o.prev = 0 => o.payload.from = 0
         /\ withSplit => o.prev # 0
<1>1. /\ TypeOK /\ ChainEnds /\ ChildrenStored /\ Unpublished
      /\ Len(stored) \in Nat /\ writtenChildren \in Seq(Nat)
      /\ withSplit <=> writtenChildren # <<>>
  BY DEF StoredInv, SlicerInv, TypeOK
<1>2. CASE writtenChildren = <<>>
  BY <1>1, <1>2 DEF ChainEnds, LastOf
<1>3. CASE writtenChildren # <<>>
  <2> DEFINE n == Len(writtenChildren)
  <2>1. n \in 1..n
    BY <1>1, <1>3
  <2>2. writtenChildren[n] \in 1..Len(stored) /\ o.prev = writtenChildren[n]
    BY <1>1, <1>3, <2>1 DEF ChildrenStored, LastOf
  <2>3. stored[o.prev].payload.to = buf.from
    BY <1>1, <1>3, <2>2 DEF ChainEnds
  <2>4. stored[o.prev].children = <<>>
    BY <1>1, <2>2 DEF Unpublished, Ids
  <2> QED BY <1>1, <2>2, <2>3, <2>4
<1> QED BY <1>2, <1>3

LEMMA FilledChildFields ==
  /\ ~FilledChild.parent /\ FilledChild.children = <<>>
  BY DEF FilledChild, Header, Child

LEMMA LastObjectFields ==
  ASSUME StoredInv, pc = "idle"
  PROVE  /\ LastObject.children = <<>>
         /\ withSplit => LastObject.parent
         /\ ~withSplit => LastObject.header /\ ~LastObject.parent
<1>1. withSplit => ~isHeaderWriteStep
  BY DEF StoredInv, SlicerInv, WriterInv
<1>2. ~withSplit => isHeaderWriteStep
  BY DEF StoredInv, SlicerInv, WriterInv
<1>3. CASE isHeaderWriteStep
  BY <1>1, <1>3 DEF LastObject, Header
<1>4. CASE ~isHeaderWriteStep
  BY <1>2, <1>4 DEF LastObject, Child
<1> QED BY <1>3, <1>4

LEMMA StoredInit == Init => StoredInv
<1> SUFFICES ASSUME Init PROVE StoredInv
  OBVIOUS
<1>1. SlicerInv
  BY SlicerInit
<1>2. stored = <<>> /\ Ids = {}
  BY DEF Init, Ids
<1> QED BY <1>1, <1>2 DEF Init, StoredInv, Backward, Unpublished, Published

\* A step that stores nothing and leaves the stream as it is or ends it.
LEMMA KeepStored ==
  ASSUME StoredInv, UNCHANGED <<stored, writtenChildren>>
  PROVE  /\ Backward'
         /\ pc \in {"idle", "writing"} =>
              /\ ~rootID' /\ (~withSplit' => ~withSplit) => Unpublished'
              /\ pc' # "linking" => Published'
<1> USE DEF Ids
<1>1. Backward'
  BY DEF StoredInv, Backward
<1>2. ASSUME pc \in {"idle", "writing"}, ~rootID', ~withSplit' => ~withSplit PROVE Unpublished'
  BY <1>2 DEF StoredInv, Unpublished
<1>3. ASSUME pc \in {"idle", "writing"}, pc' # "linking" PROVE Published'
  BY <1>3 DEF StoredInv, Unpublished, Published, IsLastChild
<1> QED BY <1>1, <1>2, <1>3

\* A step that stores a full child.
LEMMA StoreUnpublished ==
  ASSUME StoredInv, SlicerInv', pc \in {"idle", "writing"}, pc' # "linking",
         NEW o \in Objects, stored' = Append(stored, o),
         o.prev = LastOf(writtenChildren), o.payload.from = buf.from,
         ~o.parent, o.children = <<>>, withSplit', UNCHANGED rootID
  PROVE  StoredInv'
<1>1. /\ stored' \in Seq(Objects) /\ Len(stored') = Len(stored) + 1 /\ Len(stored) \in Nat
      /\ \A i \in 1..Len(stored) : stored'[i] = stored[i]
      /\ stored'[Len(stored) + 1] = o
  BY AppendFacts DEF StoredInv, SlicerInv, TypeOK
<1>2. Backward'
  BY ContinuesChain, StoreBackward DEF StoredInv, SlicerInv
<1>3. \A i \in Ids' : ~stored'[i].parent /\ stored'[i].children = <<>>
  BY <1>1 DEF StoredInv, Unpublished, Ids
<1>4. Unpublished'
  BY <1>3 DEF StoredInv, Unpublished
<1>5. Published'
  BY <1>3 DEF Published, IsLastChild
<1> QED BY <1>2, <1>4, <1>5 DEF StoredInv

\* Close stores the last object, and may go on or fail.
LEMMA StoreLast ==
  ASSUME StoredInv, SlicerInv', pc = "idle", pc' \in {"linking", "closed", "failed"},
         pc' = "linking" =>
           withSplit /\ writtenChildren' = Append(writtenChildren, Len(stored) + 1),
         stored' = Append(stored, LastObject), UNCHANGED <<received, withSplit>>
  PROVE  StoredInv'
<1>1. /\ stored' \in Seq(Objects) /\ Len(stored') = Len(stored) + 1 /\ Len(stored) \in Nat
      /\ \A i \in 1..Len(stored) : stored'[i] = stored[i]
      /\ stored'[Len(stored) + 1] = LastObject
  BY AppendFacts, LastObjectSound DEF StoredInv, SlicerInv, TypeOK, Sound
<1>2. /\ LastObject \in Objects /\ LastObject.payload = buf
      /\ LastObject.prev = LastOf(writtenChildren)
  BY LastObjectSound DEF StoredInv, Sound
<1>3. Backward'
  BY <1>2, ContinuesChain, StoreBackward DEF StoredInv, SlicerInv
<1>4. LastObject.children = <<>> /\ (LastObject.parent => withSplit)
  BY LastObjectFields DEF StoredInv, SlicerInv, TypeOK
<1>5. buf.to = received
  BY DEF StoredInv, SlicerInv, WriterInv
<1>6. pc' = "linking" => Complete'
  <2> SUFFICES ASSUME pc' = "linking" PROVE Complete'
    OBVIOUS
  <2>1. writtenChildren' = Append(writtenChildren, Len(stored) + 1) /\ Len(stored) + 1 \in Nat
    BY <1>1
  <2>2. writtenChildren'[Len(writtenChildren')] = Len(stored) + 1 /\ writtenChildren' # <<>>
    BY <2>1, AppendFacts DEF StoredInv, SlicerInv, TypeOK
  <2> QED BY <1>1, <1>2, <1>5, <2>2 DEF Complete
<1>7. Published'
  <2>1. \A i \in 1..Len(stored) : ~stored[i].parent /\ stored[i].children = <<>>
    BY DEF StoredInv, Unpublished, Ids
  <2>2. \A i \in Ids' : \/ stored'[i] = LastObject
                        \/ ~stored'[i].parent /\ stored'[i].children = <<>>
    BY <1>1, <2>1 DEF Ids
  <2>3. \A i \in Ids' : /\ stored'[i].children = <<>>
                        /\ stored'[i].parent => withSplit /\ stored'[i].payload.to = received
    BY <1>2, <1>4, <1>5, <2>2
  <2> QED BY <1>6, <2>3 DEF Published, IsLastChild
<1> QED BY <1>3, <1>7 DEF StoredInv, Unpublished

\* Close stores the linking object, and may fail.
LEMMA StoreLink ==
  ASSUME StoredInv, SlicerInv', pc = "linking", pc' \in {"closed", "failed"},
         stored' = Append(stored, LinkObject),
         UNCHANGED <<received, withSplit, writtenChildren>>
  PROVE  StoredInv'
<1>1. /\ stored' \in Seq(Objects) /\ Len(stored') = Len(stored) + 1 /\ Len(stored) \in Nat
      /\ \A i \in 1..Len(stored) : stored'[i] = stored[i]
      /\ stored'[Len(stored) + 1] = LinkObject
  BY AppendFacts, LinkObjectSound DEF StoredInv, SlicerInv, TypeOK, Sound
<1>2. /\ LinkObject \in Objects /\ LinkObject.prev = 0
      /\ LinkObject.children = writtenChildren /\ LinkObject.parent
  BY LinkObjectSound DEF StoredInv, Sound, LinkObject
<1>3. Complete
  BY DEF StoredInv, Published
<1>4. Complete'
  <2>1. Len(writtenChildren) \in 1..Len(writtenChildren)
    BY <1>3 DEF Complete, StoredInv, SlicerInv, TypeOK
  <2>2. writtenChildren[Len(writtenChildren)] \in 1..Len(stored)
    BY <2>1 DEF StoredInv, SlicerInv, ChildrenStored
  <2> QED BY <1>1, <1>3, <2>2 DEF Complete
<1>5. Backward'
  <2>1. LinkObject.children # <<>> /\ LinkObject.prev \in 0..Len(stored)
    BY <1>1, <1>2, <1>3 DEF Complete
  <2> QED BY <1>2, <2>1, StoreBackward DEF StoredInv, SlicerInv
<1>6. Published'
  <2> SUFFICES ASSUME NEW i \in Ids'
               PROVE  LET o == stored'[i] IN
                      /\ IsLastChild(o) => withSplit' /\ o.payload.to = received'
                      /\ o.children # <<>> => /\ o.children = writtenChildren'
                                              /\ Complete' /\ o.parent
    BY DEF Published
  <2>1. CASE i \in Ids
    BY <1>1, <1>4, <2>1 DEF Ids, StoredInv, Published
  <2>2. CASE i = Len(stored) + 1
    BY <1>1, <1>2, <1>3, <1>4, <2>2 DEF IsLastChild, Complete
  <2> QED BY <1>1, <2>1, <2>2 DEF Ids
<1> QED BY <1>5, <1>6 DEF StoredInv, Unpublished

LEMMA StoredStep ==
  ASSUME ~Retry, StoredInv, [Next]_vars
  PROVE  StoredInv'
<1>0. SlicerInv'
  BY SlicerStep DEF StoredInv
<1>1. ASSUME NEW n \in 1..MaxInput, Write(n) PROVE StoredInv'
  BY <1>0, <1>1, KeepStored DEF Write, writerVars, StoredInv, Unpublished
<1>2. CASE WriteFits
  BY <1>0, <1>2, KeepStored DEF WriteFits, StoredInv, Unpublished
<1>3. CASE WriteOverflows
  BY <1>0, <1>3, FilledChildSound, FilledChildFields, StoreUnpublished
     DEF WriteOverflows, StoredInv, Sound
<1>4. CASE OverflowFails
  <2>1. CASE stored' = stored
    BY <1>0, <1>4, <2>1, KeepStored DEF OverflowFails, StoredInv, Unpublished
  <2>2. CASE stored' = Append(stored, FilledChild)
    BY <1>0, <1>4, <2>2, FilledChildSound, FilledChildFields, StoreUnpublished
       DEF OverflowFails, StoredInv, Sound
  <2> QED BY <1>4, <2>1, <2>2 DEF OverflowFails
<1>5. CASE Close
  BY <1>0, <1>5, StoreLast DEF Close, writerVars
<1>6. CASE CloseLinks
  BY <1>0, <1>6, StoreLink DEF CloseLinks, writerVars
<1>7. CASE CloseFails
  <2>1. CASE pc = "idle" /\ stored' = stored
    BY <1>0, <1>7, <2>1, KeepStored DEF CloseFails, writerVars, StoredInv, Unpublished
  <2>2. CASE pc = "idle" /\ stored' = Append(stored, LastObject)
    BY <1>0, <1>7, <2>2, StoreLast DEF CloseFails, writerVars
  <2>3. CASE pc = "linking" /\ stored' = stored
    <3>1. UNCHANGED <<stored, writtenChildren, received, withSplit>> /\ pc' = "failed"
      BY <1>7, <2>3 DEF CloseFails, writerVars
    <3>2. Published'
      BY <3>1 DEF StoredInv, Published, Complete, Ids, IsLastChild
    <3> QED BY <1>0, <3>1, <3>2, KeepStored DEF StoredInv, Unpublished
  <2>4. CASE pc = "linking" /\ stored' = Append(stored, LinkObject)
    BY <1>0, <1>7, <2>4, StoreLink DEF CloseFails, writerVars
  <2> QED BY <1>7, <2>1, <2>2, <2>3, <2>4 DEF CloseFails
<1>8. CASE UNCHANGED vars
  <2>1. UNCHANGED <<pc, stored, writtenChildren, received, withSplit, rootID>>
    BY <1>8 DEF vars, writerVars
  <2>2. Published' /\ Unpublished'
    BY <2>1 DEF StoredInv, Published, Unpublished, Complete, Ids, IsLastChild
  <2> QED BY <1>0, <2>1, <2>2, KeepStored DEF StoredInv
<1> QED BY <1>1, <1>2, <1>3, <1>4, <1>5, <1>6, <1>7, <1>8 DEF Next

LEMMA StoredInvariant ==
  ASSUME ~Retry
  PROVE  Spec => []StoredInv
<1>1. StoredInv /\ [Next]_vars => StoredInv'
  BY StoredStep
<1> QED
  BY <1>1, StoredInit, PTL DEF Spec

-----------------------------------------------------------------------------
(* Slicer implements PayloadStream *)

\* The objects a reader may start from.
Roots == {j \in 1..Len(stored) : IsLastChild(stored[j]) \/ IsWholeRoot(stored[j])}

ReadableOfRoots == Readable = {SizeUpTo(i) : i \in Roots}

LEMMA ReadableIs == StoredInv => ReadableOfRoots
<1> SUFFICES ASSUME StoredInv PROVE ReadableOfRoots
  OBVIOUS
<1>1. Readable = {Assembled[i] : i \in Roots}
  BY DEF Readable, Roots
<1>2. \A i \in Roots : Assembled[i] = SizeUpTo(i)
  BY AssembledIs DEF Roots, Ids, StoredInv, SlicerInv
<1> QED BY <1>1, <1>2 DEF ReadableOfRoots

\* Nothing can be read before Close, nor if Close stores nothing.
Hidden ==
  \/ pc \in {"idle", "writing"}
  \/ /\ ~withSplit => stored = <<>>
     /\ \A i \in Ids : ~stored[i].parent

LEMMA NothingReadable == StoredInv /\ Hidden => Readable = {}
<1> SUFFICES ASSUME StoredInv, Hidden PROVE Readable = {}
  OBVIOUS
<1>1. Roots = {}
  BY DEF StoredInv, Unpublished, Roots, Ids, IsLastChild, IsWholeRoot, Hidden
<1> QED BY <1>1, ReadableIs DEF ReadableOfRoots

LEMMA ReadableNext ==
  /\ StoredInv' => ReadableOfRoots'
  /\ StoredInv' /\ Hidden' => Readable' = {}
<1>1. (StoredInv => ReadableOfRoots)'
  BY ReadableIs, PTL
<1>2. (StoredInv /\ Hidden => Readable = {})'
  BY NothingReadable, PTL
<1> QED BY <1>1, <1>2

\* Once the last object is stored all of the payload can be read.
LEMMA AllReadable ==
  ASSUME StoredInv, StoredInv', pc = "idle", rootID',
         stored' = Append(stored, LastObject), UNCHANGED <<received, withSplit>>
  PROVE  Readable' = {received}
<1>0. PICK n : n = Len(stored) + 1
  OBVIOUS
<1>1. /\ Len(stored') = n /\ Len(stored) \in Nat /\ n \in 1..n
      /\ \A i \in 1..Len(stored) : stored'[i] = stored[i]
      /\ stored'[n] = LastObject
  BY <1>0, AppendFacts, LastObjectSound DEF StoredInv, SlicerInv, TypeOK, Sound
<1>2. /\ LastObject \in Objects /\ LastObject.payload = buf
      /\ LastObject.prev = LastOf(writtenChildren)
      /\ LastObject.children = <<>>
      /\ withSplit => LastObject.parent
      /\ ~withSplit => LastObject.header
  BY LastObjectSound, LastObjectFields DEF StoredInv, Sound
<1>3. Roots' = {n}
  <2>1. \A i \in 1..Len(stored) : ~stored[i].parent
    BY DEF StoredInv, Unpublished, Ids
  <2>2. ~withSplit => Len(stored) = 0
    BY DEF StoredInv, Unpublished
  <2>3. \/ LastObject.parent /\ LastObject.children = <<>>
        \/ LastObject.header /\ rootID' /\ ~withSplit'
    BY <1>2
  <2>4. n \in Roots'
    BY <1>1, <2>3 DEF Roots, IsLastChild, IsWholeRoot
  <2>5. \A i \in 1..Len(stored) : i \notin Roots'
    BY <1>1, <2>1, <2>2 DEF Roots, IsLastChild, IsWholeRoot
  <2> QED BY <1>0, <1>1, <2>4, <2>5 DEF Roots
<1>4. SizeUpTo(n)' = received
  <2>1. buf.to = received /\ buf \in Ranges /\ received \in Nat
    BY DEF StoredInv, SlicerInv, WriterInv, TypeOK
  <2>2. LastObject.prev = 0 => buf.from = 0
    BY <1>2, ContinuesChain
  <2> QED BY <1>1, <1>2, <2>1, <2>2 DEF SizeUpTo, Size, Ranges
<1>5. Readable' = {SizeUpTo(i)' : i \in Roots'}
  BY ReadableNext DEF ReadableOfRoots
<1> QED BY <1>3, <1>4, <1>5

\* The linking object changes nothing of what can be read.
LEMMA LinkNotRead ==
  ASSUME StoredInv, StoredInv', pc = "linking", stored' = Append(stored, LinkObject),
         UNCHANGED <<rootID, withSplit>>
  PROVE  Readable' = Readable
<1>1. /\ Len(stored') = Len(stored) + 1 /\ Len(stored) \in Nat
      /\ \A i \in 1..Len(stored) : stored'[i] = stored[i]
      /\ stored'[Len(stored) + 1] = LinkObject
  BY AppendFacts, LinkObjectSound DEF StoredInv, SlicerInv, TypeOK, Sound
<1>2. LinkObject.children # <<>> /\ ~LinkObject.header
  BY DEF StoredInv, Published, Complete, LinkObject
<1>3. Roots' = Roots
  BY <1>1, <1>2 DEF Roots, IsLastChild, IsWholeRoot
<1>4. \A i \in Roots : SizeUpTo(i)' = SizeUpTo(i)
  BY <1>1 DEF Roots, SizeUpTo
<1>5. Readable' = {SizeUpTo(i)' : i \in Roots'} /\ Readable = {SizeUpTo(i) : i \in Roots}
  BY ReadableIs, ReadableNext DEF ReadableOfRoots
<1> QED BY <1>3, <1>4, <1>5

LEMMA RefinesInit == Init => PS!Init
<1> SUFFICES ASSUME Init PROVE PS!Init
  OBVIOUS
<1>1. Readable = {}
  BY StoredInit, NothingReadable DEF Init, Hidden
<1> QED BY <1>1 DEF Init, PS!Init, Status

LEMMA RefinesStep ==
  ASSUME ~Retry, StoredInv, [Next]_vars
  PROVE  [PS!Next]_(PS!vars)
<1>0. StoredInv' /\ received \in Nat /\ received' \in Nat
  BY StoredStep DEF StoredInv, SlicerInv, TypeOK
<1> USE DEF PS!vars
<1>1. ASSUME NEW n \in 1..MaxInput, Write(n) PROVE UNCHANGED PS!vars
  <2>1. pc = "idle" /\ pc' = "writing" /\ received' = received
    BY <1>1 DEF Write
  <2>2. Readable = {} /\ Readable' = {}
    BY <1>0, <2>1, NothingReadable, ReadableNext DEF Hidden
  <2> QED BY <2>1, <2>2 DEF Status
<1>2. ASSUME received' >= received, pc = "writing", pc' \in {"idle", "writing"}
      PROVE  PS!Accept \/ UNCHANGED PS!vars
  <2>1. Readable = {} /\ Readable' = {}
    BY <1>0, <1>2, NothingReadable, ReadableNext DEF Hidden
  <2>2. Status = "open" /\ Status' = "open"
    BY <1>2 DEF Status
  <2> QED BY <1>0, <1>2, <2>1, <2>2 DEF PS!Accept
<1>3. CASE WriteFits
  <2>1. received' >= received
    BY <1>0, <1>3 DEF WriteFits, Take, StoredInv, SlicerInv, TypeOK
  <2> QED BY <1>2, <1>3, <2>1 DEF WriteFits, PS!Next
<1>r. Room \in Nat
  BY SlicerAssumption DEF StoredInv, SlicerInv, TypeOK, Room
<1>4. CASE WriteOverflows
  <2>1. received' >= received
    BY <1>0, <1>4, <1>r DEF WriteOverflows, Take
  <2> QED BY <1>2, <1>4, <2>1 DEF WriteOverflows, PS!Next
<1>5. CASE OverflowFails
  <2>1. received' >= received /\ pc = "writing" /\ pc' = "failed" /\ withSplit'
        /\ UNCHANGED rootID
    BY <1>0, <1>5, <1>r DEF OverflowFails, Take
  <2>2. \A i \in Ids' : ~stored'[i].parent
    <3>1. CASE stored' = stored
      BY <2>1, <3>1 DEF StoredInv, Unpublished, Ids
    <3>2. CASE stored' = Append(stored, FilledChild)
      <4>1. FilledChild \in Objects /\ ~FilledChild.parent
        BY <2>1, FilledChildSound, FilledChildFields DEF StoredInv, Sound
      <4>2. /\ Len(stored') = Len(stored) + 1 /\ Len(stored) \in Nat
            /\ \A i \in 1..Len(stored) : stored'[i] = stored[i]
            /\ stored'[Len(stored) + 1] = FilledChild
        BY <3>2, <4>1, AppendFacts DEF StoredInv, SlicerInv, TypeOK
      <4>3. \A i \in 1..Len(stored) : ~stored[i].parent
        BY <2>1 DEF StoredInv, Unpublished, Ids
      <4> QED BY <4>1, <4>2, <4>3 DEF Ids
    <3> QED BY <1>5, <3>1, <3>2 DEF OverflowFails
  <2>3. Readable = {} /\ Readable' = {}
    BY <1>0, <2>1, <2>2, NothingReadable, ReadableNext DEF Hidden
  <2>4. Status = "open" /\ Status' = "failed"
    BY <2>1 DEF Status
  <2> QED BY <1>0, <2>1, <2>3, <2>4 DEF PS!Next, PS!Fail
<1>6. CASE Close
  <2>1. /\ pc = "idle" /\ pc' \in {"linking", "closed"} /\ received' = received
        /\ rootID' /\ stored' = Append(stored, LastObject) /\ UNCHANGED withSplit
    BY <1>6 DEF Close, writerVars
  <2>2. Readable' = {received}
    BY <1>0, <2>1, AllReadable
  <2>3. Status = "open" /\ Status' \in {"publishing", "closed"}
    BY <2>1 DEF Status
  <2> QED BY <2>1, <2>2, <2>3 DEF PS!Next, PS!Publish
<1>7. CASE CloseLinks
  <2>1. /\ pc = "linking" /\ pc' = "closed" /\ received' = received
        /\ stored' = Append(stored, LinkObject) /\ UNCHANGED <<rootID, withSplit>>
    BY <1>7 DEF CloseLinks, writerVars
  <2>2. Readable' = Readable
    BY <1>0, <2>1, LinkNotRead
  <2>3. Status = "publishing" /\ Status' = "closed"
    BY <2>1 DEF Status
  <2> QED BY <2>1, <2>2, <2>3 DEF PS!Next, PS!Confirm
<1>8. CASE CloseFails
  <2>1. /\ pc \in {"idle", "linking"} /\ pc' = "failed" /\ received' = received
        /\ UNCHANGED withSplit
    BY <1>8 DEF CloseFails, writerVars
  <2>2. Status \in {"open", "publishing"} /\ Status' = "failed"
    BY <2>1 DEF Status
  <2>3. CASE pc = "idle" /\ stored' = stored
    <3>1. /\ ~withSplit' => stored' = <<>>
          /\ \A i \in Ids' : ~stored'[i].parent
      BY <2>1, <2>3 DEF StoredInv, Unpublished, Ids
    <3>2. Readable = {} /\ Readable' = {}
      BY <1>0, <2>3, <3>1, NothingReadable, ReadableNext DEF Hidden
    <3> QED BY <1>0, <2>1, <2>2, <3>2 DEF PS!Next, PS!Fail
  <2>4. CASE pc = "idle" /\ stored' = Append(stored, LastObject)
    <3>1. Readable' = {received}
      BY <1>0, <1>8, <2>1, <2>4, AllReadable DEF CloseFails
    <3> QED BY <2>1, <2>2, <3>1 DEF PS!Next, PS!Fail
  <2>5. CASE pc = "linking" /\ stored' = stored
    <3>1. UNCHANGED <<stored, rootID, withSplit>>
      BY <1>8, <2>1, <2>5 DEF CloseFails
    <3>2. Readable' = Readable
      BY <3>1 DEF Readable, Assembled, IsLastChild, IsWholeRoot
    <3> QED BY <1>0, <2>1, <2>2, <3>2 DEF PS!Next, PS!Fail
  <2>6. CASE pc = "linking" /\ stored' = Append(stored, LinkObject)
    <3>1. Readable' = Readable
      BY <1>0, <1>8, <2>1, <2>6, LinkNotRead DEF CloseFails
    <3> QED BY <1>0, <2>1, <2>2, <3>1 DEF PS!Next, PS!Fail
  <2> QED BY <1>8, <2>3, <2>4, <2>5, <2>6 DEF CloseFails
<1>9. CASE UNCHANGED vars
  <2>1. UNCHANGED <<pc, received, stored, rootID, withSplit>>
    BY <1>9 DEF vars, writerVars
  <2>2. Readable' = Readable /\ Status' = Status
    BY <2>1 DEF Readable, Assembled, IsLastChild, IsWholeRoot, Status
  <2> QED BY <2>1, <2>2
<1> QED
  BY <1>1, <1>3, <1>4, <1>5, <1>6, <1>7, <1>8, <1>9 DEF Next

\* A sliced payload behaves as one object: whatever the limit and however the
\* writes are cut or fail, all of it becomes readable in one step, or nothing.
THEOREM SlicerImplements ==
  ASSUME ~Retry
  PROVE  Spec => ImplementsPayloadStream
<1>1. StoredInv /\ [Next]_vars => [PS!Next]_(PS!vars)
  BY RefinesStep
<1> QED
  BY <1>1, RefinesInit, StoredInvariant, PTL DEF Spec, ImplementsPayloadStream, PS!Spec

-----------------------------------------------------------------------------
(* Get restores the chain *)

\* The objects ids are all of the payload, in its order.
WholeChain(ids) ==
  /\ ids \in Seq(Ids) /\ ids # <<>>
  /\ stored[ids[1]].payload.from = 0
  /\ stored[ids[Len(ids)]].payload.to = received
  /\ \A i \in 2..Len(ids) : stored[ids[i]].payload.from = stored[ids[i - 1]].payload.to

\* What Get has found is stored, and Get has started only after Close.
Found ==
  /\ at = "idle" => GetInit
  /\ at # "idle" => rootID
  /\ info.link # 0 => info.link \in Links
  /\ info.last # 0 => info.last \in Lasts
  /\ at = "link" => info.link # 0
  /\ list \in Seq(Links \cup Lasts)
  /\ chain \in Seq(Ids)
  /\ at = "walk" => chain # <<>>
  /\ forged = NoForgery \/ forged.prev \in Ids

\* The walk has collected the end of the chain; it goes to earlier objects, so
\* it never meets one again.
Walked ==
  at = "walk" /\ forged = NoForgery =>
    /\ withSplit /\ stored[chain[Len(chain)]].payload.to = received
    /\ \A i \in 1..Len(chain) : stored[chain[i]].children = <<>> /\ chain[1] <= chain[i]
    /\ \A i \in 2..Len(chain) :
         stored[chain[i]].payload.from = stored[chain[i - 1]].payload.to

Answered ==
  /\ answer.kind = "ok" /\ forged = NoForgery =>
       IF ~withSplit THEN answer.children = <<>>
       ELSE /\ WholeChain(answer.children)
            /\ answer.link # 0 =>
                 answer.link \in Ids /\ stored[answer.link].children = answer.children
  /\ answer.kind = "error" => fault \/ forged # NoForgery

GetInv == StoredInv /\ Found /\ Walked /\ Answered

LEMMA AnsweredIs == GetInv => ChainComplete
<1> SUFFICES ASSUME GetInv PROVE ChainComplete
  OBVIOUS
<1>1. ASSUME answer.kind = "ok", forged = NoForgery
      PROVE  LET parts == Payloads(answer.children) IN
             IF ~withSplit THEN parts = <<>>
             ELSE /\ parts # <<>> /\ parts[1].from = 0 /\ parts[Len(parts)].to = received
                  /\ \A i \in 2..Len(parts) : parts[i].from = parts[i - 1].to
                  /\ answer.link # 0 => stored[answer.link].children = answer.children
  <2> DEFINE ids == answer.children
             parts == Payloads(ids)
  <2>1. CASE ~withSplit
    <3>1. ids = <<>>
      BY <1>1, <2>1 DEF GetInv, Answered
    <3>2. parts = <<>>
      BY <3>1 DEF Payloads
    <3> QED BY <2>1, <3>2
  <2>2. CASE withSplit
    <3>1. WholeChain(ids) /\ (answer.link # 0 => stored[answer.link].children = ids)
      BY <1>1, <2>2 DEF GetInv, Answered
    <3>2. ids \in Seq(Ids) /\ Len(ids) \in Nat /\ Len(ids) # 0 /\ DOMAIN ids = 1..Len(ids)
      BY <3>1 DEF WholeChain
    <3>3. /\ parts = [i \in 1..Len(ids) |-> stored[ids[i]].payload]
          /\ Len(parts) = Len(ids)
      BY <3>2 DEF Payloads
    <3>4. parts # <<>> /\ \A i \in 1..Len(ids) : parts[i] = stored[ids[i]].payload
      BY <3>2, <3>3
    <3> HIDE DEF parts
    <3>5. parts[1].from = 0 /\ parts[Len(parts)].to = received
      BY <3>1, <3>2, <3>3, <3>4 DEF WholeChain
    <3>6. ASSUME NEW i \in 2..Len(parts) PROVE parts[i].from = parts[i - 1].to
      <4>1. i \in 1..Len(ids) /\ i - 1 \in 1..Len(ids) /\ i \in 2..Len(ids)
        BY <3>2, <3>3
      <4> QED BY <3>1, <3>4, <4>1 DEF WholeChain
    <3> QED BY <2>2, <3>1, <3>4, <3>5, <3>6 DEF parts
  <2> QED BY <2>1, <2>2 DEF GetInv, StoredInv, SlicerInv, TypeOK
<1>2. answer.kind = "error" => fault \/ forged # NoForgery
  BY DEF GetInv, Answered
<1> QED BY <1>1, <1>2 DEF ChainComplete

\* After Close has computed the root ID it stores at most the linking object.
LEMMA WriterFrozen ==
  ASSUME StoredInv, rootID, [Next]_vars
  PROVE  /\ UNCHANGED <<received, withSplit, rootID>>
         /\ Len(stored) \in Nat /\ Len(stored') \in Nat /\ Len(stored) <= Len(stored')
         /\ \A i \in Ids : stored'[i] = stored[i]
<1>1. pc \notin {"idle", "writing"} /\ Len(stored) \in Nat
  BY DEF StoredInv, Unpublished, SlicerInv, TypeOK
<1>2. /\ UNCHANGED <<received, withSplit, rootID>>
      /\ stored' = stored \/ stored' = Append(stored, LinkObject)
  BY <1>1 DEF Next, Write, WriteFits, WriteOverflows, OverflowFails, Close, CloseLinks,
              CloseFails, vars, writerVars
<1>3. LinkObject \in Objects /\ stored \in Seq(Objects)
  BY LinkObjectSound DEF StoredInv, SlicerInv, TypeOK, Sound
<1>4. CASE stored' = stored
  BY <1>1, <1>2, <1>4
<1>5. CASE stored' = Append(stored, LinkObject)
  <2>1. /\ Len(stored') = Len(stored) + 1
        /\ \A i \in 1..Len(stored) : stored'[i] = stored[i]
    BY <1>3, <1>5, AppendFacts
  <2> QED BY <1>1, <1>2, <2>1 DEF Ids
<1> QED BY <1>2, <1>4, <1>5

LEMMA WholeChainKept ==
  ASSUME NEW CONSTANT ids, WholeChain(ids), Ids \subseteq Ids', received' = received,
         \A i \in Ids : stored'[i] = stored[i]
  PROVE  WholeChain(ids)'
<1>1. ids # <<>> /\ ids \in Seq(Ids) /\ Len(ids) \in 1..Len(ids) /\ 1 \in 1..Len(ids)
  BY DEF WholeChain
<1>2. \A i \in 1..Len(ids) : ids[i] \in Ids /\ stored'[ids[i]] = stored[ids[i]]
  BY <1>1
<1>3. \A i \in 2..Len(ids) : i \in 1..Len(ids) /\ i - 1 \in 1..Len(ids)
  BY <1>1
<1>4. ids \in Seq(Ids')
  BY <1>1
<1>5. \A i \in 2..Len(ids) : stored'[ids[i]].payload.from = stored'[ids[i - 1]].payload.to
  BY <1>2, <1>3 DEF WholeChain
<1> QED BY <1>1, <1>2, <1>4, <1>5 DEF WholeChain

\* What Get has found stays true while Close goes on.
LEMMA WriterKeepsFound ==
  ASSUME ~Retry, GetInv, [Next]_vars, UNCHANGED getVars
  PROVE  GetInv'
<1>0. StoredInv'
  BY StoredStep DEF GetInv
<1>1. UNCHANGED <<at, info, list, chain, answer, forged, fault>>
  BY DEF getVars
<1>2. CASE at = "idle"
  <2>1. GetInit
    BY <1>2 DEF GetInv, Found
  <2>2. GetInit'
    BY <1>1, <2>1 DEF GetInit
  <2> QED BY <1>0, <2>2 DEF GetInit, GetInv, Found, Walked, Answered, NoAnswer, NoForgery
<1>3. CASE at # "idle"
  <2>1. /\ UNCHANGED <<received, withSplit, rootID>> /\ rootID
        /\ Len(stored) \in Nat /\ Len(stored') \in Nat /\ Len(stored) <= Len(stored')
        /\ \A i \in Ids : stored'[i] = stored[i]
    BY <1>3, WriterFrozen DEF GetInv, Found
  <2>2. Ids \subseteq Ids'
    BY <2>1 DEF Ids
  <2>3. Links \subseteq Links' /\ Lasts \subseteq Lasts'
    BY <2>1, <2>2 DEF Links, Lasts, IsLastChild
  <2>4. Found'
    <3>1. list' \in Seq(Links' \cup Lasts') /\ chain' \in Seq(Ids')
      BY <1>1, <2>2, <2>3 DEF GetInv, Found
    <3> QED BY <1>1, <1>3, <2>1, <2>2, <2>3, <3>1 DEF GetInv, Found
  <2>5. Walked'
    <3> SUFFICES ASSUME at = "walk", forged = NoForgery PROVE Walked'
      BY <1>1 DEF Walked
    <3>1. chain # <<>> /\ chain \in Seq(Ids) /\ Len(chain) \in 1..Len(chain)
      BY DEF GetInv, Found
    <3>2. \A i \in 1..Len(chain) : chain[i] \in Ids /\ stored'[chain[i]] = stored[chain[i]]
      BY <2>1, <3>1
    <3>3. \A i \in 2..Len(chain) : i \in 1..Len(chain) /\ i - 1 \in 1..Len(chain)
      BY <3>1
    <3> QED BY <1>1, <2>1, <3>1, <3>2, <3>3 DEF GetInv, Walked
  <2>6. Answered'
    <3>1. ASSUME WholeChain(answer.children) PROVE WholeChain(answer.children)'
      <4>1. PICK ids : ids = answer.children
        OBVIOUS
      <4>2. WholeChain(ids)'
        BY <2>1, <2>2, <3>1, <4>1, WholeChainKept
      <4> QED BY <1>1, <4>1, <4>2 DEF WholeChain
    <3> QED BY <1>1, <2>1, <2>2, <3>1 DEF GetInv, Answered
  <2> QED BY <1>0, <2>4, <2>5, <2>6 DEF GetInv
<1> QED BY <1>2, <1>3

\* The chain of a linking object.
LEMMA LinkListsChain ==
  ASSUME StoredInv, NEW l \in Links
  PROVE  WholeChain(stored[l].children) /\ withSplit /\ l \in Ids
<1>1. l \in Ids /\ stored[l].children = writtenChildren /\ Complete
  BY DEF Links, StoredInv, Published
<1>2. /\ writtenChildren \in Seq(Nat) /\ ChildrenStored /\ ChainContiguous
      /\ Len(writtenChildren) \in Nat /\ 1 \in 1..Len(writtenChildren)
      /\ writtenChildren # <<>> /\ withSplit
  BY <1>1 DEF StoredInv, SlicerInv, TypeOK, Complete
<1>3. writtenChildren \in Seq(Ids)
  BY <1>2 DEF ChildrenStored, Ids
<1>4. stored[writtenChildren[1]].payload.from = 0
  BY <1>2 DEF ChainContiguous
<1>5. ASSUME NEW i \in 2..Len(writtenChildren)
      PROVE  stored[writtenChildren[i]].payload.from = stored[writtenChildren[i - 1]].payload.to
  <2>1. i \in 1..Len(writtenChildren) /\ i # 1
    BY <1>2
  <2> QED BY <1>2, <2>1 DEF ChainContiguous
<1> QED BY <1>1, <1>2, <1>3, <1>4, <1>5 DEF WholeChain, Complete

\* A last child is the end of the chain.
LEMMA LastEndsChain ==
  ASSUME StoredInv, NEW l \in Lasts
  PROVE  /\ l \in Ids /\ withSplit
         /\ stored[l].payload.to = received /\ stored[l].children = <<>>
  BY DEF Lasts, StoredInv, Published, IsLastChild

LEMMA WriterIdle ==
  ASSUME UNCHANGED vars
  PROVE  /\ UNCHANGED <<stored, received, withSplit, rootID>>
         /\ Ids' = Ids /\ Links' = Links /\ Lasts' = Lasts
         /\ \A ids : WholeChain(ids) => WholeChain(ids)'
<1>1. UNCHANGED <<stored, received, withSplit, rootID>>
  BY DEF vars, writerVars
<1>2. Ids' = Ids /\ Links' = Links /\ Lasts' = Lasts
  BY <1>1 DEF Ids, Links, Lasts, IsLastChild
<1> QED BY <1>1, <1>2, WholeChainKept

\* A step of Get that does not return.
LEMMA GetGoesOn ==
  ASSUME GetInv, StoredInv', UNCHANGED vars, UNCHANGED <<answer, forged>>, fault' = fault,
         at # "idle", Found', Walked'
  PROVE  GetInv'
<1>1. Answered'
  BY WriterIdle DEF GetInv, Answered, WholeChain
<1> QED BY <1>1 DEF GetInv

\* A step of Get that returns.
LEMMA GetEnds ==
  ASSUME GetInv, StoredInv', UNCHANGED vars, UNCHANGED <<list, chain, forged>>,
         at # "idle", at' = "done", UNCHANGED info, Answered'
  PROVE  GetInv'
<1>1. Found'
  BY WriterIdle DEF GetInv, Found
<1>2. Walked'
  BY DEF Walked
<1> QED BY <1>1, <1>2 DEF GetInv

LEMMA FailIs == Fail => at' = "done" /\ answer'.kind = "error"
  BY DEF Fail, NoAnswer

LEMMA GetStep1 ==
  ASSUME GetInv, StoredInv', UNCHANGED vars, GetStart
  PROVE  GetInv'
<1>1. GetInit /\ rootID
  BY DEF GetInv, Found, GetStart
<1>2. /\ at' = "root" /\ UNCHANGED <<info, list, chain, answer, fault>>
      /\ forged' = NoForgery \/ forged'.prev \in Ids
  BY DEF GetStart
<1>3. Found'
  BY <1>1, <1>2, WriterIdle DEF Found, GetInit
<1>4. Walked' /\ Answered'
  BY <1>1, <1>2 DEF Walked, Answered, GetInit, NoAnswer
<1> QED BY <1>3, <1>4 DEF GetInv

LEMMA HeadRootStep ==
  ASSUME GetInv, StoredInv', UNCHANGED vars, HeadRoot
  PROVE  GetInv'
<1>0. at = "root" /\ UNCHANGED <<list, chain, forged>>
  BY DEF HeadRoot
<1>1. CASE Whole /\ Return(<<>>, 0) /\ UNCHANGED <<info, fault>>
  <2>1. ~withSplit
    BY <1>1 DEF Whole, IsWholeRoot
  <2>2. Answered'
    BY <1>1, <2>1, WriterIdle DEF Return, Answered
  <2> QED BY <1>0, <1>1, <2>2, GetEnds DEF Return
<1>2. CASE /\ \E l \in Links \cup {0}, m \in Lasts \cup {0} :
                /\ info' = [link |-> l, last |-> m]
                /\ at' = IF l # 0 THEN "link" ELSE "search"
           /\ UNCHANGED <<answer, fault>>
  <2>1. PICK l \in Links \cup {0}, m \in Lasts \cup {0} :
               /\ info' = [link |-> l, last |-> m]
               /\ at' = IF l # 0 THEN "link" ELSE "search"
    BY <1>2
  <2>2. Found'
    BY <1>0, <2>1, WriterIdle DEF GetInv, Found
  <2>3. Walked'
    BY <2>1 DEF Walked
  <2> QED BY <1>0, <1>2, <2>2, <2>3, GetGoesOn
<1>3. CASE Fail /\ fault' = TRUE /\ UNCHANGED info
  <2>1. Answered'
    BY <1>3, FailIs DEF Answered
  <2> QED BY <1>0, <1>3, <2>1, FailIs, GetEnds
<1> QED BY <1>1, <1>2, <1>3 DEF HeadRoot

LEMMA SearchSiblingsStep ==
  ASSUME GetInv, StoredInv', UNCHANGED vars, SearchSiblings
  PROVE  GetInv'
<1>0. at = "search" /\ at' = "siblings" /\ UNCHANGED <<info, chain, answer, forged, fault>>
  BY DEF SearchSiblings
<1>1. PICK found \in SUBSET (Links \cup Lasts) : list' \in SetToSeqs(found)
  BY DEF SearchSiblings
<1>2. IsFiniteSet(found)
  <2>1. Len(stored) \in Nat /\ found \subseteq 1..Len(stored)
    BY DEF Links, Lasts, Ids, GetInv, StoredInv, SlicerInv, TypeOK
  <2>2. IsFiniteSet(1..Len(stored))
    BY <2>1, FS_Interval
  <2> QED BY <2>1, <2>2, FS_Subset
<1>3. Cardinality(found) \in Nat
  BY <1>2, FS_CardinalityType
<1>4. list' \in [1..Cardinality(found) -> found]
  BY <1>1 DEF SetToSeqs
<1>5. list' \in Seq(Links \cup Lasts)
  BY <1>3, <1>4
<1>6. Found'
  BY <1>0, <1>5, WriterIdle DEF GetInv, Found
<1>7. Walked'
  BY <1>0 DEF Walked
<1> QED BY <1>0, <1>6, <1>7, GetGoesOn

LEMMA HeadSiblingStep ==
  ASSUME GetInv, StoredInv', UNCHANGED vars, HeadSibling
  PROVE  GetInv'
<1>0. /\ at = "siblings" /\ list # <<>> /\ list' = Tail(list)
      /\ UNCHANGED <<chain, answer, forged, fault>>
  BY DEF HeadSibling
<1> DEFINE o == stored[list[1]]
           isLink == o.split /\ o.parent /\ o.children # <<>>
           isLast == o.split /\ IsLastChild(o)
<1>1. /\ info' = [link |-> IF isLink THEN list[1] ELSE info.link,
                  last |-> IF isLast THEN list[1] ELSE info.last]
      /\ at' = IF isLink THEN "link" ELSE at
  BY DEF HeadSibling
<1>2. list \in Seq(Links \cup Lasts) /\ list[1] \in Links \cup Lasts
      /\ list' \in Seq(Links \cup Lasts)
  BY <1>0 DEF GetInv, Found
<1>3. list[1] \in Ids /\ list[1] # 0
  BY <1>2 DEF Links, Lasts, Ids
<1>4. (isLink => list[1] \in Links) /\ (isLast => list[1] \in Lasts)
  BY <1>3 DEF Links, Lasts
<1> HIDE DEF isLink, isLast
<1>5. Found'
  BY <1>0, <1>1, <1>2, <1>3, <1>4, WriterIdle DEF GetInv, Found
<1>6. Walked'
  BY <1>0, <1>1 DEF Walked
<1> QED BY <1>0, <1>5, <1>6, GetGoesOn

LEMMA SiblingsSeenStep ==
  ASSUME GetInv, StoredInv', UNCHANGED vars, SiblingsSeen
  PROVE  GetInv'
<1>0. at = "siblings" /\ UNCHANGED <<info, list, forged>>
  BY DEF SiblingsSeen
<1>1. CASE info.last # 0 /\ at' = "walk" /\ chain' = <<info.last>> /\ UNCHANGED <<answer, fault>>
  <2>1. info.last \in Lasts
    BY <1>1 DEF GetInv, Found
  <2>2. /\ info.last \in Ids /\ withSplit /\ stored[info.last].payload.to = received
        /\ stored[info.last].children = <<>>
    BY <2>1, LastEndsChain DEF GetInv
  <2>3. chain' \in Seq(Ids) /\ Len(chain') = 1 /\ chain'[1] = info.last /\ chain' # <<>>
    BY <1>1, <2>2
  <2>4. Found'
    BY <1>0, <1>1, <2>3, WriterIdle DEF GetInv, Found
  <2>5. Walked'
    BY <2>2, <2>3, WriterIdle DEF Walked, Ids
  <2> QED BY <1>0, <1>1, <2>4, <2>5, GetGoesOn
<1>2. CASE info.last = 0 /\ Fail /\ fault' = TRUE /\ UNCHANGED chain
  <2>1. Answered'
    BY <1>2, FailIs DEF Answered
  <2> QED BY <1>0, <1>2, <2>1, FailIs, GetEnds
<1> QED BY <1>1, <1>2 DEF SiblingsSeen

LEMMA HeadLinkStep ==
  ASSUME GetInv, StoredInv', UNCHANGED vars, HeadLink
  PROVE  GetInv'
<1>0. /\ at = "link" /\ Return(stored[info.link].children, info.link)
      /\ UNCHANGED <<info, list, chain, forged, fault>>
  BY DEF HeadLink
<1>1. info.link \in Links
  BY <1>0 DEF GetInv, Found
<1>2. WholeChain(stored[info.link].children) /\ withSplit /\ info.link \in Ids
  BY <1>1, LinkListsChain DEF GetInv
<1>3. /\ answer'.kind = "ok" /\ answer'.children = stored[info.link].children
      /\ answer'.link = info.link /\ at' = "done"
  BY <1>0 DEF Return
<1>4. WholeChain(answer.children)'
  BY <1>2, <1>3, WriterIdle DEF WholeChain
<1>5. Answered'
  BY <1>2, <1>3, <1>4, WriterIdle DEF Answered
<1> QED BY <1>0, <1>3, <1>5, GetEnds

LEMMA CallFailsStep ==
  ASSUME GetInv, StoredInv', UNCHANGED vars, CallFails
  PROVE  GetInv'
<1>1. /\ at # "idle" /\ Fail /\ fault' /\ UNCHANGED <<info, list, chain, forged>>
  BY DEF CallFails
<1>2. Answered'
  BY <1>1, FailIs DEF Answered
<1> QED BY <1>1, <1>2, FailIs, GetEnds

LEMMA HeadLeftStep ==
  ASSUME GetInv, StoredInv', UNCHANGED vars, HeadLeft
  PROVE  GetInv'
<1> DEFINE prev == PreviousID(chain[1])
           seen == \E i \in DOMAIN chain : chain[i] = prev
<1>0. at = "walk" /\ UNCHANGED <<info, list, forged, fault>>
  BY DEF HeadLeft
<1>1. /\ chain \in Seq(Ids) /\ chain # <<>> /\ Len(chain) \in Nat /\ 1 \in 1..Len(chain)
      /\ DOMAIN chain = 1..Len(chain) /\ chain[1] \in Ids
      /\ \A i \in 1..Len(chain) : chain[i] \in Ids
  BY <1>0 DEF GetInv, Found
<1>2. chain[1] \in Nat \ {0} /\ Len(stored) \in Nat
  BY <1>1 DEF Ids, GetInv, StoredInv, SlicerInv, TypeOK
<1>3. forged = NoForgery => prev = stored[chain[1]].prev
  BY <1>2 DEF NoForgery, PreviousID
<1>4. stored[chain[1]].prev \in 0..(chain[1] - 1)
  BY <1>1 DEF GetInv, StoredInv, Backward
<1>5. prev # 0 => prev \in Ids
  BY <1>1, <1>2, <1>3, <1>4 DEF PreviousID, Ids, GetInv, Found
<1>6. CASE prev = 0 /\ Return(chain, 0) /\ UNCHANGED chain
  <2>1. ASSUME forged = NoForgery PROVE WholeChain(chain) /\ withSplit
    <3>1. Walked /\ stored[chain[1]].children = <<>> /\ withSplit
      BY <1>0, <1>1, <2>1 DEF GetInv, Walked
    <3>2. stored[chain[1]].payload.from = 0
      BY <1>1, <1>3, <1>6, <2>1, <3>1 DEF GetInv, StoredInv, Backward
    <3> QED BY <1>0, <1>1, <2>1, <3>1, <3>2 DEF Walked, WholeChain
  <2>2. answer'.kind = "ok" /\ answer'.children = chain /\ answer'.link = 0 /\ at' = "done"
    BY <1>6 DEF Return
  <2>3. Answered'
    <3>1. ASSUME forged = NoForgery PROVE WholeChain(answer.children)' /\ withSplit'
      BY <2>1, <2>2, <3>1, WriterIdle DEF WholeChain
    <3> QED BY <1>0, <2>2, <3>1 DEF Answered
  <2> QED BY <1>0, <1>6, <2>2, <2>3, GetEnds
<1>7. CASE prev # 0 /\ seen /\ Fail /\ UNCHANGED chain
  <2>1. forged # NoForgery
    <3> SUFFICES ASSUME forged = NoForgery PROVE FALSE
      OBVIOUS
    <3>1. PICK i \in 1..Len(chain) : chain[i] = prev
      BY <1>1, <1>7
    <3>2. chain[1] <= chain[i]
      BY <1>0 DEF GetInv, Walked
    <3>3. prev < chain[1]
      BY <1>2, <1>3, <1>4
    <3> HIDE DEF prev
    <3> QED BY <1>2, <1>3, <1>4, <3>1, <3>2, <3>3
  <2>2. Answered'
    BY <1>0, <1>7, <2>1, FailIs DEF Answered
  <2> QED BY <1>0, <1>7, <2>2, FailIs, GetEnds
<1>8. CASE prev # 0 /\ chain' = <<prev>> \o chain /\ UNCHANGED <<at, answer>>
  <2> HIDE DEF prev
  <2>1. /\ chain' \in Seq(Ids) /\ Len(chain') = Len(chain) + 1 /\ chain' # <<>>
        /\ chain'[1] = prev
        /\ \A i \in 2..Len(chain') : i - 1 \in 1..Len(chain) /\ chain'[i] = chain[i - 1]
    BY <1>1, <1>5, <1>8
  <2>2. Found'
    BY <1>0, <1>8, <2>1, WriterIdle DEF GetInv, Found
  <2>3. Walked'
    <3> SUFFICES ASSUME forged = NoForgery
                 PROVE  /\ withSplit /\ stored[chain'[Len(chain')]].payload.to = received
                        /\ \A i \in 1..Len(chain') : /\ stored[chain'[i]].children = <<>>
                                                     /\ chain'[1] <= chain'[i]
                        /\ \A i \in 2..Len(chain') :
                             stored[chain'[i]].payload.from = stored[chain'[i - 1]].payload.to
      BY <1>0, <1>8, WriterIdle DEF Walked
    <3>1. /\ withSplit /\ stored[chain[Len(chain)]].payload.to = received
          /\ \A i \in 1..Len(chain) : stored[chain[i]].children = <<>> /\ chain[1] <= chain[i]
          /\ \A i \in 2..Len(chain) :
               stored[chain[i]].payload.from = stored[chain[i - 1]].payload.to
      BY <1>0 DEF GetInv, Walked
    <3>2. chain'[Len(chain')] = chain[Len(chain)]
      BY <1>1, <2>1
    <3>3. /\ stored[chain[1]].payload.from = stored[prev].payload.to
          /\ stored[prev].children = <<>> /\ prev \in Nat /\ prev < chain[1]
      BY <1>1, <1>2, <1>3, <1>4, <1>8 DEF GetInv, StoredInv, Backward
    <3>4. ASSUME NEW i \in 1..Len(chain')
          PROVE  stored[chain'[i]].children = <<>> /\ chain'[1] <= chain'[i]
      <4>1. CASE i = 1
        BY <2>1, <3>3, <4>1
      <4>2. CASE i # 1
        <5>1. i - 1 \in 1..Len(chain) /\ chain'[i] = chain[i - 1]
          BY <1>1, <2>1, <4>2
        <5>2. chain[i - 1] \in Nat
          BY <1>1, <5>1 DEF Ids
        <5>3. stored[chain[i - 1]].children = <<>> /\ chain[1] <= chain[i - 1]
          BY <3>1, <5>1
        <5>4. prev <= chain[i - 1]
          BY <1>2, <3>3, <5>2, <5>3
        <5> QED BY <2>1, <5>1, <5>3, <5>4
      <4> QED BY <4>1, <4>2
    <3>5. ASSUME NEW i \in 2..Len(chain')
          PROVE  stored[chain'[i]].payload.from = stored[chain'[i - 1]].payload.to
      <4>1. CASE i = 2
        BY <1>1, <2>1, <3>3, <4>1
      <4>2. CASE i # 2
        <5>1. /\ i - 1 \in 2..Len(chain) /\ i - 1 \in 2..Len(chain')
              /\ chain'[i] = chain[i - 1] /\ chain'[i - 1] = chain[(i - 1) - 1]
          BY <1>1, <2>1, <4>2
        <5> QED BY <3>1, <5>1
      <4> QED BY <4>1, <4>2
    <3> QED BY <3>1, <3>2, <3>4, <3>5
  <2> QED BY <1>0, <1>8, <2>2, <2>3, GetGoesOn
<1> QED BY <1>6, <1>7, <1>8 DEF HeadLeft

LEMMA GetInvStep ==
  ASSUME ~Retry, GetInv, [RelationsNext]_allVars
  PROVE  GetInv'
<1>1. CASE [Next]_vars /\ UNCHANGED getVars
  BY <1>1, WriterKeepsFound
<1>2. CASE (GetStart \/ GetStep) /\ UNCHANGED vars
  <2>1. StoredInv'
    BY <1>2, StoredStep DEF GetInv
  <2> QED BY <1>2, <2>1, GetStep1, HeadRootStep, SearchSiblingsStep, HeadSiblingStep,
             SiblingsSeenStep, HeadLinkStep, HeadLeftStep, CallFailsStep DEF GetStep
<1> QED BY <1>1, <1>2 DEF RelationsNext, allVars

LEMMA GetInvInit == RelationsInit => GetInv
<1> SUFFICES ASSUME RelationsInit PROVE GetInv
  OBVIOUS
<1>1. StoredInv /\ GetInit
  BY StoredInit DEF RelationsInit
<1>2. <<>> \in Seq(Links \cup Lasts) /\ <<>> \in Seq(Ids)
  OBVIOUS
<1> QED BY <1>1, <1>2 DEF GetInit, GetInv, Found, Walked, Answered, NoAnswer, NoForgery

\* Get of an object that was split returns all of its chain or an error, and an
\* error only with a cause, for every limit, every payload and every moment of
\* the Close that writes the chain.
THEOREM GetComplete ==
  ASSUME ~Retry
  PROVE  RelationsSpec => []ChainComplete
<1>1. GetInv /\ [RelationsNext]_allVars => GetInv'
  BY GetInvStep
<1> QED
  BY <1>1, GetInvInit, AnsweredIs, PTL DEF RelationsSpec
=============================================================================
