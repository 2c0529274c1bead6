---------------------------- MODULE Values_proofs ----------------------------
(***************************************************************************)
(* The values a client builds, sends and reads, for tables, tokens and     *)
(* numbers of calls of any size: extended ACL tables, basic ACLs, tokens,  *)
(* and the alias tables a pool draws its nodes from.                       *)
(***************************************************************************)
EXTENDS Eacl, BasicACL, Tokens, Sampler, FiniteSetTheorems, WellFoundedInduction, TLAPS

-----------------------------------------------------------------------------
(* Slices and their arrays *)

LEMMA Appended ==
  ASSUME NEW S, NEW s \in Seq(S), NEW x \in S
  PROVE  /\ Append(s, x) \in Seq(S) /\ Len(Append(s, x)) = Len(s) + 1
         /\ Append(s, x)[Len(s) + 1] = x
         /\ \A i \in 1..Len(s) : Append(s, x)[i] = s[i]
  OBVIOUS

Headers == [arr : Nat, len : Nat]
Slices(arrs) == {sl \in Headers : sl.arr <= Len(arrs) /\ sl.len <= Len(array(arrs, sl))}

\* Arrays are added and written into, never made longer or shorter.
Grows(arrs, new) == Len(arrs) <= Len(new) /\ \A a \in 1..Len(arrs) : Len(new[a]) = Len(arrs[a])

LEMMA SlicesKept ==
  ASSUME NEW S, NEW arrs \in Seq(Seq(S)), NEW new \in Seq(Seq(S)), Grows(arrs, new)
  PROVE  Slices(arrs) \subseteq Slices(new)
<1> SUFFICES ASSUME NEW sl \in Slices(arrs) PROVE sl \in Slices(new)
  OBVIOUS
<1>1. /\ sl \in Headers /\ sl.arr \in Nat /\ sl.len \in Nat /\ Len(arrs) \in Nat /\ Len(new) \in Nat
      /\ sl.arr <= Len(arrs) /\ sl.len <= Len(array(arrs, sl)) /\ Len(arrs) <= Len(new)
  BY DEF Slices, Headers, Grows
<1>2. CASE sl.arr = 0
  BY <1>1, <1>2 DEF array, Slices
<1>3. CASE sl.arr # 0
  <2>1. sl.arr \in 1..Len(arrs)
    BY <1>1, <1>3
  <2>2. Len(new[sl.arr]) = Len(arrs[sl.arr])
    BY <2>1 DEF Grows
  <2> QED BY <1>1, <1>3, <2>2 DEF array, Slices
<1> QED BY <1>2, <1>3

LEMMA ArrayIs ==
  ASSUME NEW S, NEW arrs \in Seq(Seq(S)), NEW sl \in Slices(arrs)
  PROVE  /\ sl.arr \in Nat /\ sl.len \in Nat /\ array(arrs, sl) \in Seq(S)
         /\ sl.len <= Len(array(arrs, sl)) /\ Len(array(arrs, sl)) \in Nat
         /\ sl = [arr |-> sl.arr, len |-> sl.len]
         /\ sl.len < Len(array(arrs, sl)) => sl.arr \in 1..Len(arrs) /\ array(arrs, sl) = arrs[sl.arr]
<1>1. sl.arr \in Nat /\ sl.len \in Nat /\ sl.arr <= Len(arrs) /\ sl.len <= Len(array(arrs, sl))
  BY DEF Slices, Headers
<1>2. sl = [arr |-> sl.arr, len |-> sl.len]
  BY DEF Slices, Headers
<1>3. CASE sl.arr = 0
  <2>1. array(arrs, sl) = <<>> /\ <<>> \in Seq(S) /\ Len(<<>>) = 0
    BY <1>3 DEF array
  <2>2. ~(sl.len < 0)
    BY <1>1
  <2>3. array(arrs, sl) \in Seq(S) /\ Len(array(arrs, sl)) = 0
    BY <2>1
  <2> QED BY <1>1, <1>2, <2>2, <2>3
<1>4. CASE sl.arr # 0
  <2>1. sl.arr \in 1..Len(arrs) /\ array(arrs, sl) = arrs[sl.arr]
    BY <1>1, <1>4 DEF array
  <2>2. arrs[sl.arr] \in Seq(S)
    BY <2>1
  <2> QED BY <1>1, <1>2, <2>1, <2>2
<1> QED BY <1>3, <1>4

\* What a slice shows.
LEMMA ElementsAre ==
  ASSUME NEW S, NEW arrs \in Seq(Seq(S)), NEW sl \in Slices(arrs)
  PROVE  elements(arrs, sl) \in Seq(S) /\ Len(elements(arrs, sl)) = sl.len
<1>1. PICK a : a = array(arrs, sl)
  OBVIOUS
<1>2. PICK n : n = sl.len
  OBVIOUS
<1>3. a \in Seq(S) /\ n \in Nat /\ n <= Len(a)
  BY <1>1, <1>2, ArrayIs
<1>4. SubSeq(a, 1, n) \in Seq(S) /\ Len(SubSeq(a, 1, n)) = n
  BY <1>3
<1> QED BY <1>1, <1>2, <1>4 DEF elements

\* append writes into an array of its own type or makes one.
LEMMA AppendedIs ==
  ASSUME NEW S, NEW arrs \in Seq(Seq(S)), NEW sl \in Slices(arrs), NEW x \in S, NEW zero \in S
  PROVE  LET w == appended(arrs, sl, x, zero) IN
         w.arrays \in Seq(Seq(S)) /\ Grows(arrs, w.arrays) /\ w.slice \in Slices(w.arrays)
<1>1. PICK w : w = appended(arrs, sl, x, zero)
  OBVIOUS
<1>2. PICK a : a = array(arrs, sl)
  OBVIOUS
<1>3. PICK n : n = sl.len
  OBVIOUS
<1>4. /\ sl.arr \in Nat /\ n \in Nat /\ a \in Seq(S) /\ n <= Len(a) /\ Len(a) \in Nat
      /\ sl = [arr |-> sl.arr, len |-> n] /\ Len(arrs) \in Nat
      /\ n < Len(a) => sl.arr \in 1..Len(arrs) /\ a = arrs[sl.arr]
  BY <1>2, <1>3, ArrayIs
<1>5. CASE n < Len(a)
  <2>1. w.slice = [sl EXCEPT !.len = @ + 1]
        /\ w.arrays = [arrs EXCEPT ![sl.arr] = [@ EXCEPT ![sl.len + 1] = x]]
    BY <1>1, <1>2, <1>3, <1>5 DEF appended, capacity
  <2>2. PICK b : b = [a EXCEPT ![n + 1] = x]
    OBVIOUS
  <2>3. b \in Seq(S) /\ Len(b) = Len(a)
    BY <1>4, <1>5, <2>2
  <2>4. w.arrays = [arrs EXCEPT ![sl.arr] = b]
    BY <1>3, <1>4, <1>5, <2>1, <2>2
  <2>5. /\ w.arrays \in Seq(Seq(S)) /\ Len(w.arrays) = Len(arrs) /\ w.arrays[sl.arr] = b
        /\ \A c \in 1..Len(arrs) : c # sl.arr => w.arrays[c] = arrs[c]
    BY <1>4, <1>5, <2>3, <2>4
  <2>6. Grows(arrs, w.arrays)
    <3>1. \A c \in 1..Len(arrs) : Len(w.arrays[c]) = Len(arrs[c])
      <4> SUFFICES ASSUME NEW c \in 1..Len(arrs) PROVE Len(w.arrays[c]) = Len(arrs[c])
        OBVIOUS
      <4>1. CASE c = sl.arr
        BY <1>4, <1>5, <2>3, <2>5, <4>1
      <4>2. CASE c # sl.arr
        BY <2>5, <4>2
      <4> QED BY <4>1, <4>2
    <3>2. Len(arrs) <= Len(w.arrays)
      BY <1>4, <2>5
    <3> QED BY <3>1, <3>2 DEF Grows
  <2>7. w.slice = [arr |-> sl.arr, len |-> n + 1]
    BY <1>3, <1>4, <2>1
  <2>8. w.slice.arr = sl.arr /\ w.slice.len = n + 1 /\ w.slice \in Headers
    BY <1>4, <2>7 DEF Headers
  <2>9. array(w.arrays, w.slice) = b
    BY <1>4, <1>5, <2>5, <2>8 DEF array
  <2>10. w.slice \in Slices(w.arrays)
    BY <1>4, <1>5, <2>3, <2>5, <2>8, <2>9 DEF Slices
  <2> QED BY <1>1, <2>5, <2>6, <2>10
<1>6. CASE ~(n < Len(a))
  <2>1. PICK e : e = elements(arrs, sl)
    OBVIOUS
  <2>2. e \in Seq(S) /\ Len(e) = n
    BY <1>3, <2>1, ElementsAre
  <2>3. PICK room : room = [i \in 1..(n - 1) |-> zero]
    OBVIOUS
  <2>4. room \in Seq(S) /\ Len(room) >= 0 /\ Len(room) \in Nat
    <3>1. CASE n = 0
      <4>1. room = <<>>
        BY <2>3, <3>1
      <4> QED BY <4>1
    <3>2. CASE n # 0
      <4>1. n - 1 \in Nat /\ room \in [1..(n - 1) -> S]
        BY <1>4, <2>3, <3>2
      <4> QED BY <4>1
    <3> QED BY <3>1, <3>2
  <2>5. PICK b : b = Append(e, x) \o room
    OBVIOUS
  <2>6. b \in Seq(S) /\ Len(b) = n + 1 + Len(room)
    <3>1. Append(e, x) \in Seq(S) /\ Len(Append(e, x)) = n + 1
      BY <2>2, Appended
    <3>2. PICK c : c = Append(e, x)
      OBVIOUS
    <3>3. c \in Seq(S) /\ Len(c) = n + 1 /\ b = c \o room
      BY <2>5, <3>1, <3>2
    <3> QED BY <2>4, <3>3
  <2>7. w.slice = [arr |-> Len(arrs) + 1, len |-> n + 1] /\ w.arrays = Append(arrs, b)
    BY <1>1, <1>2, <1>3, <1>6, <2>1, <2>3, <2>5 DEF appended, capacity
  <2>8. /\ w.arrays \in Seq(Seq(S)) /\ Len(w.arrays) = Len(arrs) + 1 /\ w.arrays[Len(arrs) + 1] = b
        /\ \A c \in 1..Len(arrs) : w.arrays[c] = arrs[c]
    BY <2>6, <2>7, Appended
  <2>9. Grows(arrs, w.arrays)
    BY <1>4, <2>8 DEF Grows
  <2>10. w.slice.arr = Len(arrs) + 1 /\ w.slice.len = n + 1 /\ w.slice \in Headers
    BY <1>4, <2>7 DEF Headers
  <2>11. array(w.arrays, w.slice) = b
    BY <1>4, <2>8, <2>10 DEF array
  <2>12. w.slice \in Slices(w.arrays)
    BY <1>4, <2>4, <2>6, <2>8, <2>10, <2>11 DEF Slices
  <2> QED BY <1>1, <2>8, <2>9, <2>12
<1> QED BY <1>5, <1>6

KeySeqs == Seq(Keys)

LEMMA KeyListsType == KeyLists \subseteq KeySeqs
<1>1. <<>> \in KeySeqs /\ \A k \in Keys : <<k>> \in KeySeqs
  BY DEF KeySeqs
<1> QED BY <1>1 DEF KeyLists

LEMMA OverwrittenIs ==
  ASSUME NEW arrs \in Seq(KeySeqs), NEW sl \in Headers, NEW ks \in KeySeqs
  PROVE  LET w == overwritten(arrs, sl, ks) IN w.arrays \in Seq(KeySeqs) /\ w.slice \in Headers
<1>1. PICK w : w = overwritten(arrs, sl, ks)
  OBVIOUS
<1>2. Len(arrs) \in Nat /\ Len(ks) \in Nat
  BY DEF KeySeqs
<1>3. CASE ~(capacity(arrs, sl) >= Len(ks))
  <2>1. w.slice = [arr |-> Len(arrs) + 1, len |-> Len(ks)] /\ w.arrays = Append(arrs, ks)
    BY <1>1, <1>3 DEF overwritten
  <2> QED BY <1>1, <1>2, <2>1, Appended DEF Headers
<1>4. CASE capacity(arrs, sl) >= Len(ks)
  <2>1. /\ w.slice = [sl EXCEPT !.len = Len(ks)]
        /\ w.arrays = IF sl.arr = 0 THEN arrs
                      ELSE [arrs EXCEPT ![sl.arr] = ks \o SubSeq(@, Len(ks) + 1, Len(@))]
    BY <1>1, <1>4 DEF overwritten
  <2>2. w.slice \in Headers
    BY <1>2, <2>1 DEF Headers
  <2>3. CASE sl.arr \in 1..Len(arrs)
    <3>1. PICK old : old = arrs[sl.arr]
      OBVIOUS
    <3>2. old \in Seq(Keys)
      BY <2>3, <3>1 DEF KeySeqs
    <3>3. PICK new : new = ks \o SubSeq(old, Len(ks) + 1, Len(old))
      OBVIOUS
    <3>4. SubSeq(old, Len(ks) + 1, Len(old)) \in Seq(Keys)
      BY <1>2, <3>2
    <3>5. new \in KeySeqs
      BY <3>3, <3>4 DEF KeySeqs
    <3>6. w.arrays = [arrs EXCEPT ![sl.arr] = new]
      BY <1>2, <2>1, <2>3, <3>1, <3>3
    <3>7. w.arrays \in Seq(KeySeqs)
      BY <1>2, <2>3, <3>5, <3>6
    <3> QED BY <1>1, <2>2, <3>7
  <2>4. CASE sl.arr \notin 1..Len(arrs)
    <3>1. \A v : [arrs EXCEPT ![sl.arr] = v] = arrs
      BY <1>2, <2>4
    <3>2. w.arrays = arrs
      BY <2>1, <3>1
    <3> QED BY <1>1, <2>2, <3>2
  <2> QED BY <2>3, <2>4
<1> QED BY <1>3, <1>4

-----------------------------------------------------------------------------
(* The Validator *)

LEMMA LeastMember ==
  ASSUME NEW T \in SUBSET Nat, T # {}
  PROVE  \E n \in T : \A m \in T : n <= m
<1>1. PICK n \in T : \A m \in T : ~(<<m, n>> \in OpToRel(<, Nat))
  BY NatLessThanWellFounded, WFMin
<1>2. \A m \in T : ~(m < n)
  BY <1>1 DEF OpToRel
<1> QED BY <1>2

IsList(s) == Len(s) \in Nat /\ DOMAIN s = 1..Len(s)

Readable(u, r) == \A i \in DOMAIN r.filters : u.hdrSrc[r.filters[i].from].ok
FilterFits(u, f) ==
  \E h \in u.hdrSrc[f.from].headers : h.key = KeyString(f.key) /\ matchFn(h, f)
Fits(u, r) == Readable(u, r) /\ \A i \in DOMAIN r.filters : FilterFits(u, r.filters[i])
Ends(u, r) ==
  /\ r.operation = u.op /\ targetMatches(u, r)
  /\ Fits(u, r) \/ ~Readable(u, r)

\* The answer of matchFilters is negative, zero or positive.
LEMMA MatchFiltersIs ==
  ASSUME NEW u, NEW r, IsList(r.filters)
  PROVE  /\ matchFilters(u.hdrSrc, r.filters) \in Int
         /\ matchFilters(u.hdrSrc, r.filters) < 0 <=> ~Readable(u, r)
         /\ matchFilters(u.hdrSrc, r.filters) = 0 <=> Fits(u, r)
<1> DEFINE fs == r.filters
           T == {i \in DOMAIN fs : FilterFits(u, fs[i])}
           n == Len(fs)
<1>1. n \in Nat /\ DOMAIN fs = 1..n
  BY DEF IsList
<1>2. matchFilters(u.hdrSrc, fs) = IF ~Readable(u, r) THEN -1 ELSE n - Cardinality(T)
  BY DEF matchFilters, Readable, FilterFits
<1>3. IsFiniteSet(1..n) /\ Cardinality(1..n) = n
  BY <1>1, FS_Interval
<1>4. T \subseteq 1..n
  BY <1>1
<1>5. (\A i \in DOMAIN fs : FilterFits(u, fs[i])) <=> T = 1..n
  BY <1>1
<1> HIDE DEF T, n
<1>6. /\ Cardinality(T) \in Nat /\ Cardinality(T) <= n
      /\ Cardinality(T) = n => T = 1..n
  BY <1>3, <1>4, FS_Subset, FS_CardinalityType
<1>7. Cardinality(T) = n <=> T = 1..n
  BY <1>3, <1>6
<1>8. Fits(u, r) <=> Readable(u, r) /\ T = 1..n
  BY <1>5 DEF Fits
<1> QED BY <1>1, <1>2, <1>6, <1>7, <1>8

Start == [action |-> "Allow", matched |-> FALSE, end |-> FALSE]
Answer(u, r) ==
  IF Fits(u, r) THEN [action |-> r.action, matched |-> TRUE, end |-> TRUE]
  ELSE [action |-> "Allow", matched |-> FALSE, end |-> TRUE]

LEMMA AnswerEnds == \A u, r : Answer(u, r).end = TRUE
  BY DEF Answer

LEMMA TryRecordIs ==
  ASSUME NEW u, NEW acc, NEW r, IsList(r.filters)
  PROVE  tryRecord(u, acc, r) = IF acc.end \/ ~Ends(u, r) THEN acc ELSE Answer(u, r)
<1>1. PICK val : val = matchFilters(u.hdrSrc, r.filters)
  OBVIOUS
<1>2. val \in Int /\ (val < 0 <=> ~Readable(u, r)) /\ (val = 0 <=> Fits(u, r))
  BY <1>1, MatchFiltersIs
<1>3. Fits(u, r) => Readable(u, r)
  BY DEF Fits
<1>4. tryRecord(u, acc, r) =
        IF acc.end \/ r.operation # u.op \/ ~targetMatches(u, r) THEN acc
        ELSE IF val < 0 THEN [action |-> "Allow", matched |-> FALSE, end |-> TRUE]
             ELSE IF val = 0 THEN [action |-> r.action, matched |-> TRUE, end |-> TRUE]
             ELSE acc
  BY <1>1 DEF tryRecord
<1>5. CASE acc.end \/ r.operation # u.op \/ ~targetMatches(u, r)
  BY <1>4, <1>5 DEF Ends
<1>6. CASE ~(acc.end \/ r.operation # u.op \/ ~targetMatches(u, r))
  BY <1>2, <1>3, <1>4, <1>6 DEF Ends, Answer
<1> QED BY <1>5, <1>6

\* The records the loop may end at: none, or one.
Firsts(u, rs) ==
  {i \in DOMAIN rs : Ends(u, rs[i]) /\ \A j \in 1..(i - 1) : ~Ends(u, rs[j])}

LEMMA FirstEnd ==
  ASSUME NEW u, NEW rs, IsList(rs)
  PROVE  /\ \A i, j \in Firsts(u, rs) : i = j
         /\ \A i \in DOMAIN rs : Ends(u, rs[i]) => \E j \in Firsts(u, rs) : j <= i
<1>1. Len(rs) \in Nat /\ DOMAIN rs = 1..Len(rs)
  BY DEF IsList
<1>2. ASSUME NEW i \in Firsts(u, rs), NEW j \in Firsts(u, rs), i < j PROVE FALSE
  <2>1. i \in 1..Len(rs) /\ j \in 1..Len(rs) /\ Ends(u, rs[i])
    BY <1>1 DEF Firsts
  <2>2. i \in 1..(j - 1)
    BY <1>1, <1>2, <2>1
  <2> QED BY <2>1, <2>2 DEF Firsts
<1>3. \A i \in Firsts(u, rs) : i \in Nat
  BY <1>1 DEF Firsts
<1>4. ASSUME NEW i \in DOMAIN rs, Ends(u, rs[i]) PROVE \E j \in Firsts(u, rs) : j <= i
  <2> DEFINE T == {j \in DOMAIN rs : Ends(u, rs[j])}
  <2>1. T \in SUBSET Nat /\ T # {} /\ i \in T
    BY <1>1, <1>4
  <2>2. PICK j \in T : \A m \in T : j <= m
    BY <2>1, LeastMember
  <2>3. j \in 1..Len(rs) /\ Ends(u, rs[j])
    BY <1>1
  <2>4. \A k \in 1..(j - 1) : ~Ends(u, rs[k])
    BY <1>1, <2>2, <2>3
  <2>5. j \in Firsts(u, rs)
    BY <1>1, <2>3, <2>4 DEF Firsts
  <2> QED BY <2>1, <2>2, <2>5
<1> QED BY <1>2, <1>3, <1>4

TheFirst(u, rs) == CHOOSE i \in Firsts(u, rs) : TRUE
Reached(u, rs, i) ==
  IF \E j \in Firsts(u, rs) : j <= i THEN Answer(u, rs[TheFirst(u, rs)]) ELSE Start

IsTable(t) == IsList(t.records) /\ \A i \in DOMAIN t.records : IsList(t.records[i].filters)

LEMMA FirstIs ==
  ASSUME NEW u, NEW rs, IsList(rs), NEW i \in Firsts(u, rs)
  PROVE  TheFirst(u, rs) = i
<1>1. TheFirst(u, rs) \in Firsts(u, rs)
  BY DEF TheFirst
<1> QED BY <1>1, FirstEnd

LEMMA ReachedBy ==
  ASSUME NEW u, NEW t, IsTable(t)
  PROVE  /\ Reached(u, t.records, 0) = Start
         /\ \A i \in DOMAIN t.records :
              Reached(u, t.records, i) = tryRecord(u, Reached(u, t.records, i - 1), t.records[i])
<1> DEFINE rs == t.records
<1>1. IsList(rs) /\ Len(rs) \in Nat /\ DOMAIN rs = 1..Len(rs)
  BY DEF IsTable, IsList
<1>2. \A i \in Firsts(u, rs) : i \in 1..Len(rs) /\ Ends(u, rs[i])
  BY <1>1 DEF Firsts
<1>3. Reached(u, rs, 0) = Start
  BY <1>1, <1>2 DEF Reached
<1>4. ASSUME NEW i \in DOMAIN rs
      PROVE  Reached(u, rs, i) = tryRecord(u, Reached(u, rs, i - 1), rs[i])
  <2>0. i \in 1..Len(rs) /\ IsList(rs[i].filters)
    BY <1>1, <1>4 DEF IsTable
  <2>1. \A acc : tryRecord(u, acc, rs[i]) = IF acc.end \/ ~Ends(u, rs[i]) THEN acc ELSE Answer(u, rs[i])
    BY <2>0, TryRecordIs
  <2>2. CASE \E j \in Firsts(u, rs) : j <= i - 1
    <3>1. \E j \in Firsts(u, rs) : j <= i
      BY <1>1, <1>2, <2>0, <2>2
    <3>2. /\ Reached(u, rs, i) = Answer(u, rs[TheFirst(u, rs)])
          /\ Reached(u, rs, i - 1) = Answer(u, rs[TheFirst(u, rs)])
      BY <2>2, <3>1 DEF Reached
    <3> QED BY <2>1, <3>2, AnswerEnds
  <2>3. CASE ~\E j \in Firsts(u, rs) : j <= i - 1
    <3>1. Reached(u, rs, i - 1) = Start /\ Start.end = FALSE
      BY <2>3 DEF Reached, Start
    <3>2. CASE Ends(u, rs[i])
      <4>1. PICK j \in Firsts(u, rs) : j <= i
        BY <1>1, <1>4, <3>2, FirstEnd
      <4>2. j = i
        BY <1>2, <2>0, <2>3, <4>1
      <4>3. TheFirst(u, rs) = i
        BY <1>1, <4>1, <4>2, FirstIs
      <4>4. Reached(u, rs, i) = Answer(u, rs[i])
        BY <4>1, <4>3 DEF Reached
      <4> QED BY <2>1, <3>1, <3>2, <4>4
    <3>3. CASE ~Ends(u, rs[i])
      <4>1. ~\E j \in Firsts(u, rs) : j <= i
        BY <1>2, <2>0, <2>3, <3>3
      <4>2. Reached(u, rs, i) = Start
        BY <4>1 DEF Reached
      <4> QED BY <2>1, <3>1, <3>3, <4>2
    <3> QED BY <3>2, <3>3
  <2> QED BY <2>2, <2>3
<1> QED BY <1>3, <1>4

\* What the loop over the records computes, for tables of any length.
LEMMA LoopIs ==
  ASSUME NEW u, NEW t, IsTable(t)
  PROVE  CalculateAction(u, t) = Reached(u, t.records, Len(t.records))
<1> DEFINE n == Len(t.records)
           Def(f) == [i \in 0..n |-> IF i = 0 THEN Start ELSE tryRecord(u, f[i - 1], t.records[i])]
           steps == [i \in 0..n |-> Reached(u, t.records, i)]
           loop == CHOOSE f : f = Def(f)
<1>0. n \in Nat /\ DOMAIN t.records = 1..n
  BY DEF IsTable, IsList
<1>1. steps = Def(steps)
  <2> SUFFICES ASSUME NEW i \in 0..n
               PROVE  Reached(u, t.records, i) =
                        (IF i = 0 THEN Start ELSE tryRecord(u, steps[i - 1], t.records[i]))
    OBVIOUS
  <2>1. CASE i = 0
    BY <2>1, ReachedBy
  <2>2. CASE i # 0
    <3>1. i \in 1..n /\ i - 1 \in 0..n
      BY <1>0, <2>2
    <3>2. steps[i - 1] = Reached(u, t.records, i - 1)
      BY <3>1
    <3> HIDE DEF steps
    <3> QED BY <1>0, <2>2, <3>1, <3>2, ReachedBy
  <2> QED BY <2>1, <2>2
<1>2. CalculateAction(u, t) = loop[n]
  BY DEF CalculateAction, Start
<1>3. loop = Def(loop)
  <2> HIDE DEF Def, steps
  <2> QED BY <1>1
<1> HIDE DEF loop
<1>4. \A i \in 0..n : loop[i] = IF i = 0 THEN Start ELSE tryRecord(u, loop[i - 1], t.records[i])
  BY <1>3
<1> DEFINE Wrong == {i \in 0..n : loop[i] # Reached(u, t.records, i)}
<1>5. Wrong = {}
  <2> SUFFICES ASSUME Wrong # {} PROVE FALSE
    OBVIOUS
  <2>0. Wrong \in SUBSET Nat
    BY <1>0
  <2>1. PICK i \in Wrong : \A m \in Wrong : i <= m
    <3> HIDE DEF Wrong
    <3> QED BY <2>0, LeastMember
  <2>2. i # 0 /\ i \in 0..n
    BY <1>4, <2>1, ReachedBy
  <2>3. i \in 1..n /\ i - 1 \in 0..n /\ ~(i <= i - 1)
    BY <1>0, <2>2
  <2>4. loop[i - 1] = Reached(u, t.records, i - 1)
    BY <2>1, <2>3
  <2>5. loop[i] = tryRecord(u, loop[i - 1], t.records[i])
    BY <1>4, <2>2
  <2>6. Reached(u, t.records, i) = tryRecord(u, Reached(u, t.records, i - 1), t.records[i])
    BY <1>0, <2>3, ReachedBy
  <2> QED BY <2>1, <2>4, <2>5, <2>6
<1> QED BY <1>0, <1>2, <1>5

\* The decision, said without the loop.
LEMMA DecisionIs ==
  ASSUME NEW u, NEW t, IsTable(t)
  PROVE  /\ Firsts(u, t.records) = {} => Decision(u, t) = <<"Allow", FALSE>>
         /\ \A i \in Firsts(u, t.records) :
              Decision(u, t) = IF Fits(u, t.records[i]) THEN <<t.records[i].action, TRUE>>
                               ELSE <<"Allow", FALSE>>
<1>1. Decision(u, t) = <<Reached(u, t.records, Len(t.records)).action,
                         Reached(u, t.records, Len(t.records)).matched>>
  BY LoopIs DEF Decision
<1>2. CASE Firsts(u, t.records) = {}
  BY <1>1, <1>2 DEF Reached, Start
<1>3. ASSUME NEW i \in Firsts(u, t.records)
      PROVE  Decision(u, t) = IF Fits(u, t.records[i]) THEN <<t.records[i].action, TRUE>>
                              ELSE <<"Allow", FALSE>>
  <2>1. i <= Len(t.records)
    BY DEF Firsts, IsTable, IsList
  <2>2. Reached(u, t.records, Len(t.records)) = Answer(u, t.records[i])
    BY <2>1, FirstIs DEF Reached, IsTable
  <2>3. CASE Fits(u, t.records[i])
    <3>1. Answer(u, t.records[i]) = [action |-> t.records[i].action, matched |-> TRUE, end |-> TRUE]
      BY <2>3 DEF Answer
    <3>2. Answer(u, t.records[i]).action = t.records[i].action /\ Answer(u, t.records[i]).matched = TRUE
      BY <3>1
    <3>3. Decision(u, t) = <<t.records[i].action, TRUE>>
      BY <1>1, <2>2, <3>2
    <3> QED BY <2>3, <3>3
  <2>4. CASE ~Fits(u, t.records[i])
    <3>1. Answer(u, t.records[i]) = [action |-> "Allow", matched |-> FALSE, end |-> TRUE]
      BY <2>4 DEF Answer
    <3>2. Answer(u, t.records[i]).action = "Allow" /\ Answer(u, t.records[i]).matched = FALSE
      BY <3>1
    <3>3. Decision(u, t) = <<"Allow", FALSE>>
      BY <1>1, <2>2, <3>2
    <3> QED BY <2>4, <3>3
  <2> QED BY <2>3, <2>4
<1> QED BY <1>2, <1>3

-----------------------------------------------------------------------------
(* Equal tables *)

\* A list of keys, as a reader sees it.
IsKeys(ks) == IsList(ks) /\ (ks = <<>> <=> Len(ks) = 0)

IsSeenRecord(r) ==
  /\ IsList(r.filters) /\ IsList(r.targets)
  /\ \A i \in DOMAIN r.targets : IsKeys(r.targets[i].keys)
IsSeen(t) == IsList(t.records) /\ \A i \in DOMAIN t.records : IsSeenRecord(t.records[i])

LEMMA SeenIsTable == \A t : IsSeen(t) => IsTable(t)
  BY DEF IsSeen, IsTable, IsSeenRecord

TargetFits(u, t) ==
  IF t.keys # <<>> THEN \E k \in DOMAIN t.keys : t.keys[k] = u.key ELSE t.role = u.role

LEMMA EqualFilters ==
  ASSUME NEW u, NEW f1, NEW f2, equalFilters(f1, f2)
  PROVE  u.hdrSrc[f1.from].ok = u.hdrSrc[f2.from].ok /\ (FilterFits(u, f1) <=> FilterFits(u, f2))
<1>1. /\ f1.from = f2.from /\ KeyString(f1.key) = KeyString(f2.key)
      /\ \A h : matchFn(h, f1) <=> matchFn(h, f2)
  BY DEF equalFilters, matchFn
<1> QED BY <1>1 DEF FilterFits

LEMMA EqualTargets ==
  ASSUME NEW u, NEW t1, NEW t2, equalTargets(t1, t2), IsKeys(t1.keys), IsKeys(t2.keys)
  PROVE  TargetFits(u, t1) <=> TargetFits(u, t2)
  BY DEF equalTargets, IsKeys, IsList, TargetFits

LEMMA EqualRecords ==
  ASSUME NEW u, NEW r1, NEW r2, equalRecords(r1, r2), IsSeenRecord(r1), IsSeenRecord(r2)
  PROVE  r1.action = r2.action /\ (Fits(u, r1) <=> Fits(u, r2)) /\ (Ends(u, r1) <=> Ends(u, r2))
<1>1. DOMAIN r1.filters = DOMAIN r2.filters /\ DOMAIN r1.targets = DOMAIN r2.targets
  BY DEF equalRecords, IsSeenRecord, IsList
<1>2. \A i \in DOMAIN r1.filters :
         /\ u.hdrSrc[r1.filters[i].from].ok = u.hdrSrc[r2.filters[i].from].ok
         /\ FilterFits(u, r1.filters[i]) <=> FilterFits(u, r2.filters[i])
  BY EqualFilters DEF equalRecords
<1>3. Readable(u, r1) <=> Readable(u, r2)
  BY <1>1, <1>2 DEF Readable
<1>4. Fits(u, r1) <=> Fits(u, r2)
  BY <1>1, <1>2, <1>3 DEF Fits
<1>5. \A i \in DOMAIN r1.targets : TargetFits(u, r1.targets[i]) <=> TargetFits(u, r2.targets[i])
  BY <1>1, EqualTargets DEF equalRecords, IsSeenRecord
<1>6. \A r : targetMatches(u, r) <=> \E i \in DOMAIN r.targets : TargetFits(u, r.targets[i])
  BY DEF targetMatches, TargetFits
<1>7. targetMatches(u, r1) <=> targetMatches(u, r2)
  BY <1>1, <1>5, <1>6
<1>8. r1.operation = r2.operation /\ r1.action = r2.action
  BY DEF equalRecords
<1> QED BY <1>3, <1>4, <1>7, <1>8 DEF Ends

\* Two tables that EqualTables calls equal decide any request alike.
LEMMA EqualDecide ==
  ASSUME NEW u, NEW t1, NEW t2, IsSeen(t1), IsSeen(t2), EqualTables(t1, t2)
  PROVE  Decision(u, t1) = Decision(u, t2)
<1>1. /\ Len(t1.records) \in Nat /\ DOMAIN t1.records = 1..Len(t1.records)
      /\ DOMAIN t2.records = DOMAIN t1.records /\ IsTable(t1) /\ IsTable(t2)
  BY SeenIsTable DEF IsSeen, IsList, EqualTables
<1>2. \A i \in DOMAIN t1.records :
         /\ t1.records[i].action = t2.records[i].action
         /\ Fits(u, t1.records[i]) <=> Fits(u, t2.records[i])
         /\ Ends(u, t1.records[i]) <=> Ends(u, t2.records[i])
  BY <1>1, EqualRecords DEF IsSeen, EqualTables
<1>3. \A i \in DOMAIN t1.records : \A j \in 1..(i - 1) : j \in DOMAIN t1.records
  BY <1>1
<1>4. Firsts(u, t1.records) = Firsts(u, t2.records)
  BY <1>1, <1>2, <1>3 DEF Firsts
<1>5. CASE Firsts(u, t1.records) = {}
  BY <1>1, <1>4, <1>5, DecisionIs
<1>6. CASE Firsts(u, t1.records) # {}
  <2>1. PICK i : i \in Firsts(u, t1.records) /\ i \in DOMAIN t1.records
    BY <1>6 DEF Firsts
  <2>2. Decision(u, t1) = IF Fits(u, t1.records[i]) THEN <<t1.records[i].action, TRUE>> ELSE <<"Allow", FALSE>>
    BY <1>1, <2>1, DecisionIs
  <2>3. Decision(u, t2) = IF Fits(u, t2.records[i]) THEN <<t2.records[i].action, TRUE>> ELSE <<"Allow", FALSE>>
    BY <1>1, <1>4, <2>1, DecisionIs
  <2>4. t1.records[i].action = t2.records[i].action /\ (Fits(u, t1.records[i]) <=> Fits(u, t2.records[i]))
    BY <1>2, <2>1
  <2>5. CASE Fits(u, t1.records[i])
    BY <2>2, <2>3, <2>4, <2>5
  <2>6. CASE ~Fits(u, t1.records[i])
    BY <2>2, <2>3, <2>4, <2>6
  <2> QED BY <2>5, <2>6
<1> QED BY <1>5, <1>6

-----------------------------------------------------------------------------
(* The types of a table, and its way over the wire *)

FilterKeys == [typ : ReservedKeys \cup {""}, str : {"", "a", "objectID"}]
FilterValues == [kind : {"static", "u64"}, text : {"", "x"}, number : Nat]
FilterSet ==
  [from : {"Request", "Object", "Service", "Unknown"},
   matcher : {"StringEqual", "StringNotEqual", "Unknown"},
   key : FilterKeys, value : FilterValues]
TargetSet == [role : {"User", "Others", "Unknown"}, keys : Headers]
RecordSet(fas, tas) ==
  [action : {"Allow", "Deny", "Unknown"}, operation : {"Get", "Put", "Unknown"},
   filters : Slices(fas), targets : Slices(tas)]
TableSet(fas, tas) ==
  [version : {"current"}, cid : Containers \cup {NoCID}, records : Seq(RecordSet(fas, tas))]

\* Each array holds what its slices show.
ArraysInv ==
  /\ arrays = [keys |-> arrays.keys, filters |-> arrays.filters, targets |-> arrays.targets]
  /\ arrays.keys \in Seq(KeySeqs)
  /\ arrays.filters \in Seq(Seq(FilterSet))
  /\ arrays.targets \in Seq(Seq(TargetSet))
TheRecords == RecordSet(arrays.filters, arrays.targets)
TheTables == TableSet(arrays.filters, arrays.targets)

LEMMA SeqIsList ==
  ASSUME NEW S, NEW s \in Seq(S)
  PROVE  IsList(s) /\ \A i \in DOMAIN s : s[i] \in S
  BY DEF IsList

LEMMA MappedList ==
  ASSUME NEW s, IsList(s), NEW f, f = [i \in DOMAIN s |-> f[i]]
  PROVE  IsList(f) /\ Len(f) = Len(s) /\ DOMAIN f = DOMAIN s
<1> DEFINE S == {f[i] : i \in DOMAIN s}
<1>1. Len(s) \in Nat /\ DOMAIN s = 1..Len(s)
  BY DEF IsList
<1>2. f \in [1..Len(s) -> S]
  BY <1>1
<1>3. f \in Seq(S)
  BY <1>1, <1>2
<1> HIDE DEF S
<1>4. Len(f) \in Nat /\ DOMAIN f = 1..Len(f)
  BY <1>3
<1>5. Len(f) = Len(s)
  BY <1>1, <1>2, <1>3
<1> QED BY <1>1, <1>4, <1>5 DEF IsList

LEMMA BinaryKeysAre ==
  ASSUME NEW t, t.keys.len \in Nat
  PROVE  IsKeys(BinaryKeys(t))
<1>1. PICK a : a = array(arrays.keys, t.keys)
  OBVIOUS
<1>2. PICK n \in Nat : n = t.keys.len
  OBVIOUS
<1>3. BinaryKeys(t) = SubSeq(a, 1, n)
  BY <1>1, <1>2 DEF BinaryKeys, elements
<1>4. SubSeq(a, 1, n) = [i \in 1..n |-> a[i]]
  OBVIOUS
<1> DEFINE S == {a[i] : i \in 1..n}
<1>5. [i \in 1..n |-> a[i]] \in [1..n -> S]
  OBVIOUS
<1>6. PICK ks : ks = [i \in 1..n |-> a[i]]
  OBVIOUS
<1>7. ks \in Seq(S) /\ Len(ks) = n
  BY <1>5, <1>6
<1> HIDE DEF S
<1>8. IsList(ks) /\ (ks = <<>> <=> Len(ks) = 0)
  BY <1>7 DEF IsList
<1> QED BY <1>3, <1>4, <1>6, <1>8 DEF IsKeys

\* The lists of a record.
LEMMA RecordLists ==
  ASSUME ArraysInv, NEW r \in TheRecords
  PROVE  /\ IsList(filtersOf(r)) /\ \A i \in DOMAIN filtersOf(r) : filtersOf(r)[i] \in FilterSet
         /\ IsList(targetsOf(r)) /\ \A i \in DOMAIN targetsOf(r) : targetsOf(r)[i] \in TargetSet
<1>1. r.filters \in Slices(arrays.filters) /\ r.targets \in Slices(arrays.targets)
  BY DEF TheRecords, RecordSet
<1>2. filtersOf(r) \in Seq(FilterSet) /\ targetsOf(r) \in Seq(TargetSet)
  BY <1>1, ElementsAre DEF ArraysInv, filtersOf, targetsOf
<1> QED BY <1>2, SeqIsList

\* What a reader of the table sees.
LEMMA SeenRecordIs ==
  ASSUME ArraysInv, NEW r \in TheRecords
  PROVE  /\ Seen(r).action = r.action /\ Seen(r).operation = r.operation
         /\ Seen(r).filters = filtersOf(r) /\ IsSeenRecord(Seen(r))
         /\ DOMAIN Seen(r).targets = DOMAIN targetsOf(r)
         /\ Len(Seen(r).targets) = Len(targetsOf(r))
         /\ \A i \in DOMAIN targetsOf(r) :
              Seen(r).targets[i] = [role |-> targetsOf(r)[i].role, keys |-> BinaryKeys(targetsOf(r)[i])]
<1>0. PICK own : own = targetsOf(r)
  OBVIOUS
<1>1. PICK ts : ts = [i \in DOMAIN own |-> [role |-> own[i].role, keys |-> BinaryKeys(own[i])]]
  OBVIOUS
<1>2. Seen(r) = [action |-> r.action, operation |-> r.operation, filters |-> filtersOf(r), targets |-> ts]
  BY <1>0, <1>1 DEF Seen
<1>3. /\ Seen(r).action = r.action /\ Seen(r).operation = r.operation
      /\ Seen(r).filters = filtersOf(r) /\ Seen(r).targets = ts
  BY <1>2
<1>5. IsList(own) /\ IsList(filtersOf(r)) /\ \A i \in DOMAIN own : own[i] \in TargetSet
  BY <1>0, RecordLists
<1>6. ts = [i \in DOMAIN own |-> ts[i]]
  BY <1>1
<1>7. IsList(ts) /\ Len(ts) = Len(own) /\ DOMAIN ts = DOMAIN own
  BY <1>5, <1>6, MappedList
<1>8. \A i \in DOMAIN ts :
         ts[i] = [role |-> own[i].role, keys |-> BinaryKeys(own[i])] /\ IsKeys(ts[i].keys)
  <2> SUFFICES ASSUME NEW i \in DOMAIN ts
               PROVE  /\ ts[i] = [role |-> own[i].role, keys |-> BinaryKeys(own[i])]
                      /\ IsKeys(ts[i].keys)
    OBVIOUS
  <2>1. ts[i] = [role |-> own[i].role, keys |-> BinaryKeys(own[i])]
    BY <1>1, <1>7
  <2>2. own[i].keys.len \in Nat
    BY <1>5, <1>7 DEF TargetSet, Headers
  <2>3. IsKeys(BinaryKeys(own[i]))
    BY <2>2, BinaryKeysAre
  <2> QED BY <2>1, <2>3
<1> QED BY <1>0, <1>3, <1>5, <1>7, <1>8 DEF IsSeenRecord

LEMMA SeenTableIs ==
  ASSUME ArraysInv, NEW t \in TheTables
  PROVE  /\ SeenTable(t).cid = t.cid /\ SeenTable(t).version = t.version
         /\ IsList(t.records) /\ \A i \in DOMAIN t.records : t.records[i] \in TheRecords
         /\ DOMAIN SeenTable(t).records = DOMAIN t.records
         /\ Len(SeenTable(t).records) = Len(t.records)
         /\ \A i \in DOMAIN t.records : SeenTable(t).records[i] = Seen(t.records[i])
         /\ IsSeen(SeenTable(t))
<1>1. PICK rs : rs = [i \in DOMAIN t.records |-> Seen(t.records[i])]
  OBVIOUS
<1>2. SeenTable(t) = [t EXCEPT !.records = rs]
  BY <1>1 DEF SeenTable
<1>3. SeenTable(t).cid = t.cid /\ SeenTable(t).version = t.version /\ SeenTable(t).records = rs
  BY <1>2 DEF TheTables, TableSet
<1>4. t.records \in Seq(TheRecords)
  BY DEF TheTables, TableSet, TheRecords
<1>5. IsList(t.records) /\ \A i \in DOMAIN t.records : t.records[i] \in TheRecords
  BY <1>4, SeqIsList
<1>6. rs = [i \in DOMAIN t.records |-> rs[i]] /\ \A i \in DOMAIN t.records : rs[i] = Seen(t.records[i])
  BY <1>1
<1>7. IsList(rs) /\ Len(rs) = Len(t.records) /\ DOMAIN rs = DOMAIN t.records
  BY <1>5, <1>6, MappedList
<1>8. \A i \in DOMAIN rs : IsSeenRecord(rs[i])
  BY <1>5, <1>6, <1>7, SeenRecordIs
<1> QED BY <1>3, <1>5, <1>6, <1>7, <1>8 DEF IsSeen

\* A filter and a record that went over the wire.
LEMMA FilterOverWire ==
  ASSUME NEW f \in FilterSet
  PROVE  equalFilters(f, FilterFromV2(FilterToV2(f)))
<1>1. PICK g : g = FilterToV2(f)
  OBVIOUS
<1>2. /\ g.from = HeaderTypeV2(f.from) /\ g.matcher = MatchV2(f.matcher)
      /\ g.key = KeyString(f.key) /\ g.value = EncodeToString(f.value)
  BY <1>1 DEF FilterToV2
<1>3. HeaderTypeV2(f.from) = f.from /\ MatchV2(f.matcher) = f.matcher
  BY DEF HeaderTypeV2, MatchV2, OneOf, FilterSet
<1>4. /\ FilterFromV2(g).from = HeaderTypeV2(g.from) /\ FilterFromV2(g).matcher = MatchV2(g.matcher)
      /\ FilterFromV2(g).key = KeyFromString(g.key) /\ FilterFromV2(g).value = staticStringer(g.value)
  BY DEF FilterFromV2
<1>5. \A s : KeyString(KeyFromString(s)) = s
  <2> SUFFICES ASSUME NEW s PROVE KeyString(KeyFromString(s)) = s
    OBVIOUS
  <2>1. CASE s \in ReservedKeys
    BY <2>1 DEF KeyString, KeyFromString, ReservedKeys
  <2>2. CASE s \notin ReservedKeys
    BY <2>2 DEF KeyString, KeyFromString
  <2> QED BY <2>1, <2>2
<1>6. \A s : EncodeToString(staticStringer(s)) = s
  BY DEF EncodeToString, staticStringer
<1> QED BY <1>1, <1>2, <1>3, <1>4, <1>5, <1>6 DEF equalFilters

LEMMA RecordOverWire ==
  ASSUME ArraysInv, NEW r \in TheRecords
  PROVE  LET w == NewRecordFromV2(RecordToV2(r))
         IN  IsSeenRecord(w) /\ equalRecords(Seen(r), w)
<1>0. PICK fs : fs = filtersOf(r)
  OBVIOUS
<1>a. PICK ts : ts = targetsOf(r)
  OBVIOUS
<1>1. PICK m : m = RecordToV2(r)
  OBVIOUS
<1>2. PICK w : w = NewRecordFromV2(m)
  OBVIOUS
<1>3. /\ m.action = ActionV2(r.action) /\ m.operation = OperationV2(r.operation)
      /\ m.filters = [i \in DOMAIN fs |-> FilterToV2(fs[i])]
      /\ m.targets = [i \in DOMAIN ts |-> TargetToV2(ts[i])]
  BY <1>0, <1>a, <1>1 DEF RecordToV2
<1>4. /\ w.action = ActionV2(m.action) /\ w.operation = OperationV2(m.operation)
      /\ w.filters = [i \in DOMAIN m.filters |-> FilterFromV2(m.filters[i])]
      /\ w.targets = m.targets
  BY <1>2 DEF NewRecordFromV2
<1>5. w.action = r.action /\ w.operation = r.operation
  BY <1>3, <1>4 DEF ActionV2, OperationV2, OneOf, TheRecords, RecordSet
<1>7. /\ IsList(ts) /\ \A i \in DOMAIN ts : ts[i] \in TargetSet
      /\ IsList(fs) /\ \A i \in DOMAIN fs : fs[i] \in FilterSet
  BY <1>0, <1>a, RecordLists
<1>8. /\ DOMAIN m.filters = DOMAIN fs
      /\ w.filters = [i \in DOMAIN fs |-> w.filters[i]]
      /\ \A i \in DOMAIN fs : w.filters[i] = FilterFromV2(FilterToV2(fs[i]))
  BY <1>3, <1>4
<1>9. IsList(w.filters) /\ Len(w.filters) = Len(fs) /\ DOMAIN w.filters = DOMAIN fs
  BY <1>7, <1>8, MappedList
<1>10. /\ w.targets = [i \in DOMAIN ts |-> w.targets[i]]
       /\ \A i \in DOMAIN ts : w.targets[i] = TargetToV2(ts[i])
  BY <1>3, <1>4
<1>11. IsList(w.targets) /\ Len(w.targets) = Len(ts) /\ DOMAIN w.targets = DOMAIN ts
  BY <1>7, <1>10, MappedList
<1>12. \A i \in DOMAIN ts :
          IsKeys(w.targets[i].keys) /\ equalTargets(Seen(r).targets[i], w.targets[i])
  <2> SUFFICES ASSUME NEW i \in DOMAIN ts
               PROVE  IsKeys(w.targets[i].keys) /\ equalTargets(Seen(r).targets[i], w.targets[i])
    OBVIOUS
  <2>1. ts[i].role \in {"User", "Others", "Unknown"} /\ ts[i].keys.len \in Nat
    BY <1>7 DEF TargetSet, Headers
  <2>2. w.targets[i].role = ts[i].role /\ w.targets[i].keys = BinaryKeys(ts[i])
    <3>1. RoleV2(ts[i].role) = ts[i].role
      BY <2>1 DEF RoleV2, OneOf
    <3>2. w.targets[i] = [role |-> ts[i].role, keys |-> BinaryKeys(ts[i])]
      BY <1>10, <3>1 DEF TargetToV2
    <3> QED BY <3>2
  <2>3. Seen(r).targets[i] = [role |-> ts[i].role, keys |-> BinaryKeys(ts[i])]
    BY <1>a, SeenRecordIs
  <2> QED BY <2>1, <2>2, <2>3, BinaryKeysAre DEF equalTargets
<1>13. IsSeenRecord(w)
  BY <1>9, <1>11, <1>12 DEF IsSeenRecord
<1>14. \A i \in DOMAIN fs : equalFilters(fs[i], w.filters[i])
  BY <1>7, <1>8, FilterOverWire
<1>15. equalRecords(Seen(r), w)
  BY <1>0, <1>a, <1>5, <1>9, <1>11, <1>12, <1>14, SeenRecordIs DEF equalRecords
<1> QED BY <1>1, <1>2, <1>13, <1>15

\* A table that went over the wire is equal to the one its sender sees.
LEMMA TableOverWire ==
  ASSUME ArraysInv, NEW t \in TheTables
  PROVE  LET w == NewTableFromV2(TableToV2(t))
         IN  IsSeen(w) /\ EqualTables(SeenTable(t), w)
<1>1. PICK m : m = TableToV2(t)
  OBVIOUS
<1>2. PICK w : w = NewTableFromV2(m)
  OBVIOUS
<1>3. /\ m.version = t.version /\ m.cid = t.cid
      /\ m.records = [i \in DOMAIN t.records |-> RecordToV2(t.records[i])]
  BY <1>1 DEF TableToV2
<1>4. /\ w.version = m.version /\ w.cid = m.cid
      /\ w.records = [i \in DOMAIN m.records |-> NewRecordFromV2(m.records[i])]
  BY <1>2 DEF NewTableFromV2
<1>5. /\ w.records = [i \in DOMAIN t.records |-> w.records[i]]
      /\ \A i \in DOMAIN t.records : w.records[i] = NewRecordFromV2(RecordToV2(t.records[i]))
  BY <1>3, <1>4
<1>6. IsList(t.records) /\ \A i \in DOMAIN t.records : t.records[i] \in TheRecords
  BY SeenTableIs
<1>7. IsList(w.records) /\ Len(w.records) = Len(t.records) /\ DOMAIN w.records = DOMAIN t.records
  BY <1>5, <1>6, MappedList
<1>8. \A i \in DOMAIN t.records :
         IsSeenRecord(w.records[i]) /\ equalRecords(Seen(t.records[i]), w.records[i])
  BY <1>5, <1>6, RecordOverWire
<1>9. IsSeen(w) /\ EqualTables(SeenTable(t), w)
  BY <1>3, <1>4, <1>7, <1>8, SeenTableIs DEF IsSeen, EqualTables
<1> QED BY <1>1, <1>2, <1>9

-----------------------------------------------------------------------------
(* The table while it is built and sent *)

TablesInv ==
  /\ ArraysInv
  /\ table \in TheTables /\ rec \in TheRecords /\ target \in TargetSet
  /\ IsSeen(sent) /\ IsSeen(received) /\ EqualTables(sent, received)

EaclNext == RecordCalls \/ FilterCalls \/ TargetCalls

\* A table and a record stay what they are when their arrays grow.
LEMMA RecordsKept ==
  ASSUME NEW fas, NEW tas, NEW fas2, NEW tas2,
         Slices(fas) \subseteq Slices(fas2), Slices(tas) \subseteq Slices(tas2)
  PROVE  /\ RecordSet(fas, tas) \subseteq RecordSet(fas2, tas2)
         /\ TableSet(fas, tas) \subseteq TableSet(fas2, tas2)
<1>1. RecordSet(fas, tas) \subseteq RecordSet(fas2, tas2)
  BY DEF RecordSet
<1>2. \A R, T : R \subseteq T => Seq(R) \subseteq Seq(T)
  <2> SUFFICES ASSUME NEW R, NEW T, R \subseteq T, NEW s \in Seq(R) PROVE s \in Seq(T)
    OBVIOUS
  <2>1. Len(s) \in Nat /\ s \in [1..Len(s) -> T]
    OBVIOUS
  <2> QED BY <2>1
<1>3. Seq(RecordSet(fas, tas)) \subseteq Seq(RecordSet(fas2, tas2))
  BY <1>1, <1>2
<1> QED BY <1>1, <1>3 DEF TableSet

LEMMA EmptySlice ==
  ASSUME NEW S, NEW arrs \in Seq(S)
  PROVE  NilSlice \in Slices(arrs)
<1>1. NilSlice \in Headers /\ NilSlice.arr = 0 /\ NilSlice.len = 0 /\ Len(arrs) \in Nat
  BY DEF NilSlice, Headers
<1>2. array(arrs, NilSlice) = <<>> /\ Len(<<>>) = 0
  BY <1>1 DEF array
<1>3. Len(array(arrs, NilSlice)) = 0
  BY <1>2
<1> QED BY <1>1, <1>3 DEF Slices

LEMMA EmptyTable ==
  /\ IsSeen(NewTable) /\ EqualTables(NewTable, NewTable)
  /\ ArraysInv => NewTable \in TheTables /\ NewRecord \in TheRecords
  /\ NewTarget \in TargetSet /\ ZeroFilter \in FilterSet
<1>1. NewTarget \in TargetSet
  BY DEF NewTarget, NilSlice, TargetSet, Headers
<1>2. ASSUME ArraysInv PROVE NewRecord \in TheRecords
  <2>1. NilSlice \in Slices(arrays.filters) /\ NilSlice \in Slices(arrays.targets)
    BY <1>2, EmptySlice DEF ArraysInv
  <2> QED BY <2>1 DEF NewRecord, TheRecords, RecordSet
<1>3. NewTable \in TheTables
  BY DEF NewTable, TheTables, TableSet
<1>4. NewTable.records = <<>>
  BY DEF NewTable
<1>5. Len(<<>>) = 0 /\ DOMAIN <<>> = {} /\ IsList(<<>>)
  BY DEF IsList
<1>6. ZeroFilter \in FilterSet
  <2>1. staticStringer("") \in FilterValues
    BY DEF staticStringer, FilterValues
  <2>2. [typ |-> "", str |-> ""] \in FilterKeys
    BY DEF FilterKeys
  <2> QED BY <2>1, <2>2 DEF ZeroFilter, FilterSet
<1> QED BY <1>1, <1>2, <1>3, <1>4, <1>5, <1>6 DEF IsSeen, EqualTables

LEMMA TablesInvInit == EaclInit => TablesInv
<1> SUFFICES ASSUME EaclInit PROVE TablesInv
  OBVIOUS
<1>1. arrays = [keys |-> <<>>, filters |-> <<>>, targets |-> <<>>]
  BY DEF EaclInit
<1>2. arrays.keys = <<>> /\ arrays.filters = <<>> /\ arrays.targets = <<>>
  BY <1>1
<1>3. ArraysInv
  BY <1>1, <1>2 DEF ArraysInv
<1> QED BY <1>3, EmptyTable DEF EaclInit, TablesInv

\* A step that leaves the arrays and the tables that were sent alone.
LEMMA SameArrays ==
  ASSUME TablesInv, UNCHANGED <<arrays, sent, received>>,
         table' \in TheTables, rec' \in TheRecords, target' \in TargetSet
  PROVE  TablesInv'
<1>1. ArraysInv' /\ TheTables' = TheTables /\ TheRecords' = TheRecords
  BY DEF TablesInv, ArraysInv, TheTables, TheRecords
<1> QED BY <1>1 DEF TablesInv

LEMMA FilterStep ==
  ASSUME TablesInv, NEW from, NEW m, NEW key, NEW value, addFilter(from, m, key, value),
         [from |-> from, matcher |-> m, key |-> key, value |-> value] \in FilterSet
  PROVE  TablesInv'
<1>1. PICK f \in FilterSet : f = [from |-> from, matcher |-> m, key |-> key, value |-> value]
  OBVIOUS
<1>2. PICK w : w = appended(arrays.filters, rec.filters, f, ZeroFilter)
  OBVIOUS
<1>3. /\ rec' = [rec EXCEPT !.filters = w.slice] /\ UNCHANGED <<table, target, sent, received>>
      /\ arrays' = [arrays EXCEPT !.filters = w.arrays]
  BY <1>1, <1>2 DEF addFilter
<1>4. /\ rec \in TheRecords /\ rec.filters \in Slices(arrays.filters) /\ ArraysInv /\ table \in TheTables
      /\ arrays.filters \in Seq(Seq(FilterSet)) /\ ZeroFilter \in FilterSet
  BY EmptyTable DEF TablesInv, TheRecords, RecordSet, ArraysInv
<1>5. /\ w.arrays \in Seq(Seq(FilterSet)) /\ Grows(arrays.filters, w.arrays)
      /\ w.slice \in Slices(w.arrays)
  BY <1>2, <1>4, AppendedIs
<1>6. Slices(arrays.filters) \subseteq Slices(w.arrays)
  BY <1>4, <1>5, SlicesKept
<1>7. arrays' = [keys |-> arrays.keys, filters |-> w.arrays, targets |-> arrays.targets]
  BY <1>3 DEF TablesInv, ArraysInv
<1>8. arrays'.keys = arrays.keys /\ arrays'.filters = w.arrays /\ arrays'.targets = arrays.targets
  BY <1>7
<1>9. ArraysInv'
  BY <1>4, <1>5, <1>7, <1>8 DEF ArraysInv
<1>10. /\ TheRecords' = RecordSet(w.arrays, arrays.targets)
       /\ TheTables' = TableSet(w.arrays, arrays.targets)
  BY <1>8 DEF TheRecords, TheTables
<1>11. TheRecords \subseteq TheRecords' /\ TheTables \subseteq TheTables'
  BY <1>6, <1>10, RecordsKept DEF TheRecords, TheTables
<1>12. rec' \in TheRecords'
  BY <1>3, <1>4, <1>5, <1>10 DEF TheRecords, RecordSet
<1> QED BY <1>3, <1>4, <1>9, <1>11, <1>12 DEF TablesInv

LEMMA TargetStep ==
  ASSUME TablesInv, NEW t \in TargetSet, NEW keyArrays \in Seq(KeySeqs), addTarget(t, keyArrays)
  PROVE  TablesInv'
<1>2. PICK w : w = appended(arrays.targets, rec.targets, t, NewTarget)
  OBVIOUS
<1>3. /\ rec' = [rec EXCEPT !.targets = w.slice] /\ UNCHANGED <<table, target, sent, received>>
      /\ arrays' = [arrays EXCEPT !.targets = w.arrays, !.keys = keyArrays]
  BY <1>2 DEF addTarget
<1>4. /\ rec \in TheRecords /\ rec.targets \in Slices(arrays.targets) /\ ArraysInv /\ table \in TheTables
      /\ arrays.targets \in Seq(Seq(TargetSet)) /\ NewTarget \in TargetSet
  BY EmptyTable DEF TablesInv, TheRecords, RecordSet, ArraysInv
<1>5. /\ w.arrays \in Seq(Seq(TargetSet)) /\ Grows(arrays.targets, w.arrays)
      /\ w.slice \in Slices(w.arrays)
  BY <1>2, <1>4, AppendedIs
<1>6. Slices(arrays.targets) \subseteq Slices(w.arrays)
  BY <1>4, <1>5, SlicesKept
<1>7. arrays' = [keys |-> keyArrays, filters |-> arrays.filters, targets |-> w.arrays]
  BY <1>3 DEF TablesInv, ArraysInv
<1>8. arrays'.keys = keyArrays /\ arrays'.filters = arrays.filters /\ arrays'.targets = w.arrays
  BY <1>7
<1>9. ArraysInv'
  BY <1>4, <1>5, <1>7, <1>8 DEF ArraysInv
<1>10. /\ TheRecords' = RecordSet(arrays.filters, w.arrays)
       /\ TheTables' = TableSet(arrays.filters, w.arrays)
  BY <1>8 DEF TheRecords, TheTables
<1>11. TheRecords \subseteq TheRecords' /\ TheTables \subseteq TheTables'
  BY <1>6, <1>10, RecordsKept DEF TheRecords, TheTables
<1>12. rec' \in TheRecords'
  BY <1>3, <1>4, <1>5, <1>10 DEF TheRecords, RecordSet
<1> QED BY <1>3, <1>4, <1>9, <1>11, <1>12 DEF TablesInv

LEMMA FilterCallsStep ==
  ASSUME TablesInv, FilterCalls
  PROVE  TablesInv'
<1>1. CASE \E i \in FilterInputs : AddFilter(i[1], i[2], i[3], "x")
  <2>1. PICK i \in FilterInputs : AddFilter(i[1], i[2], i[3], "x")
    BY <1>1
  <2>2. /\ i[1] \in {"Request", "Object", "Unknown"} /\ i[2] \in {"StringEqual", "StringNotEqual", "Unknown"}
        /\ i[3] \in {"a", "objectID"}
    BY DEF FilterInputs
  <2>3. staticStringer("x") \in FilterValues
    BY DEF staticStringer, FilterValues
  <2>4. [typ |-> "", str |-> i[3]] \in FilterKeys
    BY <2>2 DEF FilterKeys
  <2>5. [from |-> i[1], matcher |-> i[2], key |-> [typ |-> "", str |-> i[3]],
         value |-> staticStringer("x")] \in FilterSet
    BY <2>2, <2>3, <2>4 DEF FilterSet
  <2> QED BY <2>1, <2>5, FilterStep DEF AddFilter
<1>2. CASE \E typ \in Reserved : AddObjectReservedFilter("StringEqual", typ)
  <2>1. PICK typ \in Reserved : AddObjectReservedFilter("StringEqual", typ)
    BY <1>2
  <2>2. PICK v : v = IF typ \in {"creationEpoch", "payloadLength"} THEN u64Stringer(5)
                     ELSE staticStringer("x")
    OBVIOUS
  <2>3. v \in FilterValues
    BY <2>2 DEF u64Stringer, staticStringer, FilterValues
  <2>4. [typ |-> typ, str |-> ""] \in FilterKeys
    BY EaclAssumption DEF FilterKeys
  <2>5. [from |-> "Object", matcher |-> "StringEqual", key |-> [typ |-> typ, str |-> ""], value |-> v]
          \in FilterSet
    BY <2>3, <2>4 DEF FilterSet
  <2>6. addFilter("Object", "StringEqual", [typ |-> typ, str |-> ""], v)
    BY <2>1, <2>2 DEF AddObjectReservedFilter
  <2> QED BY <2>5, <2>6, FilterStep
<1> QED BY <1>1, <1>2 DEF FilterCalls

LEMMA TargetCallsStep ==
  ASSUME TablesInv, TargetCalls
  PROVE  TablesInv'
<1>0. /\ target \in TargetSet /\ table \in TheTables /\ rec \in TheRecords
      /\ ArraysInv /\ arrays.keys \in Seq(KeySeqs)
  BY DEF TablesInv, ArraysInv
<1>1. ASSUME NEW c \in Containers, SetCID(c) PROVE TablesInv'
  <2>1. table' = [table EXCEPT !.cid = c] /\ UNCHANGED <<rec, target, arrays, sent, received>>
    BY <1>1 DEF SetCID
  <2>2. table' \in TheTables
    BY <1>0, <2>1 DEF TheTables, TableSet
  <2> QED BY <1>0, <2>1, <2>2, SameArrays
<1>2. CASE SetRole("Others")
  <2>1. target' = [target EXCEPT !.role = "Others"] /\ UNCHANGED <<table, rec, arrays, sent, received>>
    BY <1>2 DEF SetRole
  <2>2. target' \in TargetSet
    BY <1>0, <2>1 DEF TargetSet
  <2> QED BY <1>0, <2>1, <2>2, SameArrays
<1>3. ASSUME NEW ks \in KeyLists, SetTargetECDSAKeys(ks) PROVE TablesInv'
  <2>1. PICK w : w = overwritten(arrays.keys, target.keys, ks)
    OBVIOUS
  <2>2. /\ target' = [target EXCEPT !.keys = w.slice] /\ UNCHANGED <<table, rec, sent, received>>
        /\ arrays' = [arrays EXCEPT !.keys = w.arrays]
    BY <1>3, <2>1 DEF SetTargetECDSAKeys
  <2>3. target.keys \in Headers /\ ks \in KeySeqs
    BY <1>0, KeyListsType DEF TargetSet
  <2>4. w.arrays \in Seq(KeySeqs) /\ w.slice \in Headers
    BY <1>0, <2>1, <2>3, OverwrittenIs
  <2>5. target' \in TargetSet
    BY <1>0, <2>2, <2>4 DEF TargetSet
  <2>6. arrays' = [keys |-> w.arrays, filters |-> arrays.filters, targets |-> arrays.targets]
    BY <1>0, <2>2 DEF ArraysInv
  <2>7. arrays'.keys = w.arrays /\ arrays'.filters = arrays.filters /\ arrays'.targets = arrays.targets
    BY <2>6
  <2>8. ArraysInv' /\ TheRecords' = TheRecords /\ TheTables' = TheTables
    BY <1>0, <2>4, <2>6, <2>7 DEF ArraysInv, TheRecords, TheTables
  <2> QED BY <1>0, <2>2, <2>5, <2>8 DEF TablesInv
<1>4. CASE AddRecordTarget
  BY <1>0, <1>4, TargetStep DEF AddRecordTarget
<1>5. ASSUME NEW i \in DOMAIN table.records, TakeRecord(i) PROVE TablesInv'
  <2>1. rec' = table.records[i] /\ UNCHANGED <<table, target, arrays, sent, received>>
    BY <1>5 DEF TakeRecord
  <2>2. rec' \in TheRecords
    BY <1>0, <1>5, <2>1, SeenTableIs
  <2> QED BY <1>0, <2>1, <2>2, SameArrays
<1> QED BY <1>1, <1>2, <1>3, <1>4, <1>5, TargetCalls DEF TargetCalls

LEMMA RecordCallsStep ==
  ASSUME TablesInv, RecordCalls
  PROVE  TablesInv'
<1>0. /\ target \in TargetSet /\ table \in TheTables /\ rec \in TheRecords
      /\ ArraysInv /\ arrays.keys \in Seq(KeySeqs)
  BY DEF TablesInv, ArraysInv
<1>1. ASSUME NEW i \in RecordInputs, CreateRecord(i[1], i[2]) PROVE TablesInv'
  <2>1. rec' = [NewRecord EXCEPT !.action = i[1], !.operation = i[2]]
        /\ UNCHANGED <<table, target, arrays, sent, received>>
    BY <1>1 DEF CreateRecord
  <2>2. i[1] \in {"Allow", "Deny"} /\ i[2] \in {"Get", "Put"}
    BY DEF RecordInputs
  <2>3. rec' \in TheRecords
    BY <1>0, <2>1, <2>2, EmptyTable DEF TheRecords, RecordSet
  <2> QED BY <1>0, <2>1, <2>3, SameArrays
<1>2. ASSUME NEW ks \in KeyLists, AddFormedTarget("User", ks) PROVE TablesInv'
  <2>1. PICK w : w = overwritten(arrays.keys, NilSlice, ks)
    OBVIOUS
  <2>2. PICK t : t = [role |-> "User", keys |-> w.slice]
    OBVIOUS
  <2>3. addTarget(t, w.arrays)
    BY <1>2, <2>1, <2>2 DEF AddFormedTarget
  <2>4. NilSlice \in Headers /\ ks \in KeySeqs
    BY KeyListsType DEF NilSlice, Headers
  <2>5. w.arrays \in Seq(KeySeqs) /\ w.slice \in Headers
    BY <1>0, <2>1, <2>4, OverwrittenIs
  <2>6. t \in TargetSet
    BY <2>2, <2>5 DEF TargetSet
  <2> QED BY <2>3, <2>5, <2>6, TargetStep
<1>3. CASE AddRecord
  <2>1. PICK rs : rs = Append(table.records, rec)
    OBVIOUS
  <2>2. /\ table' = [table EXCEPT !.records = rs]
        /\ UNCHANGED <<rec, target, arrays, sent, received>>
    BY <1>3, <2>1 DEF AddRecord
  <2>3. table.records \in Seq(TheRecords)
    BY <1>0 DEF TheTables, TableSet, TheRecords
  <2>4. rs \in Seq(TheRecords)
    BY <1>0, <2>1, <2>3, Appended
  <2>5. table' \in TheTables
    BY <1>0, <2>2, <2>4 DEF TheTables, TableSet, TheRecords
  <2> QED BY <1>0, <2>2, <2>5, SameArrays
<1>4. CASE Send
  <2>1. /\ sent' = SeenTable(table) /\ received' = NewTableFromV2(TableToV2(table))
        /\ UNCHANGED <<table, rec, target, arrays>>
    BY <1>4 DEF Send
  <2>3. PICK s : s = SeenTable(table)
    OBVIOUS
  <2>4. PICK w : w = NewTableFromV2(TableToV2(table))
    OBVIOUS
  <2>5. IsSeen(s) /\ IsSeen(w) /\ EqualTables(s, w)
    BY <1>0, <2>3, <2>4, SeenTableIs, TableOverWire
  <2>6. ArraysInv' /\ TheTables' = TheTables /\ TheRecords' = TheRecords
    BY <1>0, <2>1 DEF ArraysInv, TheTables, TheRecords
  <2> QED BY <1>0, <2>1, <2>3, <2>4, <2>5, <2>6 DEF TablesInv
<1> QED BY <1>1, <1>2, <1>3, <1>4, RecordCalls DEF RecordCalls

LEMMA TablesInvStep ==
  ASSUME TablesInv, [EaclNext]_eaclVars
  PROVE  TablesInv'
<1>1. CASE UNCHANGED eaclVars
  <2>1. UNCHANGED <<table, rec, target, arrays, sent, received>>
    BY <1>1 DEF eaclVars
  <2> QED BY <2>1, SameArrays DEF TablesInv
<1> QED BY <1>1, FilterCallsStep, TargetCallsStep, RecordCallsStep DEF EaclNext

LEMMA TablesAlways == EaclSpec => []TablesInv
<1>1. TablesInv /\ [EaclNext]_eaclVars => TablesInv'
  BY TablesInvStep
<1> QED BY <1>1, TablesInvInit, PTL DEF EaclSpec, EaclNext

\* The decision on a request is that of the first record that ends the search, for
\* tables of any length.
THEOREM FirstRuleCorrect == EaclSpec => []FirstRuleDecides
<1>1. TablesInv => FirstRuleDecides
  <2> SUFFICES ASSUME TablesInv, NEW u \in Units
               PROVE  LET rs == SeenTable(table).records
                          Concerns(i) == rs[i].operation = u.op /\ targetMatches(u, rs[i])
                          CanRead(i) == \A f \in Range(rs[i].filters) : u.hdrSrc[f.from].ok
                          Suits(i) == CanRead(i) /\ \A f \in Range(rs[i].filters) :
                                        \E h \in u.hdrSrc[f.from].headers :
                                           h.key = KeyString(f.key) /\ matchFn(h, f)
                          Stops(i) == Concerns(i) /\ (Suits(i) \/ ~CanRead(i))
                          first == {i \in DOMAIN rs : Stops(i) /\ \A j \in 1..(i - 1) : ~Stops(j)}
                      IN  Decision(u, SeenTable(table)) =
                            IF \E i \in first : Suits(i)
                            THEN <<rs[CHOOSE i \in first : TRUE].action, TRUE>>
                            ELSE <<"Allow", FALSE>>
    BY DEF FirstRuleDecides
  <2> DEFINE t == SeenTable(table)
             rs == t.records
  <2>2. IsSeen(t) /\ IsTable(t) /\ IsList(rs)
    BY SeenTableIs, SeenIsTable DEF TablesInv, IsSeen
  <2> HIDE DEF t
  <2> DEFINE CanRead(i) == \A f \in Range(rs[i].filters) : u.hdrSrc[f.from].ok
             Suits(i) == CanRead(i) /\ \A f \in Range(rs[i].filters) :
                           \E h \in u.hdrSrc[f.from].headers :
                              h.key = KeyString(f.key) /\ matchFn(h, f)
             Stops(i) == (rs[i].operation = u.op /\ targetMatches(u, rs[i])) /\ (Suits(i) \/ ~CanRead(i))
             first == {i \in DOMAIN rs : Stops(i) /\ \A j \in 1..(i - 1) : ~Stops(j)}
  <2>3. \A i : CanRead(i) <=> Readable(u, rs[i])
    BY DEF Range, Readable
  <2>4. \A i : Suits(i) <=> Fits(u, rs[i])
    BY <2>3 DEF Range, Fits, FilterFits
  <2>5. \A i : Stops(i) <=> Ends(u, rs[i])
    BY <2>3, <2>4 DEF Ends
  <2>6. first = Firsts(u, rs)
    BY <2>5 DEF Firsts
  <2>7. Decision(u, t) = IF \E i \in first : Suits(i)
                         THEN <<rs[CHOOSE i \in first : TRUE].action, TRUE>>
                         ELSE <<"Allow", FALSE>>
    <3> HIDE DEF Suits, first
    <3>1. CASE first = {}
      BY <2>2, <2>6, <3>1, DecisionIs
    <3>2. CASE first # {}
      <4>1. PICK i \in first : TRUE
        BY <3>2
      <4>2. TheFirst(u, rs) = i /\ TheFirst(u, rs) = CHOOSE j \in first : TRUE
        BY <2>2, <2>6, <4>1, FirstIs DEF TheFirst
      <4>3. \A j \in first : j = i
        BY <2>2, <2>6, <4>1, FirstEnd
      <4>4. Decision(u, t) = IF Fits(u, rs[i]) THEN <<rs[i].action, TRUE>> ELSE <<"Allow", FALSE>>
        BY <2>2, <2>6, <4>1, DecisionIs
      <4>5. (\E j \in first : Suits(j)) <=> Fits(u, rs[i])
        BY <2>4, <4>1, <4>3
      <4>6. CASE Fits(u, rs[i])
        BY <4>2, <4>4, <4>5, <4>6
      <4>7. CASE ~Fits(u, rs[i])
        BY <4>4, <4>5, <4>7
      <4> QED BY <4>6, <4>7
    <3> QED BY <3>1, <3>2
  <2> QED BY <2>7 DEF t
<1> QED BY <1>1, TablesAlways, PTL

\* A table that was sent and restored is equal to the one that was sent, and
\* decides every request as that one does.
THEOREM WireCorrect == EaclSpec => []DecisionSurvivesWire
<1>1. TablesInv => DecisionSurvivesWire
  BY EqualDecide DEF TablesInv, DecisionSurvivesWire
<1> QED BY <1>1, TablesAlways, PTL

\* EqualTables answers TRUE only for tables that decide every request alike.
THEOREM EqualCorrect == EaclSpec => []EqualTablesDecideAlike
<1>1. TablesInv => EqualTablesDecideAlike
  <2> SUFFICES ASSUME TablesInv, EqualTables(SeenTable(table), received), NEW u \in Units
               PROVE  Decision(u, SeenTable(table)) = Decision(u, received)
    BY DEF EqualTablesDecideAlike
  <2>1. IsSeen(SeenTable(table)) /\ IsSeen(received)
    BY SeenTableIs DEF TablesInv
  <2> QED BY <2>1, EqualDecide
<1> QED BY <1>1, TablesAlways, PTL

-----------------------------------------------------------------------------
(* Tokens: what a signed body says *)

Kinds == {"object", "container", "bearer"}

Flags == {"idSet", "issuerSet", "lifetimeSet", "cnrSet", "userSet", "tableSet", "sigSet"}
Contents == {"id", "issuer", "life", "authKey", "verb", "cnr", "objs", "user", "table", "sig"}
Fields == Flags \cup Contents

IsToken(x) == x = [f \in Fields |-> x[f]] /\ \A f \in Flags : x[f] \in BOOLEAN

\* The fields that are not of the token's type are not touched.
Own(k, x) ==
  /\ k = "bearer" => ~x.idSet /\ ~x.issuerSet /\ x.authKey = "" /\ x.verb = "zero" /\ x.objs = {}
  /\ k # "bearer" => ~x.userSet
  /\ k = "container" => x.objs = {}

Unbound(x) == ~x.cnrSet => x.cnr = "zero"

\* The signature is one that was made for a token, which answered as it says.
GoodSig(k, s) ==
  \E y : /\ IsToken(y) /\ Own(k, y) /\ Unbound(y)
         /\ s.body = fillBody(k, y) /\ s.said = <<Answers(k, y)>>
SigOK(k, x) == x.sigSet => GoodSig(k, x.sig)

Issued(k, x) == IsToken(x) /\ Own(k, x) /\ Unbound(x) /\ SigOK(k, x)
Held(k, x) == IsToken(x) /\ Own(k, x) /\ SigOK(k, x)

AgreeSession(x, y) ==
  /\ x.idSet = y.idSet /\ (x.idSet => x.id = y.id)
  /\ x.issuerSet = y.issuerSet /\ (x.issuerSet => x.issuer = y.issuer)
  /\ x.lifetimeSet = y.lifetimeSet /\ (x.lifetimeSet => x.life = y.life)
  /\ x.authKey = y.authKey /\ x.verb = y.verb
  /\ x.cnrSet = y.cnrSet /\ (x.cnrSet => x.cnr = y.cnr)
AgreeBearer(x, y) ==
  /\ x.tableSet = y.tableSet /\ (x.tableSet => x.table = y.table)
  /\ x.userSet = y.userSet /\ (x.userSet => x.user = y.user)
  /\ x.lifetimeSet = y.lifetimeSet /\ (x.lifetimeSet => x.life = y.life)
Agree(k, x, y) ==
  IF k = "bearer" THEN AgreeBearer(x, y) ELSE AgreeSession(x, y) /\ (k = "object" => x.objs = y.objs)

LEMMA IfSetEqual ==
  ASSUME NEW a \in BOOLEAN, NEW b \in BOOLEAN, NEW v, NEW w
  PROVE  IfSet(a, v) = IfSet(b, w) <=> a = b /\ (a => v = w)
<1>1. \A pos, q : <<pos>> # <<>> /\ (<<pos>> = <<q>> <=> pos = q)
  OBVIOUS
<1>2. CASE a /\ b
  BY <1>1, <1>2 DEF IfSet
<1>3. CASE a /\ ~b
  BY <1>1, <1>3 DEF IfSet, Absent
<1>4. CASE ~a /\ b
  BY <1>1, <1>4 DEF IfSet, Absent
<1>5. CASE ~a /\ ~b
  BY <1>5 DEF IfSet
<1> QED BY <1>2, <1>3, <1>4, <1>5

\* The signed body determines, and is determined by, the fields of the token's type.
LEMMA SessionBodies ==
  ASSUME NEW k \in {"object", "container"}, NEW x, NEW y, IsToken(x), IsToken(y)
  PROVE  sessionBody(k, x) = sessionBody(k, y) <=> Agree(k, x, y)
<1>0. /\ x.idSet \in BOOLEAN /\ x.issuerSet \in BOOLEAN /\ x.lifetimeSet \in BOOLEAN /\ x.cnrSet \in BOOLEAN
      /\ y.idSet \in BOOLEAN /\ y.issuerSet \in BOOLEAN /\ y.lifetimeSet \in BOOLEAN /\ y.cnrSet \in BOOLEAN
  BY DEF IsToken, Flags
<1>1. sessionBody(k, x) = sessionBody(k, y) <=>
        /\ IfSet(x.idSet, x.id) = IfSet(y.idSet, y.id)
        /\ IfSet(x.issuerSet, x.issuer) = IfSet(y.issuerSet, y.issuer)
        /\ IfSet(x.lifetimeSet, x.life) = IfSet(y.lifetimeSet, y.life)
        /\ x.authKey = y.authKey
        /\ writeContext(k, x) = writeContext(k, y)
  BY DEF sessionBody
<1>2. writeContext(k, x) = writeContext(k, y) <=>
        /\ x.verb = y.verb /\ IfSet(x.cnrSet, x.cnr) = IfSet(y.cnrSet, y.cnr)
        /\ k = "object" => x.objs = y.objs
  <2>1. CASE k = "object"
    BY <2>1 DEF writeContext, objectContext
  <2>2. CASE k = "container"
    <3>1. IfSet(x.cnrSet, x.cnr) = IfSet(y.cnrSet, y.cnr) => x.cnrSet = y.cnrSet
      BY <1>0, IfSetEqual
    <3>2. writeContext(k, x) = containerContext(x) /\ writeContext(k, y) = containerContext(y)
      BY <2>2 DEF writeContext
    <3>3. containerContext(x) = containerContext(y) <=>
            /\ x.verb = y.verb /\ (~x.cnrSet) = (~y.cnrSet)
            /\ IfSet(x.cnrSet, x.cnr) = IfSet(y.cnrSet, y.cnr)
      BY <1>0 DEF containerContext
    <3> QED BY <2>2, <3>1, <3>2, <3>3
  <2> QED BY <2>1, <2>2
<1>3. sessionBody(k, x) = sessionBody(k, y) <=>
        /\ x.idSet = y.idSet /\ (x.idSet => x.id = y.id)
        /\ x.issuerSet = y.issuerSet /\ (x.issuerSet => x.issuer = y.issuer)
        /\ x.lifetimeSet = y.lifetimeSet /\ (x.lifetimeSet => x.life = y.life)
        /\ x.authKey = y.authKey /\ x.verb = y.verb
        /\ x.cnrSet = y.cnrSet /\ (x.cnrSet => x.cnr = y.cnr)
        /\ k = "object" => x.objs = y.objs
  BY <1>0, <1>1, <1>2, IfSetEqual
<1> QED BY <1>3 DEF Agree, AgreeSession

LEMMA BearerBodies ==
  ASSUME NEW x, NEW y, IsToken(x), IsToken(y)
  PROVE  bearerBody(x) = bearerBody(y) <=> AgreeBearer(x, y)
<1> DEFINE B(z) == [table |-> IfSet(z.tableSet, z.table), user |-> IfSet(z.userSet, z.user),
                    life |-> IfSet(z.lifetimeSet, z.life)]
           Blank(z) == ~z.tableSet /\ ~z.userSet /\ ~z.lifetimeSet
<1>0. /\ x.tableSet \in BOOLEAN /\ x.userSet \in BOOLEAN /\ x.lifetimeSet \in BOOLEAN
      /\ y.tableSet \in BOOLEAN /\ y.userSet \in BOOLEAN /\ y.lifetimeSet \in BOOLEAN
  BY DEF IsToken, Flags
<1>1. B(x) = B(y) <=> /\ IfSet(x.tableSet, x.table) = IfSet(y.tableSet, y.table)
                      /\ IfSet(x.userSet, x.user) = IfSet(y.userSet, y.user)
                      /\ IfSet(x.lifetimeSet, x.life) = IfSet(y.lifetimeSet, y.life)
  OBVIOUS
<1>2. B(x) = B(y) <=> AgreeBearer(x, y)
  BY <1>0, <1>1, IfSetEqual DEF AgreeBearer
<1>3. \A z : bearerBody(z) = IF Blank(z) THEN <<>> ELSE <<B(z)>>
  BY DEF bearerBody, Absent
<1> HIDE DEF B
<1>4. <<B(x)>> # <<>> /\ <<B(y)>> # <<>> /\ (<<B(x)>> = <<B(y)>> <=> B(x) = B(y))
  OBVIOUS
<1>5. AgreeBearer(x, y) => (Blank(x) <=> Blank(y))
  BY DEF AgreeBearer
<1>6. Blank(x) /\ Blank(y) => AgreeBearer(x, y)
  BY <1>0 DEF AgreeBearer
<1> HIDE DEF Blank
<1> QED BY <1>2, <1>3, <1>4, <1>5, <1>6

LEMMA Bodies ==
  ASSUME NEW k \in Kinds, NEW x, NEW y, IsToken(x), IsToken(y)
  PROVE  fillBody(k, x) = fillBody(k, y) <=> Agree(k, x, y)
<1>1. CASE k = "bearer"
  BY <1>1, BearerBodies DEF fillBody, Agree
<1>2. CASE k # "bearer"
  <2>1. k \in {"object", "container"}
    BY <1>2 DEF Kinds
  <2>2. <<sessionBody(k, x)>> = <<sessionBody(k, y)>> <=> sessionBody(k, x) = sessionBody(k, y)
    OBVIOUS
  <2> QED BY <1>2, <2>1, <2>2, SessionBodies DEF fillBody
<1> QED BY <1>1, <1>2

\* Tokens that agree answer alike.
LEMMA AgreeAnswer ==
  ASSUME NEW k \in Kinds, NEW x, NEW y, IsToken(x), IsToken(y), Own(k, x), Own(k, y),
         Agree(k, x, y), k = "object" => x.cnr = y.cnr
  PROVE  Answers(k, x) = Answers(k, y)
<1>1. x.lifetimeSet = y.lifetimeSet /\ (x.lifetimeSet => x.life = y.life)
  BY DEF Agree, AgreeSession, AgreeBearer
<1>2. \A e : InvalidAt(x, e) <=> InvalidAt(y, e)
  BY <1>1 DEF InvalidAt
<1>3. \A c : AssertContainer(k, x, c) <=> AssertContainer(k, y, c)
  <2>1. CASE k = "object"
    BY <2>1 DEF AssertContainer, objectAssertContainer
  <2>2. CASE k = "container"
    BY <2>2 DEF AssertContainer, AppliedTo, Agree, AgreeSession
  <2>3. CASE k = "bearer"
    BY <2>3 DEF AssertContainer, bearerAssertContainer, Agree, AgreeBearer
  <2> QED BY <2>1, <2>2, <2>3 DEF Kinds
<1>4. x.objs = y.objs
  BY DEF Own, Agree, Kinds
<1>5. \A u : AssertUser(x, u) <=> AssertUser(y, u)
  BY DEF AssertUser, Own, Agree, AgreeBearer
<1>6. x.verb = y.verb /\ x.authKey = y.authKey /\ Issuer(x) = Issuer(y) /\ ID(x) = ID(y)
  BY DEF Issuer, ID, Own, Agree, AgreeSession
<1>7. \A o : AssertObject(x, o) <=> AssertObject(y, o)
  BY <1>4 DEF AssertObject
<1>8. /\ {e \in Epochs : ~InvalidAt(x, e)} = {e \in Epochs : ~InvalidAt(y, e)}
      /\ {c \in Cnrs : AssertContainer(k, x, c)} = {c \in Cnrs : AssertContainer(k, y, c)}
      /\ {o \in Objects : AssertObject(x, o)} = {o \in Objects : AssertObject(y, o)}
      /\ {u \in Users : AssertUser(x, u)} = {u \in Users : AssertUser(y, u)}
  BY <1>2, <1>3, <1>5, <1>7
<1> QED BY <1>6, <1>8 DEF Answers

-----------------------------------------------------------------------------
(* Tokens: the readers *)

\* Only these fields have changed.
Only(fs, x, y) == \A f \in Fields \ fs : y[f] = x[f]

LEMMA FlagSet ==
  ASSUME NEW x, IsToken(x), NEW f \in Flags, NEW b \in BOOLEAN
  PROVE  IsToken([x EXCEPT ![f] = b]) /\ [x EXCEPT ![f] = b][f] = b /\ Only({f}, x, [x EXCEPT ![f] = b])
<1>1. PICK y : y = [x EXCEPT ![f] = b]
  OBVIOUS
<1>2. f \in Fields
  BY DEF Fields
<1>3. y = [g \in Fields |-> y[g]] /\ y[f] = b /\ \A g \in Fields \ {f} : y[g] = x[g]
  BY <1>1, <1>2 DEF IsToken
<1>4. \A g \in Flags : y[g] \in BOOLEAN
  BY <1>3 DEF IsToken, Fields
<1> QED BY <1>1, <1>3, <1>4 DEF IsToken, Only

LEMMA ContentSet ==
  ASSUME NEW x, IsToken(x), NEW f \in Contents, NEW e
  PROVE  IsToken([x EXCEPT ![f] = e]) /\ [x EXCEPT ![f] = e][f] = e /\ Only({f}, x, [x EXCEPT ![f] = e])
<1>1. PICK y : y = [x EXCEPT ![f] = e]
  OBVIOUS
<1>2. f \in Fields /\ f \notin Flags
  BY DEF Fields, Flags, Contents
<1>3. y = [g \in Fields |-> y[g]] /\ y[f] = e /\ \A g \in Fields \ {f} : y[g] = x[g]
  BY <1>1, <1>2 DEF IsToken
<1>4. \A g \in Flags : y[g] \in BOOLEAN
  BY <1>2, <1>3 DEF IsToken, Fields
<1> QED BY <1>1, <1>3, <1>4 DEF IsToken, Only

IsReading(st) == IsToken(st.x) /\ st.err \in BOOLEAN

LEMMA ReadingIs == \A x : /\ Failed(x).x = x /\ Failed(x).err = TRUE
                          /\ Read(x).x = x /\ Read(x).err = FALSE
  BY DEF Failed, Read

\* A flag, and a flag and its value, as the readers write them.
Flagged(x, f, v) == [x EXCEPT ![f] = v # Absent]
Filled(x, f, g, v) == [Flagged(x, f, v) EXCEPT ![g] = v[1]]

LEMMA FieldRead ==
  ASSUME NEW x, IsToken(x), NEW f \in Flags, NEW g \in Contents, NEW v, NEW fs, f \in fs, g \in fs
  PROVE  /\ IsToken(Flagged(x, f, v)) /\ Only(fs, x, Flagged(x, f, v))
         /\ Flagged(x, f, v)[f] <=> v # Absent
         /\ IsToken(Filled(x, f, g, v)) /\ Only(fs, x, Filled(x, f, g, v))
         /\ Filled(x, f, g, v)[f] <=> v # Absent
         /\ Filled(x, f, g, v)[g] = v[1]
<1>1. PICK b \in BOOLEAN : b = (v # Absent)
  OBVIOUS
<1>2. PICK y : y = [x EXCEPT ![f] = b]
  OBVIOUS
<1>3. PICK z : z = [y EXCEPT ![g] = v[1]]
  OBVIOUS
<1>4. IsToken(y) /\ y[f] = b /\ Only({f}, x, y)
  BY <1>2, FlagSet
<1>5. IsToken(z) /\ z[g] = v[1] /\ Only({g}, y, z)
  BY <1>3, <1>4, ContentSet
<1>6. f # g /\ f \in Fields
  BY DEF Flags, Contents, Fields
<1>7. z[f] = b /\ Only(fs, x, y) /\ Only(fs, x, z)
  BY <1>4, <1>5, <1>6 DEF Only
<1>8. y = Flagged(x, f, v) /\ z = Filled(x, f, g, v)
  BY <1>1, <1>2, <1>3 DEF Flagged, Filled
<1> QED BY <1>1, <1>4, <1>5, <1>7, <1>8

\* A reader of one field: how it fails, what it leaves, what it has read.
Reads(fs, st, r) == IsReading(r) /\ Only(fs, st.x, r.x) /\ (~r.err => ~st.err)

LEMMA NothingRead ==
  ASSUME NEW st, IsReading(st), NEW fs
  PROVE  Reads(fs, st, st)
  BY DEF Reads, Only

IDFields == {"idSet", "id"}
IssuerFields == {"issuerSet", "issuer"}
LifeFields == {"lifetimeSet", "life"}
KeyFields == {"authKey"}
ContextFields == {"verb", "cnrSet", "cnr", "objs"}
UserFields == {"userSet", "user"}
TableFields == {"tableSet", "table"}
SigFields == {"sigSet", "sig"}

LEMMA ReadIDIs ==
  ASSUME NEW st, IsReading(st), NEW v, NEW strict \in BOOLEAN
  PROVE  LET r == ReadID(st, v, strict) IN
         /\ Reads(IDFields, st, r)
         /\ ~r.err => v # <<"short">> /\ v # <<"v1">>
         /\ ~r.err /\ strict => v # Absent /\ r.x.idSet /\ r.x.id = v[1]
<1> DEFINE r == ReadID(st, v, strict)
<1>1. PICK y : y = Flagged(st.x, "idSet", v)
  OBVIOUS
<1>2. PICK z : z = Filled(st.x, "idSet", "id", v)
  OBVIOUS
<1>3. "idSet" \in Flags \cap IDFields /\ "id" \in Contents \cap IDFields
  BY DEF Flags, Contents, IDFields
<1>4. /\ IsToken(y) /\ Only(IDFields, st.x, y)
      /\ IsToken(z) /\ Only(IDFields, st.x, z) /\ (z.idSet <=> v # Absent) /\ z.id = v[1]
  <2>1. IsToken(st.x)
    BY DEF IsReading
  <2>2. /\ IsToken(y) /\ Only(IDFields, st.x, y)
        /\ IsToken(z) /\ Only(IDFields, st.x, z) /\ z["id"] = v[1]
    <3>1. IsToken(y) /\ Only(IDFields, st.x, y)
      BY <1>1, <1>3, <2>1, FieldRead
    <3>2. IsToken(z) /\ Only(IDFields, st.x, z) /\ z["id"] = v[1]
      BY <1>2, <1>3, <2>1, FieldRead
    <3> QED BY <3>1, <3>2
  <2>3. z["idSet"] <=> v # Absent
    BY <1>2, <1>3, <2>1, FieldRead
  <2> QED BY <2>2, <2>3
<1>5. <<"short">> # Absent /\ <<"v1">> # Absent
  BY DEF Absent
<1>6. r = IF st.err THEN st
          ELSE IF v = Absent THEN [x |-> y, err |-> strict]
          ELSE IF v = <<"short">> THEN Failed(y)
          ELSE [x |-> z, err |-> v = <<"v1">>]
  BY <1>1, <1>2 DEF ReadID, Flagged, Filled
<1> HIDE DEF r
<1>7. CASE st.err
  <2>1. r = st
    BY <1>6, <1>7
  <2> QED BY <1>7, <2>1, NothingRead DEF r
<1>8. CASE ~st.err /\ v = Absent
  <2>1. r.x = y /\ r.err = strict
    BY <1>6, <1>8
  <2> QED BY <1>4, <1>5, <1>8, <2>1 DEF r, Reads, IsReading
<1>9. CASE ~st.err /\ v = <<"short">>
  <2>1. r.x = y /\ r.err = TRUE
    BY <1>5, <1>6, <1>9, ReadingIs
  <2> QED BY <1>4, <1>9, <2>1 DEF r, Reads, IsReading
<1>10. CASE ~st.err /\ v # Absent /\ v # <<"short">>
  <2>1. r.x = z /\ r.err = (v = <<"v1">>)
    BY <1>6, <1>10
  <2> QED BY <1>4, <1>10, <2>1 DEF r, Reads, IsReading
<1> QED BY <1>5, <1>7, <1>8, <1>9, <1>10 DEF IsReading

LEMMA ReadIssuerIs ==
  ASSUME NEW st, IsReading(st), NEW v, NEW strict \in BOOLEAN
  PROVE  LET r == ReadIssuer(st, v, strict) IN
         /\ Reads(IssuerFields, st, r)
         /\ ~r.err => v # <<"bad">>
         /\ ~r.err /\ strict => v # Absent /\ r.x.issuerSet /\ r.x.issuer = v[1]
<1> DEFINE r == ReadIssuer(st, v, strict)
<1>1. PICK y : y = Flagged(st.x, "issuerSet", v)
  OBVIOUS
<1>2. PICK z : z = Filled(st.x, "issuerSet", "issuer", v)
  OBVIOUS
<1>3. "issuerSet" \in Flags \cap IssuerFields /\ "issuer" \in Contents \cap IssuerFields
  BY DEF Flags, Contents, IssuerFields
<1>4. /\ IsToken(y) /\ Only(IssuerFields, st.x, y) /\ (y.issuerSet <=> v # Absent)
      /\ IsToken(z) /\ Only(IssuerFields, st.x, z) /\ (z.issuerSet <=> v # Absent) /\ z.issuer = v[1]
  <2>1. IsToken(st.x)
    BY DEF IsReading
  <2>2. /\ IsToken(y) /\ Only(IssuerFields, st.x, y)
        /\ IsToken(z) /\ Only(IssuerFields, st.x, z) /\ z["issuer"] = v[1]
    <3>1. IsToken(y) /\ Only(IssuerFields, st.x, y)
      BY <1>1, <1>3, <2>1, FieldRead
    <3>2. IsToken(z) /\ Only(IssuerFields, st.x, z) /\ z["issuer"] = v[1]
      BY <1>2, <1>3, <2>1, FieldRead
    <3> QED BY <3>1, <3>2
  <2>3. (y["issuerSet"] <=> v # Absent) /\ (z["issuerSet"] <=> v # Absent)
    BY <1>1, <1>2, <1>3, <2>1, FieldRead
  <2> QED BY <2>2, <2>3
<1>5. <<"bad">> # Absent
  BY DEF Absent
<1>6. r = IF st.err THEN st
          ELSE IF v = Absent THEN [x |-> y, err |-> strict]
          ELSE IF v = <<"bad">> THEN Failed(y)
          ELSE Read(z)
  BY <1>1, <1>2 DEF ReadIssuer, Flagged, Filled
<1> HIDE DEF r
<1>7. CASE st.err
  <2>1. r = st
    BY <1>6, <1>7
  <2> QED BY <1>7, <2>1, NothingRead DEF r
<1>8. CASE ~st.err /\ v = Absent
  <2>1. r.x = y /\ r.err = strict
    BY <1>6, <1>8, ReadingIs
  <2> QED BY <1>4, <1>5, <1>8, <2>1 DEF r, Reads, IsReading
<1>9. CASE ~st.err /\ v = <<"bad">>
  <2>1. r.x = y /\ r.err = TRUE
    BY <1>5, <1>6, <1>9, ReadingIs
  <2> QED BY <1>4, <1>9, <2>1 DEF r, Reads, IsReading
<1>10. CASE ~st.err /\ v # Absent /\ v # <<"bad">>
  <2>1. r.x = z /\ r.err = FALSE
    BY <1>6, <1>10, ReadingIs
  <2> QED BY <1>4, <1>10, <2>1 DEF r, Reads, IsReading
<1> QED BY <1>5, <1>7, <1>8, <1>9, <1>10 DEF IsReading

LEMMA ReadLifetimeIs ==
  ASSUME NEW st, IsReading(st), NEW v, NEW strict \in BOOLEAN
  PROVE  LET r == ReadLifetime(st, v, strict) IN
         /\ Reads(LifeFields, st, r)
         /\ ~r.err /\ strict => v # Absent /\ r.x.lifetimeSet /\ r.x.life = v[1]
<1> DEFINE r == ReadLifetime(st, v, strict)
<1>1. PICK y : y = Flagged(st.x, "lifetimeSet", v)
  OBVIOUS
<1>2. PICK z : z = Filled(st.x, "lifetimeSet", "life", v)
  OBVIOUS
<1>3. "lifetimeSet" \in Flags \cap LifeFields /\ "life" \in Contents \cap LifeFields
  BY DEF Flags, Contents, LifeFields
<1>4. /\ IsToken(y) /\ Only(LifeFields, st.x, y) /\ (y.lifetimeSet <=> v # Absent)
      /\ IsToken(z) /\ Only(LifeFields, st.x, z) /\ (z.lifetimeSet <=> v # Absent) /\ z.life = v[1]
  <2>1. IsToken(st.x)
    BY DEF IsReading
  <2>2. /\ IsToken(y) /\ Only(LifeFields, st.x, y)
        /\ IsToken(z) /\ Only(LifeFields, st.x, z) /\ z["life"] = v[1]
    <3>1. IsToken(y) /\ Only(LifeFields, st.x, y)
      BY <1>1, <1>3, <2>1, FieldRead
    <3>2. IsToken(z) /\ Only(LifeFields, st.x, z) /\ z["life"] = v[1]
      BY <1>2, <1>3, <2>1, FieldRead
    <3> QED BY <3>1, <3>2
  <2>3. (y["lifetimeSet"] <=> v # Absent) /\ (z["lifetimeSet"] <=> v # Absent)
    BY <1>1, <1>2, <1>3, <2>1, FieldRead
  <2> QED BY <2>2, <2>3
<1>5. <<"bad">> # Absent
  BY DEF Absent
<1>6. r = IF st.err THEN st
          ELSE IF v = Absent THEN [x |-> y, err |-> strict]
          ELSE Read(z)
  BY <1>1, <1>2 DEF ReadLifetime, Flagged, Filled
<1> HIDE DEF r
<1>7. CASE st.err
  <2>1. r = st
    BY <1>6, <1>7
  <2> QED BY <1>7, <2>1, NothingRead DEF r
<1>8. CASE ~st.err /\ v = Absent
  <2>1. r.x = y /\ r.err = strict
    BY <1>6, <1>8, ReadingIs
  <2> QED BY <1>4, <1>5, <1>8, <2>1 DEF r, Reads, IsReading
<1>10. CASE ~st.err /\ v # Absent
  <2>1. r.x = z /\ r.err = FALSE
    BY <1>6, <1>10, ReadingIs
  <2> QED BY <1>4, <1>10, <2>1 DEF r, Reads, IsReading
<1> QED BY <1>5, <1>7, <1>8, <1>10 DEF IsReading

LEMMA ReadSigIs ==
  ASSUME NEW st, IsReading(st), NEW v, NEW strict \in BOOLEAN
  PROVE  LET r == ReadSig(st, v, strict) IN
         /\ Reads(SigFields, st, r)
         /\ ~r.err /\ strict => v # Absent /\ r.x.sigSet /\ r.x.sig = v[1]
         /\ r.x.sigSet => (st.x.sigSet /\ r.x.sig = st.x.sig) \/ (v # Absent /\ r.x.sig = v[1])
<1> DEFINE r == ReadSig(st, v, strict)
<1>1. PICK y : y = Flagged(st.x, "sigSet", v)
  OBVIOUS
<1>2. PICK z : z = Filled(st.x, "sigSet", "sig", v)
  OBVIOUS
<1>3. "sigSet" \in Flags \cap SigFields /\ "sig" \in Contents \cap SigFields
  BY DEF Flags, Contents, SigFields
<1>4. /\ IsToken(y) /\ Only(SigFields, st.x, y) /\ (y.sigSet <=> v # Absent)
      /\ IsToken(z) /\ Only(SigFields, st.x, z) /\ (z.sigSet <=> v # Absent) /\ z.sig = v[1]
  <2>1. IsToken(st.x)
    BY DEF IsReading
  <2>2. /\ IsToken(y) /\ Only(SigFields, st.x, y)
        /\ IsToken(z) /\ Only(SigFields, st.x, z) /\ z["sig"] = v[1]
    <3>1. IsToken(y) /\ Only(SigFields, st.x, y)
      BY <1>1, <1>3, <2>1, FieldRead
    <3>2. IsToken(z) /\ Only(SigFields, st.x, z) /\ z["sig"] = v[1]
      BY <1>2, <1>3, <2>1, FieldRead
    <3> QED BY <3>1, <3>2
  <2>3. (y["sigSet"] <=> v # Absent) /\ (z["sigSet"] <=> v # Absent)
    BY <1>1, <1>2, <1>3, <2>1, FieldRead
  <2> QED BY <2>2, <2>3
<1>5. <<"bad">> # Absent
  BY DEF Absent
<1>6. r = IF st.err THEN st
          ELSE IF v = Absent THEN [x |-> y, err |-> strict]
          ELSE Read(z)
  BY <1>1, <1>2 DEF ReadSig, Flagged, Filled
<1> HIDE DEF r
<1>7. CASE st.err
  <2>1. r = st
    BY <1>6, <1>7
  <2>2. r.x = st.x /\ r.err = st.err /\ Reads(SigFields, st, r)
    BY <2>1, NothingRead
  <2>3. r.err /\ (r.x.sigSet => st.x.sigSet /\ r.x.sig = st.x.sig)
    BY <1>7, <2>2
  <2> QED BY <2>2, <2>3 DEF r
<1>8. CASE ~st.err /\ v = Absent
  <2>1. r.x = y /\ r.err = strict
    BY <1>6, <1>8, ReadingIs
  <2> QED BY <1>4, <1>5, <1>8, <2>1 DEF r, Reads, IsReading
<1>10. CASE ~st.err /\ v # Absent
  <2>1. r.x = z /\ r.err = FALSE
    BY <1>6, <1>10, ReadingIs
  <2> QED BY <1>4, <1>10, <2>1 DEF r, Reads, IsReading
<1> QED BY <1>5, <1>7, <1>8, <1>10 DEF IsReading

LEMMA ReadTableIs ==
  ASSUME NEW st, IsReading(st), ~st.err, NEW v, NEW strict \in BOOLEAN
  PROVE  LET r == ReadTable(st, v, strict) IN
         /\ Reads(TableFields, st, r)
         /\ ~r.err /\ strict => v # Absent /\ r.x.tableSet /\ r.x.table = v[1]
<1> DEFINE r == ReadTable(st, v, strict)
<1>1. PICK y : y = Flagged(st.x, "tableSet", v)
  OBVIOUS
<1>2. PICK z : z = Filled(st.x, "tableSet", "table", v)
  OBVIOUS
<1>3. "tableSet" \in Flags \cap TableFields /\ "table" \in Contents \cap TableFields
  BY DEF Flags, Contents, TableFields
<1>4. /\ IsToken(y) /\ Only(TableFields, st.x, y) /\ (y.tableSet <=> v # Absent)
      /\ IsToken(z) /\ Only(TableFields, st.x, z) /\ (z.tableSet <=> v # Absent) /\ z.table = v[1]
  <2>1. IsToken(st.x)
    BY DEF IsReading
  <2>2. /\ IsToken(y) /\ Only(TableFields, st.x, y)
        /\ IsToken(z) /\ Only(TableFields, st.x, z) /\ z["table"] = v[1]
    <3>1. IsToken(y) /\ Only(TableFields, st.x, y)
      BY <1>1, <1>3, <2>1, FieldRead
    <3>2. IsToken(z) /\ Only(TableFields, st.x, z) /\ z["table"] = v[1]
      BY <1>2, <1>3, <2>1, FieldRead
    <3> QED BY <3>1, <3>2
  <2>3. (y["tableSet"] <=> v # Absent) /\ (z["tableSet"] <=> v # Absent)
    BY <1>1, <1>2, <1>3, <2>1, FieldRead
  <2> QED BY <2>2, <2>3
<1>5. <<"bad">> # Absent
  BY DEF Absent
<1>6. r = IF v = Absent THEN [x |-> y, err |-> strict]
          ELSE Read(z)
  BY <1>1, <1>2 DEF ReadTable, Flagged, Filled
<1> HIDE DEF r
<1>8. CASE v = Absent
  <2>1. r.x = y /\ r.err = strict
    BY <1>6, <1>8, ReadingIs
  <2> QED BY <1>4, <1>5, <1>8, <2>1 DEF r, Reads, IsReading
<1>10. CASE v # Absent
  <2>1. r.x = z /\ r.err = FALSE
    BY <1>6, <1>10, ReadingIs
  <2> QED BY <1>4, <1>10, <2>1 DEF r, Reads, IsReading
<1> QED BY <1>5, <1>8, <1>10 DEF IsReading

LEMMA ReadUserIs ==
  ASSUME NEW st, IsReading(st), NEW v
  PROVE  LET r == ReadUser(st, v) IN
         /\ Reads(UserFields, st, r)
         /\ ~r.err => /\ v # <<"bad">> /\ (r.x.userSet <=> v # Absent)
                      /\ v # Absent => r.x.user = v[1]
<1> DEFINE r == ReadUser(st, v)
<1>1. PICK y : y = Flagged(st.x, "userSet", v)
  OBVIOUS
<1>2. PICK z : z = Filled(st.x, "userSet", "user", v)
  OBVIOUS
<1>3. "userSet" \in Flags \cap UserFields /\ "user" \in Contents \cap UserFields
  BY DEF Flags, Contents, UserFields
<1>4. /\ IsToken(y) /\ Only(UserFields, st.x, y) /\ (y.userSet <=> v # Absent)
      /\ IsToken(z) /\ Only(UserFields, st.x, z) /\ (z.userSet <=> v # Absent) /\ z.user = v[1]
  <2>1. IsToken(st.x)
    BY DEF IsReading
  <2>2. /\ IsToken(y) /\ Only(UserFields, st.x, y)
        /\ IsToken(z) /\ Only(UserFields, st.x, z) /\ z["user"] = v[1]
    <3>1. IsToken(y) /\ Only(UserFields, st.x, y)
      BY <1>1, <1>3, <2>1, FieldRead
    <3>2. IsToken(z) /\ Only(UserFields, st.x, z) /\ z["user"] = v[1]
      BY <1>2, <1>3, <2>1, FieldRead
    <3> QED BY <3>1, <3>2
  <2>3. (y["userSet"] <=> v # Absent) /\ (z["userSet"] <=> v # Absent)
    BY <1>1, <1>2, <1>3, <2>1, FieldRead
  <2> QED BY <2>2, <2>3
<1>5. <<"bad">> # Absent
  BY DEF Absent
<1>6. r = IF st.err THEN st
          ELSE IF v = Absent THEN Read(y)
          ELSE IF v = <<"bad">> THEN Failed(y)
          ELSE Read(z)
  BY <1>1, <1>2 DEF ReadUser, Flagged, Filled
<1> HIDE DEF r
<1>7. CASE st.err
  <2>1. r = st
    BY <1>6, <1>7
  <2> QED BY <1>7, <2>1, NothingRead DEF r
<1>8. CASE ~st.err /\ v = Absent
  <2>1. r.x = y /\ r.err = FALSE
    BY <1>6, <1>8, ReadingIs
  <2> QED BY <1>4, <1>5, <1>8, <2>1 DEF r, Reads, IsReading
<1>9. CASE ~st.err /\ v = <<"bad">>
  <2>1. r.x = y /\ r.err = TRUE
    BY <1>5, <1>6, <1>9, ReadingIs
  <2> QED BY <1>4, <1>9, <2>1 DEF r, Reads, IsReading
<1>10. CASE ~st.err /\ v # Absent /\ v # <<"bad">>
  <2>1. r.x = z /\ r.err = FALSE
    BY <1>6, <1>10, ReadingIs
  <2> QED BY <1>4, <1>10, <2>1 DEF r, Reads, IsReading
<1> QED BY <1>5, <1>7, <1>8, <1>9, <1>10 DEF IsReading

LEMMA ReadKeyIs ==
  ASSUME NEW st, IsReading(st), NEW v, NEW strict \in BOOLEAN
  PROVE  LET r == ReadKey(st, v, strict) IN
         Reads(KeyFields, st, r) /\ (~r.err => r.x.authKey = v)
<1> DEFINE r == ReadKey(st, v, strict)
<1>1. PICK y : y = [st.x EXCEPT !["authKey"] = v]
  OBVIOUS
<1>2. "authKey" \in Contents /\ KeyFields = {"authKey"}
  BY DEF Contents, KeyFields
<1>3. IsToken(st.x)
  BY DEF IsReading
<1>4. IsToken(y) /\ y["authKey"] = v /\ Only({"authKey"}, st.x, y)
  BY <1>1, <1>2, <1>3, ContentSet
<1>5. r = IF st.err THEN st ELSE [x |-> y, err |-> strict /\ v = ""]
  BY <1>1 DEF ReadKey
<1> HIDE DEF r
<1>6. CASE st.err
  <2>1. r = st
    BY <1>5, <1>6
  <2> QED BY <1>6, <2>1, NothingRead DEF r
<1>7. CASE ~st.err
  <2>1. r.x = y /\ r.err = (strict /\ v = "")
    BY <1>5, <1>7
  <2> QED BY <1>2, <1>4, <1>7, <2>1 DEF r, Reads, IsReading
<1> QED BY <1>6, <1>7 DEF IsReading

AllBut(f, y, z) == \A g \in Fields : g # f => z[g] = y[g]

Put(y, f, e) == [y EXCEPT ![f] = e]

LEMMA MoreSet ==
  ASSUME NEW x, NEW y, IsToken(y), NEW fs, Only(fs, x, y), NEW f \in Contents, f \in fs, NEW e
  PROVE  /\ IsToken(Put(y, f, e)) /\ Put(y, f, e)[f] = e
         /\ Only(fs, x, Put(y, f, e)) /\ AllBut(f, y, Put(y, f, e))
<1>1. PICK z : z = [y EXCEPT ![f] = e]
  OBVIOUS
<1>2. IsToken(z) /\ z[f] = e /\ Only({f}, y, z)
  BY <1>1, ContentSet
<1>3. Only(fs, x, z) /\ AllBut(f, y, z)
  BY <1>2 DEF Only, AllBut
<1> QED BY <1>1, <1>2, <1>3 DEF Put

LEMMA ObjectContextIs ==
  ASSUME NEW x, IsToken(x), NEW c, NEW strict \in BOOLEAN
  PROVE  LET r == objectReadContext(x, c, strict) IN
         /\ IsReading(r) /\ Only(ContextFields, x, r.x)
         /\ ~r.err => /\ c.cnr # <<"bad">> /\ "bad" \notin c.objs
                      /\ r.x.verb = c.verb /\ r.x.objs = c.objs
         /\ ~r.err /\ strict => c.cnr # Absent /\ r.x.cnrSet /\ r.x.cnr = c.cnr[1]
<1> DEFINE r == objectReadContext(x, c, strict)
<1>1. PICK y : y = Flagged(x, "cnrSet", c.cnr)
  OBVIOUS
<1>2. PICK z : z = IF c.cnr = Absent THEN y ELSE Filled(x, "cnrSet", "cnr", c.cnr)
  OBVIOUS
<1>3. PICK pos : pos = Put(z, "objs", {"zero"})
  OBVIOUS
<1>4. PICK o : o = Put(z, "objs", c.objs)
  OBVIOUS
<1>5. PICK q : q = Put(o, "verb", c.verb)
  OBVIOUS
<1>6. /\ "cnrSet" \in Flags \cap ContextFields /\ "cnr" \in Contents \cap ContextFields
      /\ "objs" \in Contents \cap ContextFields /\ "verb" \in Contents \cap ContextFields
      /\ "cnrSet" \in Fields /\ "cnr" \in Fields /\ "objs" \in Fields
  BY DEF Flags, Contents, ContextFields, Fields
<1>7. IsToken(y) /\ Only(ContextFields, x, y)
  BY <1>1, <1>6, FieldRead
<1>8. IsToken(z) /\ Only(ContextFields, x, z) /\ (c.cnr # Absent => z["cnr"] = c.cnr[1])
  BY <1>2, <1>6, <1>7, FieldRead
<1>9. c.cnr # Absent => z["cnrSet"]
  BY <1>2, <1>6, FieldRead
<1>10. IsToken(pos) /\ Only(ContextFields, x, pos)
  BY <1>3, <1>6, <1>8, MoreSet
<1>11. /\ IsToken(o) /\ Only(ContextFields, x, o) /\ o["objs"] = c.objs
       /\ AllBut("objs", z, o)
  BY <1>4, <1>6, <1>8, MoreSet
<1>12. /\ IsToken(q) /\ Only(ContextFields, x, q) /\ q["verb"] = c.verb
       /\ AllBut("verb", o, q)
  BY <1>5, <1>6, <1>11, MoreSet
<1>13. q["objs"] = c.objs /\ q["cnr"] = z["cnr"] /\ q["cnrSet"] = z["cnrSet"]
  BY <1>6, <1>11, <1>12 DEF AllBut
<1>14. q = [z EXCEPT !.objs = c.objs, !.verb = c.verb] /\ pos = [z EXCEPT !.objs = {"zero"}]
  BY <1>3, <1>4, <1>5 DEF Put
<1>15. r = IF c.cnr = <<"bad">> \/ (c.cnr = Absent /\ strict) THEN Failed(y)
           ELSE IF "bad" \in c.objs THEN Failed(pos) ELSE Read(q)
  BY <1>1, <1>2, <1>14 DEF objectReadContext, Flagged, Filled
<1> HIDE DEF r
<1>16. CASE c.cnr = <<"bad">> \/ (c.cnr = Absent /\ strict)
  <2>1. r.x = y /\ r.err = TRUE
    BY <1>15, <1>16, ReadingIs
  <2> QED BY <1>7, <2>1 DEF r, IsReading
<1>17. CASE ~(c.cnr = <<"bad">> \/ (c.cnr = Absent /\ strict)) /\ "bad" \in c.objs
  <2>1. r.x = pos /\ r.err = TRUE
    BY <1>15, <1>17, ReadingIs
  <2> QED BY <1>10, <2>1 DEF r, IsReading
<1>18. CASE ~(c.cnr = <<"bad">> \/ (c.cnr = Absent /\ strict)) /\ "bad" \notin c.objs
  <2>1. r.x = q /\ r.err = FALSE
    BY <1>15, <1>18, ReadingIs
  <2>2. strict => c.cnr # Absent /\ q.cnrSet /\ q.cnr = c.cnr[1]
    BY <1>8, <1>9, <1>13, <1>18
  <2> QED BY <1>12, <1>13, <1>18, <2>1, <2>2 DEF r, IsReading
<1> QED BY <1>16, <1>17, <1>18

LEMMA ContainerContextIs ==
  ASSUME NEW x, IsToken(x), NEW c, c.wildcard \in BOOLEAN, NEW strict \in BOOLEAN
  PROVE  LET r == containerReadContext(x, c, strict) IN
         /\ IsReading(r) /\ Only(ContextFields, x, r.x) /\ r.x.objs = x.objs
         /\ ~r.err => /\ r.x.verb = c.verb /\ (r.x.cnrSet <=> ~c.wildcard)
                      /\ c.cnr # <<"bad">> /\ (~r.x.cnrSet => c.cnr = Absent)
         /\ ~r.err /\ strict => (r.x.cnrSet => c.cnr # Absent /\ r.x.cnr = c.cnr[1])
<1> DEFINE r == containerReadContext(x, c, strict)
<1>0. PICK b \in BOOLEAN : b = ~c.wildcard
  OBVIOUS
<1>1. PICK y : y = [x EXCEPT !["cnrSet"] = b]
  OBVIOUS
<1>2. PICK w : w = Put(y, "cnr", c.cnr[1])
  OBVIOUS
<1>3. PICK z : z = IF c.cnr = Absent THEN y ELSE w
  OBVIOUS
<1>4. PICK q : q = Put(z, "verb", c.verb)
  OBVIOUS
<1>5. /\ "cnrSet" \in Flags \cap ContextFields /\ "cnr" \in Contents \cap ContextFields
      /\ "verb" \in Contents \cap ContextFields
      /\ "cnrSet" \in Fields /\ "cnr" \in Fields /\ "objs" \in Fields /\ "verb" \in Fields
  BY DEF Flags, Contents, ContextFields, Fields
<1>6. IsToken(y) /\ y["cnrSet"] = b /\ Only({"cnrSet"}, x, y)
  BY <1>1, <1>5, FlagSet
<1>7. Only(ContextFields, x, y) /\ y["objs"] = x["objs"]
  BY <1>5, <1>6 DEF Only
<1>8. /\ IsToken(w) /\ Only(ContextFields, x, w) /\ w["cnr"] = c.cnr[1]
      /\ AllBut("cnr", y, w)
  BY <1>2, <1>5, <1>6, <1>7, MoreSet
<1>9. /\ IsToken(z) /\ Only(ContextFields, x, z) /\ (c.cnr # Absent => z["cnr"] = c.cnr[1])
      /\ z["cnrSet"] = b /\ z["objs"] = x["objs"]
  BY <1>3, <1>5, <1>6, <1>7, <1>8 DEF AllBut
<1>10. /\ IsToken(q) /\ Only(ContextFields, x, q) /\ q["verb"] = c.verb
       /\ AllBut("verb", z, q)
  BY <1>4, <1>5, <1>9, MoreSet
<1>11. q["cnrSet"] = b /\ q["objs"] = x["objs"] /\ (c.cnr # Absent => q["cnr"] = c.cnr[1])
  BY <1>5, <1>9, <1>10 DEF AllBut
<1> DEFINE bad == \/ b /\ (c.cnr = <<"bad">> \/ (c.cnr = Absent /\ strict))
                  \/ ~b /\ c.cnr # Absent
<1>12. y = [x EXCEPT !.cnrSet = ~c.wildcard] /\ y.cnrSet = b
  BY <1>0, <1>1, <1>6
<1>13. r = IF bad THEN Failed(y) ELSE Read(q)
  BY <1>2, <1>3, <1>4, <1>12 DEF containerReadContext, Put
<1>14. <<"bad">> # Absent
  BY DEF Absent
<1> HIDE DEF r
<1>15. CASE bad
  <2>1. r.x = y /\ r.err = TRUE
    BY <1>13, <1>15, ReadingIs
  <2> QED BY <1>6, <1>7, <2>1 DEF r, IsReading
<1>16. CASE ~bad
  <2>1. r.x = q /\ r.err = FALSE
    BY <1>13, <1>16, ReadingIs
  <2>2. /\ q.verb = c.verb /\ q.objs = x.objs /\ (q.cnrSet <=> ~c.wildcard)
        /\ c.cnr # <<"bad">> /\ (~q.cnrSet => c.cnr = Absent)
        /\ strict => (q.cnrSet => c.cnr # Absent /\ q.cnr = c.cnr[1])
    BY <1>0, <1>10, <1>11, <1>14, <1>16
  <2> HIDE DEF bad
  <2> QED BY <1>10, <2>1, <2>2 DEF r, IsReading
<1> QED BY <1>15, <1>16

LEMMA ReadContextIs ==
  ASSUME NEW st, IsReading(st), NEW k \in {"object", "container"}, NEW c, NEW strict \in BOOLEAN,
         c = Absent \/ c[1].wildcard \in BOOLEAN
  PROVE  LET r == ReadContext(st, k, c, strict) IN
         /\ Reads(ContextFields, st, r) /\ (k = "container" => r.x.objs = st.x.objs)
         /\ ~r.err /\ strict =>
              /\ c # Absent /\ c[1].type = k /\ c[1].cnr # <<"bad">> /\ r.x.verb = c[1].verb
              /\ k = "object" => /\ "bad" \notin c[1].objs /\ r.x.objs = c[1].objs
                                 /\ c[1].cnr # Absent /\ r.x.cnrSet /\ r.x.cnr = c[1].cnr[1]
              /\ k = "container" =>
                   /\ (r.x.cnrSet <=> ~c[1].wildcard) /\ (~r.x.cnrSet => c[1].cnr = Absent)
                   /\ r.x.cnrSet => c[1].cnr # Absent /\ r.x.cnr = c[1].cnr[1]
<1> DEFINE r == ReadContext(st, k, c, strict)
<1>0. IsToken(st.x) /\ st.err \in BOOLEAN
  BY DEF IsReading
<1>1. CASE st.err
  <2>1. r = st
    BY <1>1 DEF ReadContext
  <2> QED BY <1>1, <2>1, NothingRead
<1>2. CASE ~st.err /\ c = Absent
  <2>1. r.x = st.x /\ r.err = strict
    BY <1>2 DEF ReadContext
  <2> HIDE DEF r
  <2> QED BY <1>0, <1>2, <2>1 DEF r, Reads, Only, IsReading
<1>3. CASE ~st.err /\ c # Absent /\ c[1].type # k
  <2>1. r.x = st.x /\ r.err = TRUE
    BY <1>3, ReadingIs DEF ReadContext
  <2> HIDE DEF r
  <2> QED BY <1>0, <2>1 DEF r, Reads, Only, IsReading
<1>4. CASE ~st.err /\ c # Absent /\ c[1].type = k /\ k = "object"
  <2>1. r = objectReadContext(st.x, c[1], strict)
    BY <1>4 DEF ReadContext
  <2> HIDE DEF r
  <2>2. /\ IsReading(r) /\ Only(ContextFields, st.x, r.x)
        /\ ~r.err => /\ c[1].cnr # <<"bad">> /\ "bad" \notin c[1].objs
                     /\ r.x.verb = c[1].verb /\ r.x.objs = c[1].objs
        /\ ~r.err /\ strict => c[1].cnr # Absent /\ r.x.cnrSet /\ r.x.cnr = c[1].cnr[1]
    BY <1>0, <2>1, ObjectContextIs
  <2> QED BY <1>4, <2>2 DEF r, Reads
<1>5. CASE ~st.err /\ c # Absent /\ c[1].type = k /\ k = "container"
  <2>1. r = containerReadContext(st.x, c[1], strict)
    BY <1>5 DEF ReadContext
  <2> HIDE DEF r
  <2>2. /\ IsReading(r) /\ Only(ContextFields, st.x, r.x) /\ r.x.objs = st.x.objs
        /\ ~r.err => /\ r.x.verb = c[1].verb /\ (r.x.cnrSet <=> ~c[1].wildcard)
                     /\ c[1].cnr # <<"bad">> /\ (~r.x.cnrSet => c[1].cnr = Absent)
        /\ ~r.err /\ strict => (r.x.cnrSet => c[1].cnr # Absent /\ r.x.cnr = c[1].cnr[1])
    BY <1>0, <1>5, <2>1, ContainerContextIs
  <2> QED BY <1>5, <2>2 DEF r, Reads
<1> QED BY <1>0, <1>1, <1>2, <1>3, <1>4, <1>5

\* The same value in a group of fields, and what is left alone by who writes one group.
EqID(x, y) == y.idSet = x.idSet /\ y.id = x.id
EqIssuer(x, y) == y.issuerSet = x.issuerSet /\ y.issuer = x.issuer
EqLife(x, y) == y.lifetimeSet = x.lifetimeSet /\ y.life = x.life
EqKey(x, y) == y.authKey = x.authKey
EqContext(x, y) == y.verb = x.verb /\ y.cnrSet = x.cnrSet /\ y.cnr = x.cnr /\ y.objs = x.objs
EqUser(x, y) == y.userSet = x.userSet /\ y.user = x.user
EqTable(x, y) == y.tableSet = x.tableSet /\ y.table = x.table
EqSig(x, y) == y.sigSet = x.sigSet /\ y.sig = x.sig

LEMMA OnlyID ==
  ASSUME NEW x, NEW y, Only(IDFields, x, y)
  PROVE  EqIssuer(x, y) /\ EqLife(x, y) /\ EqKey(x, y) /\ EqContext(x, y) /\ EqUser(x, y) /\ EqTable(x, y) /\ EqSig(x, y)
<1>1. \A f \in Fields \ IDFields : y[f] = x[f]
  BY DEF Only
<1> QED BY <1>1 DEF IDFields, Fields, Flags, Contents, EqIssuer, EqLife, EqKey, EqContext, EqUser, EqTable, EqSig

LEMMA OnlyIssuer ==
  ASSUME NEW x, NEW y, Only(IssuerFields, x, y)
  PROVE  EqID(x, y) /\ EqLife(x, y) /\ EqKey(x, y) /\ EqContext(x, y) /\ EqUser(x, y) /\ EqTable(x, y) /\ EqSig(x, y)
<1>1. \A f \in Fields \ IssuerFields : y[f] = x[f]
  BY DEF Only
<1> QED BY <1>1 DEF IssuerFields, Fields, Flags, Contents, EqID, EqLife, EqKey, EqContext, EqUser, EqTable, EqSig

LEMMA OnlyLife ==
  ASSUME NEW x, NEW y, Only(LifeFields, x, y)
  PROVE  EqID(x, y) /\ EqIssuer(x, y) /\ EqKey(x, y) /\ EqContext(x, y) /\ EqUser(x, y) /\ EqTable(x, y) /\ EqSig(x, y)
<1>1. \A f \in Fields \ LifeFields : y[f] = x[f]
  BY DEF Only
<1> QED BY <1>1 DEF LifeFields, Fields, Flags, Contents, EqID, EqIssuer, EqKey, EqContext, EqUser, EqTable, EqSig

LEMMA OnlyKey ==
  ASSUME NEW x, NEW y, Only(KeyFields, x, y)
  PROVE  EqID(x, y) /\ EqIssuer(x, y) /\ EqLife(x, y) /\ EqContext(x, y) /\ EqUser(x, y) /\ EqTable(x, y) /\ EqSig(x, y)
<1>1. \A f \in Fields \ KeyFields : y[f] = x[f]
  BY DEF Only
<1> QED BY <1>1 DEF KeyFields, Fields, Flags, Contents, EqID, EqIssuer, EqLife, EqContext, EqUser, EqTable, EqSig

LEMMA OnlyContext ==
  ASSUME NEW x, NEW y, Only(ContextFields, x, y)
  PROVE  EqID(x, y) /\ EqIssuer(x, y) /\ EqLife(x, y) /\ EqKey(x, y) /\ EqUser(x, y) /\ EqTable(x, y) /\ EqSig(x, y)
<1>1. \A f \in Fields \ ContextFields : y[f] = x[f]
  BY DEF Only
<1> QED BY <1>1 DEF ContextFields, Fields, Flags, Contents, EqID, EqIssuer, EqLife, EqKey, EqUser, EqTable, EqSig

LEMMA OnlyUser ==
  ASSUME NEW x, NEW y, Only(UserFields, x, y)
  PROVE  EqID(x, y) /\ EqIssuer(x, y) /\ EqLife(x, y) /\ EqKey(x, y) /\ EqContext(x, y) /\ EqTable(x, y) /\ EqSig(x, y)
<1>1. \A f \in Fields \ UserFields : y[f] = x[f]
  BY DEF Only
<1> QED BY <1>1 DEF UserFields, Fields, Flags, Contents, EqID, EqIssuer, EqLife, EqKey, EqContext, EqTable, EqSig

LEMMA OnlyTable ==
  ASSUME NEW x, NEW y, Only(TableFields, x, y)
  PROVE  EqID(x, y) /\ EqIssuer(x, y) /\ EqLife(x, y) /\ EqKey(x, y) /\ EqContext(x, y) /\ EqUser(x, y) /\ EqSig(x, y)
<1>1. \A f \in Fields \ TableFields : y[f] = x[f]
  BY DEF Only
<1> QED BY <1>1 DEF TableFields, Fields, Flags, Contents, EqID, EqIssuer, EqLife, EqKey, EqContext, EqUser, EqSig

LEMMA OnlySig ==
  ASSUME NEW x, NEW y, Only(SigFields, x, y)
  PROVE  EqID(x, y) /\ EqIssuer(x, y) /\ EqLife(x, y) /\ EqKey(x, y) /\ EqContext(x, y) /\ EqUser(x, y) /\ EqTable(x, y)
<1>1. \A f \in Fields \ SigFields : y[f] = x[f]
  BY DEF Only
<1> QED BY <1>1 DEF SigFields, Fields, Flags, Contents, EqID, EqIssuer, EqLife, EqKey, EqContext, EqUser, EqTable

\* What a strict reader has taken over from a body.
ContextTaken(k, y, c) ==
  /\ c # Absent /\ c[1].type = k /\ c[1].cnr # <<"bad">> /\ y.verb = c[1].verb
  /\ k = "object" => /\ "bad" \notin c[1].objs /\ y.objs = c[1].objs
                     /\ c[1].cnr # Absent /\ y.cnrSet /\ y.cnr = c[1].cnr[1]
  /\ k = "container" => /\ (y.cnrSet <=> ~c[1].wildcard) /\ (~y.cnrSet => c[1].cnr = Absent)
                        /\ y.cnrSet => c[1].cnr # Absent /\ y.cnr = c[1].cnr[1]
SessionTaken(k, y, b) ==
  /\ b.id # Absent /\ b.id # <<"short">> /\ b.id # <<"v1">> /\ y.idSet /\ y.id = b.id[1]
  /\ b.issuer # Absent /\ b.issuer # <<"bad">> /\ y.issuerSet /\ y.issuer = b.issuer[1]
  /\ b.life # Absent /\ y.lifetimeSet /\ y.life = b.life[1]
  /\ y.authKey = b.key
  /\ ContextTaken(k, y, b.ctx)
BearerTaken(y, b) ==
  /\ b.table # Absent /\ y.tableSet /\ y.table = b.table[1]
  /\ b.user # <<"bad">> /\ (y.userSet <=> b.user # Absent) /\ (b.user # Absent => y.user = b.user[1])
  /\ b.life # Absent /\ y.lifetimeSet /\ y.life = b.life[1]
SigTaken(y, s) == s # Absent /\ y.sigSet /\ y.sig = s[1]

\* The signature is the one before the reading, or the message's.
SigFrom(x, y, s) == y.sigSet => (x.sigSet /\ y.sig = x.sig) \/ (s # Absent /\ y.sig = s[1])

LEMMA SessionReaders ==
  ASSUME NEW k \in {"object", "container"}, NEW x, IsToken(x), Own(k, x), NEW strict \in BOOLEAN,
         NEW b, NEW s, b.ctx = Absent \/ b.ctx[1].wildcard \in BOOLEAN,
         NEW r, r = ReadSig(ReadContext(ReadKey(ReadLifetime(ReadIssuer(ReadID([x |-> x, err |-> FALSE],
                      b.id, strict), b.issuer, strict), b.life, strict), b.key, strict), k, b.ctx, strict),
                      s, strict)
  PROVE  /\ IsReading(r) /\ Own(k, r.x) /\ SigFrom(x, r.x, s)
         /\ ~r.err /\ strict => SessionTaken(k, r.x, b) /\ SigTaken(r.x, s)
<1>0. PICK s0 : s0 = [x |-> x, err |-> FALSE]
  OBVIOUS
<1>1. PICK s1 : s1 = ReadID(s0, b.id, strict)
  OBVIOUS
<1>2. PICK s2 : s2 = ReadIssuer(s1, b.issuer, strict)
  OBVIOUS
<1>3. PICK s3 : s3 = ReadLifetime(s2, b.life, strict)
  OBVIOUS
<1>4. PICK s4 : s4 = ReadKey(s3, b.key, strict)
  OBVIOUS
<1>5. PICK s5 : s5 = ReadContext(s4, k, b.ctx, strict)
  OBVIOUS
<1>6. r = ReadSig(s5, s, strict)
  BY <1>0, <1>1, <1>2, <1>3, <1>4, <1>5
<1>10. IsReading(s0) /\ s0.x = x
  BY <1>0 DEF IsReading
<1>11. /\ Reads(IDFields, s0, s1)
       /\ ~s1.err => b.id # <<"short">> /\ b.id # <<"v1">>
       /\ ~s1.err /\ strict => b.id # Absent /\ s1.x.idSet /\ s1.x.id = b.id[1]
  BY <1>1, <1>10, ReadIDIs
<1>12. /\ Reads(IssuerFields, s1, s2)
       /\ ~s2.err => b.issuer # <<"bad">>
       /\ ~s2.err /\ strict => b.issuer # Absent /\ s2.x.issuerSet /\ s2.x.issuer = b.issuer[1]
  BY <1>2, <1>11, ReadIssuerIs DEF Reads
<1>13. /\ Reads(LifeFields, s2, s3)
       /\ ~s3.err /\ strict => b.life # Absent /\ s3.x.lifetimeSet /\ s3.x.life = b.life[1]
  BY <1>3, <1>12, ReadLifetimeIs DEF Reads
<1>14. Reads(KeyFields, s3, s4) /\ (~s4.err => s4.x.authKey = b.key)
  BY <1>4, <1>13, ReadKeyIs DEF Reads
<1>15. /\ Reads(ContextFields, s4, s5) /\ (k = "container" => s5.x.objs = s4.x.objs)
       /\ ~s5.err /\ strict => ContextTaken(k, s5.x, b.ctx)
  <2>1. IsReading(s4)
    BY <1>14 DEF Reads
  <2> QED BY <1>5, <2>1, ReadContextIs DEF ContextTaken
<1>16. /\ Reads(SigFields, s5, r)
       /\ ~r.err /\ strict => s # Absent /\ r.x.sigSet /\ r.x.sig = s[1]
       /\ r.x.sigSet => (s5.x.sigSet /\ r.x.sig = s5.x.sig) \/ (s # Absent /\ r.x.sig = s[1])
  BY <1>6, <1>15, ReadSigIs DEF Reads
<1>20. /\ ~r.err => ~s5.err /\ ~s4.err /\ ~s3.err /\ ~s2.err /\ ~s1.err
       /\ Only(IDFields, x, s1.x) /\ Only(IssuerFields, s1.x, s2.x) /\ Only(LifeFields, s2.x, s3.x)
       /\ Only(KeyFields, s3.x, s4.x) /\ Only(ContextFields, s4.x, s5.x) /\ Only(SigFields, s5.x, r.x)
       /\ IsReading(r)
  BY <1>10, <1>11, <1>12, <1>13, <1>14, <1>15, <1>16 DEF Reads
<1>21. EqUser(x, s1.x) /\ EqContext(x, s1.x) /\ EqSig(x, s1.x)
  BY <1>20, OnlyID
<1>22. EqID(s1.x, s2.x) /\ EqUser(s1.x, s2.x) /\ EqContext(s1.x, s2.x) /\ EqSig(s1.x, s2.x)
  BY <1>20, OnlyIssuer
<1>23. /\ EqID(s2.x, s3.x) /\ EqIssuer(s2.x, s3.x)
       /\ EqUser(s2.x, s3.x) /\ EqContext(s2.x, s3.x) /\ EqSig(s2.x, s3.x)
  BY <1>20, OnlyLife
<1>24. /\ EqID(s3.x, s4.x) /\ EqIssuer(s3.x, s4.x) /\ EqLife(s3.x, s4.x)
       /\ EqUser(s3.x, s4.x) /\ EqContext(s3.x, s4.x) /\ EqSig(s3.x, s4.x)
  BY <1>20, OnlyKey
<1>25. /\ EqID(s4.x, s5.x) /\ EqIssuer(s4.x, s5.x) /\ EqLife(s4.x, s5.x) /\ EqKey(s4.x, s5.x)
       /\ EqUser(s4.x, s5.x) /\ EqSig(s4.x, s5.x)
  BY <1>20, OnlyContext
<1>26. /\ EqID(s5.x, r.x) /\ EqIssuer(s5.x, r.x) /\ EqLife(s5.x, r.x) /\ EqKey(s5.x, r.x)
       /\ EqUser(s5.x, r.x) /\ EqContext(s5.x, r.x)
  BY <1>20, OnlySig
<1>30. EqUser(x, r.x)
  BY <1>21, <1>22, <1>23, <1>24, <1>25, <1>26 DEF EqUser
<1>31. EqContext(x, s4.x)
  BY <1>21, <1>22, <1>23, <1>24 DEF EqContext
<1>32. Own(k, r.x)
  BY <1>15, <1>26, <1>30, <1>31 DEF Own, EqUser, EqContext
<1>33. EqSig(x, s5.x)
  BY <1>21, <1>22, <1>23, <1>24, <1>25 DEF EqSig
<1>34. SigFrom(x, r.x, s)
  <2>1. s5.x.sigSet = x.sigSet /\ s5.x.sig = x.sig
    BY <1>33 DEF EqSig
  <2> QED BY <1>16, <2>1 DEF SigFrom
<1>40. ASSUME ~r.err, strict PROVE SessionTaken(k, r.x, b) /\ SigTaken(r.x, s)
  <2>1. r.x.idSet = s1.x.idSet /\ r.x.id = s1.x.id
    BY <1>22, <1>23, <1>24, <1>25, <1>26 DEF EqID
  <2>2. r.x.issuerSet = s2.x.issuerSet /\ r.x.issuer = s2.x.issuer
    BY <1>23, <1>24, <1>25, <1>26 DEF EqIssuer
  <2>3. r.x.lifetimeSet = s3.x.lifetimeSet /\ r.x.life = s3.x.life
    BY <1>24, <1>25, <1>26 DEF EqLife
  <2>4. r.x.authKey = s4.x.authKey
    BY <1>25, <1>26 DEF EqKey
  <2>5. /\ r.x.verb = s5.x.verb /\ r.x.cnrSet = s5.x.cnrSet
        /\ r.x.cnr = s5.x.cnr /\ r.x.objs = s5.x.objs
    BY <1>26 DEF EqContext
  <2>6. ContextTaken(k, s5.x, b.ctx) => ContextTaken(k, r.x, b.ctx)
    BY <2>5 DEF ContextTaken
  <2>7. ContextTaken(k, r.x, b.ctx)
    BY <1>15, <1>20, <1>40, <2>6
  <2>8. SigTaken(r.x, s)
    BY <1>16, <1>40 DEF SigTaken
  <2>9. b.id # Absent /\ b.id # <<"short">> /\ b.id # <<"v1">> /\ s1.x.idSet /\ s1.x.id = b.id[1]
    BY <1>11, <1>20, <1>40
  <2>10. b.issuer # Absent /\ b.issuer # <<"bad">> /\ s2.x.issuerSet /\ s2.x.issuer = b.issuer[1]
    BY <1>12, <1>20, <1>40
  <2>11. b.life # Absent /\ s3.x.lifetimeSet /\ s3.x.life = b.life[1] /\ s4.x.authKey = b.key
    BY <1>13, <1>14, <1>20, <1>40
  <2> QED BY <2>1, <2>2, <2>3, <2>4, <2>7, <2>8, <2>9, <2>10, <2>11 DEF SessionTaken
<1> QED BY <1>20, <1>32, <1>34, <1>40

LEMMA BearerReaders ==
  ASSUME NEW x, IsToken(x), Own("bearer", x), NEW strict \in BOOLEAN, NEW b, NEW s,
         NEW r, r = ReadSig(ReadLifetime(ReadUser(ReadTable([x |-> x, err |-> FALSE],
                      b.table, strict), b.user), b.life, strict), s, strict)
  PROVE  /\ IsReading(r) /\ Own("bearer", r.x) /\ SigFrom(x, r.x, s)
         /\ ~r.err /\ strict => BearerTaken(r.x, b) /\ SigTaken(r.x, s)
<1>0. PICK s0 : s0 = [x |-> x, err |-> FALSE]
  OBVIOUS
<1>1. PICK s1 : s1 = ReadTable(s0, b.table, strict)
  OBVIOUS
<1>2. PICK s2 : s2 = ReadUser(s1, b.user)
  OBVIOUS
<1>3. PICK s3 : s3 = ReadLifetime(s2, b.life, strict)
  OBVIOUS
<1>6. r = ReadSig(s3, s, strict)
  BY <1>0, <1>1, <1>2, <1>3
<1>10. IsReading(s0) /\ s0.x = x /\ ~s0.err
  BY <1>0 DEF IsReading
<1>11. /\ Reads(TableFields, s0, s1)
       /\ ~s1.err /\ strict => b.table # Absent /\ s1.x.tableSet /\ s1.x.table = b.table[1]
  BY <1>1, <1>10, ReadTableIs
<1>12. /\ Reads(UserFields, s1, s2)
       /\ ~s2.err => /\ b.user # <<"bad">> /\ (s2.x.userSet <=> b.user # Absent)
                     /\ b.user # Absent => s2.x.user = b.user[1]
  BY <1>2, <1>11, ReadUserIs DEF Reads
<1>13. /\ Reads(LifeFields, s2, s3)
       /\ ~s3.err /\ strict => b.life # Absent /\ s3.x.lifetimeSet /\ s3.x.life = b.life[1]
  BY <1>3, <1>12, ReadLifetimeIs DEF Reads
<1>16. /\ Reads(SigFields, s3, r)
       /\ ~r.err /\ strict => s # Absent /\ r.x.sigSet /\ r.x.sig = s[1]
       /\ r.x.sigSet => (s3.x.sigSet /\ r.x.sig = s3.x.sig) \/ (s # Absent /\ r.x.sig = s[1])
  BY <1>6, <1>13, ReadSigIs DEF Reads
<1>20. /\ ~r.err => ~s3.err /\ ~s2.err /\ ~s1.err
       /\ Only(TableFields, x, s1.x) /\ Only(UserFields, s1.x, s2.x)
       /\ Only(LifeFields, s2.x, s3.x) /\ Only(SigFields, s3.x, r.x) /\ IsReading(r)
  BY <1>10, <1>11, <1>12, <1>13, <1>16 DEF Reads
<1>21. EqID(x, s1.x) /\ EqIssuer(x, s1.x) /\ EqKey(x, s1.x) /\ EqContext(x, s1.x) /\ EqSig(x, s1.x)
  BY <1>20, OnlyTable
<1>22. /\ EqID(s1.x, s2.x) /\ EqIssuer(s1.x, s2.x) /\ EqKey(s1.x, s2.x) /\ EqContext(s1.x, s2.x)
       /\ EqTable(s1.x, s2.x) /\ EqSig(s1.x, s2.x)
  BY <1>20, OnlyUser
<1>23. /\ EqID(s2.x, s3.x) /\ EqIssuer(s2.x, s3.x) /\ EqKey(s2.x, s3.x) /\ EqContext(s2.x, s3.x)
       /\ EqTable(s2.x, s3.x) /\ EqUser(s2.x, s3.x) /\ EqSig(s2.x, s3.x)
  BY <1>20, OnlyLife
<1>24. /\ EqID(s3.x, r.x) /\ EqIssuer(s3.x, r.x) /\ EqKey(s3.x, r.x) /\ EqContext(s3.x, r.x)
       /\ EqTable(s3.x, r.x) /\ EqUser(s3.x, r.x) /\ EqLife(s3.x, r.x)
  BY <1>20, OnlySig
<1>30. EqID(x, r.x) /\ EqIssuer(x, r.x)
  BY <1>21, <1>22, <1>23, <1>24 DEF EqID, EqIssuer
<1>31. EqKey(x, r.x) /\ EqContext(x, r.x)
  BY <1>21, <1>22, <1>23, <1>24 DEF EqKey, EqContext
<1>32. Own("bearer", r.x)
  BY <1>30, <1>31 DEF Own, EqID, EqIssuer, EqKey, EqContext
<1>34. SigFrom(x, r.x, s)
  <2>1. s3.x.sigSet = x.sigSet /\ s3.x.sig = x.sig
    BY <1>21, <1>22, <1>23 DEF EqSig
  <2> QED BY <1>16, <2>1 DEF SigFrom
<1>40. ASSUME ~r.err, strict PROVE BearerTaken(r.x, b) /\ SigTaken(r.x, s)
  <2>1. r.x.tableSet = s1.x.tableSet /\ r.x.table = s1.x.table
    BY <1>22, <1>23, <1>24 DEF EqTable
  <2>2. r.x.userSet = s2.x.userSet /\ r.x.user = s2.x.user
    BY <1>23, <1>24 DEF EqUser
  <2>3. r.x.lifetimeSet = s3.x.lifetimeSet /\ r.x.life = s3.x.life
    BY <1>24 DEF EqLife
  <2>4. SigTaken(r.x, s)
    BY <1>16, <1>40 DEF SigTaken
  <2>5. b.table # Absent /\ s1.x.tableSet /\ s1.x.table = b.table[1]
    BY <1>11, <1>20, <1>40
  <2>6. /\ b.user # <<"bad">> /\ (s2.x.userSet <=> b.user # Absent)
        /\ b.user # Absent => s2.x.user = b.user[1]
    BY <1>12, <1>20, <1>40
  <2>7. b.life # Absent /\ s3.x.lifetimeSet /\ s3.x.life = b.life[1]
    BY <1>13, <1>20, <1>40
  <2> QED BY <2>1, <2>2, <2>3, <2>4, <2>5, <2>6, <2>7 DEF BearerTaken
<1> QED BY <1>20, <1>32, <1>34, <1>40

Sound(k, m) == k # "bearer" /\ m.body # Absent =>
                 m.body[1].ctx = Absent \/ m.body[1].ctx[1].wildcard \in BOOLEAN
Taken(k, y, b) == IF k = "bearer" THEN BearerTaken(y, b) ELSE SessionTaken(k, y, b)

LEMMA ReadFromIs ==
  ASSUME NEW k \in Kinds, NEW x, IsToken(x), Own(k, x), NEW strict \in BOOLEAN, NEW m, Sound(k, m)
  PROVE  LET r == readFromV2(x, k, m, strict) IN
         /\ IsReading(r) /\ Own(k, r.x) /\ SigFrom(x, r.x, m.sig)
         /\ ~r.err /\ strict => m.body # Absent /\ Taken(k, r.x, m.body[1]) /\ SigTaken(r.x, m.sig)
<1> DEFINE r == readFromV2(x, k, m, strict)
<1>1. CASE strict /\ m.body = Absent
  <2>1. r = Failed(x)
    BY <1>1 DEF readFromV2, sessionReadFromV2, bearerReadFromV2
  <2>2. r.x = x /\ r.err = TRUE
    BY <2>1, ReadingIs
  <2> HIDE DEF r
  <2> QED BY <2>2 DEF r, IsReading, SigFrom
<1>2. CASE ~(strict /\ m.body = Absent) /\ k = "bearer"
  <2>1. PICK b : b = IF m.body = Absent THEN EmptyBearer ELSE m.body[1]
    OBVIOUS
  <2>2. r = ReadSig(ReadLifetime(ReadUser(ReadTable([x |-> x, err |-> FALSE],
              b.table, strict), b.user), b.life, strict), m.sig, strict)
    BY <1>2, <2>1 DEF readFromV2, bearerReadFromV2
  <2> HIDE DEF r
  <2>3. /\ IsReading(r) /\ Own("bearer", r.x) /\ SigFrom(x, r.x, m.sig)
        /\ ~r.err /\ strict => BearerTaken(r.x, b) /\ SigTaken(r.x, m.sig)
    BY <1>2, <2>2, BearerReaders
  <2>4. strict => m.body # Absent /\ b = m.body[1]
    BY <1>2, <2>1
  <2> QED BY <1>2, <2>3, <2>4 DEF r, Taken
<1>3. CASE ~(strict /\ m.body = Absent) /\ k # "bearer"
  <2>1. PICK b : b = IF m.body = Absent THEN EmptySession ELSE m.body[1]
    OBVIOUS
  <2>2. r = ReadSig(ReadContext(ReadKey(ReadLifetime(ReadIssuer(ReadID([x |-> x, err |-> FALSE],
              b.id, strict), b.issuer, strict), b.life, strict), b.key, strict), k, b.ctx, strict),
              m.sig, strict)
    BY <1>3, <2>1 DEF readFromV2, sessionReadFromV2
  <2> HIDE DEF r
  <2>3. b.ctx = Absent \/ b.ctx[1].wildcard \in BOOLEAN
    BY <1>3, <2>1 DEF EmptySession, Sound
  <2>4. k \in {"object", "container"}
    BY <1>3 DEF Kinds
  <2>5. /\ IsReading(r) /\ Own(k, r.x) /\ SigFrom(x, r.x, m.sig)
        /\ ~r.err /\ strict => SessionTaken(k, r.x, b) /\ SigTaken(r.x, m.sig)
    BY <2>2, <2>3, <2>4, SessionReaders
  <2>6. strict => m.body # Absent /\ b = m.body[1]
    BY <1>3, <2>1
  <2> QED BY <1>3, <2>5, <2>6 DEF r, Taken
<1> QED BY <1>1, <1>2, <1>3

LEMMA IfSetIs ==
  ASSUME NEW b \in BOOLEAN, NEW v
  PROVE  (IfSet(b, v) # Absent <=> b) /\ (b => IfSet(b, v)[1] = v)
  BY DEF IfSet, Absent

\* A body that was taken over whole says what the token says.
LEMMA TakenAgrees ==
  ASSUME NEW k \in Kinds, NEW x, IsToken(x), NEW y, IsToken(y),
         fillBody(k, x) # Absent, Taken(k, y, fillBody(k, x)[1])
  PROVE  Agree(k, y, x) /\ (k = "object" => y.cnrSet /\ y.cnr = x.cnr)
<1>0. /\ x.idSet \in BOOLEAN /\ x.issuerSet \in BOOLEAN /\ x.lifetimeSet \in BOOLEAN
      /\ x.cnrSet \in BOOLEAN /\ x.userSet \in BOOLEAN /\ x.tableSet \in BOOLEAN
      /\ y.idSet \in BOOLEAN /\ y.issuerSet \in BOOLEAN /\ y.lifetimeSet \in BOOLEAN
      /\ y.cnrSet \in BOOLEAN /\ y.userSet \in BOOLEAN /\ y.tableSet \in BOOLEAN
  BY DEF IsToken, Flags
<1>1. CASE k = "bearer"
  <2>1. PICK b : b = fillBody(k, x)[1]
    OBVIOUS
  <2>2. fillBody(k, x) = bearerBody(x) /\ BearerTaken(y, b)
    BY <1>1, <2>1 DEF fillBody, Taken
  <2>3. /\ b.table = IfSet(x.tableSet, x.table) /\ b.user = IfSet(x.userSet, x.user)
        /\ b.life = IfSet(x.lifetimeSet, x.life)
    BY <2>1, <2>2 DEF bearerBody
  <2>4. x.tableSet /\ y.tableSet /\ y.table = x.table
    BY <1>0, <2>2, <2>3, IfSetIs DEF BearerTaken
  <2>5. x.lifetimeSet /\ y.lifetimeSet /\ y.life = x.life
    BY <1>0, <2>2, <2>3, IfSetIs DEF BearerTaken
  <2>6. y.userSet = x.userSet /\ (x.userSet => y.user = x.user)
    BY <1>0, <2>2, <2>3, IfSetIs DEF BearerTaken
  <2> QED BY <1>0, <1>1, <2>4, <2>5, <2>6 DEF Agree, AgreeBearer
<1>2. CASE k # "bearer"
  <2>0. k \in {"object", "container"}
    BY <1>2 DEF Kinds
  <2>1. PICK b : b = sessionBody(k, x)
    OBVIOUS
  <2>2. SessionTaken(k, y, b)
    BY <1>2, <2>1 DEF fillBody, Taken
  <2>3. /\ b.id = IfSet(x.idSet, x.id) /\ b.issuer = IfSet(x.issuerSet, x.issuer)
        /\ b.life = IfSet(x.lifetimeSet, x.life) /\ b.key = x.authKey
        /\ b.ctx = <<writeContext(k, x)>>
    BY <2>1 DEF sessionBody
  <2>4. x.idSet /\ y.idSet /\ y.id = x.id
    BY <1>0, <2>2, <2>3, IfSetIs DEF SessionTaken
  <2>5. x.issuerSet /\ y.issuerSet /\ y.issuer = x.issuer
    BY <1>0, <2>2, <2>3, IfSetIs DEF SessionTaken
  <2>6. x.lifetimeSet /\ y.lifetimeSet /\ y.life = x.life /\ y.authKey = x.authKey
    BY <1>0, <2>2, <2>3, IfSetIs DEF SessionTaken
  <2>7. PICK c : c = writeContext(k, x)
    OBVIOUS
  <2>8. ContextTaken(k, y, <<c>>)
    BY <2>2, <2>3, <2>7 DEF SessionTaken
  <2>9. c.verb = x.verb /\ c.cnr = IfSet(x.cnrSet, x.cnr) /\ (k = "object" => c.objs = x.objs)
        /\ (k = "container" => c.wildcard = ~x.cnrSet)
    BY <2>0, <2>7 DEF writeContext, objectContext, containerContext
  <2>10. CASE k = "object"
    <3>1. y.verb = x.verb /\ y.objs = x.objs /\ IfSet(x.cnrSet, x.cnr) # Absent
          /\ y.cnrSet /\ y.cnr = IfSet(x.cnrSet, x.cnr)[1]
      BY <2>8, <2>9, <2>10 DEF ContextTaken
    <3>2. x.cnrSet /\ y.cnrSet /\ y.cnr = x.cnr
      BY <1>0, <3>1, IfSetIs
    <3> QED BY <1>0, <2>4, <2>5, <2>6, <2>10, <3>1, <3>2 DEF Agree, AgreeSession
  <2>11. CASE k = "container"
    <3>1. /\ y.verb = x.verb /\ (y.cnrSet <=> x.cnrSet)
          /\ y.cnrSet => y.cnr = IfSet(x.cnrSet, x.cnr)[1]
      BY <1>0, <2>8, <2>9, <2>11 DEF ContextTaken
    <3>2. y.cnrSet = x.cnrSet /\ (y.cnrSet => y.cnr = x.cnr)
      BY <1>0, <3>1, IfSetIs
    <3> QED BY <1>0, <2>4, <2>5, <2>6, <2>11, <3>1, <3>2 DEF Agree, AgreeSession
  <2> QED BY <2>0, <2>10, <2>11
<1> QED BY <1>1, <1>2

\* A strict reader takes nothing over from a message that was damaged.
LEMMA DamageNoticed ==
  ASSUME kind \in {"object", "container"}, NEW x, NEW damage \in Damages, NEW y,
         SessionTaken(kind, y, DamagedSession(sessionBody(kind, x), damage))
  PROVE  DamagedSession(sessionBody(kind, x), damage) = sessionBody(kind, x)
<1>1. PICK b : b = sessionBody(kind, x)
  OBVIOUS
<1>2. PICK d : d = DamagedSession(b, damage)
  OBVIOUS
<1>3. PICK c : c = writeContext(kind, x)
  OBVIOUS
<1>4. b = [id |-> b.id, issuer |-> b.issuer, life |-> b.life, key |-> b.key, ctx |-> <<c>>]
  BY <1>1, <1>3 DEF sessionBody
<1>5. c = [type |-> c.type, verb |-> c.verb, wildcard |-> c.wildcard, cnr |-> c.cnr, objs |-> c.objs]
  BY <1>3 DEF writeContext, objectContext, containerContext
<1>6. /\ d.id # <<"short">> /\ d.id # <<"v1">> /\ d.issuer # <<"bad">> /\ d.ctx # Absent
      /\ d.ctx[1].type = kind /\ d.ctx[1].cnr # <<"bad">>
      /\ kind = "object" => "bad" \notin d.ctx[1].objs
  BY <1>1, <1>2 DEF SessionTaken, ContextTaken
<1>7. damage # "id" /\ damage # "version" /\ damage # "issuer" /\ damage # "context"
  BY <1>2, <1>4, <1>6 DEF DamagedSession
<1>8. damage # "cnr"
  <2> SUFFICES ASSUME damage = "cnr" PROVE FALSE
    OBVIOUS
  <2>1. d = [b EXCEPT !.ctx[1].cnr = <<"bad">>]
    BY <1>2 DEF DamagedSession
  <2>2. d.ctx = <<[c EXCEPT !.cnr = <<"bad">>]>>
    BY <1>4, <2>1
  <2> QED BY <1>5, <1>6, <2>2
<1>9. damage # "type"
  <2> SUFFICES ASSUME damage = "type" PROVE FALSE
    OBVIOUS
  <2>1. d = [b EXCEPT !.ctx[1].type = "other"]
    BY <1>2 DEF DamagedSession
  <2>2. d.ctx = <<[c EXCEPT !.type = "other"]>>
    BY <1>4, <2>1
  <2> QED BY <1>5, <1>6, <2>2
<1>10. ~(damage = "objs" /\ kind = "object")
  <2> SUFFICES ASSUME damage = "objs", kind = "object" PROVE FALSE
    OBVIOUS
  <2>1. d = [b EXCEPT !.ctx[1].objs = {"bad"}]
    BY <1>2 DEF DamagedSession
  <2>2. d.ctx = <<[c EXCEPT !.objs = {"bad"}]>>
    BY <1>4, <2>1
  <2> QED BY <1>5, <1>6, <2>2
<1>11. d = b
  BY <1>2, <1>7, <1>8, <1>9, <1>10 DEF DamagedSession
<1> QED BY <1>1, <1>2, <1>11

LEMMA DamagedSound ==
  ASSUME kind \in Kinds, NEW x, IsToken(x), NEW damage \in Damages
  PROVE  Sound(kind, Damaged(WriteToV2(kind, x), damage))
<1>1. PICK m : m = Damaged(WriteToV2(kind, x), damage)
  OBVIOUS
<1>2. m.body = DamagedBody(fillBody(kind, x), damage)
  BY <1>1 DEF Damaged, WriteToV2
<1> SUFFICES ASSUME kind # "bearer", m.body # Absent
             PROVE  m.body[1].ctx = Absent \/ m.body[1].ctx[1].wildcard \in BOOLEAN
  BY <1>1 DEF Sound
<1>3. PICK b : b = sessionBody(kind, x)
  OBVIOUS
<1>4. PICK d : d = DamagedSession(b, damage)
  OBVIOUS
<1>5. PICK c : c = writeContext(kind, x)
  OBVIOUS
<1>6. m.body = <<d>>
  BY <1>2, <1>3, <1>4 DEF DamagedBody, fillBody
<1>7. b = [id |-> b.id, issuer |-> b.issuer, life |-> b.life, key |-> b.key, ctx |-> <<c>>]
  BY <1>3, <1>5 DEF sessionBody
<1>8. c = [type |-> c.type, verb |-> c.verb, wildcard |-> c.wildcard, cnr |-> c.cnr, objs |-> c.objs]
      /\ c.wildcard \in BOOLEAN
  BY <1>5 DEF writeContext, objectContext, containerContext, IsToken, Flags
<1>9. CASE damage = "cnr"
  <2>1. d = [b EXCEPT !.ctx[1].cnr = <<"bad">>]
    BY <1>4, <1>9 DEF DamagedSession
  <2>2. d.ctx = <<[c EXCEPT !.cnr = <<"bad">>]>>
    BY <1>7, <2>1
  <2> QED BY <1>6, <1>8, <2>2
<1>10. CASE damage = "type"
  <2>1. d = [b EXCEPT !.ctx[1].type = "other"]
    BY <1>4, <1>10 DEF DamagedSession
  <2>2. d.ctx = <<[c EXCEPT !.type = "other"]>>
    BY <1>7, <2>1
  <2> QED BY <1>6, <1>8, <2>2
<1>11. CASE damage = "objs" /\ kind = "object"
  <2>1. d = [b EXCEPT !.ctx[1].objs = {"bad"}]
    BY <1>4, <1>11 DEF DamagedSession
  <2>2. d.ctx = <<[c EXCEPT !.objs = {"bad"}]>>
    BY <1>7, <2>1
  <2> QED BY <1>6, <1>8, <2>2
<1>12. CASE damage \notin {"cnr", "type"} /\ ~(damage = "objs" /\ kind = "object")
  <2>1. d.ctx = b.ctx \/ d.ctx = Absent
    BY <1>4, <1>7, <1>12 DEF DamagedSession
  <2> QED BY <1>6, <1>7, <1>8, <2>1
<1> QED BY <1>9, <1>10, <1>11, <1>12

\* What a variable holds after a read of what an issuer has sent.
LEMMA DeliveredIs ==
  ASSUME kind \in Kinds, NEW x, Held(kind, x), NEW t, Issued(kind, t),
         NEW strict \in BOOLEAN, NEW damage \in Damages
  PROVE  LET r == readFromV2(x, kind, Damaged(WriteToV2(kind, t), damage), strict) IN
         /\ r.err \in BOOLEAN /\ Held(kind, r.x)
         /\ ~r.err /\ strict => /\ Agree(kind, r.x, t) /\ (kind = "object" => r.x.cnr = t.cnr)
                                /\ r.x.sigSet /\ t.sigSet /\ r.x.sig = t.sig
<1>0. IsToken(x) /\ Own(kind, x) /\ SigOK(kind, x) /\ IsToken(t) /\ SigOK(kind, t) /\ t.sigSet \in BOOLEAN
  BY DEF Held, Issued, IsToken, Flags
<1>1. PICK m : m = Damaged(WriteToV2(kind, t), damage)
  OBVIOUS
<1>2. m.body = DamagedBody(fillBody(kind, t), damage) /\ m.sig = IfSet(t.sigSet, t.sig)
  BY <1>1 DEF Damaged, WriteToV2
<1>3. PICK r : r = readFromV2(x, kind, m, strict)
  OBVIOUS
<1>4. Sound(kind, m)
  BY <1>0, <1>1, DamagedSound
<1>5. /\ IsReading(r) /\ Own(kind, r.x) /\ SigFrom(x, r.x, m.sig)
      /\ ~r.err /\ strict => m.body # Absent /\ Taken(kind, r.x, m.body[1]) /\ SigTaken(r.x, m.sig)
  BY <1>0, <1>3, <1>4, ReadFromIs
<1>6. SigOK(kind, r.x)
  <2>1. m.sig # Absent => t.sigSet /\ m.sig[1] = t.sig
    BY <1>0, <1>2, IfSetIs
  <2> QED BY <1>0, <1>5, <2>1 DEF SigFrom, SigOK
<1>7. Held(kind, r.x) /\ r.err \in BOOLEAN
  BY <1>5, <1>6 DEF Held, IsReading
<1>8. ASSUME ~r.err, strict
      PROVE  /\ Agree(kind, r.x, t) /\ (kind = "object" => r.x.cnr = t.cnr)
             /\ r.x.sigSet /\ t.sigSet /\ r.x.sig = t.sig
  <2>1. m.body # Absent /\ Taken(kind, r.x, m.body[1]) /\ SigTaken(r.x, m.sig) /\ IsToken(r.x)
    BY <1>5, <1>8 DEF IsReading
  <2>2. r.x.sigSet /\ t.sigSet /\ r.x.sig = t.sig
    BY <1>0, <1>2, <2>1, IfSetIs DEF SigTaken
  <2>3. fillBody(kind, t) # Absent /\ m.body = <<m.body[1]>>
    BY <1>2, <2>1 DEF DamagedBody
  <2>4. m.body[1] = fillBody(kind, t)[1]
    <3>1. CASE kind = "bearer"
      <4>1. m.body[1] = DamagedBearer(fillBody(kind, t)[1], damage)
        BY <1>2, <2>1, <3>1 DEF DamagedBody
      <4>2. m.body[1].user # <<"bad">>
        BY <2>1, <3>1 DEF Taken, BearerTaken
      <4>3. "user" \in DOMAIN (fillBody(kind, t)[1])
        BY <2>3, <3>1 DEF fillBody, bearerBody
      <4> QED BY <4>1, <4>2, <4>3 DEF DamagedBearer
    <3>2. CASE kind # "bearer"
      <4>1. fillBody(kind, t)[1] = sessionBody(kind, t) /\ kind \in {"object", "container"}
        BY <3>2 DEF fillBody, Kinds
      <4>2. m.body[1] = DamagedSession(sessionBody(kind, t), damage)
        BY <1>2, <2>1, <3>2, <4>1 DEF DamagedBody
      <4>3. SessionTaken(kind, r.x, DamagedSession(sessionBody(kind, t), damage))
        BY <2>1, <3>2, <4>2 DEF Taken
      <4> QED BY <4>1, <4>2, <4>3, DamageNoticed
    <3> QED BY <3>1, <3>2
  <2>5. Taken(kind, r.x, fillBody(kind, t)[1])
    BY <2>1, <2>4
  <2> QED BY <1>0, <2>1, <2>2, <2>3, <2>5, TakenAgrees
<1> QED BY <1>1, <1>3, <1>7, <1>8

-----------------------------------------------------------------------------
(* Tokens: the calls *)

TokenInv ==
  /\ kind \in Kinds
  /\ Issued(kind, tok)
  /\ Held(kind, got)
  /\ readHow = "strict" =>
       /\ IsToken(sentTok) /\ Own(kind, sentTok)
       /\ Agree(kind, got, sentTok) /\ (kind = "object" => got.cnr = sentTok.cnr)
       /\ got.sigSet /\ sentTok.sigSet /\ got.sig = sentTok.sig

LEMMA ZeroIsToken == \A k \in Kinds : Issued(k, ZeroToken) /\ Held(k, ZeroToken)
<1>1. IsToken(ZeroToken)
  <2>1. DOMAIN ZeroToken = Fields
    BY DEF ZeroToken, Fields, Flags, Contents
  <2>2. ZeroToken = [f \in DOMAIN ZeroToken |-> ZeroToken[f]]
    BY DEF ZeroToken
  <2>3. /\ ZeroToken.idSet = FALSE /\ ZeroToken.issuerSet = FALSE /\ ZeroToken.lifetimeSet = FALSE
        /\ ZeroToken.cnrSet = FALSE /\ ZeroToken.userSet = FALSE /\ ZeroToken.tableSet = FALSE
        /\ ZeroToken.sigSet = FALSE
    BY DEF ZeroToken
  <2>4. \A f \in Flags : ZeroToken[f] \in BOOLEAN
    BY <2>3 DEF Flags
  <2> QED BY <2>1, <2>2, <2>4 DEF IsToken
<1>2. \A k \in Kinds : Own(k, ZeroToken)
  BY DEF Own, ZeroToken
<1>3. Unbound(ZeroToken) /\ ~ZeroToken.sigSet
  BY DEF Unbound, ZeroToken
<1> QED BY <1>1, <1>2, <1>3 DEF Issued, Held, SigOK

LEMMA SignedIs ==
  ASSUME NEW k \in Kinds, NEW x, IsToken(x), Own(k, x), Unbound(x), NEW u
  PROVE  Issued(k, Signed(k, x, u))
<1>1. PICK y : y = IF k = "bearer" THEN bearerIssued(x, u) ELSE sessionIssued(x, u)
  OBVIOUS
<1>2. IsToken(y) /\ Own(k, y) /\ Unbound(y)
  <2>1. CASE k = "bearer" \/ x.issuerSet
    BY <1>1, <2>1 DEF bearerIssued, sessionIssued
  <2>2. CASE k # "bearer" /\ ~x.issuerSet
    <3>1. PICK a : a = [x EXCEPT !["issuer"] = u]
      OBVIOUS
    <3>2. y = [a EXCEPT !["issuerSet"] = TRUE]
      BY <1>1, <2>2, <3>1 DEF sessionIssued
    <3>3. "issuer" \in Contents /\ "issuerSet" \in Flags
      BY DEF Contents, Flags
    <3>4. IsToken(a) /\ Only({"issuer"}, x, a)
      BY <3>1, <3>3, ContentSet
    <3>5. IsToken(y) /\ Only({"issuerSet"}, a, y)
      BY <3>2, <3>3, <3>4, FlagSet
    <3>6. y.userSet = x.userSet /\ y.objs = x.objs /\ y.cnrSet = x.cnrSet /\ y.cnr = x.cnr
      BY <3>4, <3>5 DEF Only, Fields, Flags, Contents
    <3> QED BY <2>2, <3>5, <3>6 DEF Own, Unbound
  <2> QED BY <2>1, <2>2
<1>3. PICK s : s = [by |-> u, body |-> fillBody(k, y), said |-> <<Answers(k, y)>>]
  OBVIOUS
<1>4. PICK a : a = [y EXCEPT !["sigSet"] = TRUE]
  OBVIOUS
<1>5. PICK z : z = [a EXCEPT !["sig"] = s]
  OBVIOUS
<1>6. z = Signed(k, x, u)
  BY <1>1, <1>3, <1>4, <1>5 DEF Signed
<1>7. "sig" \in Contents /\ "sigSet" \in Flags
  BY DEF Contents, Flags
<1>8. IsToken(a) /\ Only({"sigSet"}, y, a)
  BY <1>2, <1>4, <1>7, FlagSet
<1>9. IsToken(z) /\ Only({"sig"}, a, z) /\ z["sig"] = s
  BY <1>5, <1>7, <1>8, ContentSet
<1>10. /\ z.idSet = y.idSet /\ z.issuerSet = y.issuerSet /\ z.authKey = y.authKey /\ z.verb = y.verb
       /\ z.userSet = y.userSet /\ z.objs = y.objs /\ z.cnrSet = y.cnrSet /\ z.cnr = y.cnr
  BY <1>8, <1>9 DEF Only, Fields, Flags, Contents
<1>11. Own(k, z) /\ Unbound(z)
  BY <1>2, <1>10 DEF Own, Unbound
<1>12. GoodSig(k, s)
  BY <1>2, <1>3 DEF GoodSig
<1> QED BY <1>6, <1>9, <1>11, <1>12 DEF Issued, SigOK

LEMMA CompleteIs == \A k \in Kinds : Issued(k, Complete(k))
<1> SUFFICES ASSUME NEW k \in Kinds PROVE Issued(k, Complete(k))
  OBVIOUS
<1>1. IsToken(ZeroToken)
  BY ZeroIsToken DEF Issued
<1>2. IsToken(Complete(k))
  <2>1. DOMAIN Complete(k) = Fields /\ Complete(k) = [f \in DOMAIN Complete(k) |-> Complete(k)[f]]
    BY <1>1 DEF IsToken, Complete
  <2>2. CASE k = "bearer"
    <3>1. /\ Complete(k).idSet = FALSE /\ Complete(k).issuerSet = FALSE /\ Complete(k).lifetimeSet = TRUE
          /\ Complete(k).cnrSet = FALSE /\ Complete(k).userSet = FALSE /\ Complete(k).tableSet = TRUE
          /\ Complete(k).sigSet = FALSE
      BY <2>2 DEF Complete, ZeroToken
    <3>2. \A f \in Flags : Complete(k)[f] \in BOOLEAN
      BY <3>1 DEF Flags
    <3> QED BY <2>1, <3>2 DEF IsToken
  <2>3. CASE k # "bearer"
    <3>1. /\ Complete(k).idSet = TRUE /\ Complete(k).issuerSet = FALSE /\ Complete(k).lifetimeSet = TRUE
          /\ Complete(k).cnrSet = TRUE /\ Complete(k).userSet = FALSE /\ Complete(k).tableSet = FALSE
          /\ Complete(k).sigSet = FALSE
      BY <2>3 DEF Complete, ZeroToken
    <3>2. \A f \in Flags : Complete(k)[f] \in BOOLEAN
      BY <3>1 DEF Flags
    <3> QED BY <2>1, <3>2 DEF IsToken
  <2> QED BY <2>2, <2>3
<1>3. Own(k, Complete(k)) /\ Unbound(Complete(k)) /\ ~Complete(k).sigSet
  BY DEF Own, Unbound, Complete, ZeroToken, Kinds
<1> QED BY <1>2, <1>3 DEF Issued, SigOK

LEMMA TokenInvInit == TokenInit => TokenInv
<1> SUFFICES ASSUME TokenInit PROVE TokenInv
  OBVIOUS
<1>1. kind \in Kinds /\ got = ZeroToken /\ readHow # "strict"
  BY DEF TokenInit, Kinds
<1>2. Issued(kind, tok)
  <2>1. Issued(kind, Complete(kind))
    BY <1>1, CompleteIs
  <2>2. \A u : Issued(kind, Signed(kind, Complete(kind), u))
    BY <1>1, <2>1, SignedIs DEF Issued
  <2> QED BY <2>1, <2>2 DEF TokenInit
<1> QED BY <1>1, <1>2, ZeroIsToken DEF TokenInv

LEMMA ChangeStep ==
  ASSUME TokenInv, NEW t, Issued(kind, t), Change(t)
  PROVE  TokenInv'
<1>1. tok' = t /\ UNCHANGED <<kind, got, sentTok, readHow>>
  BY DEF Change
<1> QED BY <1>1 DEF TokenInv

\* A setter of a content, and one of a content and its flag.
LEMMA ContentChange ==
  ASSUME TokenInv, NEW f \in Contents, f # "sig", f # "cnr", NEW e,
         Own(kind, [tok EXCEPT ![f] = e]), Change([tok EXCEPT ![f] = e])
  PROVE  TokenInv'
<1>1. PICK t : t = [tok EXCEPT ![f] = e]
  OBVIOUS
<1>2. IsToken(tok) /\ Unbound(tok) /\ SigOK(kind, tok)
  BY DEF TokenInv, Issued
<1>3. IsToken(t) /\ Only({f}, tok, t)
  BY <1>1, <1>2, ContentSet
<1>4. f \notin Flags /\ {"sigSet", "cnrSet", "sig", "cnr"} \subseteq Fields
  BY DEF Flags, Contents, Fields
<1>5. t.sigSet = tok.sigSet /\ t.sig = tok.sig /\ t.cnrSet = tok.cnrSet /\ t.cnr = tok.cnr
  BY <1>3, <1>4 DEF Only, Flags
<1>6. Issued(kind, t)
  BY <1>1, <1>2, <1>3, <1>5 DEF Issued, Unbound, SigOK
<1> QED BY <1>1, <1>6, ChangeStep

LEMMA FlaggedChange ==
  ASSUME TokenInv, NEW f \in Flags, f # "sigSet", NEW g \in Contents, g # "sig",
         g = "cnr" => f = "cnrSet", NEW e, NEW t, t = [tok EXCEPT ![g] = e, ![f] = TRUE],
         Own(kind, t), Change(t)
  PROVE  TokenInv'
<1>1. PICK a : a = [tok EXCEPT ![g] = e]
  OBVIOUS
<1>2. t = [a EXCEPT ![f] = TRUE]
  BY <1>1
<1>3. IsToken(tok) /\ Unbound(tok) /\ SigOK(kind, tok)
  BY DEF TokenInv, Issued
<1>4. IsToken(a) /\ Only({g}, tok, a)
  BY <1>1, <1>3, ContentSet
<1>5. IsToken(t) /\ Only({f}, a, t) /\ t[f] = TRUE
  <2>1. PICK b \in BOOLEAN : b = TRUE
    OBVIOUS
  <2>2. t = [a EXCEPT ![f] = b]
    BY <1>2, <2>1
  <2>3. IsToken([a EXCEPT ![f] = b]) /\ Only({f}, a, [a EXCEPT ![f] = b])
    BY <1>4, FlagSet
  <2>4. f \in Fields
    BY DEF Fields
  <2>5. t[f] = TRUE
    BY <1>2, <1>4, <2>4 DEF IsToken
  <2> QED BY <2>2, <2>3, <2>5
<1>6. f # g /\ f \notin Contents /\ g \notin Flags
  BY DEF Flags, Contents
<1>7. /\ "sigSet" \in Flags /\ "cnrSet" \in Flags /\ "sig" \in Contents /\ "cnr" \in Contents
      /\ Flags \subseteq Fields /\ Contents \subseteq Fields
  BY DEF Flags, Contents, Fields
<1>8. t["sigSet"] = tok["sigSet"] /\ t["sig"] = tok["sig"]
  BY <1>4, <1>5, <1>6, <1>7 DEF Only
<1>9. t["cnrSet"] \/ (t["cnrSet"] = tok["cnrSet"] /\ t["cnr"] = tok["cnr"])
  BY <1>4, <1>5, <1>6, <1>7 DEF Only
<1>10. Unbound(t) /\ SigOK(kind, t)
  BY <1>3, <1>8, <1>9 DEF Unbound, SigOK
<1>11. Issued(kind, t)
  BY <1>5, <1>10 DEF Issued
<1> QED BY <1>11, ChangeStep

\* The setters leave the fields of other types of tokens alone.
LEMMA OwnKept ==
  ASSUME TokenInv, NEW t, NEW fs, Only(fs, tok, t),
         kind = "bearer" => fs \cap {"idSet", "issuerSet", "authKey", "verb", "objs"} = {},
         kind # "bearer" => "userSet" \notin fs,
         kind = "container" => "objs" \notin fs
  PROVE  Own(kind, t)
<1>1. {"idSet", "issuerSet", "authKey", "verb", "objs", "userSet"} \subseteq Fields
  BY DEF Fields, Flags, Contents
<1>2. Own(kind, tok)
  BY DEF TokenInv, Issued
<1>3. kind = "bearer" => /\ t["idSet"] = tok["idSet"] /\ t["issuerSet"] = tok["issuerSet"]
                         /\ t["authKey"] = tok["authKey"] /\ t["verb"] = tok["verb"] /\ t["objs"] = tok["objs"]
  BY <1>1 DEF Only
<1>4. kind # "bearer" => t["userSet"] = tok["userSet"]
  BY <1>1 DEF Only
<1>5. kind = "container" => t["objs"] = tok["objs"]
  BY <1>1 DEF Only
<1> QED BY <1>2, <1>3, <1>4, <1>5 DEF Own

\* A content and its flag, set by a call for tokens of this type.
LEMMA SetterStep ==
  ASSUME TokenInv, NEW f \in Flags, f # "sigSet", NEW g \in Contents, g # "sig", g # "objs",
         g = "cnr" => f = "cnrSet", NEW e, Change([tok EXCEPT ![g] = e, ![f] = TRUE]),
         kind = "bearer" => f \notin {"idSet", "issuerSet"} /\ g \notin {"authKey", "verb"},
         kind # "bearer" => f # "userSet"
  PROVE  TokenInv'
<1>1. PICK t : t = [tok EXCEPT ![g] = e, ![f] = TRUE]
  OBVIOUS
<1>2. IsToken(tok) /\ f \in Fields /\ g \in Fields /\ f \notin Contents /\ g \notin Flags
  BY DEF TokenInv, Issued, Fields, Flags, Contents
<1>3. PICK fs : fs = {f, g}
  OBVIOUS
<1>4. Only(fs, tok, t)
  BY <1>1, <1>2, <1>3 DEF Only, IsToken
<1>5. /\ kind = "bearer" => fs \cap {"idSet", "issuerSet", "authKey", "verb", "objs"} = {}
      /\ kind # "bearer" => "userSet" \notin fs
      /\ "objs" \notin fs
  <2>1. "objs" \notin Flags /\ "userSet" \notin Contents /\ "authKey" \notin Flags /\ "verb" \notin Flags
        /\ "idSet" \notin Contents /\ "issuerSet" \notin Contents
    BY DEF Flags, Contents
  <2> QED BY <1>3, <2>1
<1>6. Own(kind, t)
  BY <1>4, <1>5, OwnKept
<1> QED BY <1>1, <1>6, FlaggedChange

LEMMA LifetimeStep ==
  ASSUME TokenInv, LifetimeCalls
  PROVE  TokenInv'
<1>1. "lifetimeSet" \in Flags /\ "life" \in Contents
  BY DEF Flags, Contents
<1>2. PICK l : Change([tok EXCEPT !["life"] = l, !["lifetimeSet"] = TRUE])
  BY DEF LifetimeCalls, SetExp, SetNbf, SetIat
<1> QED BY <1>1, <1>2, SetterStep

LEMMA SessionStep ==
  ASSUME TokenInv, SessionCalls
  PROVE  TokenInv'
<1>0. /\ {"idSet", "issuerSet", "cnrSet"} \subseteq Flags
      /\ {"id", "issuer", "cnr", "authKey", "verb", "objs"} \subseteq Contents
      /\ IsToken(tok) /\ Own(kind, tok)
  BY DEF Flags, Contents, TokenInv, Issued
<1>1. ASSUME SetID("i2") PROVE TokenInv'
  <2>1. kind # "bearer" /\ Change([tok EXCEPT !["id"] = "i2", !["idSet"] = TRUE])
    BY <1>1 DEF SetID
  <2> QED BY <1>0, <2>1, SetterStep
<1>2. ASSUME NEW u \in Users, SetIssuer(u) PROVE TokenInv'
  <2>1. kind # "bearer" /\ Change([tok EXCEPT !["issuer"] = u, !["issuerSet"] = TRUE])
    BY <1>2 DEF SetIssuer
  <2> QED BY <1>0, <2>1, SetterStep
<1>3. ASSUME BindContainer("c2") PROVE TokenInv'
  <2>1. kind # "bearer" /\ Change([tok EXCEPT !["cnr"] = "c2", !["cnrSet"] = TRUE])
    BY <1>3 DEF BindContainer
  <2> QED BY <1>0, <2>1, SetterStep
<1>4. ASSUME ApplyOnlyTo("c2") PROVE TokenInv'
  <2>1. kind # "bearer" /\ Change([tok EXCEPT !["cnr"] = "c2", !["cnrSet"] = TRUE])
    BY <1>4 DEF ApplyOnlyTo
  <2> QED BY <1>0, <2>1, SetterStep
<1>5. ASSUME SetAuthKey("k2") PROVE TokenInv'
  <2>1. kind # "bearer" /\ Change([tok EXCEPT !["authKey"] = "k2"])
    BY <1>5 DEF SetAuthKey
  <2>2. Only({"authKey"}, tok, [tok EXCEPT !["authKey"] = "k2"])
    BY <1>0, ContentSet
  <2>3. Own(kind, [tok EXCEPT !["authKey"] = "k2"])
    BY <2>1, <2>2, OwnKept
  <2> QED BY <1>0, <2>1, <2>3, ContentChange
<1>6. ASSUME ForVerb("v2") PROVE TokenInv'
  <2>1. kind # "bearer" /\ Change([tok EXCEPT !["verb"] = "v2"])
    BY <1>6 DEF ForVerb
  <2>2. Only({"verb"}, tok, [tok EXCEPT !["verb"] = "v2"])
    BY <1>0, ContentSet
  <2>3. Own(kind, [tok EXCEPT !["verb"] = "v2"])
    BY <2>1, <2>2, OwnKept
  <2> QED BY <1>0, <2>1, <2>3, ContentChange
<1>7. ASSUME NEW os, LimitByObjects(os) PROVE TokenInv'
  <2>1. kind = "object" /\ Change([tok EXCEPT !["objs"] = os])
    BY <1>7 DEF LimitByObjects
  <2>2. Only({"objs"}, tok, [tok EXCEPT !["objs"] = os])
    BY <1>0, ContentSet
  <2>3. Own(kind, [tok EXCEPT !["objs"] = os])
    BY <2>1, <2>2, OwnKept
  <2> QED BY <1>0, <2>1, <2>3, ContentChange
<1> QED BY <1>1, <1>2, <1>3, <1>4, <1>5, <1>6, <1>7 DEF SessionCalls

LEMMA BearerStep ==
  ASSUME TokenInv, BearerCalls
  PROVE  TokenInv'
<1>0. {"tableSet", "userSet"} \subseteq Flags /\ {"table", "user"} \subseteq Contents
  BY DEF Flags, Contents
<1>1. ASSUME NEW t, SetEACLTable(t) PROVE TokenInv'
  <2>1. kind = "bearer" /\ Change([tok EXCEPT !["table"] = t, !["tableSet"] = TRUE])
    BY <1>1 DEF SetEACLTable
  <2> QED BY <1>0, <2>1, SetterStep
<1>2. ASSUME NEW u, ForUser(u) PROVE TokenInv'
  <2>1. kind = "bearer" /\ Change([tok EXCEPT !["user"] = u, !["userSet"] = TRUE])
    BY <1>2 DEF ForUser
  <2> QED BY <1>0, <2>1, SetterStep
<1> QED BY <1>1, <1>2 DEF BearerCalls

LEMMA DeliverStep ==
  ASSUME TokenInv, NEW strict \in BOOLEAN, NEW damage \in Damages, Deliver(strict, damage)
  PROVE  TokenInv'
<1>1. PICK r : r = readFromV2(got, kind, Damaged(WriteToV2(kind, tok), damage), strict)
  OBVIOUS
<1>2. /\ got' = r.x /\ sentTok' = tok /\ UNCHANGED <<kind, tok>>
      /\ readHow' = IF r.err THEN "failed" ELSE IF strict THEN "strict" ELSE "lenient"
  BY <1>1 DEF Deliver
<1>3. kind \in Kinds /\ Held(kind, got) /\ Issued(kind, tok)
  BY DEF TokenInv
<1>4. /\ r.err \in BOOLEAN /\ Held(kind, r.x)
      /\ ~r.err /\ strict => /\ Agree(kind, r.x, tok) /\ (kind = "object" => r.x.cnr = tok.cnr)
                             /\ r.x.sigSet /\ tok.sigSet /\ r.x.sig = tok.sig
  BY <1>1, <1>3, DeliveredIs
<1>5. readHow' = "strict" => ~r.err /\ strict
  BY <1>2, <1>4
<1>6. IsToken(tok) /\ Own(kind, tok)
  BY <1>3 DEF Issued
<1> QED BY <1>2, <1>3, <1>4, <1>5, <1>6 DEF TokenInv

LEMMA TokenInvStep ==
  ASSUME TokenInv, [TokenNext]_tokenVars
  PROVE  TokenInv'
<1>1. CASE UNCHANGED tokenVars
  BY <1>1 DEF tokenVars, TokenInv
<1>2. CASE NewToken
  <2>1. Issued(kind, ZeroToken)
    BY ZeroIsToken DEF TokenInv
  <2> QED BY <1>2, <2>1, ChangeStep DEF NewToken
<1>3. ASSUME NEW u \in Users, Sign(u) PROVE TokenInv'
  <2>1. Issued(kind, Signed(kind, tok, u))
    BY SignedIs DEF TokenInv, Issued
  <2> QED BY <1>3, <2>1, ChangeStep DEF Sign
<1>4. ASSUME NEW strict \in BOOLEAN, NEW damage \in Damages, Deliver(strict, damage) PROVE TokenInv'
  BY <1>4, DeliverStep
<1> QED BY <1>1, <1>2, <1>3, <1>4, LifetimeStep, SessionStep, BearerStep DEF TokenNext

LEMMA TokenAlways == TokenSpec => []TokenInv
<1>1. TokenInv /\ [TokenNext]_tokenVars => TokenInv'
  BY TokenInvStep
<1> QED BY <1>1, TokenInvInit, PTL DEF TokenSpec

\* After a successful ReadFromV2 nothing of what the variable held before shows,
\* whatever it held and however often it was read.
THEOREM ReadCorrect == TokenSpec => []ReadReplacesAll
<1>1. TokenInv => ReadReplacesAll
  <2> SUFFICES ASSUME TokenInv, readHow = "strict"
               PROVE  /\ Answers(kind, got) = Answers(kind, sentTok)
                      /\ VerifySignature(kind, got) = VerifySignature(kind, sentTok)
    BY DEF ReadReplacesAll
  <2>1. /\ kind \in Kinds /\ IsToken(got) /\ Own(kind, got) /\ IsToken(sentTok) /\ Own(kind, sentTok)
        /\ Agree(kind, got, sentTok) /\ (kind = "object" => got.cnr = sentTok.cnr)
        /\ got.sigSet /\ sentTok.sigSet /\ got.sig = sentTok.sig
    BY DEF TokenInv, Held
  <2>2. Answers(kind, got) = Answers(kind, sentTok)
    BY <2>1, AgreeAnswer
  <2>3. fillBody(kind, got) = fillBody(kind, sentTok)
    BY <2>1, Bodies
  <2> QED BY <2>1, <2>2, <2>3 DEF VerifySignature
<1> QED BY <1>1, TokenAlways, PTL

\* A signature that verifies vouches for every answer of the token.
THEOREM SignatureCorrect == TokenSpec => []VerifiedIsAsSigned
<1>1. ASSUME NEW k \in Kinds, NEW x, Held(k, x), VerifySignature(k, x),
             k = "object" => x.cnrSet \/ Unbound(x)
      PROVE  <<Answers(k, x)>> = x.sig.said
  <2>1. IsToken(x) /\ Own(k, x) /\ GoodSig(k, x.sig) /\ x.sig.body = fillBody(k, x)
    BY <1>1 DEF Held, SigOK, VerifySignature
  <2>2. PICK y : /\ IsToken(y) /\ Own(k, y) /\ Unbound(y)
                 /\ x.sig.body = fillBody(k, y) /\ x.sig.said = <<Answers(k, y)>>
    BY <2>1 DEF GoodSig
  <2>3. Agree(k, x, y)
    BY <2>1, <2>2, Bodies
  <2>4. k = "object" => x.cnr = y.cnr
    BY <1>1, <2>2, <2>3 DEF Agree, AgreeSession, Unbound
  <2> QED BY <2>1, <2>2, <2>3, <2>4, AgreeAnswer
<1>2. TokenInv => VerifiedIsAsSigned
  <2> SUFFICES ASSUME TokenInv PROVE VerifiedIsAsSigned
    OBVIOUS
  <2>1. kind \in Kinds /\ Held(kind, tok) /\ Unbound(tok) /\ Held(kind, got)
    BY DEF TokenInv, Issued, Held
  <2> QED BY <1>1, <2>1 DEF VerifiedIsAsSigned
<1> QED BY <1>2, TokenAlways, PTL

-----------------------------------------------------------------------------
(* The bits of a basic ACL *)

Parties == {"Bearer", "Others", "Container", "Owner"}

LEMMA OrderIs ==
  /\ mOrder("Get") = 0 /\ mOrder("Head") = 1 /\ mOrder("Put") = 2 /\ mOrder("Delete") = 3
  /\ mOrder("Search") = 4 /\ mOrder("Range") = 5 /\ mOrder("Hash") = 6
<1>1. DOMAIN orderedOps = 1..7
  BY DEF orderedOps
<1>2. /\ orderedOps[1] = "Get" /\ orderedOps[2] = "Head" /\ orderedOps[3] = "Put"
      /\ orderedOps[4] = "Delete" /\ orderedOps[5] = "Search" /\ orderedOps[6] = "Range"
      /\ orderedOps[7] = "Hash"
  BY DEF orderedOps
<1>3. \A i \in 1..7 : i = 1 \/ i = 2 \/ i = 3 \/ i = 4 \/ i = 5 \/ i = 6 \/ i = 7
  OBVIOUS
<1>4. ASSUME NEW n \in 1..7, NEW op, op = orderedOps[n],
             \A i \in 1..7 : orderedOps[i] = op => i = n
      PROVE  mOrder(op) = n - 1
  <2>1. (CHOOSE i \in DOMAIN orderedOps : orderedOps[i] = op) = n
    BY <1>1, <1>4
  <2> QED BY <2>1 DEF mOrder
<1>5. mOrder("Get") = 1 - 1
  BY <1>2, <1>3, <1>4
<1>6. mOrder("Head") = 2 - 1
  BY <1>2, <1>3, <1>4
<1>7. mOrder("Put") = 3 - 1
  BY <1>2, <1>3, <1>4
<1>8. mOrder("Delete") = 4 - 1
  BY <1>2, <1>3, <1>4
<1>9. mOrder("Search") = 5 - 1
  BY <1>2, <1>3, <1>4
<1>10. mOrder("Range") = 6 - 1
  BY <1>2, <1>3, <1>4
<1>11. mOrder("Hash") = 7 - 1
  BY <1>2, <1>3, <1>4
<1> QED BY <1>5, <1>6, <1>7, <1>8, <1>9, <1>10, <1>11

LEMMA OpsAre == Ops = {"Get", "Head", "Put", "Delete", "Search", "Range", "Hash"}
<1>1. DOMAIN orderedOps = 1..7
  BY DEF orderedOps
<1>2. /\ orderedOps[1] = "Get" /\ orderedOps[2] = "Head" /\ orderedOps[3] = "Put"
      /\ orderedOps[4] = "Delete" /\ orderedOps[5] = "Search" /\ orderedOps[6] = "Range"
      /\ orderedOps[7] = "Hash"
  BY DEF orderedOps
<1>3. 1..7 = {1, 2, 3, 4, 5, 6, 7}
  OBVIOUS
<1> QED BY <1>1, <1>2, <1>3 DEF Ops

LEMMA PositionsAre ==
  /\ opBitPos["Bearer"] = 0 /\ opBitPos["Others"] = 1
  /\ opBitPos["Container"] = 2 /\ opBitPos["Owner"] = 3
  BY DEF opBitPos

LEMMA OrderDiffers == \A op1, op2 \in Ops : mOrder(op1) \in 0..6 /\ (mOrder(op1) = mOrder(op2) => op1 = op2)
  BY OrderIs, OpsAre

\* No two operations and parties share a bit, and none is that of a mark.
LEMMA BitsDiffer ==
  ASSUME NEW op1 \in Ops, NEW op2 \in Ops, NEW p1 \in Parties, NEW p2 \in Parties
  PROVE  /\ opBit(op1, p1) \in 0..27
         /\ opBit(op1, p1) = opBit(op2, p2) => op1 = op2 /\ p1 = p2
<1>1. opBitPos[p1] \in 0..3 /\ opBitPos[p2] \in 0..3 /\ (opBitPos[p1] = opBitPos[p2] => p1 = p2)
  BY PositionsAre DEF Parties
<1>2. mOrder(op1) \in 0..6 /\ mOrder(op2) \in 0..6 /\ (mOrder(op1) = mOrder(op2) => op1 = op2)
  BY OrderDiffers
<1>3. \A a, c \in 0..6 : \A b, d \in 0..3 :
         a * 4 + b \in 0..27 /\ (a * 4 + b = c * 4 + d => a = c /\ b = d)
  OBVIOUS
<1> QED BY <1>1, <1>2, <1>3 DEF opBit, bitsPerOp

LEMMA MarksAre == bitPosFinal = 28 /\ bitPosSticky = 29
<1>1. IsFiniteSet({}) /\ Cardinality({}) = 0
  BY FS_EmptySet
<1>2. IsFiniteSet({"Get"}) /\ Cardinality({"Get"}) = 1
  BY <1>1, FS_AddElement
<1>3. IsFiniteSet({"Get", "Head"}) /\ Cardinality({"Get", "Head"}) = 2
  <2>1. {"Get"} \cup {"Head"} = {"Get", "Head"} /\ "Head" \notin {"Get"}
    OBVIOUS
  <2> QED BY <1>2, <2>1, FS_AddElement
<1>4. IsFiniteSet({"Get", "Head", "Put"}) /\ Cardinality({"Get", "Head", "Put"}) = 3
  <2>1. {"Get", "Head"} \cup {"Put"} = {"Get", "Head", "Put"} /\ "Put" \notin {"Get", "Head"}
    OBVIOUS
  <2> QED BY <1>3, <2>1, FS_AddElement
<1>5. IsFiniteSet({"Get", "Head", "Put", "Delete"}) /\ Cardinality({"Get", "Head", "Put", "Delete"}) = 4
  <2>1. {"Get", "Head", "Put"} \cup {"Delete"} = {"Get", "Head", "Put", "Delete"} /\ "Delete" \notin {"Get", "Head", "Put"}
    OBVIOUS
  <2> QED BY <1>4, <2>1, FS_AddElement
<1>6. IsFiniteSet({"Get", "Head", "Put", "Delete", "Search"}) /\ Cardinality({"Get", "Head", "Put", "Delete", "Search"}) = 5
  <2>1. {"Get", "Head", "Put", "Delete"} \cup {"Search"} = {"Get", "Head", "Put", "Delete", "Search"} /\ "Search" \notin {"Get", "Head", "Put", "Delete"}
    OBVIOUS
  <2> QED BY <1>5, <2>1, FS_AddElement
<1>7. IsFiniteSet({"Get", "Head", "Put", "Delete", "Search", "Range"}) /\ Cardinality({"Get", "Head", "Put", "Delete", "Search", "Range"}) = 6
  <2>1. {"Get", "Head", "Put", "Delete", "Search"} \cup {"Range"} = {"Get", "Head", "Put", "Delete", "Search", "Range"} /\ "Range" \notin {"Get", "Head", "Put", "Delete", "Search"}
    OBVIOUS
  <2> QED BY <1>6, <2>1, FS_AddElement
<1>8. IsFiniteSet({"Get", "Head", "Put", "Delete", "Search", "Range", "Hash"}) /\ Cardinality({"Get", "Head", "Put", "Delete", "Search", "Range", "Hash"}) = 7
  <2>1. {"Get", "Head", "Put", "Delete", "Search", "Range"} \cup {"Hash"} = {"Get", "Head", "Put", "Delete", "Search", "Range", "Hash"} /\ "Hash" \notin {"Get", "Head", "Put", "Delete", "Search", "Range"}
    OBVIOUS
  <2> QED BY <1>7, <2>1, FS_AddElement
<1> QED BY <1>8, OpsAre DEF bitPosFinal, bitPosSticky, bitsPerOp

-----------------------------------------------------------------------------
(* Hexadecimal digits *)

LEMMA DigitBits ==
  ASSUME NEW d \in 0..15
  PROVE  /\ 0 \in bitsOfDigit(d) <=> d % 2 = 1
         /\ 1 \in bitsOfDigit(d) <=> (d \div 2) % 2 = 1
         /\ 2 \in bitsOfDigit(d) <=> (d \div 4) % 2 = 1
         /\ 3 \in bitsOfDigit(d) <=> (d \div 8) % 2 = 1
<1>1. 2 ^ 0 = 1 /\ 2 ^ 1 = 2 /\ 2 ^ 2 = 4 /\ 2 ^ 3 = 8
  OBVIOUS
<1>2. d \div 1 = d
  OBVIOUS
<1>3. \A b \in 0..3 : b \in bitsOfDigit(d) <=> (d \div (2 ^ b)) % 2 = 1
  BY DEF bitsOfDigit
<1> QED BY <1>1, <1>2, <1>3

LEMMA NoBits == \A b \in 0..3 : b \notin bitsOfDigit(0)
<1>1. \A b \in 0..3 : b = 0 \/ b = 1 \/ b = 2 \/ b = 3
  OBVIOUS
<1> QED BY <1>1, DigitBits

\* A bit of a number is a bit of one of its digits.
LEMMA FromHexIs ==
  ASSUME NEW ds, IsList(ds), NEW pos \in Nat, NEW b \in 0..3
  PROVE  4 * pos + b \in FromHex(ds) <=> pos < Len(ds) /\ b \in bitsOfDigit(ds[Len(ds) - pos])
<1>1. Len(ds) \in Nat /\ DOMAIN ds = 1..Len(ds)
  BY DEF IsList
<1>2. 4 * pos + b \in FromHex(ds) <=>
        \E i \in 1..Len(ds) : \E c \in bitsOfDigit(ds[i]) : 4 * pos + b = 4 * (Len(ds) - i) + c
  <2> DEFINE S(i) == {4 * (Len(ds) - i) + c : c \in bitsOfDigit(ds[i])}
  <2>1. FromHex(ds) = UNION {S(i) : i \in 1..Len(ds)}
    BY <1>1 DEF FromHex
  <2>2. \A i : 4 * pos + b \in S(i) <=> \E c \in bitsOfDigit(ds[i]) : 4 * pos + b = 4 * (Len(ds) - i) + c
    OBVIOUS
  <2> HIDE DEF S
  <2>3. 4 * pos + b \in UNION {S(i) : i \in 1..Len(ds)} <=> \E i \in 1..Len(ds) : 4 * pos + b \in S(i)
    OBVIOUS
  <2> QED BY <2>1, <2>2, <2>3
<1>3. \A i \in 1..Len(ds) : \A c \in bitsOfDigit(ds[i]) : c \in 0..3
  BY DEF bitsOfDigit
<1>4. ASSUME NEW i \in 1..Len(ds), NEW c \in 0..3, 4 * pos + b = 4 * (Len(ds) - i) + c
      PROVE  i = Len(ds) - pos /\ c = b
  <2>0. Len(ds) - i \in Int
    BY <1>1
  <2>1. PICK q \in Int : q = Len(ds) - i
    BY <2>0, Zenon
  <2>2. 4 * pos + b = 4 * q + c
    BY <1>4, <2>1
  <2>3. pos = q /\ b = c
    BY <2>2
  <2> QED BY <1>1, <2>1, <2>3
<1>5. pos < Len(ds) => Len(ds) - pos \in 1..Len(ds) /\ 4 * pos + b = 4 * (Len(ds) - (Len(ds) - pos)) + b
  BY <1>1
<1>6. ASSUME 4 * pos + b \in FromHex(ds) PROVE pos < Len(ds) /\ b \in bitsOfDigit(ds[Len(ds) - pos])
  <2>1. PICK i \in 1..Len(ds) : \E c \in bitsOfDigit(ds[i]) : 4 * pos + b = 4 * (Len(ds) - i) + c
    BY <1>2, <1>6
  <2>2. PICK c \in bitsOfDigit(ds[i]) : 4 * pos + b = 4 * (Len(ds) - i) + c
    BY <2>1
  <2>3. i = Len(ds) - pos /\ c = b
    BY <1>3, <1>4, <2>2
  <2> QED BY <1>1, <2>1, <2>2, <2>3
<1>7. ASSUME pos < Len(ds), b \in bitsOfDigit(ds[Len(ds) - pos]) PROVE 4 * pos + b \in FromHex(ds)
  BY <1>2, <1>5, <1>7
<1> QED BY <1>6, <1>7

LEMMA FromHexNat ==
  ASSUME NEW ds, IsList(ds), NEW e \in FromHex(ds)
  PROVE  e \in Nat
<1>1. PICK i \in 1..Len(ds) : \E c \in bitsOfDigit(ds[i]) : e = 4 * (Len(ds) - i) + c
  BY DEF FromHex, IsList
<1>2. PICK c \in 0..3 : e = 4 * (Len(ds) - i) + c
  BY <1>1 DEF bitsOfDigit
<1> QED BY <1>1, <1>2 DEF IsList

\* A digit holds the four bits of its place.
LEMMA DigitHolds ==
  ASSUME NEW x, NEW pos \in 0..7
  PROVE  /\ digitAt(x, pos) \in 0..15
         /\ \A b \in 0..3 : b \in bitsOfDigit(digitAt(x, pos)) <=> 4 * pos + b \in x
<1>1. PICK h0 \in {0, 1} : h0 = (IF 4 * pos + 0 \in x THEN 1 ELSE 0)
  OBVIOUS
<1>2. PICK h1 \in {0, 2} : h1 = (IF 4 * pos + 1 \in x THEN 2 ELSE 0)
  OBVIOUS
<1>3. PICK h2 \in {0, 4} : h2 = (IF 4 * pos + 2 \in x THEN 4 ELSE 0)
  OBVIOUS
<1>4. PICK h3 \in {0, 8} : h3 = (IF 4 * pos + 3 \in x THEN 8 ELSE 0)
  OBVIOUS
<1>5. 2 ^ 0 = 1 /\ 2 ^ 1 = 2 /\ 2 ^ 2 = 4 /\ 2 ^ 3 = 8
  OBVIOUS
<1>6. PICK d : d = digitAt(x, pos)
  OBVIOUS
<1>7. d = h0 + h1 + h2 + h3
  BY <1>1, <1>2, <1>3, <1>4, <1>5, <1>6 DEF digitAt
<1>8. d \in 0..15
  BY <1>7
<1>9. /\ d % 2 = 1 <=> h0 = 1
      /\ (d \div 2) % 2 = 1 <=> h1 = 2
      /\ (d \div 4) % 2 = 1 <=> h2 = 4
      /\ (d \div 8) % 2 = 1 <=> h3 = 8
  BY <1>7
<1>10. /\ 0 \in bitsOfDigit(d) <=> 4 * pos + 0 \in x
       /\ 1 \in bitsOfDigit(d) <=> 4 * pos + 1 \in x
       /\ 2 \in bitsOfDigit(d) <=> 4 * pos + 2 \in x
       /\ 3 \in bitsOfDigit(d) <=> 4 * pos + 3 \in x
  BY <1>1, <1>2, <1>3, <1>4, <1>8, <1>9, DigitBits
<1>11. \A b \in 0..3 : b = 0 \/ b = 1 \/ b = 2 \/ b = 3
  OBVIOUS
<1> QED BY <1>6, <1>8, <1>10, <1>11

\* The digits of a number are those of its places, and no place beyond them
\* has a bit.
LEMMA FormatIs ==
  ASSUME NEW x
  PROVE  \E n \in 1..8 :
           /\ FormatHex(x) = [i \in 1..n |-> digitAt(x, n - i)]
           /\ \A pos \in 0..7 : pos >= n => digitAt(x, pos) = 0
<1> DEFINE high == {i \in 0..7 : digitAt(x, i) # 0}
<1>1. PICK n : n = IF high = {} THEN 1 ELSE 1 + (CHOOSE i \in high : \A j \in high : j <= i)
  OBVIOUS
<1>2. FormatHex(x) = [i \in 1..n |-> digitAt(x, n - i)]
  BY <1>1 DEF FormatHex
<1>3. CASE high = {}
  <2>1. n = 1
    BY <1>1, <1>3
  <2>2. \A pos \in 0..7 : digitAt(x, pos) = 0
    BY <1>3
  <2> QED BY <1>2, <2>1, <2>2
<1>4. CASE high # {}
  <2> DEFINE low == {m \in 0..7 : 7 - m \in high}
  <2>1. low \in SUBSET Nat /\ low # {}
    <3>1. PICK i \in high : TRUE
      BY <1>4
    <3>2. i \in 0..7
      BY <3>1
    <3>3. PICK k \in 0..7 : 7 - k = i
      <4>1. 7 - i \in 0..7 /\ 7 - (7 - i) = i
        BY <3>2
      <4> QED BY <4>1
    <3>4. k \in low
      BY <3>1, <3>3
    <3>5. low \in SUBSET Nat
      OBVIOUS
    <3> HIDE DEF low
    <3> QED BY <3>4, <3>5
  <2>2. PICK m \in low : \A k \in low : m <= k
    BY <2>1, LeastMember
  <2>3. m \in 0..7 /\ 7 - m \in high
    BY <2>2
  <2>4. \A j \in high : j <= 7 - m
    <3>1. SUFFICES ASSUME NEW j \in high PROVE j <= 7 - m
      OBVIOUS
    <3>2. j \in 0..7 /\ 7 - (7 - j) = j
      BY <3>1
    <3>3. 7 - j \in low
      BY <3>1, <3>2
    <3> QED BY <2>2, <2>3, <3>2, <3>3
  <2> HIDE DEF low
  <2>5. PICK c : c = CHOOSE i \in high : \A j \in high : j <= i
    OBVIOUS
  <2>6. c \in high /\ \A j \in high : j <= c
    BY <2>3, <2>4, <2>5
  <2>7. n = 1 + c
    BY <1>1, <1>4, <2>5
  <2>8. c \in 0..7
    BY <2>6
  <2>9. \A pos \in 0..7 : pos >= n => digitAt(x, pos) = 0
    BY <2>6, <2>7, <2>8
  <2>10. n \in 1..8
    BY <2>7, <2>8
  <2> QED BY <1>2, <2>9, <2>10, Zenon
<1> QED BY <1>3, <1>4

\* A bit has its place.
LEMMA Places ==
  ASSUME NEW e \in Nat
  PROVE  \E pos \in Nat, b \in 0..3 : e = 4 * pos + b
<1>1. PICK pos \in Nat : pos = e \div 4
  OBVIOUS
<1>2. PICK b \in 0..3 : b = e % 4
  OBVIOUS
<1>3. e = 4 * pos + b
  BY <1>1, <1>2
<1> QED BY <1>3

\* Zeros in front of the digits of a number change nothing: it is read as written.
LEMMA ReadAsWritten ==
  ASSUME NEW x \in SUBSET (0..31), NEW z \in Seq({0})
  PROVE  FromHex(z \o FormatHex(x)) = x
<1>1. PICK n \in 1..8 : /\ FormatHex(x) = [i \in 1..n |-> digitAt(x, n - i)]
                        /\ \A pos \in 0..7 : pos >= n => digitAt(x, pos) = 0
  BY FormatIs
<1>2. FormatHex(x) \in Seq(0..15) /\ Len(FormatHex(x)) = n
  <2>1. \A i \in 1..n : n - i \in 0..7
    OBVIOUS
  <2>2. \A i \in 1..n : digitAt(x, n - i) \in 0..15
    BY <2>1, DigitHolds
  <2> QED BY <1>1, <2>2
<1>3. PICK k \in Nat : k = Len(z)
  OBVIOUS
<1>4. PICK ds : ds = z \o FormatHex(x)
  OBVIOUS
<1>5. ds \in Seq(0..15) /\ Len(ds) = k + n
  BY <1>2, <1>3, <1>4
<1>6. IsList(ds)
  BY <1>5 DEF IsList
<1>7. ASSUME NEW pos \in Nat, NEW b \in 0..3
      PROVE  4 * pos + b \in FromHex(ds) <=> 4 * pos + b \in x
  <2>1. 4 * pos + b \in FromHex(ds) <=> pos < k + n /\ b \in bitsOfDigit(ds[k + n - pos])
    <3>1. 4 * pos + b \in FromHex(ds) <=> pos < Len(ds) /\ b \in bitsOfDigit(ds[Len(ds) - pos])
      BY <1>6, FromHexIs, Zenon
    <3> QED BY <1>5, <3>1
  <2>2. CASE pos < n
    <3>1. ds[k + n - pos] = digitAt(x, pos)
      <4>1. k + n - pos > k /\ k + n - pos <= k + n /\ (k + n - pos) - k = n - pos
        BY <2>2
      <4>2. ds[k + n - pos] = FormatHex(x)[n - pos]
        BY <1>2, <1>3, <1>4, <4>1
      <4>3. n - pos \in 1..n /\ n - (n - pos) = pos
        BY <2>2
      <4> QED BY <1>1, <4>2, <4>3
    <3>2. pos \in 0..7 /\ pos < k + n
      BY <2>2
    <3> QED BY <2>1, <3>1, <3>2, DigitHolds
  <2>3. CASE pos >= n
    <3>1. 4 * pos + b \notin x
      <4>1. CASE pos \in 0..7
        <5>1. digitAt(x, pos) = 0
          BY <1>1, <2>3, <4>1
        <5> QED BY <4>1, <5>1, DigitHolds, NoBits
      <4>2. CASE pos \notin 0..7
        <5>1. 4 * pos + b > 31
          BY <4>2
        <5> QED BY <5>1
      <4> QED BY <4>1, <4>2
    <3>2. pos < k + n => ds[k + n - pos] = 0
      <4>1. SUFFICES ASSUME pos < k + n PROVE ds[k + n - pos] = 0
        OBVIOUS
      <4>2. k + n - pos \in 1..k
        BY <2>3, <4>1
      <4>3. ds[k + n - pos] = z[k + n - pos]
        BY <1>2, <1>3, <1>4, <4>2
      <4> QED BY <1>3, <4>2, <4>3
    <3> QED BY <2>1, <3>1, <3>2, NoBits
  <2> QED BY <2>2, <2>3
<1>8. ASSUME NEW e \in FromHex(ds) PROVE e \in x
  <2>1. e \in Nat
    BY <1>6, <1>8, FromHexNat
  <2>2. PICK pos \in Nat, b \in 0..3 : e = 4 * pos + b
    BY <2>1, Places
  <2> QED BY <1>7, <1>8, <2>2
<1>9. ASSUME NEW e \in x PROVE e \in FromHex(ds)
  <2>1. e \in Nat
    OBVIOUS
  <2>2. PICK pos \in Nat, b \in 0..3 : e = 4 * pos + b
    BY <2>1, Places
  <2> QED BY <1>7, <1>9, <2>2
<1> QED BY <1>4, <1>8, <1>9

\* A number with nine digits more than it needs is refused.
LEMMA LongRefused ==
  ASSUME NEW x
  PROVE  DecodeText(x, [i \in 1..9 |-> 1] \o FormatHex(x)) = x
<1>1. PICK n \in 1..8 : FormatHex(x) = [i \in 1..n |-> digitAt(x, n - i)]
  BY FormatIs
<1>2. FormatHex(x) \in Seq(0..15) /\ Len(FormatHex(x)) = n
  <2>1. \A i \in 1..n : n - i \in 0..7
    OBVIOUS
  <2>2. \A i \in 1..n : digitAt(x, n - i) \in 0..15
    BY <2>1, DigitHolds
  <2> QED BY <1>1, <2>2
<1>3. PICK z : z = [i \in 1..9 |-> 1]
  OBVIOUS
<1>4. z \in Seq(0..15) /\ Len(z) = 9 /\ z[1] = 1
  <2>1. PICK m \in Nat : m = 9
    OBVIOUS
  <2>2. z = [i \in 1..m |-> 1]
    BY <1>3, <2>1
  <2>3. z \in Seq(0..15) /\ Len(z) = m
    BY <2>2
  <2>4. z[1] = 1
    BY <1>3
  <2> QED BY <2>1, <2>3, <2>4
<1>5. PICK ds : ds = z \o FormatHex(x)
  OBVIOUS
<1>6. ds \in Seq(0..15) /\ Len(ds) = 9 + n /\ ds[1] = 1
  <2>1. ds \in Seq(0..15) /\ Len(ds) = 9 + n
    <3>1. PICK f : f = FormatHex(x)
      OBVIOUS
    <3>2. z \in Seq(0..15) /\ f \in Seq(0..15)
      BY <1>2, <1>4, <3>1
    <3>3. z \o f \in Seq(0..15) /\ Len(z \o f) = Len(z) + Len(f)
      BY <3>2
    <3> QED BY <1>2, <1>4, <1>5, <3>1, <3>3
  <2>2. ds[1] = z[1]
    BY <1>2, <1>4, <1>5
  <2> QED BY <1>4, <2>1, <2>2
<1>7. IsList(ds)
  BY <1>6 DEF IsList
<1>8. 0 \in bitsOfDigit(1)
  BY DigitBits
<1>9. PICK pos \in Nat : pos = 8 + n
  OBVIOUS
<1>10. pos < Len(ds) /\ Len(ds) - pos = 1
  BY <1>6, <1>9
<1>11. 4 * pos + 0 \in FromHex(ds)
  <2>1. 0 \in 0..3
    OBVIOUS
  <2>2. 4 * pos + 0 \in FromHex(ds) <=> pos < Len(ds) /\ 0 \in bitsOfDigit(ds[Len(ds) - pos])
    BY <1>7, <2>1, FromHexIs, Zenon
  <2> QED BY <1>6, <1>8, <1>10, <2>2
<1>12. ~(4 * pos + 0 < 32)
  BY <1>9
<1> QED BY <1>3, <1>5, <1>11, <1>12 DEF DecodeText

-----------------------------------------------------------------------------
(* What was allowed is what the bits say *)

\* The bits of acl are those of the ghosts: one for each pair that was allowed,
\* and one for each mark.
Says(x, g, m) ==
  /\ x \in SUBSET (0..31)
  /\ g \in SUBSET (Ops \X Parties)
  /\ \A op \in Ops, party \in Parties : opBit(op, party) \in x <=> <<op, party>> \in g
  /\ 28 \in x <=> "final" \in m
  /\ 29 \in x <=> "sticky" \in m

ACLInv == Says(acl, granted, marks)

LEMMA SomeBits ==
  /\ bitsOfDigit(0) = {} /\ bitsOfDigit(1) = {0} /\ bitsOfDigit(8) = {3}
  /\ bitsOfDigit(9) = {0, 3} /\ bitsOfDigit(11) = {0, 1, 3} /\ bitsOfDigit(12) = {2, 3}
  /\ bitsOfDigit(15) = {0, 1, 2, 3}
<1>1. ASSUME NEW d \in 0..15
      PROVE  bitsOfDigit(d) \subseteq 0..3
  BY DEF bitsOfDigit
<1>2. 0..3 = {0, 1, 2, 3}
  OBVIOUS
<1>3. bitsOfDigit(0) = {}
  <2>1. 0 \notin bitsOfDigit(0) /\ 1 \notin bitsOfDigit(0) /\ 2 \notin bitsOfDigit(0) /\ 3 \notin bitsOfDigit(0)
    BY DigitBits
  <2>2. bitsOfDigit(0) \subseteq 0..3
    BY <1>1
  <2> QED BY <1>2, <2>1, <2>2
<1>4. bitsOfDigit(1) = {0}
  <2>1. 0 \in bitsOfDigit(1) /\ 1 \notin bitsOfDigit(1) /\ 2 \notin bitsOfDigit(1) /\ 3 \notin bitsOfDigit(1)
    BY DigitBits
  <2>2. bitsOfDigit(1) \subseteq 0..3
    BY <1>1
  <2> QED BY <1>2, <2>1, <2>2
<1>5. bitsOfDigit(8) = {3}
  <2>1. 0 \notin bitsOfDigit(8) /\ 1 \notin bitsOfDigit(8) /\ 2 \notin bitsOfDigit(8) /\ 3 \in bitsOfDigit(8)
    BY DigitBits
  <2>2. bitsOfDigit(8) \subseteq 0..3
    BY <1>1
  <2> QED BY <1>2, <2>1, <2>2
<1>6. bitsOfDigit(9) = {0, 3}
  <2>1. 0 \in bitsOfDigit(9) /\ 1 \notin bitsOfDigit(9) /\ 2 \notin bitsOfDigit(9) /\ 3 \in bitsOfDigit(9)
    BY DigitBits
  <2>2. bitsOfDigit(9) \subseteq 0..3
    BY <1>1
  <2> QED BY <1>2, <2>1, <2>2
<1>7. bitsOfDigit(11) = {0, 1, 3}
  <2>1. 0 \in bitsOfDigit(11) /\ 1 \in bitsOfDigit(11) /\ 2 \notin bitsOfDigit(11) /\ 3 \in bitsOfDigit(11)
    BY DigitBits
  <2>2. bitsOfDigit(11) \subseteq 0..3
    BY <1>1
  <2> QED BY <1>2, <2>1, <2>2
<1>8. bitsOfDigit(12) = {2, 3}
  <2>1. 0 \notin bitsOfDigit(12) /\ 1 \notin bitsOfDigit(12) /\ 2 \in bitsOfDigit(12) /\ 3 \in bitsOfDigit(12)
    BY DigitBits
  <2>2. bitsOfDigit(12) \subseteq 0..3
    BY <1>1
  <2> QED BY <1>2, <2>1, <2>2
<1>9. bitsOfDigit(15) = {0, 1, 2, 3}
  <2>1. 0 \in bitsOfDigit(15) /\ 1 \in bitsOfDigit(15) /\ 2 \in bitsOfDigit(15) /\ 3 \in bitsOfDigit(15)
    BY DigitBits
  <2>2. bitsOfDigit(15) \subseteq 0..3
    BY <1>1
  <2> QED BY <1>2, <2>1, <2>2
<1> QED BY <1>3, <1>4, <1>5, <1>6, <1>7, <1>8, <1>9

\* The parties a name allows an operation to, as the positions of the digit that
\* stands for it.
Allows(d, op, g) == \A party \in Parties : opBitPos[party] \in bitsOfDigit(d) <=> <<op, party>> \in g

\* A number of eight digits is what its digits say.
LEMMA EightDigits ==
  ASSUME NEW ds \in Seq(0..15), Len(ds) = 8, NEW g \in SUBSET (Ops \X Parties), NEW m,
         Allows(ds[8], "Get", g), Allows(ds[7], "Head", g), Allows(ds[6], "Put", g),
         Allows(ds[5], "Delete", g), Allows(ds[4], "Search", g), Allows(ds[3], "Range", g),
         Allows(ds[2], "Hash", g),
         0 \in bitsOfDigit(ds[1]) <=> "final" \in m,
         1 \in bitsOfDigit(ds[1]) <=> "sticky" \in m
  PROVE  Says(FromHex(ds), g, m)
<1>1. IsList(ds)
  BY DEF IsList
<1>2. ASSUME NEW pos \in 0..7, NEW b \in 0..3
      PROVE  4 * pos + b \in FromHex(ds) <=> b \in bitsOfDigit(ds[8 - pos])
  <2>1. pos \in Nat
    OBVIOUS
  <2>2. 4 * pos + b \in FromHex(ds) <=> pos < Len(ds) /\ b \in bitsOfDigit(ds[Len(ds) - pos])
    BY <1>1, <2>1, FromHexIs, Zenon
  <2> QED BY <2>2
<1>3. FromHex(ds) \in SUBSET (0..31)
  <2>1. SUFFICES ASSUME NEW e \in FromHex(ds) PROVE e \in 0..31
    OBVIOUS
  <2>2. e \in Nat
    BY <1>1, <2>1, FromHexNat
  <2>3. PICK pos \in Nat, b \in 0..3 : e = 4 * pos + b
    BY <2>2, Places
  <2>4. pos < Len(ds)
    <3>1. 4 * pos + b \in FromHex(ds) <=> pos < Len(ds) /\ b \in bitsOfDigit(ds[Len(ds) - pos])
      BY <1>1, FromHexIs, Zenon
    <3> QED BY <2>1, <2>3, <3>1
  <2> QED BY <2>3, <2>4
<1>4. ASSUME NEW op \in Ops, NEW party \in Parties, Allows(ds[8 - mOrder(op)], op, g)
      PROVE  opBit(op, party) \in FromHex(ds) <=> <<op, party>> \in g
  <2>1. PICK pos \in 0..7 : pos = mOrder(op)
    BY OrderDiffers
  <2>2. PICK b \in 0..3 : b = opBitPos[party]
    BY PositionsAre DEF Parties
  <2>3. opBit(op, party) = 4 * pos + b
    BY <2>1, <2>2 DEF opBit, bitsPerOp
  <2>4. b \in bitsOfDigit(ds[8 - pos]) <=> <<op, party>> \in g
    BY <1>4, <2>1, <2>2 DEF Allows
  <2> QED BY <1>2, <2>3, <2>4
<1>5. \A op \in Ops : Allows(ds[8 - mOrder(op)], op, g)
  <2>1. Allows(ds[8 - mOrder("Get")], "Get", g)
    BY OrderIs
  <2>2. Allows(ds[8 - mOrder("Head")], "Head", g)
    BY OrderIs
  <2>3. Allows(ds[8 - mOrder("Put")], "Put", g)
    BY OrderIs
  <2>4. Allows(ds[8 - mOrder("Delete")], "Delete", g)
    BY OrderIs
  <2>5. Allows(ds[8 - mOrder("Search")], "Search", g)
    BY OrderIs
  <2>6. Allows(ds[8 - mOrder("Range")], "Range", g)
    BY OrderIs
  <2>7. Allows(ds[8 - mOrder("Hash")], "Hash", g)
    BY OrderIs
  <2> QED BY <2>1, <2>2, <2>3, <2>4, <2>5, <2>6, <2>7, OpsAre
<1>6. 28 \in FromHex(ds) <=> 0 \in bitsOfDigit(ds[1])
  <2>1. 7 \in 0..7 /\ 0 \in 0..3 /\ 4 * 7 + 0 = 28 /\ 8 - 7 = 1
    OBVIOUS
  <2>2. 4 * 7 + 0 \in FromHex(ds) <=> 0 \in bitsOfDigit(ds[8 - 7])
    BY <1>2, <2>1, Zenon
  <2> QED BY <2>1, <2>2
<1>7. 29 \in FromHex(ds) <=> 1 \in bitsOfDigit(ds[1])
  <2>1. 7 \in 0..7 /\ 1 \in 0..3 /\ 4 * 7 + 1 = 29 /\ 8 - 7 = 1
    OBVIOUS
  <2>2. 4 * 7 + 1 \in FromHex(ds) <=> 1 \in bitsOfDigit(ds[8 - 7])
    BY <1>2, <2>1, Zenon
  <2> QED BY <2>1, <2>2
<1> QED BY <1>3, <1>4, <1>5, <1>6, <1>7 DEF Says

LEMMA Pairs ==
  ASSUME NEW op, NEW party, NEW S, NEW q
  PROVE  <<op, party>> \in S \X {q} <=> op \in S /\ party = q
  OBVIOUS

\* What each name allows an operation to, party by party.
LEMMA MeaningIs ==
  ASSUME NEW op \in Ops
  PROVE  /\ \A name \in DOMAIN meaning :
              /\ <<op, "Owner">> \in meaning[name]
              /\ <<op, "Container">> \in meaning[name] <=> isReplicationOp(op)
         /\ <<op, "Others">> \notin meaning.private
         /\ <<op, "Bearer">> \notin meaning.private
         /\ <<op, "Others">> \in meaning.public_read <=> op \in ReadOps
         /\ <<op, "Bearer">> \in meaning.public_read <=> op \in ReadOps
         /\ <<op, "Others">> \in meaning.public_read_write
         /\ <<op, "Bearer">> \in meaning.public_read_write
         /\ <<op, "Others">> \in meaning.public_append <=> op # "Delete"
         /\ <<op, "Bearer">> \in meaning.public_append
<1>1. <<op, "Owner">> \in OwnerAll
      /\ <<op, "Others">> \notin OwnerAll /\ <<op, "Container">> \notin OwnerAll
      /\ <<op, "Bearer">> \notin OwnerAll
  BY Pairs DEF OwnerAll
<1>2. /\ <<op, "Container">> \in Replication <=> isReplicationOp(op)
      /\ <<op, "Others">> \notin Replication /\ <<op, "Bearer">> \notin Replication
  BY Pairs DEF Replication
<1>3. \A S : /\ <<op, "Others">> \in Open(S, "Others") <=> op \in S
             /\ <<op, "Bearer">> \notin Open(S, "Others")
             /\ <<op, "Container">> \notin Open(S, "Others")
             /\ <<op, "Bearer">> \in Open(S, "Bearer") <=> op \in S
             /\ <<op, "Others">> \notin Open(S, "Bearer")
             /\ <<op, "Container">> \notin Open(S, "Bearer")
  BY Pairs DEF Open
<1>4. DOMAIN meaning = {"private", "public_read", "public_read_write", "public_append"}
  BY DEF meaning
<1>5. meaning.private = OwnerAll \cup Replication
  BY DEF meaning
<1>6. meaning.public_read = OwnerAll \cup Replication \cup Open(ReadOps, "Others") \cup Open(ReadOps, "Bearer")
  BY DEF meaning
<1>7. meaning.public_read_write = OwnerAll \cup Replication \cup Open(Ops, "Others") \cup Open(Ops, "Bearer")
  BY DEF meaning
<1>8. meaning.public_append = OwnerAll \cup Replication \cup Open(Ops \ {"Delete"}, "Others") \cup Open(Ops, "Bearer")
  BY DEF meaning
<1>9. /\ <<op, "Owner">> \in meaning.private
      /\ <<op, "Container">> \in meaning.private <=> isReplicationOp(op)
      /\ <<op, "Others">> \notin meaning.private /\ <<op, "Bearer">> \notin meaning.private
  BY <1>1, <1>2, <1>3, <1>5
<1>10. /\ <<op, "Owner">> \in meaning.public_read
       /\ <<op, "Container">> \in meaning.public_read <=> isReplicationOp(op)
       /\ (<<op, "Others">> \in meaning.public_read <=> op \in ReadOps) /\ (<<op, "Bearer">> \in meaning.public_read <=> op \in ReadOps)
  BY <1>1, <1>2, <1>3, <1>6
<1>11. /\ <<op, "Owner">> \in meaning.public_read_write
       /\ <<op, "Container">> \in meaning.public_read_write <=> isReplicationOp(op)
       /\ <<op, "Others">> \in meaning.public_read_write /\ <<op, "Bearer">> \in meaning.public_read_write
  BY <1>1, <1>2, <1>3, <1>7
<1>12. /\ <<op, "Owner">> \in meaning.public_append
       /\ <<op, "Container">> \in meaning.public_append <=> isReplicationOp(op)
       /\ (<<op, "Others">> \in meaning.public_append <=> op # "Delete") /\ <<op, "Bearer">> \in meaning.public_append
  BY <1>1, <1>2, <1>3, <1>8
<1>13. ASSUME NEW name \in DOMAIN meaning
       PROVE  /\ <<op, "Owner">> \in meaning[name]
              /\ <<op, "Container">> \in meaning[name] <=> isReplicationOp(op)
  <2>1. CASE name = "private"
    <3>1. meaning[name] = meaning.private
      BY <2>1
    <3> QED BY <1>9, <3>1
  <2>2. CASE name = "public_read"
    <3>1. meaning[name] = meaning.public_read
      BY <2>2
    <3> QED BY <1>10, <3>1
  <2>3. CASE name = "public_read_write"
    <3>1. meaning[name] = meaning.public_read_write
      BY <2>3
    <3> QED BY <1>11, <3>1
  <2>4. CASE name = "public_append"
    <3>1. meaning[name] = meaning.public_append
      BY <2>4
    <3> QED BY <1>12, <3>1
  <2> QED BY <1>4, <2>1, <2>2, <2>3, <2>4
<1> QED BY <1>9, <1>10, <1>11, <1>12, <1>13

LEMMA MeaningOfPairs ==
  /\ meaning.private \in SUBSET (Ops \X Parties)
  /\ meaning.public_read \in SUBSET (Ops \X Parties)
  /\ meaning.public_read_write \in SUBSET (Ops \X Parties)
  /\ meaning.public_append \in SUBSET (Ops \X Parties)
<1>1. \A S \in SUBSET Ops, party \in Parties : S \X {party} \subseteq Ops \X Parties
  OBVIOUS
<1>2. OwnerAll \subseteq Ops \X Parties /\ Replication \subseteq Ops \X Parties
  BY <1>1 DEF OwnerAll, Replication, Parties
<1>3. \A S \in SUBSET Ops : /\ Open(S, "Others") \subseteq Ops \X Parties
                            /\ Open(S, "Bearer") \subseteq Ops \X Parties
  BY <1>1 DEF Open, Parties
<1>4. ReadOps \in SUBSET Ops /\ Ops \ {"Delete"} \in SUBSET Ops /\ Ops \in SUBSET Ops
  BY DEF ReadOps
<1>5. meaning.private \in SUBSET (Ops \X Parties)
  BY <1>2 DEF meaning
<1>6. meaning.public_read \in SUBSET (Ops \X Parties)
  BY <1>2, <1>3, <1>4 DEF meaning
<1>7. meaning.public_read_write \in SUBSET (Ops \X Parties)
  BY <1>2, <1>3, <1>4 DEF meaning
<1>8. meaning.public_append \in SUBSET (Ops \X Parties)
  BY <1>2, <1>3, <1>4 DEF meaning
<1> QED BY <1>5, <1>6, <1>7, <1>8

LEMMA PrivateSays ==
  /\ Says(FromHex(named.private), meaning.private, {"final"})
  /\ Says(FromHex(named.eacl_private), meaning.private, {})
<1>1. PICK m \in SUBSET (Ops \X Parties) : m = meaning.private
  BY MeaningOfPairs
<1>2. DOMAIN meaning = {"private", "public_read", "public_read_write", "public_append"}
  BY DEF meaning
<1>3. Allows(12, "Get", m)
  BY <1>1, <1>2, MeaningIs, OpsAre, PositionsAre, SomeBits DEF Allows, Parties, isReplicationOp, ReadOps
<1>4. Allows(12, "Head", m)
  BY <1>1, <1>2, MeaningIs, OpsAre, PositionsAre, SomeBits DEF Allows, Parties, isReplicationOp, ReadOps
<1>5. Allows(12, "Put", m)
  BY <1>1, <1>2, MeaningIs, OpsAre, PositionsAre, SomeBits DEF Allows, Parties, isReplicationOp, ReadOps
<1>6. Allows(8, "Delete", m)
  BY <1>1, <1>2, MeaningIs, OpsAre, PositionsAre, SomeBits DEF Allows, Parties, isReplicationOp, ReadOps
<1>7. Allows(12, "Search", m)
  BY <1>1, <1>2, MeaningIs, OpsAre, PositionsAre, SomeBits DEF Allows, Parties, isReplicationOp, ReadOps
<1>8. Allows(8, "Range", m)
  BY <1>1, <1>2, MeaningIs, OpsAre, PositionsAre, SomeBits DEF Allows, Parties, isReplicationOp, ReadOps
<1>9. Allows(12, "Hash", m)
  BY <1>1, <1>2, MeaningIs, OpsAre, PositionsAre, SomeBits DEF Allows, Parties, isReplicationOp, ReadOps
<1>10. Says(FromHex(named.private), m, {"final"})
  <2>1. PICK ds : ds = named.private
    OBVIOUS
  <2>2. ds \in Seq(0..15) /\ Len(ds) = 8
    BY <2>1 DEF named
  <2>3. ds[1] = 1 /\ ds[2] = 12 /\ ds[3] = 8 /\ ds[4] = 12 /\ ds[5] = 8 /\ ds[6] = 12 /\ ds[7] = 12 /\ ds[8] = 12
    BY <2>1 DEF named
  <2>4. (0 \in bitsOfDigit(ds[1]) <=> "final" \in {"final"}) /\ (1 \in bitsOfDigit(ds[1]) <=> "sticky" \in {"final"})
    BY <2>3, SomeBits
  <2>5. Says(FromHex(ds), m, {"final"})
    BY <1>3, <1>4, <1>5, <1>6, <1>7, <1>8, <1>9, <2>2, <2>3, <2>4, EightDigits
  <2> QED BY <2>1, <2>5
<1>11. Says(FromHex(named.eacl_private), m, {})
  <2>1. PICK ds : ds = named.eacl_private
    OBVIOUS
  <2>2. ds \in Seq(0..15) /\ Len(ds) = 8
    BY <2>1 DEF named
  <2>3. ds[1] = 0 /\ ds[2] = 12 /\ ds[3] = 8 /\ ds[4] = 12 /\ ds[5] = 8 /\ ds[6] = 12 /\ ds[7] = 12 /\ ds[8] = 12
    BY <2>1 DEF named
  <2>4. (0 \in bitsOfDigit(ds[1]) <=> "final" \in {}) /\ (1 \in bitsOfDigit(ds[1]) <=> "sticky" \in {})
    BY <2>3, SomeBits
  <2>5. Says(FromHex(ds), m, {})
    BY <1>3, <1>4, <1>5, <1>6, <1>7, <1>8, <1>9, <2>2, <2>3, <2>4, EightDigits
  <2> QED BY <2>1, <2>5
<1> QED BY <1>1, <1>10, <1>11

LEMMA PublicReadSays ==
  /\ Says(FromHex(named.public_read), meaning.public_read, {"final"})
  /\ Says(FromHex(named.eacl_public_read), meaning.public_read, {})
<1>1. PICK m \in SUBSET (Ops \X Parties) : m = meaning.public_read
  BY MeaningOfPairs
<1>2. DOMAIN meaning = {"private", "public_read", "public_read_write", "public_append"}
  BY DEF meaning
<1>3. Allows(15, "Get", m)
  BY <1>1, <1>2, MeaningIs, OpsAre, PositionsAre, SomeBits DEF Allows, Parties, isReplicationOp, ReadOps
<1>4. Allows(15, "Head", m)
  BY <1>1, <1>2, MeaningIs, OpsAre, PositionsAre, SomeBits DEF Allows, Parties, isReplicationOp, ReadOps
<1>5. Allows(12, "Put", m)
  BY <1>1, <1>2, MeaningIs, OpsAre, PositionsAre, SomeBits DEF Allows, Parties, isReplicationOp, ReadOps
<1>6. Allows(8, "Delete", m)
  BY <1>1, <1>2, MeaningIs, OpsAre, PositionsAre, SomeBits DEF Allows, Parties, isReplicationOp, ReadOps
<1>7. Allows(15, "Search", m)
  BY <1>1, <1>2, MeaningIs, OpsAre, PositionsAre, SomeBits DEF Allows, Parties, isReplicationOp, ReadOps
<1>8. Allows(11, "Range", m)
  BY <1>1, <1>2, MeaningIs, OpsAre, PositionsAre, SomeBits DEF Allows, Parties, isReplicationOp, ReadOps
<1>9. Allows(15, "Hash", m)
  BY <1>1, <1>2, MeaningIs, OpsAre, PositionsAre, SomeBits DEF Allows, Parties, isReplicationOp, ReadOps
<1>10. Says(FromHex(named.public_read), m, {"final"})
  <2>1. PICK ds : ds = named.public_read
    OBVIOUS
  <2>2. ds \in Seq(0..15) /\ Len(ds) = 8
    BY <2>1 DEF named
  <2>3. ds[1] = 1 /\ ds[2] = 15 /\ ds[3] = 11 /\ ds[4] = 15 /\ ds[5] = 8 /\ ds[6] = 12 /\ ds[7] = 15 /\ ds[8] = 15
    BY <2>1 DEF named
  <2>4. (0 \in bitsOfDigit(ds[1]) <=> "final" \in {"final"}) /\ (1 \in bitsOfDigit(ds[1]) <=> "sticky" \in {"final"})
    BY <2>3, SomeBits
  <2>5. Says(FromHex(ds), m, {"final"})
    BY <1>3, <1>4, <1>5, <1>6, <1>7, <1>8, <1>9, <2>2, <2>3, <2>4, EightDigits
  <2> QED BY <2>1, <2>5
<1>11. Says(FromHex(named.eacl_public_read), m, {})
  <2>1. PICK ds : ds = named.eacl_public_read
    OBVIOUS
  <2>2. ds \in Seq(0..15) /\ Len(ds) = 8
    BY <2>1 DEF named
  <2>3. ds[1] = 0 /\ ds[2] = 15 /\ ds[3] = 11 /\ ds[4] = 15 /\ ds[5] = 8 /\ ds[6] = 12 /\ ds[7] = 15 /\ ds[8] = 15
    BY <2>1 DEF named
  <2>4. (0 \in bitsOfDigit(ds[1]) <=> "final" \in {}) /\ (1 \in bitsOfDigit(ds[1]) <=> "sticky" \in {})
    BY <2>3, SomeBits
  <2>5. Says(FromHex(ds), m, {})
    BY <1>3, <1>4, <1>5, <1>6, <1>7, <1>8, <1>9, <2>2, <2>3, <2>4, EightDigits
  <2> QED BY <2>1, <2>5
<1> QED BY <1>1, <1>10, <1>11

LEMMA PublicReadWriteSays ==
  /\ Says(FromHex(named.public_read_write), meaning.public_read_write, {"final"})
  /\ Says(FromHex(named.eacl_public_read_write), meaning.public_read_write, {})
<1>1. PICK m \in SUBSET (Ops \X Parties) : m = meaning.public_read_write
  BY MeaningOfPairs
<1>2. DOMAIN meaning = {"private", "public_read", "public_read_write", "public_append"}
  BY DEF meaning
<1>3. Allows(15, "Get", m)
  BY <1>1, <1>2, MeaningIs, OpsAre, PositionsAre, SomeBits DEF Allows, Parties, isReplicationOp, ReadOps
<1>4. Allows(15, "Head", m)
  BY <1>1, <1>2, MeaningIs, OpsAre, PositionsAre, SomeBits DEF Allows, Parties, isReplicationOp, ReadOps
<1>5. Allows(15, "Put", m)
  BY <1>1, <1>2, MeaningIs, OpsAre, PositionsAre, SomeBits DEF Allows, Parties, isReplicationOp, ReadOps
<1>6. Allows(11, "Delete", m)
  BY <1>1, <1>2, MeaningIs, OpsAre, PositionsAre, SomeBits DEF Allows, Parties, isReplicationOp, ReadOps
<1>7. Allows(15, "Search", m)
  BY <1>1, <1>2, MeaningIs, OpsAre, PositionsAre, SomeBits DEF Allows, Parties, isReplicationOp, ReadOps
<1>8. Allows(11, "Range", m)
  BY <1>1, <1>2, MeaningIs, OpsAre, PositionsAre, SomeBits DEF Allows, Parties, isReplicationOp, ReadOps
<1>9. Allows(15, "Hash", m)
  BY <1>1, <1>2, MeaningIs, OpsAre, PositionsAre, SomeBits DEF Allows, Parties, isReplicationOp, ReadOps
<1>10. Says(FromHex(named.public_read_write), m, {"final"})
  <2>1. PICK ds : ds = named.public_read_write
    OBVIOUS
  <2>2. ds \in Seq(0..15) /\ Len(ds) = 8
    BY <2>1 DEF named
  <2>3. ds[1] = 1 /\ ds[2] = 15 /\ ds[3] = 11 /\ ds[4] = 15 /\ ds[5] = 11 /\ ds[6] = 15 /\ ds[7] = 15 /\ ds[8] = 15
    BY <2>1 DEF named
  <2>4. (0 \in bitsOfDigit(ds[1]) <=> "final" \in {"final"}) /\ (1 \in bitsOfDigit(ds[1]) <=> "sticky" \in {"final"})
    BY <2>3, SomeBits
  <2>5. Says(FromHex(ds), m, {"final"})
    BY <1>3, <1>4, <1>5, <1>6, <1>7, <1>8, <1>9, <2>2, <2>3, <2>4, EightDigits
  <2> QED BY <2>1, <2>5
<1>11. Says(FromHex(named.eacl_public_read_write), m, {})
  <2>1. PICK ds : ds = named.eacl_public_read_write
    OBVIOUS
  <2>2. ds \in Seq(0..15) /\ Len(ds) = 8
    BY <2>1 DEF named
  <2>3. ds[1] = 0 /\ ds[2] = 15 /\ ds[3] = 11 /\ ds[4] = 15 /\ ds[5] = 11 /\ ds[6] = 15 /\ ds[7] = 15 /\ ds[8] = 15
    BY <2>1 DEF named
  <2>4. (0 \in bitsOfDigit(ds[1]) <=> "final" \in {}) /\ (1 \in bitsOfDigit(ds[1]) <=> "sticky" \in {})
    BY <2>3, SomeBits
  <2>5. Says(FromHex(ds), m, {})
    BY <1>3, <1>4, <1>5, <1>6, <1>7, <1>8, <1>9, <2>2, <2>3, <2>4, EightDigits
  <2> QED BY <2>1, <2>5
<1> QED BY <1>1, <1>10, <1>11

LEMMA PublicAppendSays ==
  /\ Says(FromHex(named.public_append), meaning.public_append, {"final"})
  /\ Says(FromHex(named.eacl_public_append), meaning.public_append, {})
<1>1. PICK m \in SUBSET (Ops \X Parties) : m = meaning.public_append
  BY MeaningOfPairs
<1>2. DOMAIN meaning = {"private", "public_read", "public_read_write", "public_append"}
  BY DEF meaning
<1>3. Allows(15, "Get", m)
  BY <1>1, <1>2, MeaningIs, OpsAre, PositionsAre, SomeBits DEF Allows, Parties, isReplicationOp, ReadOps
<1>4. Allows(15, "Head", m)
  BY <1>1, <1>2, MeaningIs, OpsAre, PositionsAre, SomeBits DEF Allows, Parties, isReplicationOp, ReadOps
<1>5. Allows(15, "Put", m)
  BY <1>1, <1>2, MeaningIs, OpsAre, PositionsAre, SomeBits DEF Allows, Parties, isReplicationOp, ReadOps
<1>6. Allows(9, "Delete", m)
  BY <1>1, <1>2, MeaningIs, OpsAre, PositionsAre, SomeBits DEF Allows, Parties, isReplicationOp, ReadOps
<1>7. Allows(15, "Search", m)
  BY <1>1, <1>2, MeaningIs, OpsAre, PositionsAre, SomeBits DEF Allows, Parties, isReplicationOp, ReadOps
<1>8. Allows(11, "Range", m)
  BY <1>1, <1>2, MeaningIs, OpsAre, PositionsAre, SomeBits DEF Allows, Parties, isReplicationOp, ReadOps
<1>9. Allows(15, "Hash", m)
  BY <1>1, <1>2, MeaningIs, OpsAre, PositionsAre, SomeBits DEF Allows, Parties, isReplicationOp, ReadOps
<1>10. Says(FromHex(named.public_append), m, {"final"})
  <2>1. PICK ds : ds = named.public_append
    OBVIOUS
  <2>2. ds \in Seq(0..15) /\ Len(ds) = 8
    BY <2>1 DEF named
  <2>3. ds[1] = 1 /\ ds[2] = 15 /\ ds[3] = 11 /\ ds[4] = 15 /\ ds[5] = 9 /\ ds[6] = 15 /\ ds[7] = 15 /\ ds[8] = 15
    BY <2>1 DEF named
  <2>4. (0 \in bitsOfDigit(ds[1]) <=> "final" \in {"final"}) /\ (1 \in bitsOfDigit(ds[1]) <=> "sticky" \in {"final"})
    BY <2>3, SomeBits
  <2>5. Says(FromHex(ds), m, {"final"})
    BY <1>3, <1>4, <1>5, <1>6, <1>7, <1>8, <1>9, <2>2, <2>3, <2>4, EightDigits
  <2> QED BY <2>1, <2>5
<1>11. Says(FromHex(named.eacl_public_append), m, {})
  <2>1. PICK ds : ds = named.eacl_public_append
    OBVIOUS
  <2>2. ds \in Seq(0..15) /\ Len(ds) = 8
    BY <2>1 DEF named
  <2>3. ds[1] = 0 /\ ds[2] = 15 /\ ds[3] = 11 /\ ds[4] = 15 /\ ds[5] = 9 /\ ds[6] = 15 /\ ds[7] = 15 /\ ds[8] = 15
    BY <2>1 DEF named
  <2>4. (0 \in bitsOfDigit(ds[1]) <=> "final" \in {}) /\ (1 \in bitsOfDigit(ds[1]) <=> "sticky" \in {})
    BY <2>3, SomeBits
  <2>5. Says(FromHex(ds), m, {})
    BY <1>3, <1>4, <1>5, <1>6, <1>7, <1>8, <1>9, <2>2, <2>3, <2>4, EightDigits
  <2> QED BY <2>1, <2>5
<1> QED BY <1>1, <1>10, <1>11

LEMMA ACLStarts == ACLInit => ACLInv
<1>1. SUFFICES ASSUME ACLInit PROVE ACLInv
  OBVIOUS
<1>2. CASE acl = {} /\ granted = {} /\ marks = {}
  BY <1>2 DEF ACLInv, Says
<1>3. ASSUME NEW name \in DOMAIN meaning, granted = meaning[name],
             \/ acl = FromHex(named[name]) /\ marks = {"final"}
             \/ acl = FromHex(named[extended[name]]) /\ marks = {}
      PROVE  ACLInv
  <2>1. name \in {"private", "public_read", "public_read_write", "public_append"}
    BY <1>3 DEF meaning
  <2>2. /\ extended["private"] = "eacl_private" /\ extended["public_read"] = "eacl_public_read"
        /\ extended["public_read_write"] = "eacl_public_read_write"
        /\ extended["public_append"] = "eacl_public_append"
    BY DEF extended
  <2>3. CASE name = "private"
    BY <1>3, <2>2, <2>3, PrivateSays DEF ACLInv
  <2>4. CASE name = "public_read"
    BY <1>3, <2>2, <2>4, PublicReadSays DEF ACLInv
  <2>5. CASE name = "public_read_write"
    BY <1>3, <2>2, <2>5, PublicReadWriteSays DEF ACLInv
  <2>6. CASE name = "public_append"
    BY <1>3, <2>2, <2>6, PublicAppendSays DEF ACLInv
  <2> QED BY <2>1, <2>3, <2>4, <2>5, <2>6
<1> QED BY <1>1, <1>2, <1>3 DEF ACLInit

\* Setting the bit of a pair allows that pair and nothing else.
LEMMA SetAllows ==
  ASSUME NEW x, NEW g, NEW m, Says(x, g, m), NEW op \in Ops, NEW party \in Parties
  PROVE  Says(x \cup {opBit(op, party)}, g \cup {<<op, party>>}, m)
<1>1. opBit(op, party) \in 0..27
  BY BitsDiffer
<1>2. PICK k \in 0..27 : k = opBit(op, party)
  BY <1>1
<1>3. /\ x \cup {k} \in SUBSET (0..31)
      /\ g \cup {<<op, party>>} \in SUBSET (Ops \X Parties)
      /\ 28 \in x \cup {k} <=> "final" \in m
      /\ 29 \in x \cup {k} <=> "sticky" \in m
  <2>1. k # 28 /\ k # 29 /\ k \in 0..31
    BY <1>2
  <2>2. x \cup {k} \in SUBSET (0..31)
    BY <2>1 DEF Says
  <2>3. g \cup {<<op, party>>} \in SUBSET (Ops \X Parties)
    BY DEF Says
  <2> QED BY <2>1, <2>2, <2>3 DEF Says
<1>4. ASSUME NEW op2 \in Ops, NEW p2 \in Parties
      PROVE  opBit(op2, p2) \in x \cup {k} <=> <<op2, p2>> \in g \cup {<<op, party>>}
  <2>1. opBit(op2, p2) = k <=> op2 = op /\ p2 = party
    BY <1>2, BitsDiffer
  <2>2. opBit(op2, p2) \in x <=> <<op2, p2>> \in g
    BY DEF Says
  <2>3. <<op2, p2>> = <<op, party>> <=> op2 = op /\ p2 = party
    OBVIOUS
  <2> QED BY <2>1, <2>2, <2>3
<1> QED BY <1>2, <1>3, <1>4 DEF Says

LEMMA ACLSteps == ACLInv /\ [ACLNext]_aclVars => ACLInv'
<1>1. SUFFICES ASSUME ACLInv, [ACLNext]_aclVars PROVE ACLInv'
  OBVIOUS
<1>2. ASSUME NEW op \in Ops, NEW role \in Roles, AllowOp(op, role) PROVE ACLInv'
  <2>1. CASE acl' = acl /\ granted' = granted
    BY <1>1, <1>2, <2>1 DEF AllowOp, ACLInv
  <2>2. CASE /\ role # "InnerRing" /\ acl' = acl \cup {opBit(op, role)}
             /\ granted' = granted \cup {<<op, role>>}
    <3>1. role \in Parties /\ marks' = marks
      BY <1>2, <2>2 DEF Roles, Parties, AllowOp
    <3>2. Says(acl \cup {opBit(op, role)}, granted \cup {<<op, role>>}, marks)
      BY <1>1, <3>1, SetAllows DEF ACLInv
    <3> QED BY <2>2, <3>1, <3>2 DEF ACLInv
  <2> QED BY <1>2, <2>1, <2>2 DEF AllowOp
<1>3. ASSUME NEW op \in Ops, AllowBearerRules(op) PROVE ACLInv'
  <2>1. "Bearer" \in Parties
    BY DEF Parties
  <2>2. Says(acl \cup {opBit(op, "Bearer")}, granted \cup {<<op, "Bearer">>}, marks)
    BY <1>1, <2>1, SetAllows DEF ACLInv
  <2> QED BY <1>3, <2>2 DEF ACLInv, AllowBearerRules
<1>4. \A op \in Ops, party \in Parties : opBit(op, party) \in 0..27
  BY BitsDiffer
<1>5. CASE DisableExtension
  <2>1. acl' = acl \cup {28} /\ marks' = marks \cup {"final"} /\ granted' = granted
    BY <1>5, MarksAre DEF DisableExtension
  <2> QED BY <1>1, <1>4, <2>1 DEF ACLInv, Says
<1>6. CASE MakeSticky
  <2>1. acl' = acl \cup {29} /\ marks' = marks \cup {"sticky"} /\ granted' = granted
    BY <1>6, MarksAre DEF MakeSticky
  <2> QED BY <1>1, <1>4, <2>1 DEF ACLInv, Says
<1>7. ASSUME NEW prefix \in {<<>>, <<0, 0>>, [i \in 1..9 |-> 1]}, Rewrite(prefix) PROVE ACLInv'
  <2>1. acl \in SUBSET (0..31)
    BY <1>1 DEF ACLInv, Says
  <2>2. ASSUME prefix \in Seq({0}) PROVE acl' = acl
    <3>1. FromHex(prefix \o FormatHex(acl)) = acl
      BY <2>1, <2>2, ReadAsWritten
    <3> QED BY <1>7, <2>1, <3>1 DEF Rewrite, DecodeText, EncodeToText
  <2>3. <<>> \in Seq({0}) /\ <<0, 0>> \in Seq({0})
    OBVIOUS
  <2>4. ASSUME prefix = [i \in 1..9 |-> 1] PROVE acl' = acl
    BY <1>7, <2>4, LongRefused DEF Rewrite, EncodeToText
  <2>5. acl' = acl
    BY <1>7, <2>2, <2>3, <2>4
  <2> QED BY <1>1, <1>7, <2>5 DEF Rewrite, ACLInv
<1>8. CASE UNCHANGED aclVars
  BY <1>1, <1>8 DEF ACLInv, aclVars
<1> QED BY <1>1, <1>2, <1>3, <1>5, <1>6, <1>7, <1>8 DEF ACLNext

\* acl: whatever is allowed, in whatever order and however often the number goes
\* through text, it allows exactly what was granted; for every number of calls.
THEOREM GrantedCorrect == ACLSpec => []AllowedIsWhatWasGranted
<1>1. ACLInv => AllowedIsWhatWasGranted
  <2>1. SUFFICES ASSUME ACLInv PROVE AllowedIsWhatWasGranted
    OBVIOUS
  <2>2. ASSUME NEW op \in Ops, NEW role \in Roles
        PROVE  IsOpAllowed(acl, op, role) <=>
                 \/ <<op, role>> \in granted
                 \/ role = "Container" /\ isReplicationOp(op)
                 \/ role = "InnerRing" /\ isAuditOp(op)
    <3>1. CASE role = "InnerRing"
      <4>1. <<op, role>> \notin granted
        BY <2>1, <3>1 DEF ACLInv, Says, Parties
      <4> QED BY <3>1, <4>1 DEF IsOpAllowed
    <3>2. CASE role # "InnerRing"
      <4>1. opBit(op, role) \in acl <=> <<op, role>> \in granted
        BY <2>1, <3>2 DEF ACLInv, Says, Roles, Parties
      <4> QED BY <3>2, <4>1 DEF IsOpAllowed
    <3> QED BY <3>1, <3>2
  <2>3. ASSUME NEW op \in Ops
        PROVE  AllowedBearerRules(acl, op) <=> <<op, "Bearer">> \in granted
    BY <2>1 DEF AllowedBearerRules, ACLInv, Says, Parties
  <2>4. (Extendable(acl) <=> "final" \notin marks) /\ (Sticky(acl) <=> "sticky" \in marks)
    BY <2>1, MarksAre DEF Extendable, Sticky, ACLInv, Says
  <2> QED BY <2>2, <2>3, <2>4 DEF AllowedIsWhatWasGranted
<1> QED BY <1>1, ACLStarts, ACLSteps, PTL DEF ACLSpec

-----------------------------------------------------------------------------
(* Sums of lists *)

\* t is the sums of the first terms of s.
Sums(s, n, t) == t[0] = 0 /\ \A k \in 1..n : t[k] = t[k - 1] + s[k]

\* There are such sums for every length.
LEMMA SumsExist ==
  ASSUME NEW s, NEW n \in Nat
  PROVE  \E t : DOMAIN t = 0..n /\ t = [k \in 0..n |-> t[k]] /\ Sums(s, n, t)
<1> DEFINE Has(m) == \E t : DOMAIN t = 0..m /\ t = [k \in 0..m |-> t[k]] /\ Sums(s, m, t)
           Wrong == {m \in Nat : ~Has(m)}
<1>1. Has(0)
  <2>1. PICK t : t = [k \in 0..0 |-> 0]
    OBVIOUS
  <2>2. DOMAIN t = 0..0 /\ t = [k \in 0..0 |-> t[k]] /\ t[0] = 0
    BY <2>1
  <2>3. Sums(s, 0, t)
    BY <2>2 DEF Sums
  <2> QED BY <2>2, <2>3
<1>2. ASSUME NEW m \in Nat, Has(m) PROVE Has(m + 1)
  <2>1. PICK t : DOMAIN t = 0..m /\ t = [k \in 0..m |-> t[k]] /\ Sums(s, m, t)
    BY <1>2
  <2>2. PICK v : v = [k \in 0..(m + 1) |-> IF k = m + 1 THEN t[m] + s[m + 1] ELSE t[k]]
    OBVIOUS
  <2>3. DOMAIN v = 0..(m + 1) /\ v = [k \in 0..(m + 1) |-> v[k]]
    BY <2>2
  <2>4. \A k \in 0..m : v[k] = t[k]
    BY <2>2
  <2>5. v[m + 1] = t[m] + s[m + 1]
    BY <2>2
  <2>6. Sums(s, m + 1, v)
    <3>1. v[0] = 0
      BY <2>1, <2>4 DEF Sums
    <3>2. ASSUME NEW k \in 1..(m + 1) PROVE v[k] = v[k - 1] + s[k]
      <4>1. CASE k = m + 1
        BY <2>4, <2>5, <4>1
      <4>2. CASE k # m + 1
        <5>1. k \in 1..m /\ k \in 0..m /\ k - 1 \in 0..m
          BY <4>2
        <5>2. t[k] = t[k - 1] + s[k]
          BY <2>1, <5>1 DEF Sums
        <5> QED BY <2>4, <5>1, <5>2
      <4> QED BY <4>1, <4>2
    <3> QED BY <3>1, <3>2 DEF Sums
  <2> QED BY <2>3, <2>6
<1> HIDE DEF Has
<1>3. Wrong = {}
  <2> SUFFICES ASSUME Wrong # {} PROVE FALSE
    OBVIOUS
  <2>1. PICK m \in Wrong : \A k \in Wrong : m <= k
    BY LeastMember
  <2>2. m \in Nat /\ ~Has(m) /\ m # 0
    BY <1>1, <2>1
  <2>3. m - 1 \in Nat /\ ~(m <= m - 1) /\ (m - 1) + 1 = m
    BY <2>2
  <2>4. Has(m - 1)
    BY <2>1, <2>3
  <2> QED BY <1>2, <2>2, <2>3, <2>4
<1>4. Has(n)
  BY <1>3
<1> QED BY <1>4 DEF Has

\* A sum is the last of the sums.
LEMMA SumIs ==
  ASSUME NEW s, Len(s) \in Nat
  PROVE  \E t : Sums(s, Len(s), t) /\ Sum(s) = t[Len(s)]
<1> DEFINE n == Len(s)
           Def(f) == [k \in 0..n |-> IF k = 0 THEN 0 ELSE f[k - 1] + s[k]]
           upTo == CHOOSE f : f = Def(f)
<1>1. PICK t : DOMAIN t = 0..n /\ t = [k \in 0..n |-> t[k]] /\ Sums(s, n, t)
  BY SumsExist
<1>2. t = Def(t)
  <2>1. \A k \in 0..n : t[k] = IF k = 0 THEN 0 ELSE t[k - 1] + s[k]
    <3> SUFFICES ASSUME NEW k \in 0..n PROVE t[k] = IF k = 0 THEN 0 ELSE t[k - 1] + s[k]
      OBVIOUS
    <3>1. CASE k = 0
      BY <1>1, <3>1 DEF Sums
    <3>2. CASE k # 0
      <4>1. k \in 1..n
        BY <3>2
      <4> QED BY <1>1, <3>2, <4>1 DEF Sums
    <3> QED BY <3>1, <3>2
  <2> QED BY <1>1, <2>1
<1>3. Sum(s) = upTo[n]
  BY DEF Sum
<1>4. upTo = Def(upTo)
  <2> HIDE DEF Def
  <2> QED BY <1>2
<1> HIDE DEF upTo
<1>5. Sums(s, n, upTo)
  <2>1. \A k \in 0..n : upTo[k] = IF k = 0 THEN 0 ELSE upTo[k - 1] + s[k]
    BY <1>4
  <2>2. 0 \in 0..n /\ \A k \in 1..n : k \in 0..n /\ k # 0
    OBVIOUS
  <2> QED BY <2>1, <2>2 DEF Sums
<1> QED BY <1>3, <1>5

\* Induction, of a set of numbers.
LEMMA Inductive ==
  ASSUME NEW T \in SUBSET Nat, 0 \in T, \A m \in Nat : m \in T => m + 1 \in T
  PROVE  T = Nat
<1> DEFINE Wrong == Nat \ T
<1> SUFFICES ASSUME Wrong # {} PROVE FALSE
  OBVIOUS
<1>1. PICK m \in Wrong : \A k \in Wrong : m <= k
  BY LeastMember
<1>2. m \in Nat /\ m \notin T /\ m # 0
  BY <1>1
<1>3. m - 1 \in Nat /\ ~(m <= m - 1) /\ (m - 1) + 1 = m
  BY <1>2
<1>4. m - 1 \in T
  BY <1>1, <1>3
<1> QED BY <1>2, <1>3, <1>4

LEMMA SumInt ==
  ASSUME NEW s \in Seq(Int)
  PROVE  Sum(s) \in Int
<1>1. PICK n \in Nat : n = Len(s)
  OBVIOUS
<1>2. PICK t : Sums(s, n, t) /\ Sum(s) = t[n]
  BY <1>1, SumIs
<1> DEFINE T == {m \in Nat : m <= n => t[m] \in Int}
<1>3. 0 \in T
  BY <1>2 DEF Sums
<1>4. ASSUME NEW m \in Nat, m \in T PROVE m + 1 \in T
  <2>1. SUFFICES ASSUME m + 1 <= n PROVE t[m + 1] \in Int
    OBVIOUS
  <2>2. m + 1 \in 1..n /\ (m + 1) - 1 = m /\ m <= n
    BY <2>1
  <2>3. t[m + 1] = t[m] + s[m + 1] /\ t[m] \in Int /\ s[m + 1] \in Int
    BY <1>1, <1>2, <1>4, <2>2 DEF Sums
  <2> QED BY <2>3
<1> HIDE DEF T
<1>5. T = Nat
  <2>1. T \in SUBSET Nat
    BY DEF T
  <2> QED BY <1>3, <1>4, <2>1, Inductive
<1> QED BY <1>2, <1>5 DEF T

\* The sum of a combination of two lists.
LEMMA SumAdds ==
  ASSUME NEW n \in Nat, NEW r \in Seq(Int), NEW s \in Seq(Int), NEW u \in Seq(Int),
         Len(r) = n, Len(s) = n, Len(u) = n, \A k \in 1..n : u[k] = r[k] + s[k]
  PROVE  Sum(u) = Sum(r) + Sum(s)
<1>1. \A k \in 1..n : r[k] \in Int /\ s[k] \in Int
  OBVIOUS
<1>2. PICK a : Sums(r, n, a) /\ Sum(r) = a[n]
  BY <1>1, SumIs
<1>3. PICK b : Sums(s, n, b) /\ Sum(s) = b[n]
  BY <1>1, SumIs
<1>4. PICK c : Sums(u, n, c) /\ Sum(u) = c[n]
  BY <1>1, SumIs
<1> DEFINE T == {m \in Nat : m <= n => a[m] \in Int /\ b[m] \in Int /\ c[m] = a[m] + b[m]}
<1>5. 0 \in T
  BY <1>2, <1>3, <1>4 DEF Sums
<1>6. ASSUME NEW m \in Nat, m \in T PROVE m + 1 \in T
  <2>1. SUFFICES ASSUME m + 1 <= n
                 PROVE a[m + 1] \in Int /\ b[m + 1] \in Int /\ c[m + 1] = a[m + 1] + b[m + 1]
    OBVIOUS
  <2>2. m + 1 \in 1..n /\ (m + 1) - 1 = m /\ m <= n
    BY <2>1
  <2>3. /\ a[m + 1] = a[m] + r[m + 1] /\ b[m + 1] = b[m] + s[m + 1]
        /\ c[m + 1] = c[m] + u[m + 1]
    BY <1>2, <1>3, <1>4, <2>2 DEF Sums
  <2>4. u[m + 1] = r[m + 1] + s[m + 1] /\ r[m + 1] \in Int /\ s[m + 1] \in Int
    BY <1>1, <2>2
  <2>5. a[m] \in Int /\ b[m] \in Int /\ c[m] = a[m] + b[m]
    BY <1>6, <2>2
  <2>6. PICK w \in Int, x \in Int, y \in Int, z \in Int :
          w = a[m] /\ x = b[m] /\ y = r[m + 1] /\ z = s[m + 1]
    BY <2>4, <2>5
  <2>7. a[m + 1] = w + y /\ b[m + 1] = x + z /\ c[m + 1] = (w + x) + (y + z)
    BY <2>3, <2>4, <2>5, <2>6
  <2> QED BY <2>7
<1> HIDE DEF T
<1>7. T = Nat
  <2>1. T \in SUBSET Nat
    BY DEF T
  <2> QED BY <1>5, <1>6, <2>1, Inductive
<1>8. c[n] = a[n] + b[n]
  <2>1. n \in T
    BY <1>7
  <2>2. n <= n => a[n] \in Int /\ b[n] \in Int /\ c[n] = a[n] + b[n]
    BY <2>1 DEF T
  <2> QED BY <2>2
<1> QED BY <1>2, <1>3, <1>4, <1>8

\* A list with one number that is not zero.
Point(n, i, v) == [k \in 1..n |-> IF k = i THEN v ELSE 0]

LEMMA PointType ==
  ASSUME NEW n \in Nat, NEW i, NEW v \in Int
  PROVE  /\ Point(n, i, v) \in Seq(Int) /\ Len(Point(n, i, v)) = n
         /\ \A k \in 1..n : Point(n, i, v)[k] = IF k = i THEN v ELSE 0
  BY DEF Point

LEMMA SumPoint ==
  ASSUME NEW n \in Nat, NEW i \in 1..n, NEW v \in Int
  PROVE  Sum(Point(n, i, v)) = v
<1>1. PICK s : s = Point(n, i, v)
  OBVIOUS
<1>2. s \in Seq(Int) /\ Len(s) = n /\ \A k \in 1..n : s[k] = IF k = i THEN v ELSE 0
  BY <1>1, PointType
<1>3. PICK t : Sums(s, n, t) /\ Sum(s) = t[n]
  BY <1>2, SumIs
<1> DEFINE T == {m \in Nat : m <= n => t[m] = IF m < i THEN 0 ELSE v}
<1>4. 0 \in T
  BY <1>3 DEF Sums
<1>5. ASSUME NEW m \in Nat, m \in T PROVE m + 1 \in T
  <2>1. SUFFICES ASSUME m + 1 <= n PROVE t[m + 1] = IF m + 1 < i THEN 0 ELSE v
    OBVIOUS
  <2>2. m + 1 \in 1..n /\ (m + 1) - 1 = m /\ m <= n
    BY <2>1
  <2>3. t[m + 1] = t[m] + s[m + 1]
    BY <1>3, <2>2 DEF Sums
  <2>4. s[m + 1] = IF m + 1 = i THEN v ELSE 0
    BY <1>2, <2>2
  <2>5. t[m] = IF m < i THEN 0 ELSE v
    BY <1>5, <2>2
  <2> QED BY <2>3, <2>4, <2>5
<1> HIDE DEF T
<1>6. T = Nat
  <2>1. T \in SUBSET Nat
    BY DEF T
  <2> QED BY <1>4, <1>5, <2>1, Inductive
<1>7. t[n] = v
  BY <1>6 DEF T
<1> QED BY <1>1, <1>3, <1>7

LEMMA TermInt ==
  ASSUME NEW n \in Nat, NEW s \in Seq(Int), Len(s) = n
  PROVE  \A k \in 1..n : s[k] \in Int
  OBVIOUS

\* u is s, stretched and shifted.
Scaled(n, s, u, c, d) ==
  /\ s \in Seq(Int) /\ u \in Seq(Int) /\ Len(s) = n /\ Len(u) = n
  /\ \A k \in 1..n : u[k] = s[k] * c - d

\* The sum of a list that is stretched and shifted.
LEMMA SumScaled ==
  ASSUME NEW n \in Nat, NEW s, NEW u, NEW c \in Int, NEW d \in Int, Scaled(n, s, u, c, d)
  PROVE  Sum(u) = Sum(s) * c - n * d
<1>0. /\ s \in Seq(Int) /\ u \in Seq(Int) /\ Len(s) = n /\ Len(u) = n
      /\ \A k \in 1..n : u[k] = s[k] * c - d
  BY DEF Scaled
<1>1. \A k \in 1..n : s[k] \in Int
  BY <1>0, TermInt, Zenon
<1>2. PICK a : Sums(s, n, a) /\ Sum(s) = a[n]
  BY <1>0, SumIs, Zenon
<1>3. PICK b : Sums(u, n, b) /\ Sum(u) = b[n]
  BY <1>0, SumIs, Zenon
<1> DEFINE T == {m \in Nat : m <= n => a[m] \in Int /\ b[m] = a[m] * c - m * d}
<1>4. 0 \in T
  BY <1>2, <1>3 DEF Sums
<1>5. ASSUME NEW m \in Nat, m \in T PROVE m + 1 \in T
  <2>1. SUFFICES ASSUME m + 1 <= n
                 PROVE a[m + 1] \in Int /\ b[m + 1] = a[m + 1] * c - (m + 1) * d
    OBVIOUS
  <2>2. m + 1 \in 1..n /\ (m + 1) - 1 = m /\ m <= n
    BY <2>1
  <2>3. a[m + 1] = a[m] + s[m + 1] /\ b[m + 1] = b[m] + u[m + 1]
    BY <1>2, <1>3, <2>2 DEF Sums
  <2>4. u[m + 1] = s[m + 1] * c - d /\ s[m + 1] \in Int
    BY <1>0, <1>1, <2>2, Zenon
  <2>5. a[m] \in Int /\ b[m] = a[m] * c - m * d
    BY <1>5, <2>2
  <2>6. PICK x \in Int, y \in Int : x = a[m] /\ y = s[m + 1]
    BY <2>4, <2>5
  <2>7. (x + y) * c - (m + 1) * d = (x * c - m * d) + (y * c - d)
    OBVIOUS
  <2>8. a[m + 1] = x + y /\ b[m + 1] = (x * c - m * d) + (y * c - d)
    BY <2>3, <2>4, <2>5, <2>6
  <2>9. a[m + 1] \in Int
    BY <2>8
  <2> QED BY <2>7, <2>8, <2>9, Zenon
<1> HIDE DEF T
<1>6. T = Nat
  <2>1. T \in SUBSET Nat
    BY DEF T
  <2> QED BY <1>4, <1>5, <2>1, Inductive
<1>7. b[n] = a[n] * c - n * d
  <2>1. n \in T
    BY <1>6
  <2>2. n <= n => a[n] \in Int /\ b[n] = a[n] * c - n * d
    BY <2>1 DEF T
  <2> QED BY <2>2
<1> QED BY <1>1, <1>2, <1>3, <1>7

LEMMA SumNat ==
  ASSUME NEW s \in Seq(Nat)
  PROVE  Sum(s) \in Nat
<1>1. PICK n \in Nat : n = Len(s)
  OBVIOUS
<1>2. PICK t : Sums(s, n, t) /\ Sum(s) = t[n]
  BY <1>1, SumIs
<1> DEFINE T == {m \in Nat : m <= n => t[m] \in Nat}
<1>3. 0 \in T
  BY <1>2 DEF Sums
<1>4. ASSUME NEW m \in Nat, m \in T PROVE m + 1 \in T
  <2>1. SUFFICES ASSUME m + 1 <= n PROVE t[m + 1] \in Nat
    OBVIOUS
  <2>2. m + 1 \in 1..n /\ (m + 1) - 1 = m /\ m <= n
    BY <2>1
  <2>3. t[m + 1] = t[m] + s[m + 1] /\ t[m] \in Nat /\ s[m + 1] \in Nat
    BY <1>1, <1>2, <1>4, <2>2 DEF Sums
  <2> QED BY <2>3
<1> HIDE DEF T
<1>5. T = Nat
  <2>1. T \in SUBSET Nat
    BY DEF T
  <2> QED BY <1>3, <1>4, <2>1, Inductive
<1> QED BY <1>2, <1>5 DEF T

LEMMA Merged ==
  ASSUME NEW n \in Nat, NEW r \in Seq(Int), NEW s \in Seq(Int), Len(r) = n, Len(s) = n
  PROVE  \E u \in Seq(Int) : /\ Len(u) = n /\ Sum(u) = Sum(r) + Sum(s)
                            /\ \A k \in 1..n : u[k] = r[k] + s[k]
<1>1. PICK u : u = [k \in 1..n |-> r[k] + s[k]]
  OBVIOUS
<1>2. \A k \in 1..n : r[k] + s[k] \in Int
  BY TermInt
<1>3. u \in Seq(Int) /\ Len(u) = n /\ \A k \in 1..n : u[k] = r[k] + s[k]
  BY <1>1, <1>2
<1>4. Sum(u) = Sum(r) + Sum(s)
  BY <1>3, SumAdds
<1> QED BY <1>3, <1>4

LEMMA SeqEqual ==
  ASSUME NEW n \in Nat, NEW r \in Seq(Int), NEW s \in Seq(Int), Len(r) = n, Len(s) = n,
         \A k \in 1..n : r[k] = s[k]
  PROVE  r = s
  OBVIOUS

\* There is a list with one number that is not zero.
LEMMA Points ==
  ASSUME NEW n \in Nat, NEW i \in 1..n, NEW v \in Int
  PROVE  \E a \in Seq(Int) : /\ Len(a) = n /\ Sum(a) = v /\ a[i] = v
                            /\ \A k \in 1..n : k # i => a[k] = 0
<1>1. PICK a : a = Point(n, i, v)
  OBVIOUS
<1>2. a \in Seq(Int) /\ Len(a) = n /\ \A k \in 1..n : a[k] = IF k = i THEN v ELSE 0
  BY <1>1, PointType
<1>3. Sum(a) = v
  BY <1>1, SumPoint
<1>4. a[i] = v /\ \A k \in 1..n : k # i => a[k] = 0
  BY <1>2
<1> QED BY <1>2, <1>3, <1>4

Exchanged(n, s, u, i, j) ==
  /\ s \in Seq(Int) /\ u \in Seq(Int) /\ Len(s) = n /\ Len(u) = n /\ i # j
  /\ \A k \in 1..n : k # i /\ k # j => u[k] = s[k]
  /\ u[i] + u[j] = s[i] + s[j]

\* Two numbers that change and have the same sum as before change no sum.
LEMMA SumExchange ==
  ASSUME NEW n \in Nat, NEW i \in 1..n, NEW j \in 1..n, NEW s, NEW u, Exchanged(n, s, u, i, j)
  PROVE  Sum(u) = Sum(s)
<1>0. /\ s \in Seq(Int) /\ u \in Seq(Int) /\ Len(s) = n /\ Len(u) = n /\ i # j
      /\ \A k \in 1..n : k # i /\ k # j => u[k] = s[k]
      /\ u[i] + u[j] = s[i] + s[j]
  BY DEF Exchanged
<1>1. \A k \in 1..n : s[k] \in Int /\ u[k] \in Int
  BY <1>0
<1>2. PICK x \in Int : x = u[i] - s[i]
  BY <1>1
<1>3. PICK y \in Int : y = u[j] - s[j]
  BY <1>1
<1>4. x + y = 0 /\ u[i] = s[i] + x /\ u[j] = s[j] + y
  <2>1. u[i] \in Int /\ s[i] \in Int /\ u[j] \in Int /\ s[j] \in Int
    BY <1>1
  <2> QED BY <1>0, <1>2, <1>3, <2>1
<1>5. PICK a \in Seq(Int) : /\ Len(a) = n /\ Sum(a) = x /\ a[i] = x
                            /\ \A k \in 1..n : k # i => a[k] = 0
  BY Points
<1>6. PICK b \in Seq(Int) : /\ Len(b) = n /\ Sum(b) = y /\ b[j] = y
                            /\ \A k \in 1..n : k # j => b[k] = 0
  BY Points
<1>7. PICK m \in Seq(Int) : /\ Len(m) = n /\ Sum(m) = Sum(s) + Sum(a)
                           /\ \A k \in 1..n : m[k] = s[k] + a[k]
  BY <1>0, <1>5, Merged, Zenon
<1>8. PICK v \in Seq(Int) : /\ Len(v) = n /\ Sum(v) = Sum(m) + Sum(b)
                           /\ \A k \in 1..n : v[k] = m[k] + b[k]
  BY <1>6, <1>7, Merged, Zenon
<1>9. \A k \in 1..n : u[k] = v[k]
  <2> SUFFICES ASSUME NEW k \in 1..n PROVE u[k] = v[k]
    OBVIOUS
  <2>1. u[k] \in Int /\ s[k] \in Int /\ m[k] = s[k] + a[k] /\ v[k] = m[k] + b[k]
    BY <1>1, <1>7, <1>8
  <2>2. CASE k = i
    BY <1>0, <1>4, <1>5, <1>6, <2>1, <2>2
  <2>3. CASE k = j
    BY <1>0, <1>4, <1>5, <1>6, <2>1, <2>3
  <2>4. CASE k # i /\ k # j
    BY <1>0, <1>5, <1>6, <2>1, <2>4
  <2> QED BY <2>2, <2>3, <2>4
<1>10. u = v
  BY <1>0, <1>8, <1>9, SeqEqual, Zenon
<1>11. PICK z \in Int : z = Sum(s)
  BY <1>0, SumInt
<1>12. Sum(v) = (z + x) + y
  BY <1>5, <1>6, <1>7, <1>8, <1>11
<1>13. (z + x) + y = z
  BY <1>4
<1> QED BY <1>10, <1>11, <1>12, <1>13

\* No number of a list without negative ones exceeds the sum.
LEMMA SumBounds ==
  ASSUME NEW n \in Nat, NEW s \in Seq(Int), Len(s) = n, \A k \in 1..n : s[k] >= 0, NEW i \in 1..n
  PROVE  s[i] <= Sum(s)
<1>1. \A k \in 1..n : s[k] \in Int
  OBVIOUS
<1>2. PICK x \in Int : x = s[i]
  BY <1>1
<1>3. PICK a \in Seq(Int) : /\ Len(a) = n /\ Sum(a) = x /\ a[i] = x
                            /\ \A k \in 1..n : k # i => a[k] = 0
  BY Points
<1>4. PICK m : m = [k \in 1..n |-> IF k = i THEN 0 ELSE s[k]]
  OBVIOUS
<1>5. \A k \in 1..n : (IF k = i THEN 0 ELSE s[k]) \in Nat /\ (IF k = i THEN 0 ELSE s[k]) \in Int
  BY <1>1
<1>6. /\ m \in Seq(Nat) /\ m \in Seq(Int) /\ Len(m) = n
      /\ m[i] = 0 /\ \A k \in 1..n : k # i => m[k] = s[k]
  BY <1>4, <1>5
<1>7. \A k \in 1..n : s[k] = a[k] + m[k]
  <2> SUFFICES ASSUME NEW k \in 1..n PROVE s[k] = a[k] + m[k]
    OBVIOUS
  <2>1. CASE k = i
    BY <1>2, <1>3, <1>6, <2>1
  <2>2. CASE k # i
    <3>1. a[k] = 0 /\ m[k] = s[k] /\ s[k] \in Int
      BY <1>1, <1>3, <1>6, <2>2
    <3> QED BY <3>1
  <2> QED BY <2>1, <2>2
<1>8. Sum(s) = Sum(a) + Sum(m)
  BY <1>3, <1>6, <1>7, SumAdds
<1>9. Sum(m) \in Nat
  BY <1>6, SumNat
<1> QED BY <1>2, <1>3, <1>8, <1>9

-----------------------------------------------------------------------------
(* The work lists of newSampler *)

Distinct(s) == \A i, j \in 1..Len(s) : s[i] = s[j] => i = j

LEMMA RemoveLast ==
  ASSUME NEW S, NEW s \in Seq(S), s # <<>>, Distinct(s)
  PROVE  /\ Front(s) \in Seq(S) /\ Distinct(Front(s)) /\ Last(s) \in S /\ Contains(s, Last(s))
         /\ Len(Front(s)) = Len(s) - 1
         /\ \A e : Contains(Front(s), e) <=> Contains(s, e) /\ e # Last(s)
<1>1. PICK n \in Nat : n = Len(s) /\ n > 0
  OBVIOUS
<1>2. PICK f : f = Front(s)
  OBVIOUS
<1>3. f \in Seq(S) /\ Len(f) = n - 1 /\ \A k \in 1..(n - 1) : f[k] = s[k]
  BY <1>1, <1>2 DEF Front
<1>4. Last(s) = s[n] /\ n \in 1..n
  BY <1>1 DEF Last
<1>5. \A k \in 1..n : k \in 1..(n - 1) \/ k = n
  BY <1>1
<1>6. \A k \in 1..(n - 1) : k \in 1..n /\ k # n
  BY <1>1
<1>7. Distinct(f)
  BY <1>1, <1>3, <1>6 DEF Distinct
<1>8. ASSUME NEW e PROVE Contains(f, e) <=> Contains(s, e) /\ e # Last(s)
  <2>1. Contains(f, e) <=> \E k \in 1..(n - 1) : s[k] = e
    BY <1>3 DEF Contains
  <2>2. Contains(s, e) <=> \E k \in 1..n : s[k] = e
    BY <1>1 DEF Contains
  <2>3. \A k \in 1..n : s[k] = s[n] <=> k = n
    BY <1>1, <1>4 DEF Distinct
  <2> QED BY <1>4, <1>5, <1>6, <2>1, <2>2, <2>3
<1>9. Contains(s, Last(s)) /\ Last(s) \in S
  BY <1>1, <1>4 DEF Contains
<1> QED BY <1>1, <1>2, <1>3, <1>7, <1>8, <1>9

Added(S, s, x, f) ==
  /\ f \in Seq(S) /\ Distinct(f) /\ Len(f) = Len(s) + 1
  /\ \A e : Contains(f, e) <=> Contains(s, e) \/ e = x

LEMMA AddLast ==
  ASSUME NEW S, NEW s \in Seq(S), NEW x \in S, Distinct(s), ~Contains(s, x)
  PROVE  Added(S, s, x, Append(s, x))
<1>1. PICK n \in Nat : n = Len(s)
  OBVIOUS
<1>2. PICK f : f = Append(s, x)
  OBVIOUS
<1>3. f \in Seq(S) /\ Len(f) = n + 1 /\ (\A k \in 1..n : f[k] = s[k]) /\ f[n + 1] = x
  BY <1>1, <1>2
<1>4. \A k \in 1..(n + 1) : k \in 1..n \/ k = n + 1
  BY <1>1
<1>5. (\A k \in 1..n : k \in 1..(n + 1)) /\ n + 1 \in 1..(n + 1)
  BY <1>1
<1>6. \A k \in 1..n : s[k] # x
  BY <1>1 DEF Contains
<1>7. Distinct(f)
  <2> SUFFICES ASSUME NEW i \in 1..(n + 1), NEW j \in 1..(n + 1), f[i] = f[j] PROVE i = j
    BY <1>3 DEF Distinct
  <2> QED BY <1>1, <1>3, <1>4, <1>6 DEF Distinct
<1>8. ASSUME NEW e PROVE Contains(f, e) <=> Contains(s, e) \/ e = x
  <2>1. Contains(f, e) <=> \E k \in 1..(n + 1) : f[k] = e
    BY <1>3 DEF Contains
  <2>2. Contains(s, e) <=> \E k \in 1..n : s[k] = e
    BY <1>1 DEF Contains
  <2> QED BY <1>3, <1>4, <1>5, <2>1, <2>2
<1> QED BY <1>1, <1>2, <1>3, <1>7, <1>8 DEF Added

-----------------------------------------------------------------------------
(* The alias tables of newSampler *)

\* What column j gives to node i: one that is finished by its probability and its
\* alias, one that is on a list all that is left of its own.
OwedBy(on, q, pr, al, one, i, j) ==
  IF j \in on THEN (IF j = i THEN q[j] ELSE 0)
  ELSE (IF j = i THEN pr[j] ELSE 0) + (IF al[j] = i THEN one - pr[j] ELSE 0)

Owed(n, on, q, pr, al, one, i) == [j \in 1..n |-> OwedBy(on, q, pr, al, one, i, j)]

\* What a column on a list has too much, or too little.
SurplusOf(on, q, one, j) == IF j \in on THEN q[j] - one ELSE 0

Surplus(n, on, q, one) == [j \in 1..n |-> SurplusOf(on, q, one, j)]

IsOwed(s, n, on, q, pr, al, one, i) ==
  /\ s \in Seq(Int) /\ s = Owed(n, on, q, pr, al, one, i) /\ Len(s) = n
  /\ \A j \in 1..n : s[j] = OwedBy(on, q, pr, al, one, i, j)

IsSurplus(s, n, on, q, one) ==
  /\ s \in Seq(Int) /\ s = Surplus(n, on, q, one) /\ Len(s) = n
  /\ \A j \in 1..n : s[j] = SurplusOf(on, q, one, j)

LEMMA OwedList ==
  ASSUME NEW n \in Nat, NEW on, NEW q \in [1..n -> Int], NEW pr \in [1..n -> Int], NEW al,
         NEW one \in Int, NEW i
  PROVE  \E s : IsOwed(s, n, on, q, pr, al, one, i)
<1>1. \A j \in 1..n : OwedBy(on, q, pr, al, one, i, j) \in Int
  BY DEF OwedBy
<1>2. PICK s : s = Owed(n, on, q, pr, al, one, i)
  OBVIOUS
<1>3. s \in Seq(Int) /\ Len(s) = n /\ \A j \in 1..n : s[j] = OwedBy(on, q, pr, al, one, i, j)
  BY <1>1, <1>2 DEF Owed
<1> QED BY <1>2, <1>3 DEF IsOwed

LEMMA SurplusList ==
  ASSUME NEW n \in Nat, NEW on, NEW q \in [1..n -> Int], NEW one \in Int
  PROVE  \E s : IsSurplus(s, n, on, q, one)
<1>1. \A j \in 1..n : SurplusOf(on, q, one, j) \in Int
  BY DEF SurplusOf
<1>2. PICK s : s = Surplus(n, on, q, one)
  OBVIOUS
<1>3. s \in Seq(Int) /\ Len(s) = n /\ \A j \in 1..n : s[j] = SurplusOf(on, q, one, j)
  BY <1>1, <1>2 DEF Surplus
<1> QED BY <1>2, <1>3 DEF IsSurplus

\* A pair: column l is finished with node g as its alias, which pays for it.
Moved(n, l, g, one, on, q, pr, al, on2, q2, pr2, al2) ==
  /\ q \in [1..n -> Int] /\ pr \in [1..n -> Int] /\ al \in [1..n -> 1..n]
  /\ q2 \in [1..n -> Int] /\ pr2 \in [1..n -> Int] /\ al2 \in [1..n -> 1..n]
  /\ l \in on /\ g \in on /\ l # g
  /\ l \notin on2 /\ \A k : k # l => (k \in on2 <=> k \in on)
  /\ q2[g] = q[g] + q[l] - one /\ \A k \in 1..n : k # g => q2[k] = q[k]
  /\ pr2[l] = q[l] /\ \A k \in 1..n : k # l => pr2[k] = pr[k]
  /\ al2[l] = g /\ \A k \in 1..n : k # l => al2[k] = al[k]

\* No node gains or loses by that.
LEMMA PairExchanges ==
  ASSUME NEW n \in Nat, NEW l \in 1..n, NEW g \in 1..n, NEW one \in Int,
         NEW on, NEW q, NEW pr, NEW al, NEW on2, NEW q2, NEW pr2, NEW al2,
         Moved(n, l, g, one, on, q, pr, al, on2, q2, pr2, al2)
  PROVE  /\ \A i \in 1..n : Sum(Owed(n, on2, q2, pr2, al2, one, i))
                            = Sum(Owed(n, on, q, pr, al, one, i))
         /\ Sum(Surplus(n, on2, q2, one)) = Sum(Surplus(n, on, q, one))
<1>0. /\ q \in [1..n -> Int] /\ pr \in [1..n -> Int] /\ al \in [1..n -> 1..n]
      /\ q2 \in [1..n -> Int] /\ pr2 \in [1..n -> Int] /\ al2 \in [1..n -> 1..n]
  BY DEF Moved
<1>1. PICK x \in Int, y \in Int : x = q[l] /\ y = q[g]
  BY <1>0
<1>2. /\ q2[g] = y + x - one /\ pr2[l] = x /\ al2[l] = g /\ g \in on2 /\ l \notin on2
      /\ l \in on /\ g \in on /\ l # g
  BY <1>1 DEF Moved
<1>3. ASSUME NEW i \in 1..n
      PROVE  Sum(Owed(n, on2, q2, pr2, al2, one, i)) = Sum(Owed(n, on, q, pr, al, one, i))
  <2>1. PICK s : IsOwed(s, n, on, q, pr, al, one, i)
    BY <1>0, OwedList
  <2>2. PICK u : IsOwed(u, n, on2, q2, pr2, al2, one, i)
    BY <1>0, OwedList
  <2>3. ASSUME NEW k \in 1..n, k # l, k # g PROVE u[k] = s[k]
    <3>1. /\ q2[k] = q[k] /\ pr2[k] = pr[k] /\ al2[k] = al[k] /\ (k \in on2 <=> k \in on)
      BY <2>3 DEF Moved
    <3>2. OwedBy(on2, q2, pr2, al2, one, i, k) = OwedBy(on, q, pr, al, one, i, k)
      BY <3>1 DEF OwedBy
    <3> QED BY <2>1, <2>2, <3>2 DEF IsOwed
  <2>4. s[l] = (IF l = i THEN x ELSE 0) /\ s[g] = (IF g = i THEN y ELSE 0)
    BY <1>1, <1>2, <2>1 DEF IsOwed, OwedBy
  <2>5. u[l] = (IF l = i THEN x ELSE 0) + (IF g = i THEN one - x ELSE 0)
    BY <1>2, <2>2 DEF IsOwed, OwedBy
  <2>6. u[g] = IF g = i THEN y + x - one ELSE 0
    BY <1>2, <2>2 DEF IsOwed, OwedBy
  <2>7. u[l] + u[g] = s[l] + s[g]
    <3>1. CASE l = i
      <4>1. g # i
        BY <1>2, <3>1
      <4>2. s[l] = x /\ s[g] = 0 /\ u[l] = x + 0 /\ u[g] = 0
        BY <2>4, <2>5, <2>6, <3>1, <4>1
      <4> QED BY <4>2
    <3>2. CASE g = i
      <4>1. l # i
        BY <1>2, <3>2
      <4>2. s[l] = 0 /\ s[g] = y /\ u[l] = 0 + (one - x) /\ u[g] = y + x - one
        BY <2>4, <2>5, <2>6, <3>2, <4>1
      <4> QED BY <4>2
    <3>3. CASE l # i /\ g # i
      BY <2>4, <2>5, <2>6, <3>3
    <3> QED BY <3>1, <3>2, <3>3
  <2>8. Sum(u) = Sum(s)
    <3>1. Exchanged(n, s, u, l, g)
      BY <1>2, <2>1, <2>2, <2>3, <2>7 DEF Exchanged, IsOwed
    <3> QED BY <3>1, SumExchange
  <2> QED BY <2>1, <2>2, <2>8 DEF IsOwed
<1>4. Sum(Surplus(n, on2, q2, one)) = Sum(Surplus(n, on, q, one))
  <2>1. PICK s : IsSurplus(s, n, on, q, one)
    BY <1>0, SurplusList
  <2>2. PICK u : IsSurplus(u, n, on2, q2, one)
    BY <1>0, SurplusList
  <2>3. ASSUME NEW k \in 1..n, k # l, k # g PROVE u[k] = s[k]
    <3>1. q2[k] = q[k] /\ (k \in on2 <=> k \in on)
      BY <2>3 DEF Moved
    <3>2. SurplusOf(on2, q2, one, k) = SurplusOf(on, q, one, k)
      BY <3>1 DEF SurplusOf
    <3> QED BY <2>1, <2>2, <3>2 DEF IsSurplus
  <2>4. s[l] = x - one /\ s[g] = y - one
    BY <1>1, <1>2, <2>1 DEF IsSurplus, SurplusOf
  <2>5. u[l] = 0 /\ u[g] = (y + x - one) - one
    BY <1>2, <2>2 DEF IsSurplus, SurplusOf
  <2>6. u[l] + u[g] = s[l] + s[g]
    BY <2>4, <2>5
  <2>7. Sum(u) = Sum(s)
    <3>1. Exchanged(n, s, u, l, g)
      BY <1>2, <2>1, <2>2, <2>3, <2>6 DEF Exchanged, IsSurplus
    <3> QED BY <3>1, SumExchange
  <2> QED BY <2>1, <2>2, <2>7 DEF IsSurplus
<1> QED BY <1>3, <1>4

\* The columns on the lists have too much and too little in balance, and only one of both.
OneSided(n, on, q, one) ==
  /\ q \in [1..n -> Int]
  /\ Sum(Surplus(n, on, q, one)) = 0
  /\ (\A j \in 1..n : j \in on => q[j] >= one) \/ (\A j \in 1..n : j \in on => q[j] < one)

\* When no column has too little, or none too much, all have enough.
LEMMA NoneLeft ==
  ASSUME NEW n \in Nat, NEW on, NEW q, NEW one \in Int,
         OneSided(n, on, q, one)
  PROVE  \A j \in 1..n : j \in on => q[j] = one
<1> SUFFICES ASSUME q \in [1..n -> Int],
                    Sum(Surplus(n, on, q, one)) = 0,
                    \/ \A j \in 1..n : j \in on => q[j] >= one
                    \/ \A j \in 1..n : j \in on => q[j] < one
             PROVE  \A j \in 1..n : j \in on => q[j] = one
  BY DEF OneSided
<1>0. PICK s : IsSurplus(s, n, on, q, one)
  BY SurplusList
<1>1. /\ s \in Seq(Int) /\ s = Surplus(n, on, q, one) /\ Len(s) = n
      /\ \A j \in 1..n : s[j] = SurplusOf(on, q, one, j)
  BY <1>0 DEF IsSurplus
<1>2. Sum(s) = 0
  BY <1>1
<1>3. \A j \in 1..n : s[j] \in Int /\ q[j] \in Int
  BY <1>1, TermInt
<1>4. CASE \A j \in 1..n : j \in on => q[j] >= one
  <2>1. \A j \in 1..n : s[j] >= 0
    BY <1>1, <1>3, <1>4 DEF SurplusOf
  <2>2. \A j \in 1..n : s[j] <= 0
    BY <1>1, <1>2, <2>1, SumBounds
  <2> QED BY <1>1, <1>3, <1>4, <2>2 DEF SurplusOf
<1>5. CASE \A j \in 1..n : j \in on => q[j] < one
  <2>0. PICK c \in Int, d \in Int : c = -1 /\ d = 0
    OBVIOUS
  <2>1. PICK u : u = [j \in 1..n |-> s[j] * c - d]
    OBVIOUS
  <2>2. \A j \in 1..n : s[j] * c - d \in Int
    BY <1>3
  <2>3. u \in Seq(Int) /\ Len(u) = n /\ \A j \in 1..n : u[j] = s[j] * c - d
    BY <2>1, <2>2
  <2>4. Sum(u) = Sum(s) * c - n * d
    <3>1. Scaled(n, s, u, c, d)
      BY <1>1, <2>3, Zenon DEF Scaled
    <3> QED BY <3>1, SumScaled
  <2>5. Sum(u) = 0
    BY <1>2, <2>0, <2>4
  <2>6. \A j \in 1..n : u[j] = 0 - s[j]
    BY <1>3, <2>0, <2>3
  <2>7. ASSUME NEW j \in 1..n PROVE u[j] >= 0
    <3>1. CASE j \in on
      BY <1>1, <1>3, <1>5, <2>6, <3>1 DEF SurplusOf
    <3>2. CASE j \notin on
      BY <1>1, <2>6, <3>2 DEF SurplusOf
    <3> QED BY <3>1, <3>2
  <2>8. \A j \in 1..n : u[j] <= 0
    BY <2>3, <2>5, <2>7, SumBounds
  <2>9. \A j \in 1..n : j \in on => s[j] = q[j] - one
    BY <1>1 DEF SurplusOf
  <2>10. ASSUME NEW j \in 1..n, j \in on PROVE q[j] = one
    <3>1. s[j] \in Int /\ q[j] \in Int /\ q[j] < one /\ u[j] = 0 - s[j] /\ u[j] <= 0
      BY <1>3, <1>5, <2>6, <2>8, <2>10
    <3> QED BY <2>9, <2>10, <3>1
  <2> QED BY <2>10
<1> QED BY <1>4, <1>5

\* What the lists still hold.
On(n, s, t) == {i \in 1..n : Contains(s, i) \/ Contains(t, i)}

\* The lists part the columns by what is left of them.
Parted(n, s, t, q, one) ==
  /\ s \in Seq(1..n) /\ t \in Seq(1..n) /\ Distinct(s) /\ Distinct(t)
  /\ \A i \in 1..n : ~(Contains(s, i) /\ Contains(t, i))
  /\ \A i \in 1..n : (Contains(s, i) => q[i] < one) /\ (Contains(t, i) => q[i] >= one)

\* A pair of the last columns of both lists leaves r of the second.
PairedBy(n, s, t, q, one, l, g, r, s2, t2, q2) ==
  /\ Parted(n, s, t, q, one) /\ s # <<>> /\ t # <<>> /\ l = Last(s) /\ g = Last(t)
  /\ q2[g] = r /\ \A k \in 1..n : k # g => q2[k] = q[k]
  /\ s2 = IF r < one THEN Append(Front(s), g) ELSE Front(s)
  /\ t2 = IF r < one THEN Front(t) ELSE Append(Front(t), g)

\* The lists after a pair, which has left r of column g.
LEMMA PairParts ==
  ASSUME NEW n \in Nat, NEW s, NEW t, NEW q, NEW one \in Int, NEW l, NEW g, NEW r \in Int,
         NEW s2, NEW t2, NEW q2,
         PairedBy(n, s, t, q, one, l, g, r, s2, t2, q2)
  PROVE  /\ Parted(n, s2, t2, q2, one) /\ l \in 1..n /\ g \in 1..n /\ l # g
         /\ l \in On(n, s, t) /\ g \in On(n, s, t)
         /\ On(n, s2, t2) = On(n, s, t) \ {l}
<1> SUFFICES ASSUME Parted(n, s, t, q, one) /\ s # <<>> /\ t # <<>> /\ l = Last(s) /\ g = Last(t),
                    q2[g] = r /\ \A k \in 1..n : k # g => q2[k] = q[k],
                    s2 = IF r < one THEN Append(Front(s), g) ELSE Front(s),
                    t2 = IF r < one THEN Front(t) ELSE Append(Front(t), g)
             PROVE  /\ Parted(n, s2, t2, q2, one) /\ l \in 1..n /\ g \in 1..n /\ l # g
                    /\ l \in On(n, s, t) /\ g \in On(n, s, t)
                    /\ On(n, s2, t2) = On(n, s, t) \ {l}
  BY DEF PairedBy
<1>0. /\ s \in Seq(1..n) /\ t \in Seq(1..n) /\ Distinct(s) /\ Distinct(t)
      /\ \A i \in 1..n : ~(Contains(s, i) /\ Contains(t, i))
      /\ \A i \in 1..n : (Contains(s, i) => q[i] < one) /\ (Contains(t, i) => q[i] >= one)
  BY DEF Parted
<1>1. PICK a : a = Front(s)
  OBVIOUS
<1>2. PICK b : b = Front(t)
  OBVIOUS
<1>3. /\ a \in Seq(1..n) /\ Distinct(a) /\ l \in 1..n /\ Contains(s, l)
      /\ \A e : Contains(a, e) <=> Contains(s, e) /\ e # l
  BY <1>0, <1>1, RemoveLast
<1>4. /\ b \in Seq(1..n) /\ Distinct(b) /\ g \in 1..n /\ Contains(t, g)
      /\ \A e : Contains(b, e) <=> Contains(t, e) /\ e # g
  BY <1>0, <1>2, RemoveLast
<1>5. l # g /\ ~Contains(s, g) /\ ~Contains(t, l)
  BY <1>0, <1>3, <1>4
<1>6. l \in On(n, s, t) /\ g \in On(n, s, t)
  BY <1>3, <1>4 DEF On
<1>7. CASE r < one
  <2>1. s2 = Append(a, g) /\ t2 = b
    BY <1>1, <1>2, <1>7
  <2>2. ~Contains(a, g)
    BY <1>3, <1>5
  <2>3. /\ s2 \in Seq(1..n) /\ Distinct(s2)
        /\ \A e : Contains(s2, e) <=> Contains(a, e) \/ e = g
    <3>1. Added(1..n, a, g, Append(a, g))
      BY <1>3, <1>4, <2>2, AddLast, Zenon
    <3> QED BY <2>1, <3>1 DEF Added
  <2>4. /\ \A e : Contains(s2, e) <=> (Contains(s, e) /\ e # l) \/ e = g
        /\ \A e : Contains(t2, e) <=> Contains(t, e) /\ e # g
    BY <1>3, <1>4, <2>1, <2>3
  <2> HIDE <1>7
  <2>5. \A i \in 1..n : ~(Contains(s2, i) /\ Contains(t2, i))
    BY <1>0, <2>4
  <2>6. ASSUME NEW i \in 1..n
        PROVE  (Contains(s2, i) => q2[i] < one) /\ (Contains(t2, i) => q2[i] >= one)
    <3>1. CASE i = g
      BY <1>7, <2>4, <3>1
    <3>2. CASE i # g
      BY <1>0, <2>4, <3>2
    <3> QED BY <3>1, <3>2
  <2>7. On(n, s2, t2) = On(n, s, t) \ {l}
    BY <1>3, <1>4, <1>5, <2>4 DEF On
  <2>8. t2 \in Seq(1..n) /\ Distinct(t2)
    BY <1>4, <2>1
  <2>9. Parted(n, s2, t2, q2, one)
    BY <2>3, <2>5, <2>6, <2>8 DEF Parted
  <2> QED BY <1>3, <1>4, <1>5, <1>6, <2>7, <2>9
<1>8. CASE ~(r < one)
  <2>1. s2 = a /\ t2 = Append(b, g)
    BY <1>1, <1>2, <1>8
  <2>2. ~Contains(b, g)
    BY <1>4
  <2>3. /\ t2 \in Seq(1..n) /\ Distinct(t2)
        /\ \A e : Contains(t2, e) <=> Contains(b, e) \/ e = g
    <3>1. Added(1..n, b, g, Append(b, g))
      BY <1>4, <2>2, AddLast, Zenon
    <3> QED BY <2>1, <3>1 DEF Added
  <2>4. /\ \A e : Contains(s2, e) <=> Contains(s, e) /\ e # l
        /\ \A e : Contains(t2, e) <=> Contains(t, e)
    BY <1>3, <1>4, <2>1, <2>3
  <2>5. \A i \in 1..n : ~(Contains(s2, i) /\ Contains(t2, i))
    BY <1>0, <2>4
  <2>6. ASSUME NEW i \in 1..n
        PROVE  (Contains(s2, i) => q2[i] < one) /\ (Contains(t2, i) => q2[i] >= one)
    <3>1. CASE i = g
      <4>1. q2[i] >= one
        BY <1>8, <3>1
      <4> QED BY <1>5, <2>4, <3>1, <4>1
    <3>2. CASE i # g
      BY <1>0, <2>4, <3>2
    <3> QED BY <3>1, <3>2
  <2>7. On(n, s2, t2) = On(n, s, t) \ {l}
    BY <1>3, <1>5, <2>4 DEF On
  <2>8. s2 \in Seq(1..n) /\ Distinct(s2)
    BY <1>3, <2>1
  <2>9. Parted(n, s2, t2, q2, one)
    BY <2>3, <2>5, <2>6, <2>8 DEF Parted
  <2> QED BY <1>3, <1>4, <1>5, <1>6, <2>7, <2>9
<1> QED BY <1>7, <1>8

\* The next column, i, goes to one of the lists, which hold all before it.
NextIs(n, s, t, q, one, i, s2, t2) ==
  /\ Parted(n, s, t, q, one)
  /\ q \in [1..n -> Int]
  /\ i \in 1..n
  /\ \A k \in 1..n : k \in On(n, s, t) <=> k < i
  /\ s2 = IF q[i] < one THEN Append(s, i) ELSE s
  /\ t2 = IF q[i] < one THEN t ELSE Append(t, i)

\* The lists after the next column, i, has gone to one of them.
LEMMA NextParts ==
  ASSUME NEW n \in Nat, NEW s, NEW t, NEW q, NEW one \in Int, NEW i, NEW s2, NEW t2,
         NextIs(n, s, t, q, one, i, s2, t2)
  PROVE  /\ Parted(n, s2, t2, q, one) /\ \A k \in 1..n : k \in On(n, s2, t2) <=> k <= i
         /\ Len(s2) + Len(t2) = Len(s) + Len(t) + 1
<1> SUFFICES ASSUME Parted(n, s, t, q, one),
                    q \in [1..n -> Int],
                    i \in 1..n,
                    \A k \in 1..n : k \in On(n, s, t) <=> k < i,
                    s2 = IF q[i] < one THEN Append(s, i) ELSE s,
                    t2 = IF q[i] < one THEN t ELSE Append(t, i)
             PROVE  /\ Parted(n, s2, t2, q, one) /\ \A k \in 1..n : k \in On(n, s2, t2) <=> k <= i
                    /\ Len(s2) + Len(t2) = Len(s) + Len(t) + 1
  BY DEF NextIs
<1>0. /\ s \in Seq(1..n) /\ t \in Seq(1..n) /\ Distinct(s) /\ Distinct(t)
      /\ \A k \in 1..n : ~(Contains(s, k) /\ Contains(t, k))
      /\ \A k \in 1..n : (Contains(s, k) => q[k] < one) /\ (Contains(t, k) => q[k] >= one)
  BY DEF Parted
<1>1. ~Contains(s, i) /\ ~Contains(t, i)
  BY DEF On
<1>2. CASE q[i] < one
  <2>1. s2 = Append(s, i) /\ t2 = t
    BY <1>2
  <2>2. /\ s2 \in Seq(1..n) /\ Distinct(s2) /\ Len(s2) = Len(s) + 1
        /\ \A e : Contains(s2, e) <=> Contains(s, e) \/ e = i
    <3>1. Added(1..n, s, i, Append(s, i))
      BY <1>0, <1>1, AddLast, Zenon
    <3> QED BY <2>1, <3>1 DEF Added
  <2>3. Parted(n, s2, t2, q, one)
    BY <1>0, <1>1, <1>2, <2>1, <2>2 DEF Parted
  <2>4. \A k \in 1..n : k \in On(n, s2, t2) <=> k \in On(n, s, t) \/ k = i
    BY <2>1, <2>2 DEF On
  <2>5. \A k \in 1..n : k \in On(n, s2, t2) <=> k <= i
    BY <2>4
  <2>6. Len(s2) + Len(t2) = Len(s) + Len(t) + 1
    BY <1>0, <2>1, <2>2
  <2> QED BY <2>3, <2>5, <2>6
<1>3. CASE ~(q[i] < one)
  <2>1. t2 = Append(t, i) /\ s2 = s
    BY <1>3
  <2>2. /\ t2 \in Seq(1..n) /\ Distinct(t2) /\ Len(t2) = Len(t) + 1
        /\ \A e : Contains(t2, e) <=> Contains(t, e) \/ e = i
    <3>1. Added(1..n, t, i, Append(t, i))
      BY <1>0, <1>1, AddLast, Zenon
    <3> QED BY <2>1, <3>1 DEF Added
  <2>3. Parted(n, s2, t2, q, one)
    BY <1>0, <1>1, <1>3, <2>1, <2>2 DEF Parted
  <2>4. \A k \in 1..n : k \in On(n, s2, t2) <=> k \in On(n, s, t) \/ k = i
    BY <2>1, <2>2 DEF On
  <2>5. \A k \in 1..n : k \in On(n, s2, t2) <=> k <= i
    BY <2>4
  <2>6. Len(s2) + Len(t2) = Len(s) + Len(t) + 1
    BY <1>0, <2>1, <2>2
  <2> QED BY <2>3, <2>5, <2>6
<1> QED BY <1>2, <1>3

\* All of the columns are as they were scaled.
Fresh(n, w, q, pr, al, one) ==
  /\ w \in Seq(Int)
  /\ Len(w) = n
  /\ q \in [1..n -> Int]
  /\ \A k \in 1..n : q[k] = w[k] * n
  /\ pr \in [1..n -> Int]

\* Before the first pair every node has its own column, and what some have too
\* much the others have too little.
LEMMA AllOwed ==
  ASSUME NEW n \in Nat, NEW w, NEW q, NEW pr, NEW al, NEW one \in Int,
         Fresh(n, w, q, pr, al, one)
  PROVE  /\ \A i \in 1..n : Sum(Owed(n, 1..n, q, pr, al, one, i)) = w[i] * n
         /\ Sum(Surplus(n, 1..n, q, one)) = Sum(w) * n - n * one
<1> SUFFICES ASSUME w \in Seq(Int),
                    Len(w) = n,
                    q \in [1..n -> Int],
                    \A k \in 1..n : q[k] = w[k] * n,
                    pr \in [1..n -> Int]
             PROVE  /\ \A i \in 1..n : Sum(Owed(n, 1..n, q, pr, al, one, i)) = w[i] * n
                    /\ Sum(Surplus(n, 1..n, q, one)) = Sum(w) * n - n * one
  BY DEF Fresh
<1>1. ASSUME NEW i \in 1..n PROVE Sum(Owed(n, 1..n, q, pr, al, one, i)) = w[i] * n
  <2>1. PICK x \in Int : x = q[i]
    OBVIOUS
  <2>2. Owed(n, 1..n, q, pr, al, one, i) = Point(n, i, x)
    BY <2>1 DEF Owed, OwedBy, Point
  <2>3. Sum(Point(n, i, x)) = x
    BY SumPoint
  <2> QED BY <2>1, <2>2, <2>3
<1>2. PICK u : IsSurplus(u, n, 1..n, q, one)
  BY SurplusList
<1>3. \A k \in 1..n : u[k] = w[k] * n - one
  <2>1. \A k \in 1..n : u[k] = q[k] - one
    BY <1>2 DEF IsSurplus, SurplusOf
  <2> QED BY <2>1, Zenon
<1>4. Scaled(n, w, u, n, one)
  BY <1>2, <1>3, Zenon DEF Scaled, IsSurplus
<1>5. Sum(u) = Sum(w) * n - n * one
  BY <1>4, SumScaled
<1> QED BY <1>1, <1>2, <1>5 DEF IsSurplus

SamplerTypeOK ==
  /\ weights \in Seq(Nat) /\ weights # <<>>
  /\ small \in Seq(1..Len(weights)) /\ large \in Seq(1..Len(weights))
  /\ step # "scale" => p \in [1..Len(weights) -> Int]
  /\ probabilities \in [1..Len(weights) -> Int]
  /\ alias \in [1..Len(weights) -> 1..Len(weights)]

\* While the columns are distributed, the lists hold the first ones.
Distributing ==
  step = "distribute" =>
    /\ \A i \in 1..Len(weights) : p[i] = adjusted[i] * Len(weights)
    /\ Parted(Len(weights), small, large, p, One)
    /\ Len(small) + Len(large) < Len(weights)
    /\ \A i \in 1..Len(weights) :
         i \in On(Len(weights), small, large) <=> i < Len(small) + Len(large) + 1

\* While the tables are built, all columns together owe every node its weight, and
\* the columns on the lists have as much too much as too little.
Building ==
  step = "build" =>
    LET n == Len(weights)
    IN  /\ Parted(n, small, large, p, One)
        /\ \A i \in 1..n :
             Sum(Owed(n, On(n, small, large), p, probabilities, alias, One, i)) = adjusted[i] * n
        /\ Total # 0 => Sum(Surplus(n, On(n, small, large), p, One)) = 0
        /\ Total = 0 => large = <<>> /\ On(n, small, large) = 1..n

DrawInv ==
  /\ SamplerTypeOK
  /\ step = "scale" => small = <<>> /\ large = <<>>
  /\ Distributing /\ Building /\ DrawsByWeight

LEMMA Amounts ==
  ASSUME SamplerTypeOK
  PROVE  /\ Total \in Nat /\ One \in Nat /\ One > 0 /\ Len(weights) \in Nat /\ Len(weights) > 0
         /\ DOMAIN weights = 1..Len(weights) /\ weights \in Seq(Int)
         /\ adjusted \in Seq(Int) /\ Len(adjusted) = Len(weights)
         /\ \A i \in 1..Len(weights) : adjusted[i] = IF Total = 0 THEN 0 ELSE weights[i]
<1>1. weights \in Seq(Nat) /\ weights # <<>>
  BY DEF SamplerTypeOK
<1>2. Total \in Nat
  BY <1>1, SumNat DEF Total
<1>3. PICK n \in Nat : n = Len(weights) /\ n > 0 /\ DOMAIN weights = 1..n
  BY <1>1
<1>4. weights \in Seq(Int)
  BY <1>1
<1>5. /\ adjusted \in Seq(Int) /\ Len(adjusted) = n
      /\ \A i \in 1..n : adjusted[i] = IF Total = 0 THEN 0 ELSE weights[i]
  <2>1. CASE Total = 0
    <3>1. adjusted = [i \in 1..n |-> 0]
      BY <1>3, <2>1 DEF adjusted
    <3> QED BY <2>1, <3>1
  <2>2. CASE Total # 0
    BY <1>3, <1>4, <2>2 DEF adjusted
  <2> QED BY <2>1, <2>2
<1>6. One \in Nat /\ One > 0
  BY <1>2 DEF One
<1> QED BY <1>2, <1>3, <1>4, <1>5, <1>6

\* Scale starts to distribute.
LEMMA ScaleStep ==
  ASSUME DrawInv, Scale
  PROVE  DrawInv'
<1>1. SamplerTypeOK /\ step = "scale" /\ small = <<>> /\ large = <<>>
  BY DEF DrawInv, Scale
<1>2. PICK n \in Nat : n = Len(weights) /\ n > 0 /\ DOMAIN weights = 1..n
  BY <1>1, Amounts
<1>3. /\ weights' = weights /\ small' = <<>> /\ large' = <<>> /\ probabilities' = probabilities
      /\ alias' = alias /\ step' = "distribute" /\ p' = [i \in 1..n |-> adjusted[i] * n]
  BY <1>1, <1>2 DEF Scale
<1>4. \A i \in 1..n : adjusted[i] \in Int
  BY <1>1, <1>2, Amounts, TermInt
<1>5. p' \in [1..n -> Int] /\ \A i \in 1..n : p'[i] = adjusted[i] * n
  BY <1>3, <1>4
<1>6. One' = One /\ adjusted' = adjusted
  BY <1>3 DEF One, adjusted, Total
<1>7. SamplerTypeOK'
  BY <1>1, <1>2, <1>3, <1>5 DEF SamplerTypeOK
<1>8. \A i : ~Contains(<<>>, i)
  BY DEF Contains
<1>9. Parted(n, <<>>, <<>>, p', One)
  BY <1>8 DEF Parted, Distinct
<1>10. \A i \in 1..n : i \in On(n, <<>>, <<>>) <=> i < 0 + 0 + 1
  BY <1>8 DEF On
<1>11. Distributing'
  BY <1>2, <1>3, <1>5, <1>6, <1>9, <1>10 DEF Distributing
<1> QED BY <1>3, <1>7, <1>11 DEF DrawInv, Building, DrawsByWeight

\* The last column to be distributed leaves all of them on the lists.
LEMMA DistributeStep ==
  ASSUME DrawInv, Distribute
  PROVE  DrawInv'
<1>1. SamplerTypeOK /\ step = "distribute" /\ Distributing
  BY DEF DrawInv, Distribute
<1>2. PICK n \in Nat : n = Len(weights) /\ n > 0 /\ DOMAIN weights = 1..n
  BY <1>1, Amounts
<1>3. /\ p \in [1..n -> Int] /\ small \in Seq(1..n) /\ large \in Seq(1..n)
      /\ probabilities \in [1..n -> Int] /\ alias \in [1..n -> 1..n]
  BY <1>1, <1>2 DEF SamplerTypeOK
<1>4. PICK i \in 1..n : i = Len(small) + Len(large) + 1
  BY <1>1, <1>2, <1>3 DEF Distributing
<1>5. /\ weights' = weights /\ p' = p /\ probabilities' = probabilities /\ alias' = alias
      /\ small' = IF p[i] < One THEN Append(small, i) ELSE small
      /\ large' = IF p[i] < One THEN large ELSE Append(large, i)
      /\ step' = IF i = n THEN "build" ELSE "distribute"
  BY <1>2, <1>4 DEF Distribute
<1>6. One' = One /\ adjusted' = adjusted /\ Total' = Total
  BY <1>5 DEF One, adjusted, Total
<1>7. One \in Int /\ One \in Nat /\ Total \in Nat
  BY <1>1, Amounts
<1>8. Parted(n, small, large, p, One) /\ \A k \in 1..n : k \in On(n, small, large) <=> k < i
  BY <1>1, <1>2, <1>4 DEF Distributing
<1>9. /\ Parted(n, small', large', p, One)
      /\ \A k \in 1..n : k \in On(n, small', large') <=> k <= i
      /\ Len(small') + Len(large') = Len(small) + Len(large) + 1
  <2>1. NextIs(n, small, large, p, One, i, small', large')
    BY <1>3, <1>5, <1>8 DEF NextIs
  <2> QED BY <1>7, <2>1, NextParts
<1>10. SamplerTypeOK'
  BY <1>1, <1>2, <1>5, <1>9 DEF SamplerTypeOK, Parted
<1>11. /\ \A k \in 1..n : p[k] = adjusted[k] * n
  BY <1>1, <1>2 DEF Distributing
<1>12. CASE i # n
  <2>1. Len(small') + Len(large') = i /\ i < n /\ step' = "distribute"
    BY <1>4, <1>5, <1>9, <1>12
  <2>2. \A k \in 1..n : k \in On(n, small', large') <=> k < i + 1
    BY <1>9
  <2>3. Distributing'
    BY <1>2, <1>5, <1>6, <1>9, <1>11, <2>1, <2>2 DEF Distributing
  <2> QED BY <1>10, <2>1, <2>3 DEF DrawInv, Building, DrawsByWeight
<1>13. CASE i = n
  <2>1. step' = "build"
    BY <1>5, <1>13
  <2>2. On(n, small', large') = 1..n
    BY <1>9, <1>13 DEF On
  <2>3. adjusted \in Seq(Int) /\ Len(adjusted) = n
    BY <1>1, <1>2, Amounts
  <2>4. /\ \A k \in 1..n : Sum(Owed(n, 1..n, p, probabilities, alias, One, k)) = adjusted[k] * n
        /\ Sum(Surplus(n, 1..n, p, One)) = Sum(adjusted) * n - n * One
    <3>1. Fresh(n, adjusted, p, probabilities, alias, One)
      BY <1>3, <1>11, <2>3 DEF Fresh
    <3> QED BY <1>7, <3>1, AllOwed
  <2>5. ASSUME Total # 0 PROVE Sum(Surplus(n, 1..n, p, One)) = 0
    <3>1. adjusted = weights /\ One = Total /\ Sum(adjusted) = Total
      BY <2>5 DEF adjusted, One, Total
    <3>2. PICK x \in Nat : x = Total
      BY <1>7
    <3>3. x * n - n * x = 0
      OBVIOUS
    <3> QED BY <2>4, <3>1, <3>2, <3>3, Zenon
  <2>6. ASSUME Total = 0 PROVE large' = <<>>
    <3>1. \A k \in 1..n : adjusted[k] = 0
      BY <1>1, <1>2, <2>6, Amounts
    <3>2. \A k \in 1..n : p[k] = 0
      BY <1>11, <3>1
    <3>3. One = 1
      BY <2>6 DEF One
    <3>4. SUFFICES ASSUME large' # <<>> PROVE FALSE
      OBVIOUS
    <3>5. large' \in Seq(1..n)
      BY <1>9 DEF Parted
    <3>6. large'[1] \in 1..n /\ Contains(large', large'[1])
      BY <3>4, <3>5 DEF Contains
    <3>7. p[large'[1]] >= One
      BY <1>9, <3>6 DEF Parted
    <3> QED BY <3>2, <3>3, <3>6, <3>7
  <2>7. Building'
    BY <1>2, <1>5, <1>6, <1>9, <2>2, <2>4, <2>5, <2>6, Zenon DEF Building
  <2> QED BY <1>10, <2>1, <2>7 DEF DrawInv, Distributing, DrawsByWeight
<1> QED BY <1>12, <1>13

\* A pair exchanges what the columns owe.
LEMMA PairStep ==
  ASSUME DrawInv, Pair
  PROVE  DrawInv'
<1>1. SamplerTypeOK /\ step = "build" /\ Building /\ small # <<>> /\ large # <<>>
  BY DEF DrawInv, Pair
<1>2. PICK n \in Nat : n = Len(weights) /\ n > 0 /\ DOMAIN weights = 1..n
  BY <1>1, Amounts
<1>3. /\ p \in [1..n -> Int] /\ small \in Seq(1..n) /\ large \in Seq(1..n)
      /\ probabilities \in [1..n -> Int] /\ alias \in [1..n -> 1..n]
  BY <1>1, <1>2 DEF SamplerTypeOK
<1>4. One \in Int /\ Total \in Nat
  BY <1>1, Amounts
<1>5. Parted(n, small, large, p, One) /\ Total # 0
  BY <1>1, <1>2 DEF Building
<1>6. PICK l \in 1..n : l = Last(small)
  BY <1>1, <1>3, RemoveLast, <1>5 DEF Parted
<1>7. PICK g \in 1..n : g = Last(large)
  BY <1>1, <1>3, RemoveLast, <1>5 DEF Parted
<1>8. PICK r \in Int : r = p[g] + p[l] - One
  BY <1>3, <1>4
<1>9. /\ weights' = weights /\ step' = "build"
      /\ probabilities' = [probabilities EXCEPT ![l] = p[l]]
      /\ alias' = [alias EXCEPT ![l] = g] /\ p' = [p EXCEPT ![g] = r]
      /\ small' = IF r < One THEN Append(Front(small), g) ELSE Front(small)
      /\ large' = IF r < One THEN Front(large) ELSE Append(Front(large), g)
  BY <1>1, <1>6, <1>7, <1>8 DEF Pair
<1>10. One' = One /\ adjusted' = adjusted /\ Total' = Total
  BY <1>9 DEF One, adjusted, Total
<1>11. /\ p' \in [1..n -> Int] /\ p'[g] = r /\ (\A k \in 1..n : k # g => p'[k] = p[k])
       /\ probabilities' \in [1..n -> Int] /\ probabilities'[l] = p[l]
       /\ (\A k \in 1..n : k # l => probabilities'[k] = probabilities[k])
       /\ alias' \in [1..n -> 1..n] /\ alias'[l] = g
       /\ \A k \in 1..n : k # l => alias'[k] = alias[k]
  BY <1>3, <1>9
<1>12. PICK on : on = On(n, small, large)
  OBVIOUS
<1>13. PICK on2 : on2 = On(n, small', large')
  OBVIOUS
<1>14. /\ Parted(n, small', large', p', One) /\ l # g /\ l \in on /\ g \in on
       /\ on2 = on \ {l}
  <2>1. PairedBy(n, small, large, p, One, l, g, r, small', large', p')
    BY <1>1, <1>5, <1>6, <1>7, <1>9, <1>11 DEF PairedBy
  <2> QED BY <1>4, <1>12, <1>13, <2>1, PairParts
<1>15. Moved(n, l, g, One, on, p, probabilities, alias, on2, p', probabilities', alias')
  BY <1>3, <1>8, <1>11, <1>14 DEF Moved
<1>16. /\ \A i \in 1..n : Sum(Owed(n, on2, p', probabilities', alias', One, i))
                          = Sum(Owed(n, on, p, probabilities, alias, One, i))
       /\ Sum(Surplus(n, on2, p', One)) = Sum(Surplus(n, on, p, One))
  BY <1>4, <1>15, PairExchanges
<1>17. SamplerTypeOK'
  BY <1>1, <1>2, <1>9, <1>11, <1>14 DEF SamplerTypeOK, Parted
<1>18. /\ \A i \in 1..n : Sum(Owed(n, on, p, probabilities, alias, One, i)) = adjusted[i] * n
       /\ Sum(Surplus(n, on, p, One)) = 0
  BY <1>1, <1>2, <1>5, <1>12, Zenon DEF Building
<1>19. Building'
  <2>1. \A i \in 1..n : Sum(Owed(n, on2, p', probabilities', alias', One, i)) = adjusted[i] * n
    BY <1>16, <1>18, Zenon
  <2>2. Sum(Surplus(n, on2, p', One)) = 0
    BY <1>16, <1>18, Zenon
  <2>3. Total' # 0
    BY <1>5, <1>10
  <2> QED BY <1>2, <1>9, <1>10, <1>13, <1>14, <2>1, <2>2, <2>3, Zenon DEF Building
<1> QED BY <1>9, <1>17, <1>19 DEF DrawInv, Distributing, DrawsByWeight

\* What is left on the lists owes its own node One, and so does a certain draw.
LEMMA DrainStep ==
  ASSUME DrawInv, Drain
  PROVE  DrawInv'
<1>1. SamplerTypeOK /\ step = "build" /\ Building /\ (small = <<>> \/ large = <<>>)
  BY DEF DrawInv, Drain
<1>2. PICK n \in Nat : n = Len(weights) /\ n > 0 /\ DOMAIN weights = 1..n
  BY <1>1, Amounts
<1>3. /\ p \in [1..n -> Int] /\ probabilities \in [1..n -> Int] /\ alias \in [1..n -> 1..n]
  BY <1>1, <1>2 DEF SamplerTypeOK
<1>4. One \in Int /\ Total \in Nat
  BY <1>1, Amounts
<1>5. PICK on : on = On(n, small, large)
  OBVIOUS
<1>6. \A j \in 1..n : j \in on <=> Contains(small, j) \/ Contains(large, j)
  BY <1>5 DEF On
<1>7. /\ weights' = weights /\ step' = "built" /\ small' = <<>> /\ large' = <<>> /\ p' = p
      /\ alias' = alias
      /\ probabilities' = [j \in 1..n |-> IF Contains(small, j) \/ Contains(large, j)
                                          THEN One ELSE probabilities[j]]
  BY <1>2 DEF Drain
<1>8. /\ probabilities' \in [1..n -> Int]
      /\ \A j \in 1..n : probabilities'[j] = IF j \in on THEN One ELSE probabilities[j]
  BY <1>3, <1>4, <1>6, <1>7
<1>9. One' = One /\ adjusted' = adjusted /\ Total' = Total
  BY <1>7 DEF One, adjusted, Total
<1>10. SamplerTypeOK'
  BY <1>1, <1>2, <1>3, <1>7, <1>8 DEF SamplerTypeOK
<1>11. /\ Parted(n, small, large, p, One)
       /\ \A i \in 1..n : Sum(Owed(n, on, p, probabilities, alias, One, i)) = adjusted[i] * n
       /\ Total # 0 => Sum(Surplus(n, on, p, One)) = 0
       /\ Total = 0 => on = 1..n
  BY <1>1, <1>2, <1>5, Zenon DEF Building
<1>12. Total # 0 => \A j \in 1..n : j \in on => p[j] = One
  <2> SUFFICES ASSUME Total # 0 PROVE \A j \in 1..n : j \in on => p[j] = One
    OBVIOUS
  <2>1. \A j : ~Contains(<<>>, j)
    BY DEF Contains
  <2>2. (\A j \in 1..n : j \in on => p[j] >= One) \/ (\A j \in 1..n : j \in on => p[j] < One)
    BY <1>1, <1>6, <1>11, <2>1 DEF Parted
  <2>3. Sum(Surplus(n, on, p, One)) = 0
    BY <1>11
  <2>4. OneSided(n, on, p, One)
    BY <1>3, <2>2, <2>3 DEF OneSided
  <2> QED BY <1>4, <2>4, NoneLeft
<1>13. ASSUME NEW i \in 1..n
       PROVE  Mass(i)' = IF Total = 0 THEN One ELSE weights[i] * n
  <2>1. Mass(i)' = Sum([j \in 1..n |->
                         (IF j = i THEN probabilities'[j] ELSE 0)
                         + (IF alias[j] = i THEN One - probabilities'[j] ELSE 0)])
    BY <1>2, <1>7, <1>9 DEF Mass
  <2>2. CASE Total = 0
    <3>1. \A j \in 1..n : probabilities'[j] = One
      BY <1>8, <1>11, <2>2
    <3>2. \A j \in 1..n : (IF j = i THEN probabilities'[j] ELSE 0)
                         + (IF alias[j] = i THEN One - probabilities'[j] ELSE 0)
                         = IF j = i THEN One ELSE 0
      BY <1>4, <3>1
    <3>3. Mass(i)' = Sum(Point(n, i, One))
      BY <2>1, <3>2 DEF Point
    <3> QED BY <1>4, <2>2, <3>3, SumPoint
  <2>3. CASE Total # 0
    <3>1. \A j \in 1..n : (IF j = i THEN probabilities'[j] ELSE 0)
                         + (IF alias[j] = i THEN One - probabilities'[j] ELSE 0)
                         = OwedBy(on, p, probabilities, alias, One, i, j)
      <4> SUFFICES ASSUME NEW j \in 1..n
                   PROVE  (IF j = i THEN probabilities'[j] ELSE 0)
                          + (IF alias[j] = i THEN One - probabilities'[j] ELSE 0)
                          = OwedBy(on, p, probabilities, alias, One, i, j)
        OBVIOUS
      <4>1. CASE j \in on
        <5>1. probabilities'[j] = One /\ p[j] = One
          BY <1>8, <1>12, <2>3, <4>1
        <5> QED BY <1>4, <4>1, <5>1 DEF OwedBy
      <4>2. CASE j \notin on
        BY <1>8, <4>2 DEF OwedBy
      <4> QED BY <4>1, <4>2
    <3>2. Mass(i)' = Sum(Owed(n, on, p, probabilities, alias, One, i))
      BY <2>1, <3>1 DEF Owed
    <3>3. adjusted[i] = weights[i]
      BY <2>3 DEF adjusted
    <3> QED BY <1>11, <2>3, <3>2, <3>3, Zenon
  <2> QED BY <2>2, <2>3
<1>14. DrawsByWeight'
  BY <1>2, <1>7, <1>9, <1>13 DEF DrawsByWeight
<1> QED BY <1>7, <1>10, <1>14 DEF DrawInv, Distributing, Building

\* Whatever the weights are, a node is drawn in proportion to its own: the
\* tables of newSampler give every index its share.
THEOREM DrawsCorrect == SamplerSpec => []DrawsByWeight
<1>1. SamplerInit => DrawInv
  <2> SUFFICES ASSUME SamplerInit PROVE DrawInv
    OBVIOUS
  <2>1. PICK n \in 1..MaxNodes : weights \in [1..n -> 0..MaxWeight]
    BY DEF SamplerInit
  <2>2. n \in Nat /\ n > 0 /\ 1 \in 1..n
    OBVIOUS
  <2>3. weights \in Seq(Nat) /\ Len(weights) = n /\ DOMAIN weights = 1..n /\ weights # <<>>
    BY <2>1, <2>2
  <2>4. SamplerTypeOK
    BY <2>2, <2>3 DEF SamplerInit, SamplerTypeOK
  <2> QED BY <2>4 DEF SamplerInit, DrawInv, Distributing, Building, DrawsByWeight
<1>2. DrawInv /\ [SamplerNext]_samplerVars => DrawInv'
  <2> SUFFICES ASSUME DrawInv, [SamplerNext]_samplerVars PROVE DrawInv'
    OBVIOUS
  <2>1. CASE Scale
    BY <2>1, ScaleStep
  <2>2. CASE Distribute
    BY <2>2, DistributeStep
  <2>3. CASE Pair
    BY <2>3, PairStep
  <2>4. CASE Drain
    BY <2>4, DrainStep
  <2>5. CASE UNCHANGED samplerVars
    BY <2>5 DEF samplerVars, DrawInv, SamplerTypeOK, Distributing, Building, DrawsByWeight,
       Mass, One, Total, adjusted
  <2> QED BY <2>1, <2>2, <2>3, <2>4, <2>5 DEF SamplerNext
<1>3. DrawInv => DrawsByWeight
  BY DEF DrawInv
<1> QED BY <1>1, <1>2, <1>3, PTL DEF SamplerSpec
=============================================================================
