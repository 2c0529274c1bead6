--------------------------------- MODULE Eacl ---------------------------------
(***************************************************************************)
(* Extended ACL tables: package eacl.  A caller builds records and a table *)
(* with the package's calls, sends the table in its wire form, and the     *)
(* Validator decides requests with what was built or received.             *)
(*                                                                         *)
(* The filters and targets of a record and the keys of a target are Go     *)
(* slices: a reference to an array and a length.  A Record or a Target is  *)
(* copied with its slices, so that copies share their arrays, and both     *)
(* append and SetTargetECDSAKeys write into an array that is large enough. *)
(***************************************************************************)
EXTENDS Integers, Sequences, SequencesExt, FiniteSets, TLC

CONSTANTS
  Keys,         \* binary public keys
  Containers,   \* container IDs
  Reserved,     \* the reserved filter keys that are used, of ReservedKeys
  MaxRecords,   \* bound of the model: records of the table
  MaxParts      \* bound of the model: filters and targets added, arrays of keys made

ReservedKeys == {"version", "objectID", "containerID", "ownerID", "creationEpoch",
                 "payloadLength", "payloadHash", "objectType", "homomorphicHash"}

ASSUME EaclAssumption == Reserved \subseteq ReservedKeys

VARIABLES
  table,      \* the table that is built
  rec,        \* the record that is built
  target,     \* the target that is built
  arrays,     \* the arrays of keys, of targets and of filters, by number
  parts,      \* the filters and targets added and arrays of keys made
  rules,      \* ghost: the records of the table as they were when they were added
  sent,       \* ghost: the table that was sent last
  received    \* the table that was restored on the other side

eaclVars == <<table, rec, target, arrays, parts, rules, sent, received>>

-----------------------------------------------------------------------------
(* Slices, in a sequence of arrays as long as their capacities.            *)

NilSlice == [arr |-> 0, len |-> 0]
array(arrs, slice) == IF slice.arr = 0 THEN <<>> ELSE arrs[slice.arr]
elements(arrs, slice) == SubSeq(array(arrs, slice), 1, slice.len)
capacity(arrs, slice) == Len(array(arrs, slice))

\* append(slice, x): in the array while there is room, else in a new one that has
\* room for as many again, zeroed.
appended(arrs, slice, x, zero) ==
  IF slice.len < capacity(arrs, slice)
  THEN [slice |-> [slice EXCEPT !.len = @ + 1],
        arrays |-> [arrs EXCEPT ![slice.arr] = [@ EXCEPT ![slice.len + 1] = x]]]
  ELSE [slice |-> [arr |-> Len(arrs) + 1, len |-> slice.len + 1],
        arrays |-> Append(arrs, Append(elements(arrs, slice), x)
                                \o [i \in 1..(slice.len - 1) |-> zero])]

-----------------------------------------------------------------------------
(* Enumerations.  A value without a number of its own becomes Unknown on   *)
(* the way to the wire, and so does a number this version does not know.   *)

OneOf(known, v) == IF v \in known THEN v ELSE "Unknown"

ActionV2(a) == OneOf({"Allow", "Deny"}, a)

OperationV2(o) ==
  OneOf({"Get", "Head", "Put", "Delete", "Search", "Range", "RangeHash"}, o)

RoleV2(r) == OneOf({"User", "System", "Others"}, r)

MatchV2(m) == OneOf({"StringEqual", "StringNotEqual"}, m)

HeaderTypeV2(h) == OneOf({"Request", "Object", "Service"}, h)

-----------------------------------------------------------------------------
(* Filters. *)

staticStringer(s) == [kind |-> "static", text |-> s, number |-> 0]
u64Stringer(n) == [kind |-> "u64", text |-> "", number |-> n]

EncodeToString(v) == IF v.kind = "u64" THEN ToString(v.number) ELSE v.text

KeyString(k) == IF k.typ = "" THEN k.str ELSE k.typ

KeyFromString(s) ==
  IF s \in ReservedKeys THEN [typ |-> s, str |-> ""] ELSE [typ |-> "", str |-> s]

FilterToV2(f) ==
  [from |-> HeaderTypeV2(f.from), matcher |-> MatchV2(f.matcher),
   key |-> KeyString(f.key), value |-> EncodeToString(f.value)]

\* Mutant of FilterFromV2: the name of a reserved key is read as that of an attribute.
FilterFromV2Untyped(f) ==
  [from |-> HeaderTypeV2(f.from), matcher |-> MatchV2(f.matcher),
   key |-> [typ |-> "", str |-> IF f.key \in ReservedKeys THEN "" ELSE f.key],
   value |-> staticStringer(f.value)]

FilterFromV2(f) ==
  [from |-> HeaderTypeV2(f.from), matcher |-> MatchV2(f.matcher),
   key |-> KeyFromString(f.key), value |-> staticStringer(f.value)]

equalFilters(f1, f2) ==
  /\ f1.from = f2.from
  /\ f1.matcher = f2.matcher
  /\ KeyString(f1.key) = KeyString(f2.key)
  /\ EncodeToString(f1.value) = EncodeToString(f2.value)

ZeroFilter ==
  [from |-> "Unknown", matcher |-> "Unknown", key |-> [typ |-> "", str |-> ""],
   value |-> staticStringer("")]

(* Targets. *)

NewTarget == [role |-> "Unknown", keys |-> NilSlice]

BinaryKeys(t) == elements(arrays.keys, t.keys)

TargetToV2(t) == [role |-> RoleV2(t.role), keys |-> BinaryKeys(t)]

\* Mutant of equalTargets: the keys are not compared.
equalTargetsByRole(t1, t2) == t1.role = t2.role

equalTargets(t1, t2) ==
  /\ t1.role = t2.role
  /\ Len(t1.keys) = Len(t2.keys)
  /\ \A i \in DOMAIN t1.keys : t1.keys[i] = t2.keys[i]

(* Records and tables. *)

NewRecord ==
  [action |-> "Unknown", operation |-> "Unknown", filters |-> NilSlice, targets |-> NilSlice]

filtersOf(r) == elements(arrays.filters, r.filters)
targetsOf(r) == elements(arrays.targets, r.targets)

\* A record with the arrays it refers to read, as every reader sees it.
Seen(r) ==
  LET ts == targetsOf(r)
  IN  [action |-> r.action, operation |-> r.operation, filters |-> filtersOf(r),
       targets |-> [i \in DOMAIN ts |-> [role |-> ts[i].role, keys |-> BinaryKeys(ts[i])]]]
SeenTable(t) == [t EXCEPT !.records = [i \in DOMAIN t.records |-> Seen(t.records[i])]]

RecordToV2(r) ==
  LET fs == filtersOf(r)
      ts == targetsOf(r)
  IN  [action |-> ActionV2(r.action), operation |-> OperationV2(r.operation),
       filters |-> [i \in DOMAIN fs |-> FilterToV2(fs[i])],
       targets |-> [i \in DOMAIN ts |-> TargetToV2(ts[i])]]

NewRecordFromV2(r) ==
  [action |-> ActionV2(r.action), operation |-> OperationV2(r.operation),
   filters |-> [i \in DOMAIN r.filters |-> FilterFromV2(r.filters[i])],
   targets |-> r.targets]

equalRecords(r1, r2) ==
  /\ r1.operation = r2.operation
  /\ r1.action = r2.action
  /\ Len(r1.filters) = Len(r2.filters)
  /\ Len(r1.targets) = Len(r2.targets)
  /\ \A i \in DOMAIN r1.filters : equalFilters(r1.filters[i], r2.filters[i])
  /\ \A i \in DOMAIN r1.targets : equalTargets(r1.targets[i], r2.targets[i])

NoCID == "none"
NewTable == [version |-> "current", cid |-> NoCID, records |-> <<>>]

TableToV2(t) ==
  [version |-> t.version, cid |-> t.cid,
   records |-> [i \in DOMAIN t.records |-> RecordToV2(t.records[i])]]

NewTableFromV2(t) ==
  [version |-> t.version, cid |-> t.cid,
   records |-> [i \in DOMAIN t.records |-> NewRecordFromV2(t.records[i])]]

EqualTables(t1, t2) ==
  /\ t1.cid = t2.cid
  /\ t1.version = t2.version
  /\ Len(t1.records) = Len(t2.records)
  /\ \A i \in DOMAIN t1.records : equalRecords(t1.records[i], t2.records[i])

-----------------------------------------------------------------------------
(* The Validator.  A unit holds the request's operation, the sender's role *)
(* and key, and for each type of header whether the headers could be       *)
(* composed and which they are.                                            *)

matchFn(header, f) ==
  \/ f.matcher = "StringEqual" /\ header.value = EncodeToString(f.value)
  \/ f.matcher = "StringNotEqual" /\ header.value # EncodeToString(f.value)

\* Mutant of matchFilters: the counting starts at the filter that cannot be read.
matchFiltersSkipping(hdrSrc, filters) ==
  Len(filters) - Cardinality({i \in DOMAIN filters :
    \/ ~hdrSrc[filters[i].from].ok
    \/ \E h \in hdrSrc[filters[i].from].headers :
          h.key = KeyString(filters[i].key) /\ matchFn(h, filters[i])})

matchFilters(hdrSrc, filters) ==
  IF \E i \in DOMAIN filters : ~hdrSrc[filters[i].from].ok THEN -1
  ELSE Len(filters) - Cardinality({i \in DOMAIN filters :
         \E h \in hdrSrc[filters[i].from].headers :
            h.key = KeyString(filters[i].key) /\ matchFn(h, filters[i])})

targetMatches(unit, r) ==
  \E i \in DOMAIN r.targets :
    LET t == r.targets[i]
    IN  IF t.keys # <<>> THEN \E k \in DOMAIN t.keys : t.keys[k] = unit.key
        ELSE t.role = unit.role

\* One turn of the loop over the records; it ends with an answer.
tryRecord(unit, acc, r) ==
  IF acc.end \/ r.operation # unit.op \/ ~targetMatches(unit, r) THEN acc
  ELSE LET val == matchFilters(unit.hdrSrc, r.filters)
       IN  IF val < 0 THEN [action |-> "Allow", matched |-> FALSE, end |-> TRUE]
           ELSE IF val = 0 THEN [action |-> r.action, matched |-> TRUE, end |-> TRUE]
           ELSE acc

CalculateAction(unit, t) ==
  LET loop[i \in 0..Len(t.records)] ==
        IF i = 0 THEN [action |-> "Allow", matched |-> FALSE, end |-> FALSE]
        ELSE tryRecord(unit, loop[i - 1], t.records[i])
  IN  loop[Len(t.records)]

Decision(unit, t) ==
  LET d == CalculateAction(unit, t) IN <<d.action, d.matched>>

\* The requests that are asked about.  An attribute "a" may be there with one
\* value, with another, or twice; an object has an ID and a length.
NotComposed == [ok |-> FALSE, headers |-> {}]
Composed(hs) == [ok |-> TRUE, headers |-> hs]
Attr(v) == [key |-> "a", value |-> v]
ObjectFields == {[key |-> "objectID", value |-> "x"], [key |-> "payloadLength", value |-> "5"]}
HeaderSources ==
  {[Request |-> rq, Object |-> ob, Service |-> NotComposed, Unknown |-> NotComposed] :
     rq \in {NotComposed, Composed({}), Composed({Attr("5"), Attr("x")})},
     ob \in {NotComposed, Composed(ObjectFields \cup {Attr("x")})}}
Units == [op : {"Get"}, role : {"User", "Others"}, key : Keys, hdrSrc : HeaderSources]

-----------------------------------------------------------------------------
(* The calls that build a table. *)

EaclInit ==
  /\ table = NewTable
  /\ rec = NewRecord
  /\ target = NewTarget
  /\ arrays = [keys |-> <<>>, filters |-> <<>>, targets |-> <<>>]
  /\ parts = 0
  /\ rules = <<>>
  /\ sent = NewTable
  /\ received = NewTable

SetCID(c) ==
  /\ table' = [table EXCEPT !.cid = c]
  /\ UNCHANGED <<rec, target, arrays, parts, rules, sent, received>>

\* A caller takes up another record when the one at hand is in the table.
Done == rec = NewRecord \/ rec \in Range(table.records)

\* The blank record of NewRecord and SetAction, SetOperation, or CreateRecord.
CreateRecord(action, operation) ==
  /\ Len(table.records) < MaxRecords /\ Done
  /\ rec' = [NewRecord EXCEPT !.action = action, !.operation = operation]
  /\ UNCHANGED <<table, target, arrays, parts, rules, sent, received>>

\* A copy of one of Records(), to make another rule of it.
TakeRecord(i) ==
  /\ Len(table.records) < MaxRecords /\ Done
  /\ rec' = table.records[i]
  /\ UNCHANGED <<table, target, arrays, parts, rules, sent, received>>

addFilter(from, m, key, value) ==
  LET f == [from |-> from, matcher |-> m, key |-> key, value |-> value]
      w == appended(arrays.filters, rec.filters, f, ZeroFilter)
  IN  /\ parts < MaxParts
      /\ parts' = parts + 1
      /\ rec' = [rec EXCEPT !.filters = w.slice]
      /\ arrays' = [arrays EXCEPT !.filters = w.arrays]
      /\ UNCHANGED <<table, target, rules, sent, received>>

\* AddFilter, and AddObjectAttributeFilter when the headers are the object's.
AddFilter(from, m, name, value) ==
  addFilter(from, m, [typ |-> "", str |-> name], staticStringer(value))

\* The nine methods for the fields of an object.
AddObjectReservedFilter(m, typ) ==
  addFilter("Object", m, [typ |-> typ, str |-> ""],
            IF typ \in {"creationEpoch", "payloadLength"} THEN u64Stringer(5)
            ELSE staticStringer("x"))

SetRole(r) ==
  /\ target' = [target EXCEPT !.role = r]
  /\ UNCHANGED <<table, rec, arrays, parts, rules, sent, received>>

\* The keys are written into the array of the slice when it is large enough.
overwritten(arrs, slice, ks) ==
  IF capacity(arrs, slice) >= Len(ks)
  THEN [slice |-> [slice EXCEPT !.len = Len(ks)],
        arrays |-> IF slice.arr = 0 THEN arrs
                   ELSE [arrs EXCEPT ![slice.arr] = ks \o SubSeq(@, Len(ks) + 1, Len(@))]]
  ELSE [slice |-> [arr |-> Len(arrs) + 1, len |-> Len(ks)], arrays |-> Append(arrs, ks)]

made(arrs) == Len(arrs) - Len(arrays.keys)

SetTargetECDSAKeys(ks) ==
  LET w == overwritten(arrays.keys, target.keys, ks)
  IN  /\ parts + made(w.arrays) <= MaxParts
      /\ parts' = parts + made(w.arrays)
      /\ target' = [target EXCEPT !.keys = w.slice]
      /\ arrays' = [arrays EXCEPT !.keys = w.arrays]
      /\ UNCHANGED <<table, rec, rules, sent, received>>

\* SetTargets(append(Targets(), t)), with the arrays of keys as they are then.
addTarget(t, keyArrays) ==
  LET w == appended(arrays.targets, rec.targets, t, NewTarget)
  IN  /\ parts + made(keyArrays) < MaxParts
      /\ parts' = parts + made(keyArrays) + 1
      /\ rec' = [rec EXCEPT !.targets = w.slice]
      /\ arrays' = [arrays EXCEPT !.targets = w.arrays, !.keys = keyArrays]
      /\ UNCHANGED <<table, target, rules, sent, received>>

AddRecordTarget == addTarget(target, arrays.keys)

AddFormedTarget(role, ks) ==
  LET w == overwritten(arrays.keys, NilSlice, ks)
  IN  addTarget([role |-> role, keys |-> w.slice], w.arrays)

AddRecord ==
  /\ rec # NewRecord /\ Len(table.records) < MaxRecords
  /\ table' = [table EXCEPT !.records = Append(@, rec)]
  /\ rules' = Append(rules, Seen(rec))
  /\ UNCHANGED <<rec, target, arrays, parts, sent, received>>

\* Marshal here and Unmarshal there, or the JSON forms of both.
Send ==
  /\ table.records # <<>> /\ Done
  /\ received.records = <<>>
  /\ sent' = SeenTable(table)
  /\ received' = NewTableFromV2(TableToV2(table))
  /\ UNCHANGED <<table, rec, target, arrays, parts, rules>>

KeyLists == {<<>>} \cup {<<k>> : k \in Keys}

\* The filters and records that are tried: each type of header, each matcher, and
\* a reserved name given as an attribute's.
FilterInputs ==
  {<<"Request", "StringEqual", "a">>, <<"Object", "StringNotEqual", "a">>,
   <<"Object", "Unknown", "a">>, <<"Unknown", "StringEqual", "a">>,
   <<"Object", "StringEqual", "objectID">>}
RecordInputs == {<<"Allow", "Get">>, <<"Deny", "Get">>, <<"Deny", "Put">>}

(* Calls of three kinds; at one time a caller works on rules or on keys. *)

RecordCalls ==
  \/ \E i \in RecordInputs : CreateRecord(i[1], i[2])
  \/ \E ks \in KeyLists : rec # NewRecord /\ AddFormedTarget("User", ks)
  \/ AddRecord
  \/ Send

FilterCalls ==
  /\ rec # NewRecord
  /\ \/ \E i \in FilterInputs : AddFilter(i[1], i[2], i[3], "x")
     \/ \E typ \in Reserved : AddObjectReservedFilter("StringEqual", typ)

TargetCalls ==
  \/ \E i \in DOMAIN table.records : TakeRecord(i)
  \/ \E c \in Containers : SetCID(c)
  \/ SetRole("Others")
  \/ \E ks \in KeyLists : SetTargetECDSAKeys(ks)
  \/ rec # NewRecord /\ AddRecordTarget

EaclSpec == EaclInit /\ [][RecordCalls \/ FilterCalls \/ TargetCalls]_eaclVars

-----------------------------------------------------------------------------
(* Properties. *)

\* CalculateAction answers for the first record of the operation and the sender
\* that either fits the headers or needs headers that could not be composed,
\* and only in the first case is the answer that record's: a rule that cannot be
\* evaluated allows, and hides every rule behind it.
FirstRuleDecides ==
  \A u \in Units :
    LET rs == SeenTable(table).records
        Concerns(i) == rs[i].operation = u.op /\ targetMatches(u, rs[i])
        Readable(i) == \A f \in Range(rs[i].filters) : u.hdrSrc[f.from].ok
        Fits(i) == Readable(i) /\ \A f \in Range(rs[i].filters) :
                     \E h \in u.hdrSrc[f.from].headers :
                        h.key = KeyString(f.key) /\ matchFn(h, f)
        Ends(i) == Concerns(i) /\ (Fits(i) \/ ~Readable(i))
        first == {i \in DOMAIN rs : Ends(i) /\ \A j \in 1..(i - 1) : ~Ends(j)}
    IN  Decision(u, SeenTable(table)) =
          IF \E i \in first : Fits(i)
          THEN <<rs[CHOOSE i \in first : TRUE].action, TRUE>>
          ELSE <<"Allow", FALSE>>

\* A table restored from its wire form is equal to the one that was sent and
\* decides every request as it did, whatever kinds of keys, values, targets and
\* unset fields it was built with.
DecisionSurvivesWire ==
  /\ EqualTables(sent, received)
  /\ \A u \in Units : Decision(u, sent) = Decision(u, received)

\* Tables that EqualTables calls equal decide every request alike: a caller may
\* skip setting a table that is equal to the one in force.
EqualTablesDecideAlike ==
  EqualTables(SeenTable(table), received) =>
    \A u \in Units : Decision(u, SeenTable(table)) = Decision(u, received)

\* A rule of the table stays as it was when AddRecord added it, whatever is done
\* afterwards with records and targets: AddRecordTarget "adds single Target to the
\* Record" and SetTargetECDSAKeys stores keys "in Target", in no other rule.
RulesStayAsAdded == SeenTable(table).records = rules
=============================================================================
