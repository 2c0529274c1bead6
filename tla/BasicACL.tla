------------------------------- MODULE BasicACL -------------------------------
(***************************************************************************)
(* The basic ACL of a container: package container/acl.  It is one 32-bit  *)
(* number, modelled as the set of its bits: four for each of the seven     *)
(* operations, and the FINAL and the STICKY bit.  A caller starts from the *)
(* zero value or a predefined one, allows operations, and writes the       *)
(* number as text and reads it again.                                      *)
(***************************************************************************)
EXTENDS Integers, Sequences, FiniteSets

CONSTANT MaxAllowed   \* bound of the model: calls that allow something

VARIABLES
  acl,       \* the bits that are set
  granted,   \* ghost: what was allowed, pairs of an operation and a party
  marks,     \* ghost: which of "final" and "sticky" the caller wanted
  allowed    \* calls of AllowOp and AllowBearerRules so far

aclVars == <<acl, granted, marks, allowed>>

-----------------------------------------------------------------------------
(* Bits. *)

\* Mutant of orderedOps: two operations in the wrong order.
orderedOpsOther == <<"Get", "Head", "Put", "Search", "Delete", "Range", "Hash">>

\* Left-to-right order of the object operations.
orderedOps == <<"Get", "Head", "Put", "Delete", "Search", "Range", "Hash">>

Ops == {orderedOps[i] : i \in DOMAIN orderedOps}
mOrder(op) == (CHOOSE i \in DOMAIN orderedOps : orderedOps[i] = op) - 1

Roles == {"Owner", "Container", "InnerRing", "Others"}

bitsPerOp == 4

bitPosFinal == Cardinality(Ops) * bitsPerOp

bitPosSticky == bitPosFinal + 1

opBitPos == [Bearer |-> 0, Others |-> 1, Container |-> 2, Owner |-> 3]

opBit(op, party) == mOrder(op) * bitsPerOp + opBitPos[party]

isReplicationOp(op) == op \in {"Get", "Head", "Put", "Search", "Hash"}
isAuditOp(op) == op \in {"Get", "Head", "Hash", "Search"}

IsOpAllowed(x, op, role) ==
  CASE role = "InnerRing" -> isAuditOp(op)
    [] role = "Container" -> isReplicationOp(op) \/ opBit(op, role) \in x
    [] OTHER -> opBit(op, role) \in x

AllowedBearerRules(x, op) == opBit(op, "Bearer") \in x
Extendable(x) == bitPosFinal \notin x
Sticky(x) == bitPosSticky \in x

-----------------------------------------------------------------------------
(* Text: hexadecimal digits, most significant first, or a name. *)

bitsOfDigit(d) == {b \in 0..3 : (d \div (2 ^ b)) % 2 = 1}
FromHex(digits) ==
  UNION {{4 * (Len(digits) - i) + b : b \in bitsOfDigit(digits[i])} : i \in DOMAIN digits}

digitAt(x, i) ==
  LET has(b) == IF 4 * i + b \in x THEN 2 ^ b ELSE 0
  IN  has(0) + has(1) + has(2) + has(3)

\* strconv.FormatUint(x, 16): no leading zeros.
FormatHex(x) ==
  LET high == {i \in 0..7 : digitAt(x, i) # 0}
      n == IF high = {} THEN 1 ELSE 1 + (CHOOSE i \in high : \A j \in high : j <= i)
  IN  [i \in 1..n |-> digitAt(x, n - i)]

named == [
  private               |-> <<1, 12, 8, 12, 8, 12, 12, 12>>,
  eacl_private          |-> <<0, 12, 8, 12, 8, 12, 12, 12>>,
  public_read           |-> <<1, 15, 11, 15, 8, 12, 15, 15>>,
  eacl_public_read      |-> <<0, 15, 11, 15, 8, 12, 15, 15>>,
  public_read_write     |-> <<1, 15, 11, 15, 11, 15, 15, 15>>,
  eacl_public_read_write |-> <<0, 15, 11, 15, 11, 15, 15, 15>>,
  public_append         |-> <<1, 15, 11, 15, 9, 15, 15, 15>>,
  eacl_public_append    |-> <<0, 15, 11, 15, 9, 15, 15, 15>>]

EncodeToText(x) == FormatHex(x)

\* DecodeString of digits, after an optional "0x": ParseUint refuses a number of
\* more than 32 bits, and the ACL stays as it is.
DecodeText(x, digits) == IF \A b \in FromHex(digits) : b < 32 THEN FromHex(digits) ELSE x

-----------------------------------------------------------------------------
(* What the names say, after the table of each in the package's tests. *)

OwnerAll == Ops \X {"Owner"}
Replication == {op \in Ops : isReplicationOp(op)} \X {"Container"}
Open(ops, party) == ops \X {party}
ReadOps == Ops \ {"Put", "Delete"}

meaning == [
  private           |-> OwnerAll \cup Replication,
  public_read       |-> OwnerAll \cup Replication
                          \cup Open(ReadOps, "Others") \cup Open(ReadOps, "Bearer"),
  public_read_write |-> OwnerAll \cup Replication \cup Open(Ops, "Others") \cup Open(Ops, "Bearer"),
  public_append     |-> OwnerAll \cup Replication
                          \cup Open(Ops \ {"Delete"}, "Others") \cup Open(Ops, "Bearer")]

extended == [
  private |-> "eacl_private", public_read |-> "eacl_public_read",
  public_read_write |-> "eacl_public_read_write", public_append |-> "eacl_public_append"]

ACLInit ==
  /\ \/ acl = {} /\ granted = {} /\ marks = {}
     \/ \E name \in DOMAIN meaning :
          /\ granted = meaning[name]
          /\ \/ acl = FromHex(named[name]) /\ marks = {"final"}
             \/ acl = FromHex(named[extended[name]]) /\ marks = {}
  /\ allowed = 0

ACLRest == acl = {} /\ granted = {} /\ marks = {} /\ allowed = 0

-----------------------------------------------------------------------------
(* The calls.  A panic changes nothing. *)

AllowOp(op, role) ==
  LET panic == role = "InnerRing" \/ (role = "Container" /\ isReplicationOp(op))
  IN  /\ allowed < MaxAllowed
      /\ acl' = IF panic THEN acl ELSE acl \cup {opBit(op, role)}
      /\ granted' = IF panic THEN granted ELSE granted \cup {<<op, role>>}
      /\ allowed' = allowed + 1
      /\ UNCHANGED marks

AllowBearerRules(op) ==
  /\ allowed < MaxAllowed
  /\ acl' = acl \cup {opBit(op, "Bearer")}
  /\ granted' = granted \cup {<<op, "Bearer">>}
  /\ allowed' = allowed + 1
  /\ UNCHANGED marks

DisableExtension ==
  /\ acl' = acl \cup {bitPosFinal}
  /\ marks' = marks \cup {"final"}
  /\ UNCHANGED <<granted, allowed>>

MakeSticky ==
  /\ acl' = acl \cup {bitPosSticky}
  /\ marks' = marks \cup {"sticky"}
  /\ UNCHANGED <<granted, allowed>>

\* EncodeToString here, DecodeString there, of the digits alone, with zeros in
\* front, or with so many digits in front that the number has more than 32 bits.
Rewrite(prefix) ==
  /\ acl' = DecodeText(acl, prefix \o EncodeToText(acl))
  /\ UNCHANGED <<granted, marks, allowed>>

ACLNext ==
  \/ \E op \in Ops, role \in Roles : AllowOp(op, role)
  \/ \E op \in Ops : AllowBearerRules(op)
  \/ DisableExtension
  \/ MakeSticky
  \/ \E prefix \in {<<>>, <<0, 0>>, [i \in 1..9 |-> 1]} : Rewrite(prefix)

ACLSpec == ACLInit /\ [][ACLNext]_aclVars

-----------------------------------------------------------------------------
(* Properties. *)

\* The number says what was allowed, and nothing else: an operation is allowed to
\* a party if and only if it was allowed by a call or a name, or is a right the
\* party always has, no matter what else was set, in which order, and how often
\* the number went through text.  FINAL and STICKY are set by their own calls or
\* the name alone.  The names mean what the tests list.
AllowedIsWhatWasGranted ==
  /\ \A op \in Ops, role \in Roles :
       IsOpAllowed(acl, op, role) <=>
         \/ <<op, role>> \in granted
         \/ role = "Container" /\ isReplicationOp(op)
         \/ role = "InnerRing" /\ isAuditOp(op)
  /\ \A op \in Ops : AllowedBearerRules(acl, op) <=> <<op, "Bearer">> \in granted
  /\ Extendable(acl) <=> "final" \notin marks
  /\ Sticky(acl) <=> "sticky" \in marks
=============================================================================
