---------------------------- MODULE Client_proofs ----------------------------
(***************************************************************************)
(* The client.  Its unary calls for any callers and any number of calls,   *)
(* with their two pure parts for any number of servers on the way: errors  *)
(* as statuses, and layered signatures.  And ObjectWriter for every        *)
(* maxChunkLen and every payload: what the server reads is the header and  *)
(* then the bytes Write has accepted, and Close returns nil, or hides the  *)
(* status of the server, in no other case.                                 *)
(***************************************************************************)
EXTENDS Calls, Sign, ObjectWriter, FiniteSetTheorems, WellFoundedInduction, TLAPS

-----------------------------------------------------------------------------
(* Types and codes of statuses *)

CommonTypes == {"ServerInternal", "WrongMagicNumber", "SignatureVerification",
                "NodeUnderMaintenance"}
ObjectTypes == {"ObjectAccessDenied", "ObjectNotFound", "ObjectLocked", "LockNonRegularObject",
                "ObjectAlreadyRemoved", "ObjectOutOfRange"}
OtherTypes == {"ContainerNotFound", "EACLNotFound", "SessionTokenNotFound",
               "SessionTokenExpired"}

LEMMA TypesAre ==
  /\ DOMAIN commonCodes = CommonTypes
  /\ Types = CommonTypes \cup ObjectTypes \cup OtherTypes
<1>1. /\ DOMAIN commonCodes = CommonTypes
      /\ DOMAIN objectCodes = ObjectTypes
      /\ DOMAIN otherCodes = OtherTypes
  BY DEF commonCodes, objectCodes, otherCodes, CommonTypes, ObjectTypes, OtherTypes
<1> QED BY <1>1 DEF Types

\* The code of a type names its section.
LEMMA CodesAre ==
  /\ codes["ServerInternal"] = <<"common", 0>>
  /\ codes["WrongMagicNumber"] = <<"common", 1>>
  /\ codes["SignatureVerification"] = <<"common", 2>>
  /\ codes["NodeUnderMaintenance"] = <<"common", 3>>
  /\ codes["ObjectAccessDenied"] = <<"object", 0>>
  /\ codes["ObjectNotFound"] = <<"object", 1>>
  /\ codes["ObjectLocked"] = <<"object", 2>>
  /\ codes["LockNonRegularObject"] = <<"object", 3>>
  /\ codes["ObjectAlreadyRemoved"] = <<"object", 4>>
  /\ codes["ObjectOutOfRange"] = <<"object", 5>>
  /\ codes["ContainerNotFound"] = <<"container", 0>>
  /\ codes["EACLNotFound"] = <<"container", 1>>
  /\ codes["SessionTokenNotFound"] = <<"session", 0>>
  /\ codes["SessionTokenExpired"] = <<"session", 1>>
  BY DEF codes, Types, commonCodes, objectCodes, otherCodes

\* No two types share a code, and none has the code of success.
LEMMA CodesDiffer ==
  /\ \A t \in Types : codes[t] # OK
  /\ \A t, u \in Types : codes[t] = codes[u] => t = u
<1> DEFINE section(t) == codes[t][1]
           number(t) == codes[t][2]
<1>1. /\ \A t \in CommonTypes : section(t) = "common"
      /\ \A t \in ObjectTypes : section(t) = "object"
      /\ \A t \in {"ContainerNotFound", "EACLNotFound"} : section(t) = "container"
      /\ \A t \in {"SessionTokenNotFound", "SessionTokenExpired"} : section(t) = "session"
  BY CodesAre DEF CommonTypes, ObjectTypes
<1>2. \A t, u \in CommonTypes : number(t) = number(u) => t = u
  BY CodesAre DEF CommonTypes
<1>3. \A t, u \in ObjectTypes : number(t) = number(u) => t = u
  BY CodesAre DEF ObjectTypes
<1>4. \A t, u \in {"ContainerNotFound", "EACLNotFound"} : number(t) = number(u) => t = u
  BY CodesAre
<1>5. \A t, u \in {"SessionTokenNotFound", "SessionTokenExpired"} :
        number(t) = number(u) => t = u
  BY CodesAre
<1>6. \A t \in Types : codes[t] # OK
  BY CodesAre, TypesAre DEF OK, CommonTypes, ObjectTypes, OtherTypes
<1> HIDE DEF section, number
<1>7. ASSUME NEW t \in Types, NEW u \in Types, codes[t] = codes[u] PROVE t = u
  <2>1. section(t) = section(u) /\ number(t) = number(u)
    BY <1>7 DEF section, number
  <2> QED BY <1>1, <1>2, <1>3, <1>4, <1>5, <2>1, TypesAre DEF OtherTypes
<1> QED BY <1>6, <1>7

\* A status that is sent is restored with its type.
LEMMA RestoredIs ==
  ASSUME NEW st, NEW t \in Types, st.code = codes[t]
  PROVE  ErrorFromV2(st) = Restored(t, st)
<1>1. (CHOOSE u \in Types : codes[u] = st.code) = t
  BY CodesDiffer
<1>2. st.code # OK /\ \E u \in Types : codes[u] = st.code
  BY CodesDiffer
<1> QED BY <1>1, <1>2 DEF ErrorFromV2

-----------------------------------------------------------------------------
(* An error on its way *)

AllTypes == Types \cup {"nil", "plain", "Unrecognized"}
Marks == Magics \cup {-1}
Details == Seq(Marks)

GoErrors == [type : AllTypes, message : {"", "text", "default"}, details : Details,
             wrapped : BOOLEAN]

SaidRecords == [type : AllTypes, magic : Int \cup Magics, message : {"", "text", "default"}]

StatusTypes == goError \in GoErrors /\ hops \in Nat /\ said \in SaidRecords

\* The first conversion decides what the error is from then on.
TypeKept == hops = 0 \/ said.type \in Types \cup {"nil"} => goError.type = said.type

OthersInternal ==
  hops > 0 /\ said.type \in {"plain", "Unrecognized"} => goError.type = "ServerInternal"

MagicKept ==
  said.type \in {"WrongMagicNumber", "ObjectAccessDenied"} => CorrectMagic(goError) = said.magic

StatusInv == StatusTypes /\ TypeKept /\ OthersInternal /\ MagicKept

LEMMA NoDetail == <<>> \in Details /\ <<-1>> \in Details
<1>1. \A S : <<>> \in Seq(S)
  OBVIOUS
<1>2. \A S, x : x \in S => <<x>> \in Seq(S)
  OBVIOUS
<1>3. -1 \in Marks
  BY DEF Marks
<1> QED BY <1>1, <1>2, <1>3 DEF Details

LEMMA TypesApart ==
  /\ {"nil", "plain", "Unrecognized"} \cap Types = {}
  /\ {"ServerInternal", "WrongMagicNumber", "ObjectAccessDenied", "ObjectNotFound"} \subseteq Types
  BY TypesAre DEF CommonTypes, ObjectTypes, OtherTypes

LEMMA GoErrorType ==
  ASSUME NEW t \in AllTypes, NEW m \in {"", "text", "default"}, NEW d \in Details
  PROVE  [type |-> t, message |-> m, details |-> d, wrapped |-> FALSE] \in GoErrors
  BY DEF GoErrors

LEMMA NamesInAll == Types \subseteq AllTypes /\ {"nil", "plain", "Unrecognized"} \subseteq AllTypes
  BY DEF AllTypes

Carries(st) == st.message \in {"", "text", "default"} /\ st.details \in Details

LEMMA RestoredType == \A st : Carries(st) => ErrorFromV2(st) \in GoErrors
<1> SUFFICES ASSUME NEW st, Carries(st) PROVE ErrorFromV2(st) \in GoErrors
  OBVIOUS
<1> USE DEF Carries
<1>1. <<>> \in Details
  BY NoDetail
<1>2. CASE st.code = OK
  BY <1>1, <1>2, GoErrorType, NamesInAll DEF ErrorFromV2, NoError
<1>3. CASE st.code # OK /\ \E t \in Types : codes[t] = st.code
  <2>1. PICK t \in Types : codes[t] = st.code
    BY <1>3
  <2>2. ErrorFromV2(st) = Restored(t, st)
    BY <2>1, RestoredIs
  <2> QED BY <2>2, GoErrorType, NamesInAll DEF Restored
<1>4. CASE st.code # OK /\ ~\E t \in Types : codes[t] = st.code
  BY <1>4, GoErrorType, NamesInAll DEF ErrorFromV2, Restored
<1> QED BY <1>2, <1>3, <1>4

LEMMA StatusInvInit == StatusInit => StatusInv
<1> SUFFICES ASSUME StatusInit PROVE StatusInv
  OBVIOUS
<1>1. <<>> \in Details /\ <<-1>> \in Details
  BY NoDetail
<1>2. goError \in GoErrors
  <2>1. CASE \E t \in Types : goError = [type |-> t, message |-> "", details |-> <<>>, wrapped |-> FALSE]
    BY <1>1, <2>1, GoErrorType, NamesInAll
  <2>2. CASE goError \in {NoError, PlainError}
    BY <1>1, <2>2, GoErrorType, NamesInAll DEF NoError, PlainError
  <2>3. CASE \E st \in Statuses : goError = ErrorFromV2(st)
    <3>1. PICK st \in Statuses : goError = ErrorFromV2(st)
      BY <2>3
    <3>2. Carries(st)
      BY <1>1, <3>1 DEF Statuses, Carries
    <3> QED BY <3>1, <3>2, RestoredType
  <2> QED BY <2>1, <2>2, <2>3 DEF StatusInit
<1>3. CorrectMagic(goError) \in Int \cup Magics
  BY DEF CorrectMagic
<1>4. /\ said.type = goError.type /\ said.magic = CorrectMagic(goError) /\ hops = 0
      /\ said.message = goError.message
  BY DEF StatusInit
<1>5. goError.type \in AllTypes /\ goError.message \in {"", "text", "default"}
  BY <1>2 DEF GoErrors
<1>6. said \in SaidRecords
  BY <1>3, <1>5 DEF StatusInit, SaidRecords
<1> QED BY <1>2, <1>4, <1>6 DEF StatusInv, StatusTypes, TypeKept, OthersInternal, MagicKept

\* A step that leaves the type and the details as they are.
LEMMA SameError ==
  ASSUME StatusInv, goError' \in GoErrors, goError'.type = goError.type,
         goError'.details = goError.details, said' \in SaidRecords,
         said'.type = said.type, said'.magic = said.magic, hops' = hops
  PROVE  StatusInv'
<1>1. CorrectMagic(goError)' = CorrectMagic(goError)
  BY DEF CorrectMagic
<1> QED BY <1>1 DEF StatusInv, StatusTypes, TypeKept, OthersInternal, MagicKept

LEMMA TravelStep ==
  ASSUME StatusInv, Travel
  PROVE  StatusInv'
<1>1. /\ goError \in GoErrors /\ hops \in Nat /\ said' = said /\ said \in SaidRecords
      /\ hops' \in Nat /\ hops' # 0
  BY DEF StatusInv, StatusTypes, Travel
<1>2. <<>> \in Details /\ goError.type \in AllTypes /\ said.type \in AllTypes
  BY <1>1, NoDetail DEF GoErrors, SaidRecords
<1> DEFINE st == ErrorToV2(goError)
<1>3. goError' = ErrorFromV2(st)
  BY DEF Travel
<1>4. CASE goError.type \in Types
  <2>0. goError.type # "nil"
    BY <1>4, TypesApart
  <2>1. /\ st.code = codes[goError.type] /\ st.details = goError.details
        /\ st.message = messageToV2(goError)
    BY <1>4, <2>0 DEF ErrorToV2
  <2>2. messageToV2(goError) \in {"", "text", "default"}
    BY <1>1 DEF messageToV2, commonMessage, GoErrors
  <2> HIDE DEF st
  <2>3. goError' = Restored(goError.type, st)
    BY <1>3, <1>4, <2>1, RestoredIs
  <2>4. /\ goError'.type = goError.type /\ goError'.details = goError.details
        /\ goError' \in GoErrors
    BY <1>1, <2>1, <2>2, <2>3 DEF Restored, GoErrors
  <2>5. CorrectMagic(goError)' = CorrectMagic(goError)
    BY <2>4 DEF CorrectMagic
  <2>6. TypeKept'
    BY <1>1, <2>4 DEF StatusInv, TypeKept
  <2>7. OthersInternal'
    <3> SUFFICES ASSUME said.type \in {"plain", "Unrecognized"}
                 PROVE  goError.type = "ServerInternal"
      BY <1>1, <2>4 DEF OthersInternal
    <3>1. said.type \notin Types
      BY TypesApart
    <3>2. goError.type # said.type
      BY <1>4, <3>1
    <3>3. hops # 0
      BY <3>2 DEF StatusInv, TypeKept
    <3> QED BY <1>1, <3>3 DEF StatusInv, OthersInternal
  <2>8. MagicKept'
    BY <1>1, <2>5 DEF StatusInv, MagicKept
  <2> QED BY <1>1, <2>4, <2>6, <2>7, <2>8 DEF StatusInv, StatusTypes
<1>5. CASE goError.type \notin Types /\ said.type \in Types
  BY <1>5 DEF StatusInv, TypeKept
<1>6. CASE goError.type = "nil" /\ said.type \notin Types
  <2>1. st.code = OK
    BY <1>6, TypesApart DEF ErrorToV2
  <2> HIDE DEF st
  <2>2. goError' = NoError
    BY <1>3, <2>1 DEF ErrorFromV2
  <2>3. goError' \in GoErrors /\ goError'.type = "nil"
    BY <1>2, <2>2, GoErrorType, NamesInAll DEF NoError
  <2>4. said.type = "nil"
    <3>1. goError.type # "ServerInternal"
      BY <1>6
    <3>2. hops = 0 \/ said.type \notin {"plain", "Unrecognized"}
      BY <1>1, <3>1 DEF StatusInv, OthersInternal
    <3>3. hops = 0 => said.type = "nil"
      BY <1>6 DEF StatusInv, TypeKept
    <3> QED BY <1>2, <1>6, <3>2, <3>3 DEF AllTypes
  <2>5. MagicKept' /\ OthersInternal' /\ TypeKept'
    BY <1>1, <2>3, <2>4 DEF MagicKept, OthersInternal, TypeKept
  <2> QED BY <1>1, <2>3, <2>5 DEF StatusInv, StatusTypes
<1>7. CASE goError.type \in {"plain", "Unrecognized"} /\ said.type \notin Types
  <2>0. goError.type \notin Types /\ goError.type # "nil"
    BY <1>7, TypesApart
  <2>1. st.code = codes["ServerInternal"] /\ st.details = <<>> /\ st.message = "text"
    BY <2>0 DEF ErrorToV2
  <2> HIDE DEF st
  <2>2. goError' = Restored("ServerInternal", st)
    BY <1>3, <2>1, RestoredIs, TypesApart
  <2>3. goError' = [type |-> "ServerInternal", message |-> "text", details |-> <<>>,
                    wrapped |-> FALSE]
    BY <2>1, <2>2 DEF Restored
  <2>4. "ServerInternal" \in AllTypes
    BY TypesApart, NamesInAll
  <2>5. goError'.type = "ServerInternal" /\ goError' \in GoErrors
    BY <1>2, <2>3, <2>4, GoErrorType
  <2>6. said.type # "nil"
    BY <1>7 DEF StatusInv, TypeKept
  <2>7. said.type \notin {"WrongMagicNumber", "ObjectAccessDenied"}
    BY <1>7, TypesApart
  <2>8. MagicKept' /\ OthersInternal' /\ TypeKept'
    BY <1>1, <1>7, <2>5, <2>6, <2>7 DEF MagicKept, OthersInternal, TypeKept
  <2> QED BY <1>1, <2>5, <2>8 DEF StatusInv, StatusTypes
<1> QED BY <1>2, <1>4, <1>5, <1>6, <1>7 DEF AllTypes

LEMMA AppendKeepsHead ==
  ASSUME NEW S, NEW s \in Seq(S), NEW x \in S
  PROVE  /\ Append(s, x) \in Seq(S) /\ Append(s, x) # <<>>
         /\ s = <<>> => Head(Append(s, x)) = x
         /\ s # <<>> => Head(Append(s, x)) = Head(s)
<1>1. Append(s, x) \in Seq(S) /\ Len(Append(s, x)) = Len(s) + 1
  OBVIOUS
<1>2. s = <<>> => Append(s, x)[1] = x
  OBVIOUS
<1>3. s # <<>> => Append(s, x)[1] = s[1]
  OBVIOUS
<1> QED BY <1>1, <1>2, <1>3

LEMMA WriteDetailStep ==
  ASSUME StatusInv, NEW v \in Magics, WriteDetail(v)
  PROVE  StatusInv'
<1>1. /\ goError.type \in {"WrongMagicNumber", "ObjectAccessDenied"} /\ hops = 0
      /\ goError' = [goError EXCEPT !.details = Append(@, v)]
      /\ said' = [said EXCEPT !.magic = IF goError.details = <<>> THEN v ELSE @]
      /\ hops' = hops
  BY DEF WriteDetail
<1>2. goError \in GoErrors /\ said \in SaidRecords /\ hops \in Nat
  BY DEF StatusInv, StatusTypes
<1>3. goError.details \in Seq(Marks) /\ v \in Marks
  BY <1>2 DEF GoErrors, Details, Marks
<1>4. /\ Append(goError.details, v) \in Seq(Marks) /\ Append(goError.details, v) # <<>>
      /\ goError.details = <<>> => Head(Append(goError.details, v)) = v
      /\ goError.details # <<>> => Head(Append(goError.details, v)) = Head(goError.details)
  BY <1>3, AppendKeepsHead
<1>5. /\ goError' \in GoErrors /\ goError'.type = goError.type
      /\ goError'.details = Append(goError.details, v)
  BY <1>1, <1>2, <1>4 DEF GoErrors, Details
<1>6. /\ said'.type = said.type /\ said' \in SaidRecords
      /\ said'.magic = IF goError.details = <<>> THEN v ELSE said.magic
  BY <1>1, <1>2 DEF SaidRecords
<1>7. said.type = goError.type
  BY <1>1 DEF StatusInv, TypeKept
<1>8. CorrectMagic(goError) = said.magic
  BY <1>1, <1>7 DEF StatusInv, MagicKept
<1>9. CorrectMagic(goError)' = said'.magic
  <2>1. CASE goError.details = <<>>
    BY <1>4, <1>5, <1>6, <2>1 DEF CorrectMagic
  <2>2. CASE goError.details # <<>>
    BY <1>4, <1>5, <1>6, <1>8, <2>2 DEF CorrectMagic
  <2> QED BY <2>1, <2>2
<1>10. TypeKept' /\ OthersInternal' /\ MagicKept'
  BY <1>1, <1>5, <1>6, <1>7, <1>9 DEF TypeKept, OthersInternal, MagicKept
<1> QED BY <1>1, <1>2, <1>5, <1>6, <1>10 DEF StatusInv, StatusTypes

LEMMA StatusInvStep ==
  ASSUME StatusInv, [StatusNext]_statusVars
  PROVE  StatusInv'
<1>0. goError \in GoErrors /\ said \in SaidRecords
  BY DEF StatusInv, StatusTypes
<1>1. CASE SetMessage
  <2>1. /\ goError' \in GoErrors /\ goError'.type = goError.type
        /\ goError'.details = goError.details
    BY <1>0, <1>1 DEF SetMessage, GoErrors
  <2>2. said' \in SaidRecords /\ said'.type = said.type /\ said'.magic = said.magic
    BY <1>0, <1>1 DEF SetMessage, SaidRecords
  <2> QED BY <1>1, <2>1, <2>2, SameError DEF SetMessage
<1>2. CASE Wrap
  <2>1. /\ goError' \in GoErrors /\ goError'.type = goError.type
        /\ goError'.details = goError.details
    BY <1>0, <1>2 DEF Wrap, GoErrors
  <2> QED BY <1>0, <1>2, <2>1, SameError DEF Wrap
<1>3. CASE UNCHANGED statusVars
  BY <1>0, <1>3, SameError DEF statusVars
<1> QED BY <1>1, <1>2, <1>3, WriteDetailStep, TravelStep DEF StatusNext

LEMMA SurvivesFollows == StatusInv => ErrorSurvives
  BY TypesApart DEF StatusInv, TypeKept, OthersInternal, MagicKept, ErrorSurvives, Is

\* A status this version knows keeps its type and its first detail over any number
\* of servers, and an error that is no status is an internal one after the first.
THEOREM ErrorCorrect == StatusSpec => []ErrorSurvives
<1>1. StatusInv /\ [StatusNext]_statusVars => StatusInv'
  BY StatusInvStep
<1> QED BY <1>1, StatusInvInit, SurvivesFollows, PTL DEF StatusSpec
-----------------------------------------------------------------------------
(* Layers of signatures *)

\* A message has three parts; what its stacks hold does not matter here.
IsMessage(msg) ==
  /\ msg = [body |-> msg.body, metas |-> msg.metas, verifs |-> msg.verifs]
  /\ msg.metas \in Seq(Signers)
  /\ \E S : msg.verifs \in Seq(S)

SignTypes ==
  /\ IsMessage(message)
  /\ intent = [body |-> intent.body, metas |-> intent.metas]
  /\ garbled \in BOOLEAN

AsWritten == message.body = intent.body /\ message.metas = intent.metas

\* A message that is not damaged is what was written, and verifies once it is
\* signed; a damaged one that is not what was written does not verify.
SignInv ==
  /\ SignTypes
  /\ AsWritten \/ ~verifyServiceMessage(message)
  /\ ~garbled => AsWritten /\ \/ message.verifs = <<>>
                              \/ message.metas # <<>> /\ verifyServiceMessage(message)

LEMMA SameItems ==
  ASSUME NEW S, NEW a \in Seq(S), NEW b \in Seq(S), Len(a) = Len(b),
         \A j \in 1..Len(a) : a[j] = b[j]
  PROVE  a = b
  OBVIOUS

\* One more layer moves every lower one by one place.
LEMMA Shifted ==
  ASSUME NEW S, NEW s \in Seq(S), NEW x \in S, NEW t, t = <<x>> \o s
  PROVE  /\ t \in Seq(S) /\ Len(t) = Len(s) + 1 /\ t[1] = x /\ t # <<>>
         /\ \A i \in 1..Len(s) : t[i + 1] = s[i]
         /\ \A i \in Nat \ {0} : SubSeq(t, i + 1, Len(t)) = SubSeq(s, i, Len(s))
         /\ SubSeq(t, 2, Len(t)) = s
         /\ SubSeq(t, 1, Len(t)) = t
<1>1. /\ t \in Seq(S) /\ Len(t) = Len(s) + 1 /\ t[1] = x
      /\ \A j \in 1..Len(s) : t[j + 1] = s[j]
  OBVIOUS
<1>2. ASSUME NEW i \in Nat \ {0}
      PROVE  SubSeq(t, i + 1, Len(t)) = SubSeq(s, i, Len(s))
  <2> DEFINE a == SubSeq(t, i + 1, Len(t))
             b == SubSeq(s, i, Len(s))
  <2>1. i + 1 \in Nat \ {0} /\ Len(s) \in Nat
    OBVIOUS
  <2>2. CASE i > Len(s)
    <3>1. a = <<>> /\ b = <<>>
      BY <1>1, <2>1, <2>2
    <3> QED BY <3>1
  <2>3. CASE i <= Len(s)
    <3>1. a \in Seq(S) /\ Len(a) = Len(s) - i + 1 /\ \A j \in 1..(Len(s) - i + 1) : a[j] = t[i + j]
      BY <1>1, <2>1, <2>3
    <3>2. b \in Seq(S) /\ Len(b) = Len(s) - i + 1 /\ \A j \in 1..(Len(s) - i + 1) : b[j] = s[i + j - 1]
      BY <1>1, <2>1, <2>3
    <3>3. \A j \in 1..(Len(s) - i + 1) : a[j] = b[j]
      <4> SUFFICES ASSUME NEW j \in 1..(Len(s) - i + 1) PROVE a[j] = b[j]
        OBVIOUS
      <4>1. i + j - 1 \in 1..Len(s) /\ (i + j - 1) + 1 = i + j
        BY <2>1, <2>3
      <4>2. t[i + j] = s[i + j - 1]
        BY <1>1, <4>1
      <4> QED BY <3>1, <3>2, <4>2
    <3> HIDE DEF a, b
    <3>4. a = b
      BY <3>1, <3>2, <3>3, SameItems
    <3> QED BY <3>4 DEF a, b
  <2> QED BY <2>1, <2>2, <2>3
<1>3. SubSeq(t, 1, Len(t)) = t
  BY <1>1
<1>4. SubSeq(t, 1 + 1, Len(t)) = SubSeq(s, 1, Len(s)) /\ 1 + 1 = 2
  BY <1>2
<1>5. SubSeq(s, 1, Len(s)) = s /\ t # <<>>
  BY <1>1
<1> QED BY <1>1, <1>2, <1>3, <1>4, <1>5

LEMMA SigThere == \A s \in Signers : \A p : Sig(s, p) # NoSig /\ Sig(s, p).of = p
  BY SignAssumption DEF Sig, NoSig

Layered(s, msg) == signServiceMessage(s, [msg EXCEPT !.metas = <<s>> \o @])

\* The stacks of a message of one more layer.
OnTop(new, s, msg) ==
  /\ IsMessage(new) /\ new.body = msg.body /\ new.metas = <<s>> \o msg.metas
  /\ new.metas # <<>> /\ Len(new.verifs) = Len(msg.verifs) + 1
  /\ new.verifs[1] = [body |-> IF msg.verifs = <<>> THEN Sig(s, msg.body) ELSE NoSig,
                      meta |-> Sig(s, new.metas), origin |-> Sig(s, msg.verifs)]
  /\ metaAt(new, 1) = new.metas /\ originAt(new, 1) = msg.verifs
  /\ \A i \in 1..Len(msg.verifs) :
       /\ new.verifs[i + 1] = msg.verifs[i]
       /\ metaAt(new, i + 1) = metaAt(msg, i)
       /\ originAt(new, i + 1) = originAt(msg, i)

LEMMA LayerAdded ==
  ASSUME NEW msg, IsMessage(msg), NEW s \in Signers, NEW new, new = Layered(s, msg)
  PROVE  OnTop(new, s, msg)
<1> DEFINE h == [body |-> IF msg.verifs = <<>> THEN Sig(s, msg.body) ELSE NoSig,
                 meta |-> Sig(s, <<s>> \o msg.metas), origin |-> Sig(s, msg.verifs)]
<1>1. new = [body |-> msg.body, metas |-> <<s>> \o msg.metas, verifs |-> <<h>> \o msg.verifs]
  <2>1. msg = [body |-> msg.body, metas |-> msg.metas, verifs |-> msg.verifs]
    BY DEF IsMessage
  <2>2. PICK m : m = [msg EXCEPT !.metas = <<s>> \o @]
    OBVIOUS
  <2>3. PICK metas : metas = <<s>> \o msg.metas
    OBVIOUS
  <2>4. m = [body |-> msg.body, metas |-> metas, verifs |-> msg.verifs]
    BY <2>1, <2>2, <2>3
  <2>5. m.body = msg.body /\ m.metas = metas /\ m.verifs = msg.verifs
    BY <2>4
  <2>6. new = [m EXCEPT !.verifs = <<h>> \o @]
    BY <2>2, <2>3, <2>5 DEF Layered, signServiceMessage
  <2> HIDE DEF h
  <2> QED BY <2>3, <2>4, <2>6
<1>2. new.body = msg.body /\ new.metas = <<s>> \o msg.metas /\ new.verifs = <<h>> \o msg.verifs
  BY <1>1
<1>3. PICK S : msg.verifs \in Seq(S)
  BY DEF IsMessage
<1>4. h = [body |-> IF msg.verifs = <<>> THEN Sig(s, msg.body) ELSE NoSig,
           meta |-> Sig(s, new.metas), origin |-> Sig(s, msg.verifs)]
  BY <1>2
<1> HIDE DEF h
<1>5. PICK T : T = S \cup {h}
  OBVIOUS
<1>6. h \in T /\ msg.verifs \in Seq(T)
  <2>1. \A A, B : A \subseteq B => Seq(A) \subseteq Seq(B)
    OBVIOUS
  <2> QED BY <1>3, <1>5, <2>1
<1>7. /\ new.verifs \in Seq(T) /\ Len(new.verifs) = Len(msg.verifs) + 1 /\ new.verifs[1] = h
      /\ \A i \in 1..Len(msg.verifs) : new.verifs[i + 1] = msg.verifs[i]
      /\ SubSeq(new.verifs, 2, Len(new.verifs)) = msg.verifs
  BY <1>2, <1>6, Shifted
<1>8. \A i \in Nat \ {0} : SubSeq(new.verifs, i + 1, Len(new.verifs))
                            = SubSeq(msg.verifs, i, Len(msg.verifs))
  BY <1>2, <1>6, Shifted
<1>9. msg.metas \in Seq(Signers)
  BY DEF IsMessage
<1>10. new.metas \in Seq(Signers) /\ new.metas # <<>> /\ SubSeq(new.metas, 1, Len(new.metas)) = new.metas
  BY <1>2, <1>9, Shifted
<1>11. \A i \in Nat \ {0} : SubSeq(new.metas, i + 1, Len(new.metas))
                             = SubSeq(msg.metas, i, Len(msg.metas))
  BY <1>2, <1>9, Shifted
<1>12. IsMessage(new)
  BY <1>1, <1>2, <1>7, <1>10 DEF IsMessage
<1>13. metaAt(new, 1) = new.metas
  BY <1>10 DEF metaAt
<1>14. originAt(new, 1) = msg.verifs
  <2>1. 1 + 1 = 2
    OBVIOUS
  <2> QED BY <1>7, <2>1 DEF originAt
<1>15. ASSUME NEW i \in 1..Len(msg.verifs)
       PROVE  metaAt(new, i + 1) = metaAt(msg, i) /\ originAt(new, i + 1) = originAt(msg, i)
  <2>1. i \in Nat \ {0} /\ i + 1 \in Nat \ {0}
    BY <1>6
  <2>2. SubSeq(new.metas, i + 1, Len(new.metas)) = SubSeq(msg.metas, i, Len(msg.metas))
    BY <1>11, <2>1
  <2>3. SubSeq(new.verifs, (i + 1) + 1, Len(new.verifs))
          = SubSeq(msg.verifs, i + 1, Len(msg.verifs))
    BY <1>8, <2>1
  <2> QED BY <2>2, <2>3 DEF metaAt, originAt
<1> QED BY <1>2, <1>4, <1>7, <1>10, <1>12, <1>13, <1>14, <1>15 DEF OnTop

\* A message of one more layer verifies if and only if the one below does.
LEMMA ForwardVerifies ==
  ASSUME NEW msg, IsMessage(msg), msg.verifs # <<>>, NEW s \in Signers,
         NEW new, new = Layered(s, msg)
  PROVE  verifyServiceMessage(new) <=> verifyServiceMessage(msg)
<1>1. /\ new.body = msg.body /\ Len(new.verifs) = Len(msg.verifs) + 1
      /\ new.verifs[1] = [body |-> NoSig, meta |-> Sig(s, new.metas),
                          origin |-> Sig(s, msg.verifs)]
      /\ metaAt(new, 1) = new.metas /\ originAt(new, 1) = msg.verifs
      /\ \A i \in 1..Len(msg.verifs) :
           /\ new.verifs[i + 1] = msg.verifs[i]
           /\ metaAt(new, i + 1) = metaAt(msg, i)
           /\ originAt(new, i + 1) = originAt(msg, i)
  <2>1. OnTop(new, s, msg)
    BY LayerAdded
  <2> QED BY <2>1 DEF OnTop
<1>2. Len(msg.verifs) \in Nat /\ Len(msg.verifs) # 0 /\ new.verifs # <<>>
  <2>1. PICK S : msg.verifs \in Seq(S)
    BY DEF IsMessage
  <2>2. Len(msg.verifs) \in Nat /\ Len(msg.verifs) # 0
    BY <2>1
  <2>3. Len(<<>>) = 0
    OBVIOUS
  <2> QED BY <1>1, <2>2, <2>3
<1>3. verifyMatryoshkaLevel(new, 1)
  BY <1>1, SigThere DEF verifyMatryoshkaLevel, verifyServiceMessagePart, Nothing
<1>4. \A i \in 1..Len(msg.verifs) :
        verifyMatryoshkaLevel(new, i + 1) <=> verifyMatryoshkaLevel(msg, i)
  BY <1>1 DEF verifyMatryoshkaLevel
<1>5. \A i \in 1..(Len(msg.verifs) + 1) : i = 1 \/ (i - 1 \in 1..Len(msg.verifs) /\ (i - 1) + 1 = i)
  BY <1>2
<1>6. \A i \in 1..Len(msg.verifs) : i + 1 \in 1..(Len(msg.verifs) + 1)
  BY <1>2
<1>7. verifyServiceMessage(new) => verifyServiceMessage(msg)
  BY <1>1, <1>4, <1>6, <1>2 DEF verifyServiceMessage
<1>8. ASSUME verifyServiceMessage(msg), NEW i \in 1..Len(new.verifs)
      PROVE  verifyMatryoshkaLevel(new, i)
  <2>1. \A k \in 1..Len(msg.verifs) : verifyMatryoshkaLevel(msg, k)
    BY <1>8 DEF verifyServiceMessage
  <2>2. CASE i # 1
    <3>1. PICK k \in 1..Len(msg.verifs) : k + 1 = i
      BY <1>1, <1>5, <2>2
    <3> QED BY <1>4, <2>1, <3>1
  <2> QED BY <1>3, <2>2
<1>9. verifyServiceMessage(msg) => verifyServiceMessage(new)
  BY <1>2, <1>8 DEF verifyServiceMessage
<1> QED BY <1>7, <1>9

LEMMA WriteStep ==
  ASSUME SignInv, NEW s \in Signers, NEW b \in Bodies, WriteRequest(s, b)
  PROVE  SignInv'
<1> DEFINE msg == [body |-> b, metas |-> <<>>, verifs |-> <<>>]
<1>1. IsMessage(msg) /\ msg.verifs = <<>> /\ msg.body = b /\ msg.metas = <<>>
  BY DEF IsMessage
<1>2. [msg EXCEPT !.metas = <<s>> \o @] = [body |-> b, metas |-> <<s>>, verifs |-> <<>>]
  OBVIOUS
<1> HIDE DEF msg
<1>3. message' = Layered(s, msg)
  BY <1>2 DEF WriteRequest, Layered
<1>4. PICK new : new = message'
  OBVIOUS
<1>5. /\ IsMessage(new) /\ new.body = b /\ new.metas = <<s>> \o <<>>
      /\ new.metas # <<>> /\ Len(new.verifs) = Len(<<>>) + 1
      /\ new.verifs[1] = [body |-> Sig(s, b), meta |-> Sig(s, new.metas), origin |-> Sig(s, <<>>)]
      /\ metaAt(new, 1) = new.metas /\ originAt(new, 1) = <<>>
  <2>1. OnTop(new, s, msg)
    BY <1>1, <1>3, <1>4, LayerAdded
  <2> QED BY <1>1, <2>1 DEF OnTop
<1>6. Len(new.verifs) = 1 /\ new.verifs # <<>>
  BY <1>5
<1>7. verifyMatryoshkaLevel(new, 1)
  BY <1>5, SigThere DEF verifyMatryoshkaLevel, verifyServiceMessagePart, Nothing
<1>8. verifyServiceMessage(new)
  BY <1>6, <1>7 DEF verifyServiceMessage
<1>9. new.metas = <<s>>
  BY <1>5
<1>10. intent' = [body |-> b, metas |-> <<s>>] /\ ~garbled' /\ garbled' \in BOOLEAN
  BY DEF WriteRequest, SignInv, SignTypes
<1>11. SignTypes'
  BY <1>4, <1>5, <1>10 DEF SignTypes
<1>12. AsWritten'
  BY <1>4, <1>5, <1>9, <1>10 DEF AsWritten
<1>13. verifyServiceMessage(message)'
  BY <1>4, <1>8
<1> QED BY <1>4, <1>5, <1>11, <1>12, <1>13 DEF SignInv

LEMMA ForwardStep ==
  ASSUME SignInv, NEW s \in Signers, Forward(s)
  PROVE  SignInv'
<1>1. /\ IsMessage(message) /\ garbled' = garbled /\ garbled \in BOOLEAN
      /\ message' = Layered(s, message)
      /\ intent' = [body |-> intent.body, metas |-> <<s>> \o intent.metas]
  BY DEF SignInv, SignTypes, Forward, Layered
<1>2. message.verifs # <<>>
  <2>1. Len(<<>>) = 0
    OBVIOUS
  <2> QED BY <2>1 DEF Forward
<1>3. PICK new : new = message'
  OBVIOUS
<1>4. PICK msg : msg = message
  OBVIOUS
<1>5. new = Layered(s, msg)
  BY <1>1, <1>3, <1>4
<1>6. /\ IsMessage(new) /\ new.body = msg.body /\ new.metas = <<s>> \o msg.metas
      /\ new.metas # <<>>
  <2>1. OnTop(new, s, msg)
    BY <1>1, <1>4, <1>5, LayerAdded
  <2> QED BY <2>1 DEF OnTop
<1>7. verifyServiceMessage(new) <=> verifyServiceMessage(msg)
  BY <1>1, <1>2, <1>4, <1>5, ForwardVerifies
<1>8. SignTypes'
  BY <1>1, <1>3, <1>6 DEF SignTypes
<1>9. AsWritten => AsWritten'
  BY <1>1, <1>3, <1>4, <1>6 DEF AsWritten
<1>10. verifyServiceMessage(message)' <=> verifyServiceMessage(message)
  BY <1>3, <1>4, <1>7
<1> QED BY <1>1, <1>2, <1>3, <1>6, <1>8, <1>9, <1>10 DEF SignInv

\* What the last layer says of the body, and the first of the meta headers.
LEMMA Covered ==
  ASSUME NEW msg, IsMessage(msg), verifyServiceMessage(msg)
  PROVE  /\ Len(msg.verifs) \in Nat \ {0}
         /\ msg.verifs[Len(msg.verifs)].body.of = msg.body
         /\ msg.verifs[1].meta.of = msg.metas
<1>1. PICK S : msg.verifs \in Seq(S)
  BY DEF IsMessage
<1> DEFINE n == Len(msg.verifs)
<1>2. n \in Nat \ {0}
  BY <1>1 DEF verifyServiceMessage
<1>3. originAt(msg, n) = Nothing
  BY <1>1, <1>2 DEF originAt, Nothing
<1>4. metaAt(msg, 1) = msg.metas
  BY DEF metaAt, IsMessage
<1> HIDE DEF n
<1>5. verifyMatryoshkaLevel(msg, n) /\ verifyMatryoshkaLevel(msg, 1)
  BY <1>2 DEF verifyServiceMessage, n
<1>6. msg.verifs[n].body.of = msg.body
  BY <1>3, <1>5 DEF verifyMatryoshkaLevel, verifyServiceMessagePart
<1>7. msg.verifs[1].meta.of = msg.metas
  BY <1>4, <1>5 DEF verifyMatryoshkaLevel, verifyServiceMessagePart
<1> QED BY <1>2, <1>6, <1>7 DEF n

\* Damage to the body or to the meta headers of a message that verifies is noticed.
LEMMA Noticed ==
  ASSUME NEW msg, IsMessage(msg), verifyServiceMessage(msg), NEW new, IsMessage(new),
         new.verifs = msg.verifs, new.body # msg.body \/ new.metas # msg.metas
  PROVE  ~verifyServiceMessage(new)
<1>1. msg.verifs[Len(msg.verifs)].body.of = msg.body /\ msg.verifs[1].meta.of = msg.metas
  BY Covered
<1>2. verifyServiceMessage(new) => /\ new.verifs[Len(new.verifs)].body.of = new.body
                                   /\ new.verifs[1].meta.of = new.metas
  BY Covered
<1> QED BY <1>1, <1>2

LEMMA ReplacedIn ==
  ASSUME NEW S, NEW s \in Seq(S), NEW i \in DOMAIN s, NEW x
  PROVE  /\ \E T : [s EXCEPT ![i] = x] \in Seq(T)
         /\ x \in S => [s EXCEPT ![i] = x] \in Seq(S)
         /\ s[i] # x => [s EXCEPT ![i] = x] # s
<1>1. \A A, B : A \subseteq B => Seq(A) \subseteq Seq(B)
  OBVIOUS
<1>2. PICK T : T = S \cup {x}
  OBVIOUS
<1>3. s \in Seq(T) /\ x \in T
  BY <1>1, <1>2
<1>4. [s EXCEPT ![i] = x] \in Seq(T)
  BY <1>3
<1>5. x \in S => [s EXCEPT ![i] = x] \in Seq(S)
  OBVIOUS
<1>6. s[i] # x => [s EXCEPT ![i] = x] # s
  <2>1. [s EXCEPT ![i] = x][i] = x
    OBVIOUS
  <2> QED BY <2>1
<1> QED BY <1>4, <1>5, <1>6

LEMMA GarbleStep ==
  ASSUME SignInv, Garble
  PROVE  SignInv'
<1>1. /\ IsMessage(message) /\ AsWritten /\ verifyServiceMessage(message)
      /\ message.verifs # <<>> /\ message.metas # <<>> /\ garbled' = TRUE /\ intent' = intent
      /\ intent = [body |-> intent.body, metas |-> intent.metas]
  BY DEF SignInv, SignTypes, Garble
<1>2. /\ message = [body |-> message.body, metas |-> message.metas, verifs |-> message.verifs]
      /\ message.metas \in Seq(Signers)
  BY <1>1 DEF IsMessage
<1>3. PICK S : message.verifs \in Seq(S)
  BY <1>1 DEF IsMessage
<1>4. SUFFICES /\ IsMessage(message')
               /\ \/ message'.body = message.body /\ message'.metas = message.metas
                  \/ ~verifyServiceMessage(message')
  <2>1. SignTypes'
    BY <1>1, <1>4 DEF SignTypes
  <2>2. AsWritten' \/ ~verifyServiceMessage(message)'
    BY <1>1, <1>4 DEF AsWritten
  <2> QED BY <1>1, <2>1, <2>2 DEF SignInv
<1>5. CASE \E b \in Bodies \ {message.body} : message' = [message EXCEPT !.body = b]
  <2>1. PICK b \in Bodies \ {message.body} : message' = [message EXCEPT !.body = b]
    BY <1>5
  <2>2. message' = [body |-> b, metas |-> message.metas, verifs |-> message.verifs]
    BY <1>2, <2>1
  <2>3. /\ IsMessage(message') /\ message'.body # message.body
        /\ message'.verifs = message.verifs /\ message'.metas = message.metas
    BY <1>2, <1>3, <2>2 DEF IsMessage
  <2> QED BY <1>1, <2>3, Noticed
<1>6. CASE \E i \in DOMAIN message.metas, s \in Signers :
             message.metas[i] # s /\ message' = [message EXCEPT !.metas[i] = s]
  <2>1. PICK i \in DOMAIN message.metas, s \in Signers :
               message.metas[i] # s /\ message' = [message EXCEPT !.metas[i] = s]
    BY <1>6
  <2> DEFINE metas == [message.metas EXCEPT ![i] = s]
  <2>2. message' = [body |-> message.body, metas |-> metas, verifs |-> message.verifs]
    BY <1>2, <2>1
  <2>3. metas \in Seq(Signers) /\ metas # message.metas
    BY <1>2, <2>1, ReplacedIn
  <2> HIDE DEF metas
  <2>4. /\ IsMessage(message') /\ message'.metas # message.metas
        /\ message'.verifs = message.verifs
    BY <1>2, <1>3, <2>2, <2>3 DEF IsMessage
  <2> QED BY <1>1, <2>4, Noticed
<1>7. CASE message' = [message EXCEPT !.metas = Tail(@)]
  <2>1. message' = [body |-> message.body, metas |-> Tail(message.metas), verifs |-> message.verifs]
    BY <1>2, <1>7
  <2>2. Tail(message.metas) \in Seq(Signers) /\ Tail(message.metas) # message.metas
    BY <1>1, <1>2
  <2>3. /\ IsMessage(message') /\ message'.metas # message.metas
        /\ message'.verifs = message.verifs
    BY <1>2, <1>3, <2>1, <2>2 DEF IsMessage
  <2> QED BY <1>1, <2>3, Noticed
<1>8. ASSUME NEW T, NEW v \in Seq(T), message' = [message EXCEPT !.verifs = v]
      PROVE  /\ IsMessage(message')
             /\ message'.body = message.body /\ message'.metas = message.metas
  <2>1. message' = [body |-> message.body, metas |-> message.metas, verifs |-> v]
    BY <1>2, <1>8
  <2> QED BY <1>1, <1>2, <1>8, <2>1 DEF IsMessage
<1>9. ASSUME NEW i \in DOMAIN message.verifs, NEW h,
             message' = [message EXCEPT !.verifs[i] = h]
      PROVE  /\ IsMessage(message')
             /\ message'.body = message.body /\ message'.metas = message.metas
  <2>1. PICK T : [message.verifs EXCEPT ![i] = h] \in Seq(T)
    BY <1>3, ReplacedIn
  <2>2. message' = [message EXCEPT !.verifs = [message.verifs EXCEPT ![i] = h]]
    BY <1>9
  <2> QED BY <1>8, <2>1, <2>2
<1>10. CASE \E i \in DOMAIN message.verifs :
          \/ message' = [message EXCEPT !.verifs[i].meta = NoSig]
          \/ message' = [message EXCEPT !.verifs[i].body =
                           IF @ = NoSig THEN message.verifs[Len(message.verifs)].body ELSE NoSig]
          \/ message' = [message EXCEPT !.verifs = SubSeq(@, 1, i - 1) \o SubSeq(@, i + 1, Len(@))]
  <2>1. PICK i \in DOMAIN message.verifs :
          \/ message' = [message EXCEPT !.verifs[i].meta = NoSig]
          \/ message' = [message EXCEPT !.verifs[i].body =
                           IF @ = NoSig THEN message.verifs[Len(message.verifs)].body ELSE NoSig]
          \/ message' = [message EXCEPT !.verifs = SubSeq(@, 1, i - 1) \o SubSeq(@, i + 1, Len(@))]
    BY <1>10
  <2>2. CASE message' = [message EXCEPT !.verifs[i].meta = NoSig]
    <3>1. message' = [message EXCEPT !.verifs[i] = [message.verifs[i] EXCEPT !.meta = NoSig]]
      BY <2>2
    <3> QED BY <1>9, <3>1
  <2>3. CASE message' = [message EXCEPT !.verifs[i].body =
                           IF @ = NoSig THEN message.verifs[Len(message.verifs)].body ELSE NoSig]
    <3>1. message' = [message EXCEPT !.verifs[i] = [message.verifs[i] EXCEPT !.body =
                           IF @ = NoSig THEN message.verifs[Len(message.verifs)].body ELSE NoSig]]
      BY <2>3
    <3> QED BY <1>9, <3>1
  <2>4. CASE message' = [message EXCEPT !.verifs = SubSeq(@, 1, i - 1) \o SubSeq(@, i + 1, Len(@))]
    <3> DEFINE v == SubSeq(message.verifs, 1, i - 1)
                    \o SubSeq(message.verifs, i + 1, Len(message.verifs))
    <3>1. v \in Seq(S)
      <4>1. i \in 1..Len(message.verifs) /\ Len(message.verifs) \in Nat
        BY <1>3
      <4>2. /\ SubSeq(message.verifs, 1, i - 1) \in Seq(S)
            /\ SubSeq(message.verifs, i + 1, Len(message.verifs)) \in Seq(S)
        BY <1>3, <4>1
      <4> QED BY <4>2
    <3>2. message' = [message EXCEPT !.verifs = v]
      BY <2>4
    <3> QED BY <1>8, <3>1, <3>2
  <2> QED BY <2>1, <2>2, <2>3, <2>4
<1> QED BY <1>5, <1>6, <1>7, <1>10 DEF Garble

LEMMA SignInvInit == SignInit => SignInv
<1> SUFFICES ASSUME SignInit PROVE SignInv
  OBVIOUS
<1>1. message = [body |-> Nothing, metas |-> <<>>, verifs |-> <<>>]
  BY DEF SignInit, Empty
<1>2. IsMessage(message) /\ message.verifs = <<>> /\ message.metas = <<>> /\ message.body = Nothing
  BY <1>1 DEF IsMessage
<1>3. intent = [body |-> intent.body, metas |-> intent.metas] /\ garbled = FALSE /\ AsWritten
  BY <1>2 DEF SignInit, AsWritten
<1> QED BY <1>2, <1>3 DEF SignInv, SignTypes

LEMMA SignInvStep ==
  ASSUME SignInv, [SignNext]_signVars
  PROVE  SignInv'
<1>1. CASE UNCHANGED signVars
  BY <1>1 DEF signVars, SignInv, SignTypes, AsWritten
<1> QED BY <1>1, WriteStep, ForwardStep, GarbleStep DEF SignNext

\* For any number of servers on the way, a signed message verifies unless it was
\* damaged, and what verifies is what was written.
THEOREM SignedCorrect == SignSpec => []VerifiesAsSigned
<1>1. SignInv /\ [SignNext]_signVars => SignInv'
  BY SignInvStep
<1>2. SignInv => VerifiesAsSigned
  BY DEF SignInv, AsWritten, VerifiesAsSigned
<1> QED BY <1>1, <1>2, SignInvInit, PTL DEF SignSpec
-----------------------------------------------------------------------------
(* Calls: what can be returned *)

Stages == {"idle", "sent", "heard", "report", "count", "blame", "wait"}
Fields == {"ok", "missing", "invalid", "split"}
Refusals == {"ErrMissingSigner", "input", "sign"}
Failures == {"transport", "callback", "signature", "panic", "context"}
Remote == {"ServerInternal", "ContainerNotFound", "Unrecognized"}

\* Everything an operation may return.
Errs == {"nil"} \cup Refusals \cup Failures \cup Remote \cup Fields

\* On whose account a result is remembered.
Accounts == {"arguments", "dial", "direct", "wrapper", "wait", "removal"}

Waits == {"ContainerPut", "ContainerDelete", "ContainerSetEACL"}

LEMMA WaitsAre ==
  /\ DOMAIN waits = Waits /\ Waits \subseteq Methods /\ "none" \notin Waits
  /\ \A m \in Waits : waits[m] \in Methods
  BY DEF waits, Waits, Methods, ops

\* What PoolStat learns of, and what a node is blamed for.
Known == Errs \ {"nil", "ErrMissingSigner", "panic"}
Bad == Errs \ {"nil", "ErrMissingSigner", "ContainerNotFound", "split", "panic"}

LEMMA RefusalIs == \A op, args : refusal(op, args) \in {"nil"} \cup Refusals
  BY DEF refusal, checkError, Refusals

LEMMA ResultIs ==
  ASSUME NEW op, NEW fields \in UNION {[1..n -> Fields] : n \in 0..2},
         \A i \in DOMAIN fields : fields[i] \in {"ok"} \cup op.fields[i]
  PROVE  /\ result(op, fields) \in {"nil"} \cup Fields
         /\ result(op, fields) = "nil" => \A i \in DOMAIN fields : fields[i] = "ok"
<1> DEFINE bad == {i \in DOMAIN fields : fields[i] \in op.fields[i]}
<1>1. PICK n \in 0..2 : fields \in [1..n -> Fields]
  OBVIOUS
<1>2. bad \subseteq {1, 2}
  BY <1>1
<1>3. ASSUME bad # {} PROVE Min(bad) \in bad
  <2>1. \E x \in bad : \A y \in bad : x <= y
    <3>1. CASE 1 \in bad
      BY <1>2, <3>1
    <3>2. CASE 1 \notin bad
      BY <1>2, <1>3, <3>2
    <3> QED BY <3>1, <3>2
  <2> HIDE DEF bad
  <2> QED BY <2>1 DEF Min
<1>4. bad # {} => fields[Min(bad)] \in Fields
  BY <1>1, <1>3
<1>5. bad = {} => \A i \in DOMAIN fields : fields[i] = "ok"
  OBVIOUS
<1>6. result(op, fields) = IF bad = {} THEN "nil" ELSE fields[Min(bad)]
  BY DEF result
<1>7. "nil" \notin Fields
  BY DEF Fields
<1> HIDE DEF bad
<1> QED BY <1>4, <1>5, <1>6, <1>7

LEMMA StatusIs ==
  ASSUME NEW st \in ReplyStatuses
  PROVE  /\ ErrorFromV2(st).type \in {"nil"} \cup Remote
         /\ ErrorFromV2(st).type = "nil" => st.code = OK
<1>1. st.code \in {OK, codes["ServerInternal"], codes["ContainerNotFound"], <<"new", 0>>}
  <2>1. PICK k \in {OK, codes["ServerInternal"], codes["ContainerNotFound"], <<"new", 0>>} :
               st = [code |-> k, message |-> "", details |-> <<>>]
    BY DEF ReplyStatuses
  <2>2. st.code = k
    BY <2>1
  <2> QED BY <2>2
<1>2. CASE st.code = OK
  BY <1>2 DEF ErrorFromV2, NoError
<1>3. ASSUME NEW t \in {"ServerInternal", "ContainerNotFound"}, st.code = codes[t]
      PROVE  ErrorFromV2(st).type = t
  <2>1. t \in Types
    BY TypesAre DEF CommonTypes, OtherTypes
  <2>2. ErrorFromV2(st) = Restored(t, st)
    BY <1>3, <2>1, RestoredIs
  <2> QED BY <2>2 DEF Restored
<1>4. CASE st.code = <<"new", 0>>
  <2>1. \A t \in Types : codes[t] # <<"new", 0>>
    BY CodesAre, TypesAre DEF CommonTypes, ObjectTypes, OtherTypes
  <2>2. st.code # OK
    BY <1>4 DEF OK
  <2>3. ErrorFromV2(st) = Restored("Unrecognized", st)
    BY <1>4, <2>1, <2>2 DEF ErrorFromV2
  <2> QED BY <2>3 DEF Restored, Remote
<1> QED BY <1>1, <1>2, <1>3, <1>4 DEF Remote

\* The node is to blame for a failure unless the error tells of the request.
LEMMA CountedIs == \A e \in Errs : counted(e) <=> e \notin {"nil", "ContainerNotFound", "split"}
<1>1. /\ Types \cap Errs = {"ServerInternal", "ContainerNotFound"}
      /\ "ServerInternal" \in DOMAIN commonCodes /\ "ContainerNotFound" \notin DOMAIN commonCodes
  BY TypesAre DEF CommonTypes, ObjectTypes, OtherTypes, Errs, Refusals, Failures, Remote, Fields
<1> SUFFICES ASSUME NEW e \in Errs
             PROVE  counted(e) <=> e \notin {"nil", "ContainerNotFound", "split"}
  OBVIOUS
<1>2. CASE e \in Types
  BY <1>1, <1>2 DEF counted
<1>3. CASE e \notin Types
  BY <1>1, <1>3 DEF counted
<1> QED BY <1>2, <1>3

-----------------------------------------------------------------------------
(* Calls: the tallies *)

Bit(b) == IF b THEN 1 ELSE 0

\* Of two sets that differ in one element at most.
LEMMA OneApart ==
  ASSUME NEW S, IsFiniteSet(S), NEW T, NEW c, \A d : d # c => (d \in S <=> d \in T)
  PROVE  /\ IsFiniteSet(T) /\ Cardinality(S) \in Nat /\ Cardinality(T) \in Nat
         /\ Cardinality(T) = Cardinality(S) + Bit(c \in T) - Bit(c \in S)
<1>1. PICK R : R = S \ {c}
  OBVIOUS
<1>2. IsFiniteSet(R) /\ Cardinality(R) \in Nat /\ c \notin R
  BY <1>1, FS_RemoveElement, FS_CardinalityType
<1>3. IsFiniteSet(R \cup {c}) /\ Cardinality(R \cup {c}) = Cardinality(R) + 1
  BY <1>2, FS_AddElement
<1>4. S = IF c \in S THEN R \cup {c} ELSE R
  BY <1>1
<1>5. T = IF c \in T THEN R \cup {c} ELSE R
  BY <1>1
<1>6. Cardinality(S) = Cardinality(R) + Bit(c \in S)
  <2>1. CASE c \in S
    BY <1>2, <1>3, <1>4, <2>1 DEF Bit
  <2>2. CASE c \notin S
    BY <1>2, <1>4, <2>2 DEF Bit
  <2> QED BY <2>1, <2>2
<1>7. Cardinality(T) = Cardinality(R) + Bit(c \in T) /\ IsFiniteSet(T)
  <2>1. CASE c \in T
    BY <1>2, <1>3, <1>5, <2>1 DEF Bit
  <2>2. CASE c \notin T
    BY <1>2, <1>5, <2>2 DEF Bit
  <2> QED BY <2>1, <2>2
<1>8. Bit(c \in S) \in {0, 1} /\ Bit(c \in T) \in {0, 1}
  BY DEF Bit
<1> QED BY <1>2, <1>6, <1>7, <1>8

Tally(H, E, B) == Cardinality({h \in H : h.err \in E /\ h.by \in B})

Adds(x, E, B) == IF x.err \in E /\ x.by \in B THEN 1 ELSE 0

\* One more call among the past ones.
LEMMA OneMore ==
  ASSUME NEW H, IsFiniteSet(H), NEW x, x \notin H, NEW E, NEW B
  PROVE  /\ Tally(H, E, B) \in Nat
         /\ Tally(H \cup {x}, E, B) = Tally(H, E, B) + Adds(x, E, B)
<1> DEFINE S == {h \in H : h.err \in E /\ h.by \in B}
           T == {h \in H \cup {x} : h.err \in E /\ h.by \in B}
<1>1. IsFiniteSet(S)
  BY FS_Subset
<1>2. \A d : d # x => (d \in S <=> d \in T)
  OBVIOUS
<1>3. x \notin S /\ (x \in T <=> x.err \in E /\ x.by \in B)
  OBVIOUS
<1>4. Tally(H, E, B) = Cardinality(S) /\ Tally(H \cup {x}, E, B) = Cardinality(T)
  BY DEF Tally
<1> HIDE DEF S, T
<1>5. /\ Cardinality(S) \in Nat
      /\ Cardinality(T) = Cardinality(S) + Bit(x \in T) - Bit(x \in S)
  BY <1>1, <1>2, OneApart
<1> QED BY <1>3, <1>4, <1>5 DEF Bit, Adds

Entries == [n : Nat \ {0}, err : Errs, by : Accounts]

\* The past calls: equal ones are numbered from one.
IsHistory(H) ==
  /\ IsFiniteSet(H) /\ H \subseteq Entries
  /\ \A h \in H : h.n <= Tally(H, {h.err}, {h.by})

Entry(H, e, by) ==
  [n |-> Cardinality({h \in H : h.err = e /\ h.by = by}) + 1, err |-> e, by |-> by]

LEMMA Fresh ==
  ASSUME NEW H, IsHistory(H), NEW e \in Errs, NEW by \in Accounts,
         NEW x, x = Entry(H, e, by)
  PROVE  x \notin H /\ IsHistory(H \cup {x}) /\ x.err = e /\ x.by = by
<1>1. {h \in H : h.err = e /\ h.by = by} = {h \in H : h.err \in {e} /\ h.by \in {by}}
  OBVIOUS
<1>2. x = [n |-> Tally(H, {e}, {by}) + 1, err |-> e, by |-> by]
  BY <1>1 DEF Tally, Entry
<1>3. IsFiniteSet({h \in H : h.err \in {e} /\ h.by \in {by}})
  BY FS_Subset DEF IsHistory
<1>4. Tally(H, {e}, {by}) \in Nat
  BY <1>3, FS_CardinalityType DEF Tally
<1>5. x \in Entries /\ x.n = Tally(H, {e}, {by}) + 1 /\ x.err = e /\ x.by = by
  BY <1>2, <1>4 DEF Entries
<1>6. x \notin H
  <2> SUFFICES ASSUME x \in H PROVE FALSE
    OBVIOUS
  <2>1. x.n <= Tally(H, {x.err}, {x.by})
    BY DEF IsHistory
  <2> QED BY <1>4, <1>5, <2>1
<1>7. IsFiniteSet(H \cup {x}) /\ IsFiniteSet(H)
  BY FS_AddElement DEF IsHistory
<1>8. ASSUME NEW h \in H \cup {x} PROVE h.n <= Tally(H \cup {x}, {h.err}, {h.by})
  <2>1. /\ Tally(H, {h.err}, {h.by}) \in Nat
        /\ Tally(H \cup {x}, {h.err}, {h.by})
             = Tally(H, {h.err}, {h.by}) + Adds(x, {h.err}, {h.by})
    <3>1. PICK E, B : E = {h.err} /\ B = {h.by}
      OBVIOUS
    <3>2. /\ Tally(H, E, B) \in Nat
          /\ Tally(H \cup {x}, E, B) = Tally(H, E, B) + Adds(x, E, B)
      BY <1>6, <1>7, OneMore
    <3> QED BY <3>1, <3>2
  <2>2. Adds(x, {h.err}, {h.by}) \in {0, 1}
    BY DEF Adds
  <2>3. CASE h \in H
    <3>1. h.n \in Nat /\ h.n <= Tally(H, {h.err}, {h.by})
      BY <2>3 DEF IsHistory, Entries
    <3> QED BY <2>1, <2>2, <3>1
  <2>4. CASE h = x
    <3>1. Adds(x, {h.err}, {h.by}) = 1
      BY <2>4 DEF Adds
    <3>2. h.err = e /\ h.by = by /\ h.n = Tally(H, {e}, {by}) + 1
      BY <1>5, <2>4
    <3>3. Tally(H \cup {x}, {h.err}, {h.by}) = Tally(H, {h.err}, {h.by}) + 1
      BY <2>1, <3>1
    <3> QED BY <1>4, <3>2, <3>3
  <2> QED BY <2>3, <2>4
<1>9. H \cup {x} \subseteq Entries
  BY <1>5 DEF IsHistory
<1> QED BY <1>5, <1>6, <1>7, <1>8, <1>9 DEF IsHistory
-----------------------------------------------------------------------------
(* Calls: the invariant *)

CallRecords == [op : Methods \cup {"none"}, by : {"none", "dial", "direct", "wrapper"}]
Replies == [verifies : BOOLEAN, status : {st.code : st \in ReplyStatuses} \cup {<<"none", 0>>},
            complete : BOOLEAN]
Monitor == [requests : Nat, errors : Nat]

\* Every caller has its own of these.
Functions ==
  /\ stage = [c \in Callers |-> stage[c]] /\ call = [c \in Callers |-> call[c]]
  /\ reply = [c \in Callers |-> reply[c]] /\ err = [c \in Callers |-> err[c]]
  /\ told = [c \in Callers |-> told[c]] /\ at = [c \in Callers |-> at[c]]
  /\ awaits = [c \in Callers |-> awaits[c]]

CallerTypes(c) ==
  /\ stage[c] \in Stages /\ call[c] \in CallRecords /\ reply[c] \in Replies
  /\ err[c] \in Errs /\ told[c] \in BOOLEAN /\ at[c] \in {0, 1}
  /\ awaits[c] \in Waits \cup {"none"}

\* A caller knows of no answer and no error before it has read one, and has the
\* monitor unless its call is the one of Dial.  Only a method of the wrapper waits.
CallerStages(c) ==
  /\ stage[c] \in {"idle", "sent", "heard", "wait"} => reply[c] = NoReply /\ err[c] = "nil"
  /\ stage[c] = "wait" => awaits[c] # "none"
  /\ awaits[c] # "none" => call[c].by = "wrapper"
  /\ Returning(c) /\ call[c].op # "none" => call[c].by = "wrapper"
  /\ stage[c] = "idle" <=> call[c].by = "none"
  /\ stage[c] \notin {"count", "blame"} => at[c] = 0
  /\ stage[c] = "count" => at[c] = 1
  /\ stage[c] \in {"count", "blame"} => (at[c] = 1 <=> call[c].by \in {"direct", "wrapper"})
  /\ at[c] = 1 => monitors # <<>>
  /\ call[c].by = "wrapper" => err[c] # "panic"
  /\ call[c].by = "dial" => ~nodeKey
  /\ call[c].by \in {"direct", "wrapper"} => nodeKey

CallerVerified(c) ==
  Returning(c) /\ reply[c] # NoReply /\ err[c] \notin {"callback", "signature"} =>
    /\ reply[c].verifies
    /\ err[c] = "nil" => reply[c].status = OK /\ reply[c].complete

CallerOK(c) == CallerTypes(c) /\ CallerStages(c) /\ CallerVerified(c)

\* Nothing but Dial before the key of the node is known.
DialAlone ==
  ~nodeKey => \A c, d \in Callers : stage[c] # "idle" /\ stage[d] # "idle" => c = d

\* There is one monitor at most.
IsMonitors == monitors \in Seq(Monitor) /\ Len(monitors) <= 1
shown == IF monitors = <<>> THEN [requests |-> 0, errors |-> 0] ELSE monitors[1]

\* Calls under way that are counted already.
InRequests(c) == stage[c] = "blame" /\ at[c] = 1
InErrors(c) == stage[c] = "blame" /\ at[c] = 1 /\ err[c] \in Known
InBlamed(c) == stage[c] \in {"count", "blame"} /\ err[c] \in Bad

RequestSet == {c \in Callers : InRequests(c)}
ErrorSet == {c \in Callers : InErrors(c)}
BlamedSet == {c \in Callers : InBlamed(c)}

Users == {"direct", "wrapper"}

RequestTally == shown.requests <= Tally(history, Errs, Users) + Cardinality(RequestSet)
ErrorTally == shown.errors = Tally(history, Known, Users) + Cardinality(ErrorSet)
BlameTally ==
  blamed = Tally(history, Bad, {"direct", "dial"}) + 2 * Tally(history, Bad, {"wrapper"})
           + Tally(history, {"ErrMissingSigner"}, {"wrapper"})
           + Tally(history, {"context"}, {"wait"}) + Cardinality(BlamedSet)

CallsInv ==
  /\ Functions
  /\ nodeKey \in BOOLEAN /\ blamed \in Nat /\ IsMonitors /\ IsHistory(history)
  /\ \A c \in Callers : CallerOK(c)
  /\ DialAlone
  /\ RequestTally /\ ErrorTally /\ BlameTally
-----------------------------------------------------------------------------
(* Calls: what every step has in common *)

Same(d) ==
  /\ stage'[d] = stage[d] /\ call'[d] = call[d] /\ reply'[d] = reply[d]
  /\ err'[d] = err[d] /\ told'[d] = told[d] /\ at'[d] = at[d] /\ awaits'[d] = awaits[d]

\* A caller that does not take the step.
LEMMA OthersOK ==
  ASSUME NEW d \in Callers, CallerOK(d), Same(d), nodeKey' = nodeKey \/ stage[d] = "idle",
         monitors # <<>> => monitors' # <<>>
  PROVE  CallerOK(d)'
<1>1. CallerTypes(d)'
  BY DEF CallerOK, CallerTypes, Same
<1>2. CallerStages(d)'
  <2>1. CASE nodeKey' = nodeKey
    BY <2>1 DEF CallerOK, CallerStages, Same, Returning
  <2>2. CASE stage[d] = "idle"
    BY <2>2 DEF CallerOK, CallerStages, Same, Returning
  <2> QED BY <2>1, <2>2
<1>3. CallerVerified(d)'
  BY DEF CallerOK, CallerVerified, Returning, Same
<1> QED BY <1>1, <1>2, <1>3 DEF CallerOK

LEMMA Finite == IsFiniteSet(RequestSet) /\ IsFiniteSet(ErrorSet) /\ IsFiniteSet(BlamedSet)
  BY CallsAssumption, FS_Subset DEF RequestSet, ErrorSet, BlamedSet

\* The step of c moves c alone into a set or out of it.
LEMMA SetsMove ==
  ASSUME NEW c \in Callers, \A d \in Callers \ {c} : Same(d)
  PROVE  /\ /\ Cardinality(RequestSet) \in Nat /\ Cardinality(RequestSet') \in Nat
            /\ Cardinality(RequestSet')
                 = Cardinality(RequestSet) + Bit(InRequests(c)') - Bit(InRequests(c))
         /\ /\ Cardinality(ErrorSet) \in Nat /\ Cardinality(ErrorSet') \in Nat
            /\ Cardinality(ErrorSet') = Cardinality(ErrorSet) + Bit(InErrors(c)') - Bit(InErrors(c))
         /\ /\ Cardinality(BlamedSet) \in Nat /\ Cardinality(BlamedSet') \in Nat
            /\ Cardinality(BlamedSet')
                 = Cardinality(BlamedSet) + Bit(InBlamed(c)') - Bit(InBlamed(c))
<1>1. PICK R, Rp, E, Ep, B, Bp :
        /\ R = RequestSet /\ Rp = RequestSet' /\ E = ErrorSet /\ Ep = ErrorSet'
        /\ B = BlamedSet /\ Bp = BlamedSet'
  OBVIOUS
<1>2. IsFiniteSet(R) /\ IsFiniteSet(E) /\ IsFiniteSet(B)
  BY <1>1, Finite
<1>3. \A d : d # c => (d \in R <=> d \in Rp)
  BY <1>1 DEF RequestSet, InRequests, Same
<1>4. \A d : d # c => (d \in E <=> d \in Ep)
  BY <1>1 DEF ErrorSet, InErrors, Same
<1>5. \A d : d # c => (d \in B <=> d \in Bp)
  BY <1>1 DEF BlamedSet, InBlamed, Same
<1>6. /\ c \in R <=> InRequests(c)
      /\ c \in E <=> InErrors(c)
      /\ c \in B <=> InBlamed(c)
  BY <1>1 DEF RequestSet, ErrorSet, BlamedSet
<1>7. /\ c \in Rp <=> InRequests(c)'
      /\ c \in Ep <=> InErrors(c)'
      /\ c \in Bp <=> InBlamed(c)'
  BY <1>1 DEF RequestSet, ErrorSet, BlamedSet
<1>8. /\ Cardinality(R) \in Nat /\ Cardinality(Rp) \in Nat
      /\ Cardinality(Rp) = Cardinality(R) + Bit(c \in Rp) - Bit(c \in R)
  BY <1>2, <1>3, OneApart
<1>9. /\ Cardinality(E) \in Nat /\ Cardinality(Ep) \in Nat
      /\ Cardinality(Ep) = Cardinality(E) + Bit(c \in Ep) - Bit(c \in E)
  BY <1>2, <1>4, OneApart
<1>10. /\ Cardinality(B) \in Nat /\ Cardinality(Bp) \in Nat
       /\ Cardinality(Bp) = Cardinality(B) + Bit(c \in Bp) - Bit(c \in B)
  BY <1>2, <1>5, OneApart
<1>11. Bit(c \in R) = Bit(InRequests(c)) /\ Bit(c \in Rp) = Bit(InRequests(c)')
  BY <1>6, <1>7 DEF Bit
<1>12. Bit(c \in E) = Bit(InErrors(c)) /\ Bit(c \in Ep) = Bit(InErrors(c)')
  BY <1>6, <1>7 DEF Bit
<1>13. Bit(c \in B) = Bit(InBlamed(c)) /\ Bit(c \in Bp) = Bit(InBlamed(c)')
  BY <1>6, <1>7 DEF Bit
<1> QED BY <1>1, <1>8, <1>9, <1>10, <1>11, <1>12, <1>13

LEMMA TallyType == \A H, E, B : IsHistory(H) => Tally(H, E, B) \in Nat
<1> SUFFICES ASSUME NEW H, NEW E, NEW B, IsHistory(H) PROVE Tally(H, E, B) \in Nat
  OBVIOUS
<1>1. IsFiniteSet({h \in H : h.err \in E /\ h.by \in B})
  BY FS_Subset DEF IsHistory
<1> QED BY <1>1, FS_CardinalityType DEF Tally

LEMMA Remembered ==
  ASSUME IsHistory(history), NEW e \in Errs, NEW by \in Accounts,
         Remember(e, by)
  PROVE  /\ IsHistory(history')
         /\ \A E, B : Tally(history', E, B) = Tally(history, E, B) + Bit(e \in E /\ by \in B)
<1>1. PICK H : H = history
  OBVIOUS
<1>2. PICK x : x = Entry(H, e, by)
  OBVIOUS
<1>3. history' = H \cup {x}
  BY <1>1, <1>2 DEF Remember, Entry
<1>4. x \notin H /\ IsHistory(H \cup {x}) /\ x.err = e /\ x.by = by
  BY <1>1, <1>2, Fresh
<1>5. IsFiniteSet(H)
  BY <1>1 DEF IsHistory
<1>6. ASSUME NEW E, NEW B
      PROVE  Tally(H \cup {x}, E, B) = Tally(H, E, B) + Bit(e \in E /\ by \in B)
  <2>1. Tally(H \cup {x}, E, B) = Tally(H, E, B) + Adds(x, E, B)
    BY <1>4, <1>5, OneMore
  <2> QED BY <1>4, <2>1 DEF Adds, Bit
<1> QED BY <1>1, <1>3, <1>4, <1>6

\* A step of c before its statistics are sent.
LEMMA Quiet ==
  ASSUME CallsInv, NEW c \in Callers, Functions', \A d \in Callers \ {c} : Same(d),
         CallerOK(c)', {stage[c], stage'[c]} \cap {"count", "blame"} = {}, DialAlone',
         UNCHANGED <<nodeKey, monitors, blamed, history>>
  PROVE  CallsInv'
<1>1. \A d \in Callers : CallerOK(d)'
  <2> SUFFICES ASSUME NEW d \in Callers \ {c} PROVE CallerOK(d)'
    OBVIOUS
  <2> QED BY OthersOK DEF CallsInv
<1>2. /\ ~InRequests(c) /\ ~InErrors(c) /\ ~InBlamed(c)
      /\ ~InRequests(c)' /\ ~InErrors(c)' /\ ~InBlamed(c)'
  BY DEF InRequests, InErrors, InBlamed
<1>3. /\ Bit(InRequests(c)) = 0 /\ Bit(InErrors(c)) = 0 /\ Bit(InBlamed(c)) = 0
      /\ Bit(InRequests(c)') = 0 /\ Bit(InErrors(c)') = 0 /\ Bit(InBlamed(c)') = 0
  BY <1>2 DEF Bit
<1>4. /\ Cardinality(RequestSet') = Cardinality(RequestSet)
      /\ Cardinality(ErrorSet') = Cardinality(ErrorSet)
      /\ Cardinality(BlamedSet') = Cardinality(BlamedSet)
  BY <1>3, SetsMove
<1>5. RequestTally' /\ ErrorTally' /\ BlameTally'
  BY <1>4 DEF CallsInv, RequestTally, ErrorTally, BlameTally, shown
<1>6. IsMonitors' /\ nodeKey' \in BOOLEAN /\ blamed' \in Nat /\ IsHistory(history)'
  BY DEF CallsInv, IsMonitors
<1> QED BY <1>1, <1>5, <1>6 DEF CallsInv

\* A caller other than c keeps the key away only if c is not on its way.
LEMMA AloneKept ==
  ASSUME DialAlone, NEW c \in Callers, \A d \in Callers \ {c} : Same(d), nodeKey' = nodeKey,
         nodeKey \/ stage[c] # "idle"
  PROVE  DialAlone'
  BY DEF DialAlone, Same
-----------------------------------------------------------------------------
(* Calls: the steps *)

LEMMA Updated ==
  ASSUME NEW f, f = [d \in Callers |-> f[d]], NEW c \in Callers, NEW v,
         NEW g, g = [f EXCEPT ![c] = v]
  PROVE  g = [d \in Callers |-> g[d]] /\ g[c] = v /\ \A d \in Callers \ {c} : g[d] = f[d]
  OBVIOUS

LEMMA CallRecordType ==
  /\ \A by \in {"none", "dial", "direct", "wrapper"} :
       /\ \A m \in Methods : [op |-> m, by |-> by] \in CallRecords /\ [op |-> m, by |-> by].by = by
       /\ [op |-> "none", by |-> by] \in CallRecords /\ [op |-> "none", by |-> by].by = by
  /\ "EndpointInfo" \in Methods
<1>1. "EndpointInfo" \in Methods
  BY DEF Methods, ops
<1> QED BY <1>1 DEF CallRecords

\* The operation returns: what of it concerns the caller alone.
LEMMA ReturnParts ==
  ASSUME CallsInv, NEW c \in Callers, NEW by \in {"dial", "direct", "wrapper"}, NEW e \in Errs,
         Return(c, by, e)
  PROVE  /\ stage'[c] = "report" /\ err'[c] = e /\ call'[c].by = by /\ call'[c] \in CallRecords
         /\ call'[c].op # "none" => by = "wrapper"
         /\ stage' = [d \in Callers |-> stage'[d]] /\ call' = [d \in Callers |-> call'[d]]
         /\ err' = [d \in Callers |-> err'[d]]
         /\ \A d \in Callers \ {c} :
              stage'[d] = stage[d] /\ call'[d] = call[d] /\ err'[d] = err[d]
<1>1. /\ stage = [d \in Callers |-> stage[d]] /\ call = [d \in Callers |-> call[d]]
      /\ err = [d \in Callers |-> err[d]]
  BY DEF CallsInv, Functions
<1>6. call[c].op \in Methods \cup {"none"}
  BY DEF CallsInv, CallerOK, CallerTypes, CallRecords
<1>7. PICK o : o = IF e = "nil" /\ by = "wrapper" /\ call[c].op \in DOMAIN waits
                   THEN call[c].op ELSE "none"
  OBVIOUS
<1>8. o \in Methods \cup {"none"} /\ (o # "none" => by = "wrapper")
  BY <1>6, <1>7
<1>2. /\ stage' = [stage EXCEPT ![c] = "report"]
      /\ call' = [call EXCEPT ![c] = [op |-> o, by |-> by]]
      /\ err' = [err EXCEPT ![c] = e]
  <2>1. call' = [call EXCEPT ![c] = [op |-> IF e = "nil" /\ by = "wrapper" /\ call[c].op \in DOMAIN waits
                                            THEN @.op ELSE "none", by |-> by]]
    BY DEF Return
  <2> QED BY <1>1, <1>7, <2>1 DEF Return, Goto
<1>3. /\ stage' = [d \in Callers |-> stage'[d]] /\ stage'[c] = "report"
      /\ \A d \in Callers \ {c} : stage'[d] = stage[d]
  BY <1>1, <1>2, Updated
<1>4. /\ call' = [d \in Callers |-> call'[d]] /\ call'[c] = [op |-> o, by |-> by]
      /\ \A d \in Callers \ {c} : call'[d] = call[d]
  BY <1>1, <1>2, Updated
<1>5. /\ err' = [d \in Callers |-> err'[d]] /\ err'[c] = e
      /\ \A d \in Callers \ {c} : err'[d] = err[d]
  BY <1>1, <1>2, Updated
<1>9. call'[c].op = o
  BY <1>4
<1> QED BY <1>3, <1>4, <1>5, <1>8, <1>9, CallRecordType

\* An operation that ends without an answer that could be read.
LEMMA ReturnUnread ==
  ASSUME CallsInv, NEW c \in Callers, NEW by \in {"dial", "direct", "wrapper"}, NEW e \in Errs,
         Return(c, by, e), stage[c] \in {"idle", "sent", "heard"},
         by = "dial" <=> ~nodeKey, by = "wrapper" => e # "panic",
         stage[c] = "idle" => nodeKey, stage[c] # "idle" => by = call[c].by,
         told' = [d \in Callers |-> told'[d]], told'[c] \in BOOLEAN,
         \A d \in Callers \ {c} : told'[d] = told[d],
         UNCHANGED <<awaits, reply, nodeKey, monitors, at, blamed, history>>
  PROVE  CallsInv'
<1>1. /\ stage'[c] = "report" /\ err'[c] = e /\ call'[c].by = by /\ call'[c] \in CallRecords
      /\ call'[c].op # "none" => by = "wrapper"
      /\ stage' = [d \in Callers |-> stage'[d]] /\ call' = [d \in Callers |-> call'[d]]
      /\ err' = [d \in Callers |-> err'[d]]
      /\ \A d \in Callers \ {c} :
           stage'[d] = stage[d] /\ call'[d] = call[d] /\ err'[d] = err[d]
  BY ReturnParts
<1>2. Functions'
  BY <1>1 DEF CallsInv, Functions
<1>3. \A d \in Callers \ {c} : Same(d)
  BY <1>1 DEF Same
<1>4. CallerOK(c)
  BY DEF CallsInv
<1>5. reply'[c] = NoReply /\ at'[c] = 0 /\ reply'[c] \in Replies
  BY <1>4 DEF CallerOK, CallerStages, CallerTypes
<1>6. CallerTypes(c)'
  BY <1>1, <1>4, <1>5 DEF CallerOK, CallerTypes, Stages
<1>7. CallerStages(c)'
  <2>1. awaits[c] # "none" => by = "wrapper"
    BY <1>4 DEF CallerOK, CallerStages
  <2> QED BY <1>1, <1>5, <2>1 DEF CallerStages, CallsInv
<1>8. CallerVerified(c)'
  BY <1>5 DEF CallerVerified
<1>9. CallerOK(c)'
  BY <1>6, <1>7, <1>8 DEF CallerOK
<1>10. DialAlone'
  BY <1>3, AloneKept DEF CallsInv
<1> QED BY <1>1, <1>2, <1>3, <1>9, <1>10, Quiet

\* A caller's request is on its way.
LEMMA SentStep ==
  ASSUME CallsInv, NEW c \in Callers, NEW by \in {"dial", "direct", "wrapper"}, NEW m \in Methods,
         Sent(c, m, by), stage[c] = "idle" \/ (stage[c] = "wait" /\ by = "wrapper"),
         by = "dial" <=> ~nodeKey,
         ~nodeKey => \A d \in Callers : stage[d] = "idle",
         UNCHANGED <<awaits, reply, told, nodeKey, monitors, at, blamed, history>>
  PROVE  CallsInv'
<1>1. Functions /\ err' = err
  BY DEF CallsInv, Sent
<1>2. /\ stage' = [d \in Callers |-> stage'[d]] /\ stage'[c] = "sent"
      /\ \A d \in Callers \ {c} : stage'[d] = stage[d]
  BY <1>1, Updated DEF Functions, Sent, Goto
<1>3. /\ call' = [d \in Callers |-> call'[d]] /\ call'[c] = [op |-> m, by |-> by]
      /\ \A d \in Callers \ {c} : call'[d] = call[d]
  BY <1>1, Updated DEF Functions, Sent
<1>4. call'[c] \in CallRecords /\ call'[c].by = by
  BY <1>3, CallRecordType
<1>5. Functions'
  BY <1>1, <1>2, <1>3 DEF Functions
<1>6. \A d \in Callers \ {c} : Same(d)
  BY <1>1, <1>2, <1>3 DEF Same
<1>7. CallerOK(c)
  BY DEF CallsInv
<1>8. CallerTypes(c)'
  BY <1>1, <1>2, <1>4, <1>7 DEF CallerOK, CallerTypes, Stages
<1>9. CallerStages(c)'
  <2>1. awaits[c] # "none" => by = "wrapper"
    BY <1>7 DEF CallerOK, CallerStages
  <2>2. reply[c] = NoReply /\ err[c] = "nil" /\ at[c] = 0
    BY <1>7 DEF CallerOK, CallerStages
  <2> QED BY <1>1, <1>2, <1>4, <2>1, <2>2 DEF CallerStages, CallsInv, Returning
<1>10. CallerVerified(c)'
  BY <1>2 DEF CallerVerified, Returning
<1>11. CallerOK(c)'
  BY <1>8, <1>9, <1>10 DEF CallerOK
<1>12. DialAlone'
  <2>1. CASE nodeKey
    BY <2>1 DEF DialAlone
  <2>2. CASE ~nodeKey
    BY <1>6, <2>2 DEF DialAlone, Same
  <2> QED BY <2>1, <2>2
<1> QED BY <1>2, <1>5, <1>6, <1>11, <1>12, Quiet

LEMMA BeginStep ==
  ASSUME CallsInv, NEW c \in Callers, NEW m \in Methods, NEW args \in Args,
         NEW by \in {"direct", "wrapper"}, Begin(c, m, args, by)
  PROVE  CallsInv'
<1>1. /\ nodeKey /\ stage[c] = "idle"
      /\ UNCHANGED <<awaits, reply, told, nodeKey, monitors, at, blamed, history>>
      /\ by = "wrapper" => args.pairs = 0
  BY DEF Begin
<1>2. PICK e : e = refusal(ops[m], args)
  OBVIOUS
<1>3. e \in {"nil"} \cup Refusals
  BY <1>2, RefusalIs
<1>4. e \in Errs /\ e # "panic" /\ "panic" \in Errs
  BY <1>3 DEF Errs, Refusals, Failures
<1>5. told' = [d \in Callers |-> told'[d]] /\ told'[c] \in BOOLEAN
  BY <1>1 DEF CallsInv, Functions, CallerOK, CallerTypes
<1>6. CASE Return(c, by, e)
  BY <1>1, <1>4, <1>5, <1>6, ReturnUnread
<1>7. CASE ~writeXHeadersToMeta(args.pairs) /\ Return(c, by, "panic")
  <2>1. args.pairs # 0
    BY <1>7 DEF writeXHeadersToMeta
  <2>2. by # "wrapper"
    BY <1>1, <2>1
  <2> QED BY <1>1, <1>4, <1>5, <1>7, <2>2, ReturnUnread
<1>8. CASE Sent(c, m, by)
  BY <1>1, <1>8, SentStep
<1> QED BY <1>2, <1>6, <1>7, <1>8 DEF Begin

LEMMA DialStep ==
  ASSUME CallsInv, NEW c \in Callers, Dial(c)
  PROVE  CallsInv'
  BY SentStep, CallRecordType DEF Dial

\* Who has called, while the operation runs.
LEMMA Caller ==
  ASSUME CallsInv, NEW c \in Callers, stage[c] # "idle"
  PROVE  call[c].by \in {"dial", "direct", "wrapper"} /\ (call[c].by = "dial" <=> ~nodeKey)
<1>1. CallerOK(c)
  BY DEF CallsInv
<1>2. call[c].by \in {"none", "dial", "direct", "wrapper"}
  BY <1>1 DEF CallerOK, CallerTypes, CallRecords
<1> QED BY <1>1, <1>2 DEF CallerOK, CallerStages

LEMMA TransportStep ==
  ASSUME CallsInv, NEW c \in Callers, TransportFails(c)
  PROVE  CallsInv'
<1>1. /\ stage[c] = "sent" /\ Return(c, call[c].by, "transport")
      /\ UNCHANGED <<awaits, reply, told, nodeKey, monitors, at, blamed, history>>
  BY DEF TransportFails
<1>2. call[c].by \in {"dial", "direct", "wrapper"} /\ (call[c].by = "dial" <=> ~nodeKey)
  BY <1>1, Caller
<1>3. told' = [d \in Callers |-> told'[d]] /\ told'[c] \in BOOLEAN
  BY <1>1 DEF CallsInv, Functions, CallerOK, CallerTypes
<1>4. "transport" \in Errs
  BY DEF Errs, Failures
<1> QED BY <1>1, <1>2, <1>3, <1>4, ReturnUnread

LEMMA HeardStep ==
  ASSUME CallsInv, NEW c \in Callers, stage[c] = "sent", Goto(c, "heard"),
         told' = [d \in Callers |-> told'[d]], told'[c] \in BOOLEAN,
         \A d \in Callers \ {c} : told'[d] = told[d],
         UNCHANGED <<call, awaits, err, reply, nodeKey, monitors, at, blamed, history>>
  PROVE  CallsInv'
<1>1. Functions
  BY DEF CallsInv
<1>2. /\ stage' = [d \in Callers |-> stage'[d]] /\ stage'[c] = "heard"
      /\ \A d \in Callers \ {c} : stage'[d] = stage[d]
  BY <1>1, Updated DEF Functions, Goto
<1>3. Functions'
  BY <1>1, <1>2 DEF Functions
<1>4. \A d \in Callers \ {c} : Same(d)
  BY <1>2 DEF Same
<1>5. CallerOK(c)
  BY DEF CallsInv
<1>6. CallerTypes(c)'
  BY <1>2, <1>5 DEF CallerOK, CallerTypes, Stages
<1>7. CallerStages(c)'
  BY <1>2, <1>5 DEF CallerOK, CallerStages, Returning
<1>8. CallerVerified(c)'
  BY <1>2 DEF CallerVerified, Returning
<1>9. CallerOK(c)'
  BY <1>6, <1>7, <1>8 DEF CallerOK
<1>10. DialAlone'
  BY <1>4, AloneKept DEF CallsInv
<1> QED BY <1>2, <1>3, <1>4, <1>9, <1>10, Quiet

LEMMA CallbackStep ==
  ASSUME CallsInv, NEW c \in Callers, RunCallback(c)
  PROVE  CallsInv'
<1>1. stage[c] = "sent" /\ UNCHANGED <<awaits, reply, nodeKey, monitors, at, blamed, history>>
  BY DEF RunCallback
<1>2. call[c].by \in {"dial", "direct", "wrapper"} /\ (call[c].by = "dial" <=> ~nodeKey)
  BY <1>1, Caller
<1>3. told = [d \in Callers |-> told[d]] /\ told[c] \in BOOLEAN
  BY DEF CallsInv, Functions, CallerOK, CallerTypes
<1>4. told' = [told EXCEPT ![c] = TRUE] \/ told' = told
  BY DEF RunCallback
<1>5. /\ told' = [d \in Callers |-> told'[d]] /\ told'[c] \in BOOLEAN
      /\ \A d \in Callers \ {c} : told'[d] = told[d]
  <2>1. CASE told' = [told EXCEPT ![c] = TRUE]
    BY <1>3, <2>1, Updated
  <2> QED BY <1>3, <1>4, <2>1
<1>6. "callback" \in Errs
  BY DEF Errs, Failures
<1>7. CASE Return(c, call[c].by, "callback")
  BY <1>1, <1>2, <1>5, <1>6, <1>7, ReturnUnread
<1>8. CASE Goto(c, "heard") /\ UNCHANGED <<call, err>>
  BY <1>1, <1>5, <1>8, HeardStep
<1> QED BY <1>7, <1>8 DEF RunCallback

LEMMA ReadStep ==
  ASSUME CallsInv, NEW c \in Callers, NEW verifies \in BOOLEAN, NEW st \in ReplyStatuses,
         NEW fields \in UNION {[1..n -> Fields] : n \in 0..2},
         ReadResponse(c, verifies, st, fields)
  PROVE  CallsInv'
<1> DEFINE op == ops[call[c].op]
           p == processResponse(verifies, st)
           full == \A i \in DOMAIN fields : fields[i] = "ok"
<1>1. /\ stage[c] = "heard"
      /\ \A i \in DOMAIN fields : fields[i] \in {"ok"} \cup op.fields[i]
      /\ reply' = [reply EXCEPT ![c] = [verifies |-> verifies, status |-> st.code, complete |-> full]]
      /\ Return(c, call[c].by, IF p # "nil" THEN p ELSE result(op, fields))
      /\ UNCHANGED <<awaits, told, nodeKey, monitors, at, blamed, history>>
  BY DEF ReadResponse
<1>2. /\ result(op, fields) \in {"nil"} \cup Fields
      /\ result(op, fields) = "nil" => full
  <2> HIDE DEF op
  <2> QED BY <1>1, ResultIs
<1> HIDE DEF op
<1>3. /\ ErrorFromV2(st).type \in {"nil"} \cup Remote
      /\ ErrorFromV2(st).type = "nil" => st.code = OK
  BY StatusIs
<1>4. PICK e : e = IF p # "nil" THEN p ELSE result(op, fields)
  OBVIOUS
<1>5. /\ e \in Errs /\ e # "panic"
      /\ e \notin {"callback", "signature"} => verifies
      /\ e = "nil" => st.code = OK /\ full
  <2>1. CASE ~verifies
    <3>1. e = "signature"
      BY <1>4, <2>1 DEF processResponse
    <3> QED BY <3>1 DEF Errs, Failures
  <2>2. CASE verifies
    <3>1. p = ErrorFromV2(st).type
      BY <2>2 DEF processResponse
    <3> HIDE DEF p, full
    <3> QED BY <1>2, <1>3, <1>4, <2>2, <3>1 DEF Errs, Remote, Fields
  <2> QED BY <2>1, <2>2
<1>6. full \in BOOLEAN
  OBVIOUS
<1> HIDE DEF p, full
<1>7. call[c].by \in {"dial", "direct", "wrapper"} /\ (call[c].by = "dial" <=> ~nodeKey)
  BY <1>1, Caller
<1>8. PICK by : by = call[c].by
  OBVIOUS
<1>9. Return(c, by, e)
  BY <1>1, <1>4, <1>8
<1>10. /\ stage'[c] = "report" /\ err'[c] = e /\ call'[c].by = by /\ call'[c] \in CallRecords
       /\ call'[c].op # "none" => by = "wrapper"
       /\ stage' = [d \in Callers |-> stage'[d]] /\ call' = [d \in Callers |-> call'[d]]
       /\ err' = [d \in Callers |-> err'[d]]
       /\ \A d \in Callers \ {c} :
            stage'[d] = stage[d] /\ call'[d] = call[d] /\ err'[d] = err[d]
  BY <1>5, <1>7, <1>8, <1>9, ReturnParts
<1>11. /\ reply' = [d \in Callers |-> reply'[d]]
       /\ reply'[c] = [verifies |-> verifies, status |-> st.code, complete |-> full]
       /\ \A d \in Callers \ {c} : reply'[d] = reply[d]
  BY <1>1, Updated DEF CallsInv, Functions
<1>12. Functions'
  BY <1>1, <1>10, <1>11 DEF CallsInv, Functions
<1>13. \A d \in Callers \ {c} : Same(d)
  BY <1>1, <1>10, <1>11 DEF Same
<1>14. CallerOK(c)
  BY DEF CallsInv
<1>15. at'[c] = 0 /\ told'[c] \in BOOLEAN
  BY <1>1, <1>14 DEF CallerOK, CallerStages, CallerTypes
<1>16. reply'[c] \in Replies
  BY <1>6, <1>11 DEF Replies
<1>17. CallerTypes(c)'
  <2>1. awaits'[c] \in Waits \cup {"none"}
    BY <1>1, <1>14 DEF CallerOK, CallerTypes
  <2> QED BY <1>5, <1>10, <1>15, <1>16, <2>1 DEF CallerTypes, Stages
<1>18. CallerStages(c)'
  <2>1. awaits'[c] # "none" => by = "wrapper"
    BY <1>1, <1>8, <1>14 DEF CallerOK, CallerStages
  <2> QED BY <1>1, <1>5, <1>7, <1>8, <1>10, <1>15, <2>1 DEF CallerStages
<1>19. CallerVerified(c)'
  BY <1>5, <1>10, <1>11 DEF CallerVerified
<1>20. CallerOK(c)'
  BY <1>17, <1>18, <1>19 DEF CallerOK
<1>21. DialAlone'
  BY <1>1, <1>13, AloneKept DEF CallsInv
<1> QED BY <1>1, <1>10, <1>12, <1>13, <1>20, <1>21, Quiet
\* What is reported, and what counts, in terms of what is returned.
LEMMA Reported ==
  ASSUME NEW c \in Callers, err[c] \in Errs
  PROVE  /\ reportedError(c) # "nil" <=> err[c] \in Known
         /\ counted(reportedError(c)) <=> err[c] \in Bad
         /\ err[c] # "panic" => (counted(err[c]) <=> err[c] \in Bad \cup {"ErrMissingSigner"})
         /\ err[c] \in Bad => err[c] \in Known
<1>1. /\ reportedError(c) \in Errs
      /\ reportedError(c) = IF err[c] \in {"ErrMissingSigner", "panic"} THEN "nil" ELSE err[c]
  BY DEF reportedError, Errs
<1>2. counted(reportedError(c)) <=> reportedError(c) \notin {"nil", "ContainerNotFound", "split"}
  BY <1>1, CountedIs
<1>3. counted(err[c]) <=> err[c] \notin {"nil", "ContainerNotFound", "split"}
  BY CountedIs
<1> HIDE DEF reportedError
<1>4. reportedError(c) # "nil" <=> err[c] \in Known
  BY <1>1 DEF Known
<1>5. counted(reportedError(c)) <=> err[c] \in Bad
  BY <1>1, <1>2 DEF Bad
<1>6. err[c] # "panic" => (counted(err[c]) <=> err[c] \in Bad \cup {"ErrMissingSigner"})
  BY <1>3 DEF Bad
<1>7. err[c] \in Bad => err[c] \in Known
  BY DEF Bad, Known
<1> QED BY <1>4, <1>5, <1>6, <1>7

LEMMA OneItem ==
  ASSUME NEW S, NEW s \in Seq(S), s # <<>>, Len(s) <= 1
  PROVE  Len(s) = 1 /\ s[1] \in S /\ 1 \in DOMAIN s
<1>1. Len(s) \in Nat /\ Len(s) # 0 /\ DOMAIN s = 1..Len(s)
  OBVIOUS
<1>2. Len(s) = 1 /\ 1 \in DOMAIN s
  BY <1>1
<1> QED BY <1>2

LEMMA ShownType == IsMonitors => shown \in Monitor /\ shown.requests \in Nat /\ shown.errors \in Nat
<1> SUFFICES ASSUME IsMonitors PROVE shown \in Monitor
  BY DEF Monitor
<1>1. CASE monitors = <<>>
  BY <1>1 DEF shown, Monitor
<1>2. CASE monitors # <<>>
  BY <1>2 DEF shown, IsMonitors
<1> QED BY <1>1, <1>2

LEMMA LocateStep ==
  ASSUME CallsInv, NEW c \in Callers, Locate(c)
  PROVE  CallsInv'
<1>1. /\ stage[c] = "report" /\ UNCHANGED <<call, awaits, reply, err, told, nodeKey, history>>
      /\ blamed' = blamed + IF counted(reportedError(c)) THEN 1 ELSE 0
  BY DEF Locate
<1>2. CallerOK(c) /\ Functions /\ IsMonitors /\ DialAlone /\ nodeKey \in BOOLEAN /\ blamed \in Nat
  BY DEF CallsInv
<1>3. err[c] \in Errs /\ at[c] = 0
  BY <1>1, <1>2 DEF CallerOK, CallerTypes, CallerStages
<1>4. call[c].by \in {"dial", "direct", "wrapper"} /\ (call[c].by = "dial" <=> ~nodeKey)
  BY <1>1, Caller
<1>5. PICK s, a : /\ s = IF nodeKey THEN "count" ELSE "blame"
                  /\ a = IF nodeKey THEN 1 ELSE 0
  OBVIOUS
<1>6. /\ stage' = [stage EXCEPT ![c] = s]
      /\ IsMonitors' /\ shown' = shown
      /\ monitors # <<>> => monitors' # <<>>
      /\ a = 1 => monitors' # <<>>
      /\ at' = [at EXCEPT ![c] = a]
  <2>1. CASE ~nodeKey
    <3>1. at = [at EXCEPT ![c] = 0]
      BY <1>2, <1>3 DEF Functions
    <3> QED BY <1>2, <1>5, <2>1, <3>1 DEF Locate, Goto, IsMonitors, shown
  <2>2. CASE nodeKey
    <3>1. /\ monitors' = IF monitors = <<>> THEN <<[requests |-> 0, errors |-> 0]>> ELSE monitors
          /\ at' = [at EXCEPT ![c] = Len(monitors')] /\ stage' = [stage EXCEPT ![c] = "count"]
      BY <2>2 DEF Locate, Goto
    <3>2. PICK z : z = [requests |-> 0, errors |-> 0]
      OBVIOUS
    <3>3. z \in Monitor
      BY <3>2 DEF Monitor
    <3>4. <<z>> \in Seq(Monitor) /\ Len(<<z>>) = 1 /\ <<z>>[1] = z /\ <<z>> # <<>>
      BY <3>3
    <3>5. CASE monitors = <<>>
      <4>1. monitors' = <<z>>
        BY <3>1, <3>2, <3>5
      <4>2. IsMonitors' /\ shown' = shown /\ monitors' # <<>> /\ Len(monitors') = 1
        BY <3>2, <3>4, <3>5, <4>1 DEF IsMonitors, shown
      <4> QED BY <1>5, <2>2, <3>1, <4>2
    <3>6. CASE monitors # <<>>
      <4>1. monitors' = monitors
        BY <3>1, <3>6
      <4>2. Len(monitors) = 1
        BY <1>2, <3>6, OneItem DEF IsMonitors
      <4>3. IsMonitors' /\ shown' = shown
        BY <1>2, <4>1 DEF IsMonitors, shown
      <4> QED BY <1>5, <2>2, <3>1, <3>6, <4>1, <4>2, <4>3
    <3> QED BY <3>5, <3>6
  <2> QED BY <1>2, <2>1, <2>2
<1>7. /\ stage' = [d \in Callers |-> stage'[d]] /\ stage'[c] = s
      /\ \A d \in Callers \ {c} : stage'[d] = stage[d]
  BY <1>2, <1>6, Updated DEF Functions
<1>8. /\ at' = [d \in Callers |-> at'[d]] /\ at'[c] = a
      /\ \A d \in Callers \ {c} : at'[d] = at[d]
  BY <1>2, <1>6, Updated DEF Functions
<1>9. Functions'
  BY <1>1, <1>2, <1>7, <1>8 DEF Functions
<1>10. \A d \in Callers \ {c} : Same(d)
  BY <1>1, <1>7, <1>8 DEF Same
<1>11. CallerOK(c)'
  <2>1. CallerTypes(c)'
    BY <1>1, <1>2, <1>5, <1>7, <1>8 DEF CallerOK, CallerTypes, Stages
  <2>2. CallerStages(c)'
    <3>1. Returning(c)
      BY <1>1 DEF Returning
    <3> QED BY <1>1, <1>2, <1>4, <1>5, <1>6, <1>7, <1>8, <3>1 DEF CallerOK, CallerStages
  <2>3. CallerVerified(c)'
    BY <1>1, <1>2 DEF CallerOK, CallerVerified, Returning
  <2> QED BY <2>1, <2>2, <2>3 DEF CallerOK
<1>12. \A d \in Callers : CallerOK(d)'
  <2> SUFFICES ASSUME NEW d \in Callers \ {c} PROVE CallerOK(d)'
    BY <1>11
  <2> QED BY <1>1, <1>6, <1>10, OthersOK DEF CallsInv
<1>13. DialAlone'
  BY <1>1, <1>2, <1>10, AloneKept
<1>14. /\ ~InRequests(c) /\ ~InErrors(c) /\ ~InBlamed(c) /\ ~InRequests(c)' /\ ~InErrors(c)'
       /\ InBlamed(c)' <=> counted(reportedError(c))
  <2>1. stage'[c] \in {"count", "blame"} /\ ~(stage'[c] = "blame" /\ at'[c] = 1)
    BY <1>5, <1>7, <1>8
  <2>2. counted(reportedError(c)) <=> err'[c] \in Bad
    BY <1>1, <1>3, Reported
  <2> QED BY <1>1, <2>1, <2>2 DEF InRequests, InErrors, InBlamed
<1>15. /\ Bit(InRequests(c)) = 0 /\ Bit(InErrors(c)) = 0 /\ Bit(InBlamed(c)) = 0
       /\ Bit(InRequests(c)') = 0 /\ Bit(InErrors(c)') = 0
       /\ Bit(InBlamed(c)') = IF counted(reportedError(c)) THEN 1 ELSE 0
  BY <1>14 DEF Bit
<1>16. /\ Cardinality(RequestSet') = Cardinality(RequestSet)
       /\ Cardinality(ErrorSet') = Cardinality(ErrorSet)
       /\ Cardinality(BlamedSet') = Cardinality(BlamedSet) + Bit(InBlamed(c)')
       /\ Cardinality(BlamedSet) \in Nat
  BY <1>10, <1>15, SetsMove
<1>17. RequestTally' /\ ErrorTally'
  BY <1>1, <1>6, <1>16 DEF CallsInv, RequestTally, ErrorTally
<1>18. BlameTally' /\ blamed' \in Nat
  <2>1. PICK x, y, z, t : /\ x = Tally(history, Bad, {"direct", "dial"})
                          /\ y = Tally(history, Bad, {"wrapper"})
                          /\ z = Tally(history, {"ErrMissingSigner"}, {"wrapper"})
                          /\ t = Tally(history, {"context"}, {"wait"})
    OBVIOUS
  <2>2. x \in Nat /\ y \in Nat /\ z \in Nat /\ t \in Nat
    BY <2>1, TallyType DEF CallsInv
  <2>3. blamed = x + 2 * y + z + t + Cardinality(BlamedSet)
    BY <2>1 DEF CallsInv, BlameTally
  <2>4. blamed' = blamed + Bit(InBlamed(c)') /\ Bit(InBlamed(c)') \in {0, 1}
    BY <1>1, <1>15
  <2>5. blamed' = x + 2 * y + z + t + Cardinality(BlamedSet')
    BY <1>16, <2>2, <2>3, <2>4
  <2> QED BY <1>1, <1>2, <2>1, <2>4, <2>5 DEF BlameTally
<1>19. IsHistory(history)' /\ nodeKey' \in BOOLEAN
  BY <1>1 DEF CallsInv
<1> QED BY <1>6, <1>9, <1>12, <1>13, <1>17, <1>18, <1>19 DEF CallsInv

LEMMA CountStep ==
  ASSUME CallsInv, NEW c \in Callers, NEW duration \in 0..1, Count(c, duration)
  PROVE  CallsInv'
<1>1. /\ stage[c] = "count" /\ stage' = [stage EXCEPT ![c] = "blame"]
      /\ UNCHANGED <<call, awaits, reply, err, told, nodeKey, at, blamed, history>>
  BY DEF Count, Goto
<1>2. CallerOK(c) /\ Functions /\ IsMonitors /\ DialAlone /\ nodeKey \in BOOLEAN /\ blamed \in Nat
  BY DEF CallsInv
<1>3. err[c] \in Errs /\ at[c] = 1 /\ monitors # <<>>
  BY <1>1, <1>2 DEF CallerOK, CallerTypes, CallerStages
<1>4. call[c].by \in {"dial", "direct", "wrapper"} /\ (call[c].by = "dial" <=> ~nodeKey)
  BY <1>1, Caller
<1>5. call[c].by # "dial"
  BY <1>1, <1>2, <1>3 DEF CallerOK, CallerStages
<1>6. PICK r, e : /\ r = IF duration > 0 THEN 1 ELSE 0
                  /\ e = IF reportedError(c) # "nil" THEN 1 ELSE 0
  OBVIOUS
<1>7. shown = monitors[1] /\ shown \in Monitor /\ Len(monitors) = 1 /\ monitors \in Seq(Monitor)
  BY <1>2, <1>3, ShownType, OneItem DEF shown, IsMonitors
<1>8. PICK m : m = [requests |-> shown.requests + r, errors |-> shown.errors + e]
  OBVIOUS
<1>9. m \in Monitor
  BY <1>6, <1>7, <1>8 DEF Monitor
<1>10. monitors' = [monitors EXCEPT ![1] = m]
  <2>1. monitors' = [monitors EXCEPT
               ![1].requests = IF duration > 0 THEN @ + 1 ELSE @,
               ![1].errors = IF reportedError(c) # "nil" THEN @ + 1 ELSE @]
    BY <1>3 DEF Count
  <2>2. PICK k, k1, k2 :
          /\ k = monitors[1]
          /\ k1 = [k EXCEPT !.requests = IF duration > 0 THEN @ + 1 ELSE @]
          /\ k2 = [k1 EXCEPT !.errors = IF reportedError(c) # "nil" THEN @ + 1 ELSE @]
    OBVIOUS
  <2>3. monitors' = [[monitors EXCEPT ![1] = k1] EXCEPT ![1] = k2]
    <3>1. PICK q : q = [monitors EXCEPT ![1] = k1]
      OBVIOUS
    <3>2. q[1] = k1
      BY <1>2, <1>3, <3>1, OneItem DEF IsMonitors
    <3>3. monitors' = [q EXCEPT ![1] = [q[1] EXCEPT
                                          !.errors = IF reportedError(c) # "nil" THEN @ + 1 ELSE @]]
      BY <2>1, <2>2, <3>1
    <3> QED BY <2>2, <3>1, <3>2, <3>3
  <2>4. k2 = m
    <3>1. k = [requests |-> shown.requests, errors |-> shown.errors]
      BY <1>7, <2>2 DEF Monitor
    <3>2. shown.requests \in Nat /\ shown.errors \in Nat
      BY <1>7 DEF Monitor
    <3>3. k1 = [requests |-> shown.requests + r, errors |-> shown.errors]
      BY <1>6, <2>2, <3>1, <3>2
    <3>4. CASE reportedError(c) # "nil"
      <4>1. k2 = [k1 EXCEPT !.errors = @ + 1]
        BY <2>2, <3>4
      <4>2. e = 1
        BY <1>6, <3>4
      <4> QED BY <1>8, <3>3, <4>1, <4>2
    <3>5. CASE reportedError(c) = "nil"
      <4>1. k2 = [k1 EXCEPT !.errors = @]
        BY <2>2, <3>5
      <4>2. e = 0 /\ shown.errors + e = shown.errors
        BY <1>6, <3>2, <3>5
      <4> QED BY <1>8, <3>3, <4>1, <4>2
    <3> QED BY <3>4, <3>5
  <2> QED BY <1>7, <2>3, <2>4
<1>11. /\ IsMonitors' /\ monitors' # <<>> /\ shown'.requests = shown.requests + r
       /\ shown'.errors = shown.errors + e
  <2>1. monitors' \in Seq(Monitor) /\ Len(monitors') = 1 /\ monitors'[1] = m /\ monitors' # <<>>
    BY <1>7, <1>9, <1>10
  <2> QED BY <1>8, <2>1 DEF IsMonitors, shown
<1>12. /\ stage' = [d \in Callers |-> stage'[d]] /\ stage'[c] = "blame"
       /\ \A d \in Callers \ {c} : stage'[d] = stage[d]
  BY <1>1, <1>2, Updated DEF Functions
<1>13. Functions'
  BY <1>1, <1>2, <1>12 DEF Functions
<1>14. \A d \in Callers \ {c} : Same(d)
  BY <1>1, <1>12 DEF Same
<1>15. CallerOK(c)'
  <2>1. CallerTypes(c)'
    BY <1>1, <1>2, <1>12 DEF CallerOK, CallerTypes, Stages
  <2>2. CallerStages(c)'
    <3>1. Returning(c)
      BY <1>1 DEF Returning
    <3> QED BY <1>1, <1>2, <1>3, <1>4, <1>5, <1>11, <1>12, <3>1 DEF CallerOK, CallerStages
  <2>3. CallerVerified(c)'
    BY <1>1, <1>2 DEF CallerOK, CallerVerified, Returning
  <2> QED BY <2>1, <2>2, <2>3 DEF CallerOK
<1>16. \A d \in Callers : CallerOK(d)'
  <2> SUFFICES ASSUME NEW d \in Callers \ {c} PROVE CallerOK(d)'
    BY <1>15
  <2> QED BY <1>1, <1>11, <1>14, OthersOK DEF CallsInv
<1>17. DialAlone'
  BY <1>1, <1>2, <1>14, AloneKept
<1>18. /\ ~InRequests(c) /\ ~InErrors(c) /\ InRequests(c)' /\ (InBlamed(c)' <=> InBlamed(c))
       /\ InErrors(c)' <=> reportedError(c) # "nil"
  BY <1>1, <1>3, <1>12, Reported DEF InRequests, InErrors, InBlamed
<1>19. /\ Bit(InRequests(c)) = 0 /\ Bit(InErrors(c)) = 0 /\ Bit(InRequests(c)') = 1
       /\ Bit(InBlamed(c)') = Bit(InBlamed(c)) /\ Bit(InBlamed(c)) \in {0, 1}
       /\ Bit(InErrors(c)') = e
  BY <1>6, <1>18 DEF Bit
<1>20. /\ Cardinality(RequestSet') = Cardinality(RequestSet) + 1
       /\ Cardinality(ErrorSet') = Cardinality(ErrorSet) + e
       /\ Cardinality(BlamedSet') = Cardinality(BlamedSet)
       /\ Cardinality(RequestSet) \in Nat /\ Cardinality(ErrorSet) \in Nat
  BY <1>6, <1>14, <1>19, SetsMove
<1>21. PICK x, y : x = Tally(history, Errs, Users) /\ y = Tally(history, Known, Users)
  OBVIOUS
<1>22. x \in Nat /\ y \in Nat
  BY <1>21, TallyType DEF CallsInv
<1>23. shown.requests \in Nat /\ shown.errors \in Nat
  BY <1>2, ShownType
<1>24. RequestTally'
  <2>1. shown.requests <= x + Cardinality(RequestSet)
    BY <1>21 DEF CallsInv, RequestTally
  <2>2. shown'.requests <= x + Cardinality(RequestSet')
    BY <1>6, <1>11, <1>20, <1>22, <1>23, <2>1
  <2> QED BY <1>1, <1>21, <2>2 DEF RequestTally
<1>25. ErrorTally'
  <2>1. shown.errors = y + Cardinality(ErrorSet)
    BY <1>21 DEF CallsInv, ErrorTally
  <2>2. shown'.errors = y + Cardinality(ErrorSet')
    BY <1>6, <1>11, <1>20, <1>22, <1>23, <2>1
  <2> QED BY <1>1, <1>21, <2>2 DEF ErrorTally
<1>26. BlameTally'
  BY <1>1, <1>20 DEF CallsInv, BlameTally
<1>27. IsHistory(history)' /\ nodeKey' \in BOOLEAN /\ blamed' \in Nat
  BY <1>1, <1>2 DEF CallsInv
<1> QED BY <1>11, <1>13, <1>16, <1>17, <1>24, <1>25, <1>26, <1>27 DEF CallsInv
\* What a method of the wrapper adds to the account of the node on its own.
Counts(by, e) ==
  Bit(\/ by = "wrapper" /\ e \in Bad \cup {"ErrMissingSigner"}
      \/ by = "wait" /\ e = "context")

\* The sums after a call is remembered; what left the sets has come to the past.
LEMMA Sums ==
  ASSUME CallsInv, NEW e \in Errs, NEW by \in Accounts,
         Remember(e, by), by = "wrapper" => e # "panic",
         shown' = shown, NEW counts,
         counts = Counts(by, e),
         blamed' = blamed + counts,
         Cardinality(RequestSet) \in Nat, Cardinality(ErrorSet) \in Nat,
         Cardinality(BlamedSet) \in Nat,
         Cardinality(RequestSet') = Cardinality(RequestSet) - Bit(by \in Users),
         Cardinality(ErrorSet') = Cardinality(ErrorSet) - Bit(by \in Users /\ e \in Known),
         Cardinality(BlamedSet') = Cardinality(BlamedSet) - Bit(by \in operations /\ e \in Bad)
  PROVE  RequestTally' /\ ErrorTally' /\ BlameTally' /\ IsHistory(history)' /\ blamed' \in Nat
<1>1. IsHistory(history)
  BY DEF CallsInv
<1>2. /\ IsHistory(history')
      /\ \A E, B : Tally(history', E, B) = Tally(history, E, B) + Bit(e \in E /\ by \in B)
  BY <1>1, Remembered
<1>3. PICK q, k, x, y, z, t :
        /\ q = Tally(history, Errs, Users) /\ k = Tally(history, Known, Users)
        /\ x = Tally(history, Bad, {"direct", "dial"})
        /\ y = Tally(history, Bad, {"wrapper"})
        /\ z = Tally(history, {"ErrMissingSigner"}, {"wrapper"})
        /\ t = Tally(history, {"context"}, {"wait"})
  OBVIOUS
<1>4. q \in Nat /\ k \in Nat /\ x \in Nat /\ y \in Nat /\ z \in Nat /\ t \in Nat
  BY <1>1, <1>3, TallyType
<1>5. shown.requests \in Nat /\ shown.errors \in Nat /\ blamed \in Nat
  BY ShownType DEF CallsInv
<1>6. RequestTally'
  <2>1. Tally(history', Errs, Users) = q + Bit(by \in Users)
    BY <1>2, <1>3 DEF Bit
  <2>2. shown.requests <= q + Cardinality(RequestSet)
    BY <1>3 DEF CallsInv, RequestTally
  <2>3. Bit(by \in Users) \in {0, 1}
    BY DEF Bit
  <2>4. shown'.requests <= Tally(history', Errs, Users) + Cardinality(RequestSet')
    BY <1>4, <1>5, <2>1, <2>2, <2>3
  <2> QED BY <2>4 DEF RequestTally
<1>7. ErrorTally'
  <2>1. Tally(history', Known, Users) = k + Bit(by \in Users /\ e \in Known)
    BY <1>2, <1>3 DEF Bit
  <2>2. shown.errors = k + Cardinality(ErrorSet)
    BY <1>3 DEF CallsInv, ErrorTally
  <2>3. Bit(by \in Users /\ e \in Known) \in {0, 1}
    BY DEF Bit
  <2>4. shown'.errors = Tally(history', Known, Users) + Cardinality(ErrorSet')
    BY <1>4, <1>5, <2>1, <2>2, <2>3
  <2> QED BY <2>4 DEF ErrorTally
<1>8. BlameTally' /\ blamed' \in Nat
  <2>1. PICK i, j, l, m : /\ i = Bit(e \in Bad /\ by \in {"direct", "dial"})
                       /\ j = Bit(e \in Bad /\ by \in {"wrapper"})
                       /\ l = Bit(e \in {"ErrMissingSigner"} /\ by \in {"wrapper"})
                       /\ m = Bit(e \in {"context"} /\ by \in {"wait"})
    OBVIOUS
  <2>2. /\ Tally(history', Bad, {"direct", "dial"}) = x + i
        /\ Tally(history', Bad, {"wrapper"}) = y + j
        /\ Tally(history', {"ErrMissingSigner"}, {"wrapper"}) = z + l
        /\ Tally(history', {"context"}, {"wait"}) = t + m
    BY <1>2, <1>3, <2>1
  <2>3. "ErrMissingSigner" \notin Bad
    BY DEF Bad
  <2>4. PICK b : b = Bit(by \in operations /\ e \in Bad)
    OBVIOUS
  <2>5. /\ i \in {0, 1} /\ j \in {0, 1} /\ l \in {0, 1} /\ m \in {0, 1} /\ b \in {0, 1}
        /\ b = i + j /\ counts = j + l + m
    BY <2>1, <2>3, <2>4 DEF Bit, operations, Counts
  <2>6. blamed = x + 2 * y + z + t + Cardinality(BlamedSet)
    BY <1>3 DEF CallsInv, BlameTally
  <2>7. blamed' = (x + i) + 2 * (y + j) + (z + l) + (t + m) + Cardinality(BlamedSet')
    <3>1. PICK v, w : v = Cardinality(BlamedSet) /\ w = Cardinality(BlamedSet')
      OBVIOUS
    <3>2. v \in Nat /\ w = v - b
      BY <2>4, <3>1
    <3>3. w \in Int
      BY <2>5, <3>2
    <3>4. blamed' = x + 2 * y + z + t + v + (j + l + m)
      BY <2>5, <2>6, <3>1
    <3>5. x + 2 * y + z + t + v + (j + l + m) = (x + i) + 2 * (y + j) + (z + l) + (t + m) + w
      BY <1>4, <2>5, <3>2
    <3> QED BY <3>1, <3>4, <3>5
  <2>8. blamed' \in Nat
    BY <1>5, <2>5
  <2> QED BY <2>2, <2>7, <2>8 DEF BlameTally
<1> QED BY <1>2, <1>6, <1>7, <1>8

LEMMA DialRefusedStep ==
  ASSUME CallsInv, NEW c \in Callers, DialRefused(c)
  PROVE  CallsInv'
<1>1. /\ Remember("input", "arguments") /\ stage[c] = "idle"
      /\ UNCHANGED <<stage, call, awaits, reply, err, told, nodeKey, monitors, at, blamed>>
  BY DEF DialRefused
<1>2. "input" \in Errs
  BY DEF Errs, Refusals
<1>3. \A d \in Callers \ {c} : Same(d)
  BY <1>1 DEF Same
<1>4. /\ InRequests(c)' <=> InRequests(c)
      /\ InErrors(c)' <=> InErrors(c)
      /\ InBlamed(c)' <=> InBlamed(c)
  BY <1>1 DEF InRequests, InErrors, InBlamed
<1>5. /\ Bit(InRequests(c)') = Bit(InRequests(c)) /\ Bit(InRequests(c)) \in {0, 1}
      /\ Bit(InErrors(c)') = Bit(InErrors(c)) /\ Bit(InErrors(c)) \in {0, 1}
      /\ Bit(InBlamed(c)') = Bit(InBlamed(c)) /\ Bit(InBlamed(c)) \in {0, 1}
  BY <1>4 DEF Bit
<1>6. /\ Cardinality(RequestSet') = Cardinality(RequestSet) /\ Cardinality(RequestSet) \in Nat
      /\ Cardinality(ErrorSet') = Cardinality(ErrorSet) /\ Cardinality(ErrorSet) \in Nat
      /\ Cardinality(BlamedSet') = Cardinality(BlamedSet) /\ Cardinality(BlamedSet) \in Nat
  BY <1>3, <1>5, SetsMove
<1>7. PICK by, e : by = "arguments" /\ e = "input"
  OBVIOUS
<1>8. Bit(by \in Users) = 0 /\ Bit(by \in Users /\ e \in Known) = 0
      /\ Bit(by \in operations /\ e \in Bad) = 0
  BY <1>7 DEF Bit, Users, operations
<1>9. shown' = shown /\ blamed' = blamed + 0
  BY <1>1 DEF shown, CallsInv
<1>10. /\ Cardinality(RequestSet') = Cardinality(RequestSet) - Bit(by \in Users)
       /\ Cardinality(ErrorSet') = Cardinality(ErrorSet) - Bit(by \in Users /\ e \in Known)
       /\ Cardinality(BlamedSet') = Cardinality(BlamedSet) - Bit(by \in operations /\ e \in Bad)
  BY <1>6, <1>8
<1>11. Remember(e, by) /\ by \in Accounts
  BY <1>1, <1>7 DEF Accounts
<1>12. PICK counts : counts = Counts(by, e)
  OBVIOUS
<1>13. counts = 0
  BY <1>7, <1>12 DEF Counts, Bit
<1>14. RequestTally' /\ ErrorTally' /\ BlameTally' /\ IsHistory(history)' /\ blamed' \in Nat
  BY <1>2, <1>6, <1>7, <1>9, <1>10, <1>11, <1>12, <1>13, Sums
<1>15. Functions' /\ nodeKey' \in BOOLEAN /\ IsMonitors' /\ DialAlone'
  BY <1>1 DEF CallsInv, Functions, IsMonitors, DialAlone
<1>16. \A d \in Callers : CallerOK(d)'
  BY <1>1, OthersOK DEF CallsInv, Same
<1> QED BY <1>14, <1>15, <1>16 DEF CallsInv

\* Only a method of the wrapper goes on to wait.
LEMMA AwaitsNextIs ==
  ASSUME NEW c \in Callers, CallerOK(c), stage[c] = "blame", NEW a \in awaitsNext(c)
  PROVE  a \in Waits \cup {"none"} /\ (a # "none" => call[c].by = "wrapper")
<1>1. /\ call[c].op # "none" => call[c].by = "wrapper"
      /\ awaits[c] # "none" => call[c].by = "wrapper"
      /\ awaits[c] \in Waits \cup {"none"}
  BY DEF CallerOK, CallerStages, CallerTypes, Returning
<1>2. CASE call[c].op \in DOMAIN waits
  BY <1>1, <1>2, WaitsAre DEF awaitsNext
<1>3. CASE call[c].op \notin DOMAIN waits /\ awaits[c] = "none"
  BY <1>3 DEF awaitsNext
<1>4. CASE call[c].op \notin DOMAIN waits /\ awaits[c] # "none"
  <2>1. \E done \in met(awaits[c], err[c]) : a = IF done THEN "none" ELSE awaits[c]
    BY <1>4 DEF awaitsNext
  <2>2. a \in {"none", awaits[c]}
    BY <2>1
  <2> QED BY <1>1, <1>4, <2>2
<1> QED BY <1>2, <1>3, <1>4

LEMMA LeaveStep ==
  ASSUME CallsInv, NEW c \in Callers, Leave(c)
  PROVE  CallsInv'
<1>27. PICK a \in awaitsNext(c) :
         /\ awaits' = [awaits EXCEPT ![c] = a]
         /\ stage' = [stage EXCEPT ![c] = IF a = "none" THEN "idle" ELSE "wait"]
         /\ call' = [call EXCEPT ![c] = IF a = "none" THEN NoCall ELSE Waiting]
  BY DEF Leave, Goto
<1>28. PICK s, k : /\ s = IF a = "none" THEN "idle" ELSE "wait"
                   /\ k = IF a = "none" THEN NoCall ELSE Waiting
  OBVIOUS
<1>1. /\ stage[c] = "blame" /\ stage' = [stage EXCEPT ![c] = s]
      /\ awaits' = [awaits EXCEPT ![c] = a]
      /\ blamed' = blamed + IF call[c].by = "wrapper" /\ counted(err[c]) THEN 1 ELSE 0
      /\ nodeKey' = (nodeKey \/ (call[c].by = "dial" /\ err[c] = "nil"))
      /\ Remember(err[c], call[c].by)
      /\ call' = [call EXCEPT ![c] = k] /\ reply' = [reply EXCEPT ![c] = NoReply]
      /\ err' = [err EXCEPT ![c] = "nil"] /\ at' = [at EXCEPT ![c] = 0]
      /\ told' = [told EXCEPT ![c] = FALSE] /\ monitors' = monitors
  BY <1>27, <1>28 DEF Leave
<1>2. CallerOK(c) /\ Functions /\ IsMonitors /\ DialAlone /\ nodeKey \in BOOLEAN /\ blamed \in Nat
  BY DEF CallsInv
<1>3. call[c].by \in {"dial", "direct", "wrapper"} /\ (call[c].by = "dial" <=> ~nodeKey)
  BY <1>1, Caller
<1>4. /\ err[c] \in Errs /\ (at[c] = 1 <=> call[c].by \in Users)
      /\ call[c].by = "wrapper" => err[c] # "panic"
  BY <1>1, <1>2 DEF CallerOK, CallerTypes, CallerStages, Users
<1>5. /\ stage' = [d \in Callers |-> stage'[d]] /\ stage'[c] = s
      /\ \A d \in Callers \ {c} : stage'[d] = stage[d]
  BY <1>1, <1>2, Updated DEF Functions
<1>6. /\ call' = [d \in Callers |-> call'[d]] /\ call'[c] = k
      /\ \A d \in Callers \ {c} : call'[d] = call[d]
  BY <1>1, <1>2, Updated DEF Functions
<1>7. /\ reply' = [d \in Callers |-> reply'[d]] /\ reply'[c] = NoReply
      /\ \A d \in Callers \ {c} : reply'[d] = reply[d]
  BY <1>1, <1>2, Updated DEF Functions
<1>8. /\ err' = [d \in Callers |-> err'[d]] /\ err'[c] = "nil"
      /\ \A d \in Callers \ {c} : err'[d] = err[d]
  BY <1>1, <1>2, Updated DEF Functions
<1>9. /\ at' = [d \in Callers |-> at'[d]] /\ at'[c] = 0
      /\ \A d \in Callers \ {c} : at'[d] = at[d]
  BY <1>1, <1>2, Updated DEF Functions
<1>10. /\ told' = [d \in Callers |-> told'[d]] /\ told'[c] = FALSE
       /\ \A d \in Callers \ {c} : told'[d] = told[d]
  BY <1>1, <1>2, Updated DEF Functions
<1>29. /\ awaits' = [d \in Callers |-> awaits'[d]] /\ awaits'[c] = a
       /\ \A d \in Callers \ {c} : awaits'[d] = awaits[d]
  BY <1>1, <1>2, Updated DEF Functions
<1>11. Functions'
  BY <1>5, <1>6, <1>7, <1>8, <1>9, <1>10, <1>29 DEF Functions
<1>12. \A d \in Callers \ {c} : Same(d)
  BY <1>5, <1>6, <1>7, <1>8, <1>9, <1>10, <1>29 DEF Same
<1>30. a \in Waits \cup {"none"} /\ (a # "none" => call[c].by = "wrapper")
  BY <1>1, <1>2, AwaitsNextIs
<1>13. k \in CallRecords /\ k.by = IF a = "none" THEN "none" ELSE "wrapper"
  BY <1>28, CallRecordType DEF NoCall, Waiting
<1>14. CallerOK(c)'
  <2>1. NoReply \in Replies /\ "nil" \in Errs
    BY DEF NoReply, Replies, Errs
  <2>2. CallerTypes(c)'
    BY <1>5, <1>6, <1>7, <1>8, <1>9, <1>10, <1>13, <1>28, <1>29, <1>30, <2>1
       DEF CallerTypes, Stages
  <2>3. CallerStages(c)'
    <3>1. a # "none" => nodeKey'
      BY <1>1, <1>2, <1>30 DEF CallerOK, CallerStages
    <3> QED BY <1>5, <1>6, <1>7, <1>8, <1>9, <1>13, <1>28, <1>29, <3>1 DEF CallerStages, Returning
  <2>4. CallerVerified(c)'
    BY <1>5, <1>28 DEF CallerVerified, Returning
  <2> QED BY <2>2, <2>3, <2>4 DEF CallerOK
<1>15. \A d \in Callers : CallerOK(d)'
  <2> SUFFICES ASSUME NEW d \in Callers \ {c} PROVE CallerOK(d)'
    BY <1>14
  <2>1. nodeKey' = nodeKey \/ stage[d] = "idle"
    <3>1. CASE nodeKey
      BY <1>1, <3>1
    <3>2. CASE ~nodeKey
      BY <1>1, <1>2, <3>2 DEF DialAlone
    <3> QED BY <3>1, <3>2
  <2> QED BY <1>1, <1>12, <2>1, OthersOK DEF CallsInv
<1>16. DialAlone'
  <2>1. ~nodeKey' => ~nodeKey
    BY <1>1, <1>2
  <2>2. a # "none" => nodeKey'
    BY <1>1, <1>2, <1>30 DEF CallerOK, CallerStages
  <2> QED BY <1>2, <1>5, <1>28, <2>1, <2>2 DEF DialAlone
<1>17. PICK e, by : e = err[c] /\ by = call[c].by
  OBVIOUS
<1>18. /\ ~InRequests(c)' /\ ~InErrors(c)' /\ ~InBlamed(c)'
       /\ InRequests(c) <=> by \in Users
       /\ InErrors(c) <=> by \in Users /\ e \in Known
       /\ InBlamed(c) <=> by \in operations /\ e \in Bad
  BY <1>1, <1>3, <1>4, <1>5, <1>17, <1>28 DEF InRequests, InErrors, InBlamed, operations
<1>19. /\ Bit(InRequests(c)') = 0 /\ Bit(InErrors(c)') = 0 /\ Bit(InBlamed(c)') = 0
       /\ Bit(InRequests(c)) = Bit(by \in Users)
       /\ Bit(InErrors(c)) = Bit(by \in Users /\ e \in Known)
       /\ Bit(InBlamed(c)) = Bit(by \in operations /\ e \in Bad)
       /\ Bit(InRequests(c)) \in {0, 1} /\ Bit(InErrors(c)) \in {0, 1} /\ Bit(InBlamed(c)) \in {0, 1}
  BY <1>18 DEF Bit
<1>20. /\ Cardinality(RequestSet) \in Nat /\ Cardinality(ErrorSet) \in Nat
       /\ Cardinality(BlamedSet) \in Nat
       /\ Cardinality(RequestSet') = Cardinality(RequestSet) - Bit(by \in Users)
       /\ Cardinality(ErrorSet') = Cardinality(ErrorSet) - Bit(by \in Users /\ e \in Known)
       /\ Cardinality(BlamedSet') = Cardinality(BlamedSet) - Bit(by \in operations /\ e \in Bad)
  BY <1>12, <1>19, SetsMove
<1>21. PICK counts : counts = Counts(by, e)
  OBVIOUS
<1>22. blamed' = blamed + counts
  <2>1. blamed' = blamed + IF by = "wrapper" /\ counted(e) THEN 1 ELSE 0
    BY <1>1, <1>17
  <2>2. by = "wrapper" => (counted(e) <=> e \in Bad \cup {"ErrMissingSigner"})
    BY <1>4, <1>17, Reported
  <2>3. by # "wait"
    BY <1>3, <1>17
  <2> QED BY <1>21, <2>1, <2>2, <2>3 DEF Counts, Bit
<1>23. Remember(e, by) /\ e \in Errs /\ by \in Accounts
  BY <1>1, <1>3, <1>4, <1>17 DEF Accounts
<1>24. shown' = shown /\ (by = "wrapper" => e # "panic")
  BY <1>1, <1>4, <1>17 DEF shown
<1>25. RequestTally' /\ ErrorTally' /\ BlameTally' /\ IsHistory(history)' /\ blamed' \in Nat
  BY <1>20, <1>21, <1>22, <1>23, <1>24, Sums
<1>26. nodeKey' \in BOOLEAN /\ IsMonitors'
  BY <1>1, <1>2 DEF IsMonitors
<1> QED BY <1>11, <1>15, <1>16, <1>25, <1>26 DEF CallsInv

LEMMA PollStep ==
  ASSUME CallsInv, NEW c \in Callers, Poll(c)
  PROVE  CallsInv'
<1>1. CallerOK(c) /\ stage[c] = "wait"
  BY DEF CallsInv, Poll
<1>2. awaits[c] \in Waits /\ call[c].by = "wrapper" /\ nodeKey
  BY <1>1 DEF CallerOK, CallerStages, CallerTypes
<1>3. PICK m \in Methods : m = waits[awaits[c]]
  BY <1>2, WaitsAre
<1>4. Sent(c, m, "wrapper") /\ UNCHANGED <<awaits, reply, told, nodeKey, monitors, at, blamed, history>>
  BY <1>3 DEF Poll
<1> QED BY <1>1, <1>2, <1>4, SentStep

LEMMA WaitEndsStep ==
  ASSUME CallsInv, NEW c \in Callers, WaitEnds(c)
  PROVE  CallsInv'
<1>1. PICK by : by = IF awaits[c] \in countedWaits THEN "wait" ELSE "removal"
  OBVIOUS
<1>2. PICK e : e = "context"
  OBVIOUS
<1>3. /\ stage[c] = "wait" /\ stage' = [stage EXCEPT ![c] = "idle"]
      /\ Remember(e, by)
      /\ awaits' = [awaits EXCEPT ![c] = "none"] /\ call' = [call EXCEPT ![c] = NoCall]
      /\ UNCHANGED <<reply, err, told, nodeKey, monitors, at>>
  BY <1>1, <1>2 DEF WaitEnds, Goto
<1>4. CallerOK(c) /\ Functions /\ IsMonitors /\ DialAlone /\ nodeKey \in BOOLEAN /\ blamed \in Nat
  BY DEF CallsInv
<1>5. e \in Errs /\ by \in Accounts /\ by \notin Users /\ by \notin operations /\ by # "wrapper"
  BY <1>1, <1>2 DEF Errs, Failures, Accounts, Users, operations
<1>6. counted("context")
  BY <1>2, <1>5, CountedIs
<1>7. PICK counts : counts = Counts(by, e)
  OBVIOUS
<1>8. blamed' = blamed + counts
  BY <1>1, <1>2, <1>6, <1>7 DEF WaitEnds, Counts, Bit
<1>9. /\ stage' = [d \in Callers |-> stage'[d]] /\ stage'[c] = "idle"
      /\ \A d \in Callers \ {c} : stage'[d] = stage[d]
  BY <1>3, <1>4, Updated DEF Functions
<1>10. /\ call' = [d \in Callers |-> call'[d]] /\ call'[c] = NoCall
       /\ \A d \in Callers \ {c} : call'[d] = call[d]
  BY <1>3, <1>4, Updated DEF Functions
<1>11. /\ awaits' = [d \in Callers |-> awaits'[d]] /\ awaits'[c] = "none"
       /\ \A d \in Callers \ {c} : awaits'[d] = awaits[d]
  BY <1>3, <1>4, Updated DEF Functions
<1>12. Functions' /\ \A d \in Callers \ {c} : Same(d)
  BY <1>3, <1>4, <1>9, <1>10, <1>11 DEF Functions, Same
<1>13. NoCall \in CallRecords /\ NoCall.by = "none"
  BY CallRecordType DEF NoCall
<1>14. CallerOK(c)'
  <2>1. CallerTypes(c)'
    BY <1>3, <1>4, <1>9, <1>10, <1>11, <1>13 DEF CallerOK, CallerTypes, Stages
  <2>2. reply[c] = NoReply /\ err[c] = "nil" /\ at[c] = 0
    BY <1>3, <1>4 DEF CallerOK, CallerStages
  <2>3. CallerStages(c)'
    BY <1>3, <1>9, <1>10, <1>11, <1>13, <2>2 DEF CallerStages, Returning
  <2>4. CallerVerified(c)'
    BY <1>9 DEF CallerVerified, Returning
  <2> QED BY <2>1, <2>3, <2>4 DEF CallerOK
<1>15. \A d \in Callers : CallerOK(d)'
  <2> SUFFICES ASSUME NEW d \in Callers \ {c} PROVE CallerOK(d)'
    BY <1>14
  <2> QED BY <1>3, <1>12, OthersOK DEF CallsInv
<1>16. DialAlone'
  BY <1>3, <1>4, <1>12, AloneKept
<1>17. /\ ~InRequests(c)' /\ ~InErrors(c)' /\ ~InBlamed(c)'
       /\ ~InRequests(c) /\ ~InErrors(c) /\ ~InBlamed(c)
  BY <1>3, <1>9 DEF InRequests, InErrors, InBlamed
<1>18. /\ Bit(InRequests(c)') = 0 /\ Bit(InErrors(c)') = 0 /\ Bit(InBlamed(c)') = 0
       /\ Bit(InRequests(c)) = 0 /\ Bit(InErrors(c)) = 0 /\ Bit(InBlamed(c)) = 0
       /\ Bit(by \in Users) = 0 /\ Bit(by \in Users /\ e \in Known) = 0
       /\ Bit(by \in operations /\ e \in Bad) = 0
  BY <1>5, <1>17 DEF Bit
<1>19. /\ Cardinality(RequestSet) \in Nat /\ Cardinality(ErrorSet) \in Nat
       /\ Cardinality(BlamedSet) \in Nat
       /\ Cardinality(RequestSet') = Cardinality(RequestSet) - Bit(by \in Users)
       /\ Cardinality(ErrorSet') = Cardinality(ErrorSet) - Bit(by \in Users /\ e \in Known)
       /\ Cardinality(BlamedSet') = Cardinality(BlamedSet) - Bit(by \in operations /\ e \in Bad)
  BY <1>12, <1>18, SetsMove
<1>20. shown' = shown
  BY <1>3 DEF shown
<1>21. RequestTally' /\ ErrorTally' /\ BlameTally' /\ IsHistory(history)' /\ blamed' \in Nat
  BY <1>3, <1>5, <1>7, <1>8, <1>19, <1>20, Sums
<1>22. nodeKey' \in BOOLEAN /\ IsMonitors'
  BY <1>3, <1>4 DEF IsMonitors
<1> QED BY <1>12, <1>15, <1>16, <1>21, <1>22 DEF CallsInv

LEMMA CallsInvInit == CallsInit => CallsInv
<1> SUFFICES ASSUME CallsInit PROVE CallsInv
  OBVIOUS
<1>1. Functions
  BY DEF CallsInit, Functions
<1>2. ASSUME NEW c \in Callers PROVE CallerOK(c)
  <2>1. /\ stage[c] = "idle" /\ call[c] = NoCall /\ reply[c] = NoReply /\ err[c] = "nil"
        /\ told[c] = FALSE /\ at[c] = 0 /\ awaits[c] = "none"
    BY DEF CallsInit
  <2>2. NoCall \in CallRecords /\ NoCall.by = "none"
    BY CallRecordType DEF NoCall
  <2>3. NoReply \in Replies /\ "nil" \in Errs
    BY DEF NoReply, Replies, Errs
  <2>4. CallerTypes(c)
    BY <2>1, <2>2, <2>3 DEF CallerTypes, Stages
  <2>5. CallerStages(c)
    BY <2>1, <2>2 DEF CallerStages, Returning
  <2>6. CallerVerified(c)
    BY <2>1 DEF CallerVerified, Returning
  <2> QED BY <2>4, <2>5, <2>6 DEF CallerOK
<1>3. DialAlone
  BY DEF CallsInit, DialAlone
<1>4. monitors = <<>> /\ blamed = 0 /\ history = {} /\ nodeKey = FALSE
  BY DEF CallsInit
<1>5. IsMonitors
  BY <1>4 DEF IsMonitors
<1>6. IsHistory(history)
  BY <1>4, FS_EmptySet DEF IsHistory
<1>7. \A E, B : Tally(history, E, B) = 0
  <2>1. \A E, B : {h \in history : h.err \in E /\ h.by \in B} = {}
    BY <1>4
  <2>2. Cardinality({}) = 0
    BY FS_EmptySet
  <2> QED BY <2>1, <2>2 DEF Tally
<1>8. RequestSet = {} /\ ErrorSet = {} /\ BlamedSet = {}
  BY DEF CallsInit, RequestSet, ErrorSet, BlamedSet, InRequests, InErrors, InBlamed
<1>9. Cardinality({}) = 0
  BY FS_EmptySet
<1>10. shown.requests = 0 /\ shown.errors = 0
  BY <1>4 DEF shown
<1>11. RequestTally /\ ErrorTally /\ BlameTally
  BY <1>4, <1>7, <1>8, <1>9, <1>10 DEF RequestTally, ErrorTally, BlameTally
<1> QED BY <1>1, <1>2, <1>3, <1>4, <1>5, <1>6, <1>11 DEF CallsInv

LEMMA CallsInvStep ==
  ASSUME CallsInv, [CallsNext]_callVars
  PROVE  CallsInv'
<1>1. CASE UNCHANGED callVars
  <2>1. \A d \in Callers : Same(d)
    BY <1>1 DEF callVars, Same
  <2>2. \A d \in Callers : CallerOK(d)'
    BY <1>1, <2>1, OthersOK DEF callVars, CallsInv
  <2>3. RequestSet' = RequestSet /\ ErrorSet' = ErrorSet /\ BlamedSet' = BlamedSet
    BY <1>1 DEF callVars, RequestSet, ErrorSet, BlamedSet, InRequests, InErrors, InBlamed
  <2>4. RequestTally' /\ ErrorTally' /\ BlameTally'
    BY <1>1, <2>3 DEF callVars, CallsInv, RequestTally, ErrorTally, BlameTally, shown
  <2>5. Functions' /\ IsMonitors' /\ DialAlone'
    BY <1>1 DEF callVars, CallsInv, Functions, IsMonitors, DialAlone
  <2> QED BY <1>1, <2>2, <2>4, <2>5 DEF callVars, CallsInv
<1>2. CASE CallsNext
  <2>1. PICK c \in Callers :
          \/ DialRefused(c) \/ Dial(c)
          \/ \E m \in Methods, args \in Args, by \in {"direct", "wrapper"} : Begin(c, m, args, by)
          \/ TransportFails(c) \/ RunCallback(c)
          \/ \E verifies \in BOOLEAN, st \in ReplyStatuses,
                fields \in UNION {[1..n -> Fields] : n \in 0..2} :
               ReadResponse(c, verifies, st, fields)
          \/ Locate(c) \/ (\E d \in 0..1 : Count(c, d)) \/ Leave(c)
          \/ Poll(c) \/ WaitEnds(c)
    BY <1>2 DEF CallsNext, Fields
  <2> QED BY <2>1, DialRefusedStep, DialStep, BeginStep, TransportStep, CallbackStep, ReadStep,
             LocateStep, CountStep, LeaveStep, PollStep, WaitEndsStep
<1> QED BY <1>1, <1>2

LEMMA CallsInvariant == CallsSpec => []CallsInv
<1>1. CallsInv /\ [CallsNext]_callVars => CallsInv'
  BY CallsInvStep
<1> QED BY <1>1, CallsInvInit, PTL DEF CallsSpec

\* Whatever the callers do at once, nothing of an answer that was not verified
\* is returned, and a result only with status OK and all its fields.
THEOREM VerifiedCorrect == CallsSpec => []OnlyVerifiedReturned
<1>1. CallsInv => OnlyVerifiedReturned
  BY DEF CallsInv, CallerOK, CallerVerified, OnlyVerifiedReturned
<1> QED BY <1>1, CallsInvariant, PTL

\* The errors of the past, without the ones that are named.
LEMMA PastIs ==
  ASSUME IsHistory(history), NEW X, NEW B
  PROVE  /\ past(Errors \ X, B) = Tally(history, Errs \ ({"nil"} \cup X), B)
         /\ past(Errors \cup {"nil"}, B) = Tally(history, Errs, B)
<1>1. \A h \in history : h.err \in Errs
  BY DEF IsHistory, Entries
<1>2. {h \in history : h.err \in Errors \ X /\ h.by \in B}
        = {h \in history : h.err \in Errs \ ({"nil"} \cup X) /\ h.by \in B}
  BY <1>1 DEF Errors
<1>3. {h \in history : h.err \in Errors \cup {"nil"} /\ h.by \in B}
        = {h \in history : h.err \in Errs /\ h.by \in B}
  BY <1>1 DEF Errors, Errs
<1> QED BY <1>2, <1>3 DEF past, Tally

LEMMA AtRest ==
  ASSUME CallsInv, Idle
  PROVE  /\ Cardinality(RequestSet) = 0 /\ Cardinality(ErrorSet) = 0
         /\ Cardinality(BlamedSet) = 0
<1>1. RequestSet = {} /\ ErrorSet = {} /\ BlamedSet = {}
  BY DEF Idle, RequestSet, ErrorSet, BlamedSet, InRequests, InErrors, InBlamed
<1> QED BY <1>1, FS_EmptySet

\* With any callers and any number of calls the statistics of the node show every
\* failed call once, but for the calls that failed for want of a signer.
THEOREM StatisticsCorrect == CallsSpec => []StatisticsAddUp
<1>1. ASSUME CallsInv PROVE StatisticsAddUp
  <2> SUFFICES ASSUME Idle, monitors # <<>>
               PROVE  LET m == monitors[Len(monitors)] IN
                      /\ m.errors = past(Errors \ {"ErrMissingSigner", "panic"}, Users)
                      /\ m.requests <= past(Errors \cup {"nil"}, Users)
    BY DEF StatisticsAddUp, Users
  <2>1. IsMonitors /\ IsHistory(history) /\ RequestTally /\ ErrorTally
    BY <1>1 DEF CallsInv
  <2>2. Len(monitors) = 1
    BY <2>1, OneItem DEF IsMonitors
  <2>3. shown = monitors[Len(monitors)]
    BY <2>2 DEF shown
  <2>4. Known = Errs \ ({"nil"} \cup {"ErrMissingSigner", "panic"})
    BY DEF Known
  <2>5. past(Errors \ {"ErrMissingSigner", "panic"}, Users) = Tally(history, Known, Users)
    BY <2>1, <2>4, PastIs
  <2>6. past(Errors \cup {"nil"}, Users) = Tally(history, Errs, Users)
    BY <2>1, PastIs
  <2>7. /\ Cardinality(RequestSet) = 0 /\ Cardinality(ErrorSet) = 0
        /\ shown.requests \in Nat /\ shown.errors \in Nat
        /\ Tally(history, Known, Users) \in Nat /\ Tally(history, Errs, Users) \in Nat
    BY <1>1, <2>1, AtRest, ShownType, TallyType
  <2>8. /\ shown.errors = Tally(history, Known, Users)
        /\ shown.requests <= Tally(history, Errs, Users)
    BY <2>1, <2>7 DEF RequestTally, ErrorTally
  <2> QED BY <2>3, <2>5, <2>6, <2>8
<1> QED BY <1>1, CallsInvariant, PTL

\* One of the past calls is among those that were tallied.
LEMMA TallyPart ==
  ASSUME IsHistory(history), NEW E, NEW F, NEW B, NEW C, E \subseteq F, B \subseteq C
  PROVE  Tally(history, E, B) <= Tally(history, F, C)
<1> DEFINE S == {h \in history : h.err \in E /\ h.by \in B}
           T == {h \in history : h.err \in F /\ h.by \in C}
<1>1. IsFiniteSet(T) /\ S \subseteq T
  BY FS_Subset DEF IsHistory
<1> HIDE DEF S, T
<1>2. Cardinality(S) <= Cardinality(T)
  BY <1>1, FS_Subset
<1> QED BY <1>2 DEF Tally, S, T

LEMMA TallyZero ==
  ASSUME NEW E, NEW B, \A h \in history : h.err \notin E
  PROVE  Tally(history, E, B) = 0
<1>1. {h \in history : h.err \in E /\ h.by \in B} = {}
  OBVIOUS
<1> QED BY <1>1, FS_EmptySet DEF Tally

\* Calls of the wrapper and all others.
LEMMA TallySplit ==
  ASSUME IsHistory(history), NEW E
  PROVE  Tally(history, E, operations)
           = Tally(history, E, {"direct", "dial"}) + Tally(history, E, {"wrapper"})
<1>1. PICK S, T, U : /\ S = {h \in history : h.err \in E /\ h.by \in operations}
                     /\ T = {h \in history : h.err \in E /\ h.by \in {"direct", "dial"}}
                     /\ U = {h \in history : h.err \in E /\ h.by \in {"wrapper"}}
  OBVIOUS
<1>2. IsFiniteSet(T) /\ IsFiniteSet(U)
  BY <1>1, FS_Subset DEF IsHistory
<1>3. S = T \cup U /\ T \cap U = {}
  BY <1>1 DEF operations
<1>4. Cardinality(T \cup U) = Cardinality(T) + Cardinality(U) - Cardinality({})
  BY <1>2, <1>3, FS_Union
<1>5. Cardinality({}) = 0 /\ Cardinality(T) \in Nat /\ Cardinality(U) \in Nat
  BY <1>2, FS_EmptySet, FS_CardinalityType
<1>6. Cardinality(S) = Cardinality(T) + Cardinality(U)
  BY <1>3, <1>4, <1>5
<1> QED BY <1>1, <1>6 DEF Tally

\* With any callers, any number of calls and any waits, an error on the connection
\* is on the account of the node, and nothing is as long as all that failed, failed
\* with a status that tells of the request.
THEOREM BlameCorrect == CallsSpec => []NodeBlamed
<1>1. ASSUME CallsInv PROVE NodeBlamed
  <2> SUFFICES ASSUME Idle
               PROVE  /\ past(connectionErrors, operations) <= blamed
                      /\ (\A h \in history : h.err \in requestErrors) => blamed = 0
    BY DEF NodeBlamed
  <2>1. IsHistory(history) /\ BlameTally /\ blamed \in Nat
    BY <1>1 DEF CallsInv
  <2>2. PICK x, y, z, t : /\ x = Tally(history, Bad, {"direct", "dial"})
                          /\ y = Tally(history, Bad, {"wrapper"})
                          /\ z = Tally(history, {"ErrMissingSigner"}, {"wrapper"})
                          /\ t = Tally(history, {"context"}, {"wait"})
    OBVIOUS
  <2>3. /\ x \in Nat /\ y \in Nat /\ z \in Nat /\ t \in Nat
        /\ blamed = x + 2 * y + z + t
    <3>1. Cardinality(BlamedSet) = 0
      BY <1>1, AtRest
    <3>2. x \in Nat /\ y \in Nat /\ z \in Nat /\ t \in Nat
      BY <2>1, <2>2, TallyType
    <3> QED BY <2>1, <2>2, <3>1, <3>2 DEF BlameTally
  <2>4. /\ Types \cap Errs = {"ServerInternal", "ContainerNotFound"}
        /\ "ServerInternal" \in DOMAIN commonCodes /\ "ContainerNotFound" \notin DOMAIN commonCodes
        /\ DOMAIN commonCodes \subseteq Types
    BY TypesAre DEF CommonTypes, ObjectTypes, OtherTypes, Errs, Refusals, Failures, Remote, Fields
  <2>5. past(connectionErrors, operations) <= blamed
    <3>1. past(connectionErrors, operations) = Tally(history, connectionErrors \cap Errs, operations)
      <4>1. \A h \in history : h.err \in Errs
        BY <2>1 DEF IsHistory, Entries
      <4>2. {h \in history : h.err \in connectionErrors /\ h.by \in operations}
              = {h \in history : h.err \in connectionErrors \cap Errs /\ h.by \in operations}
        BY <4>1
      <4> QED BY <4>2 DEF past, Tally
    <3>2. connectionErrors \cap Errs \subseteq Bad
      BY <2>4 DEF connectionErrors, Bad, Errs
    <3>3. PICK C : C = connectionErrors \cap Errs
      OBVIOUS
    <3>4. Tally(history, C, operations) <= Tally(history, Bad, operations)
      BY <2>1, <3>2, <3>3, TallyPart
    <3>5. Tally(history, Bad, operations) = x + y
      BY <2>1, <2>2, TallySplit
    <3>6. Tally(history, C, operations) \in Nat
      BY <2>1, TallyType
    <3> QED BY <2>3, <3>1, <3>3, <3>4, <3>5, <3>6
  <2>6. ASSUME \A h \in history : h.err \in requestErrors PROVE blamed = 0
    <3>1. \A h \in history : h.err \in requestErrors \cap Errs
      BY <2>1, <2>6 DEF IsHistory, Entries
    <3>2. requestErrors \cap Errs \subseteq {"nil", "split", "panic", "ContainerNotFound"}
      BY <2>4 DEF requestErrors
    <3>3. \A h \in history : h.err \in {"nil", "split", "panic", "ContainerNotFound"}
      BY <3>1, <3>2
    <3>4. \A h \in history : h.err \notin Bad /\ h.err \notin {"ErrMissingSigner"} /\ h.err \notin {"context"}
      BY <3>3 DEF Bad
    <3>5. x = 0 /\ y = 0 /\ z = 0 /\ t = 0
      BY <2>2, <3>4, TallyZero
    <3> QED BY <2>3, <3>5
  <2> QED BY <2>5, <2>6
<1> QED BY <1>1, CallsInvariant, PTL

-----------------------------------------------------------------------------
(* ObjectWriter *)


\* Where the writer is, what it has sent and what the server has read.
Progress ==
  /\ pc \in {"init", "header"} =>
       inbox = <<>> /\ accepted = 0 /\ objectPart = "init"
  /\ pc = "writing" => objectPart = "chunk"
  /\ pc \in {"idle", "writing", "closed"} /\ server = "reading" => inbox # <<>>

\* An error other than io.EOF comes from the signer or from a broken stream.
Blame ==
  /\ pc # "closed" /\ writerErr = "failure" /\ server # "broken" => signFails > 0
  /\ server = "ended" => status = "failure"

IInv ==
  /\ TypeOK /\ Progress /\ ServerReadsInOrder /\ Blame
  /\ CloseNilMeansStored /\ RefusalReported /\ NoStreamLeft

USE WriterAssumption

LEMMA AppendMessage ==
  ASSUME NEW s \in Seq(Messages), NEW x \in Messages
  PROVE  /\ Append(s, x) \in Seq(Messages) /\ Append(s, x) # <<>>
         /\ Len(s) \in Nat /\ Len(Append(s, x)) = Len(s) + 1
         /\ \A i \in 1..Len(s) : Append(s, x)[i] = s[i]
         /\ Append(s, x)[Len(s) + 1] = x
OBVIOUS

LEMMA InitIInv == Init => IInv
BY DEF Init, IInv, TypeOK, Progress, ServerReadsInOrder, Blame,
       CloseNilMeansStored, RefusalReported, NoStreamLeft, Messages

LEMMA StepIInv == IInv /\ [Next]_vars => IInv'
<1> SUFFICES ASSUME IInv, [Next]_vars PROVE IInv'
  OBVIOUS
<1> USE DEF IInv, TypeOK, Messages
<1>1. CASE ServerEnds
  BY <1>1 DEF ServerEnds, clientVars, Progress, ServerReadsInOrder, Blame,
              CloseNilMeansStored, RefusalReported, NoStreamLeft
<1>2. CASE ServerBreaks
  BY <1>2 DEF ServerBreaks, clientVars, Progress, ServerReadsInOrder, Blame,
              CloseNilMeansStored, RefusalReported, NoStreamLeft
<1>3. CASE OpenFails
  BY <1>3 DEF OpenFails, serverVars,
              Progress, ServerReadsInOrder, Blame, CloseNilMeansStored, RefusalReported, NoStreamLeft
<1>4. CASE Open
  BY <1>4 DEF Open, serverVars,
              Progress, ServerReadsInOrder, Blame, CloseNilMeansStored, RefusalReported, NoStreamLeft
<1>5. CASE WriteHeader
  <2> DEFINE h == Message(objectPart, 0, 0)
  <2>1. /\ h \in Messages /\ h.part = "init" /\ h.from = 0 /\ h.to = 0
        /\ inbox = <<>> /\ accepted = 0
    BY <1>5 DEF WriteHeader, Message, Progress
  <2>2. inbox' = IF server = "reading" THEN Append(inbox, h) ELSE inbox
    BY <1>5 DEF WriteHeader, Transmit
  <2> HIDE DEF h
  <2>3. inbox' \in Seq(Messages) /\ (server = "reading" => inbox' # <<>>)
    BY <2>1, <2>2, AppendMessage
  <2>4. TypeOK'
    BY <1>5, <2>3 DEF WriteHeader, Transmit
  <2>5. Progress' /\ Blame' /\ CloseNilMeansStored' /\ RefusalReported' /\ NoStreamLeft'
    BY <1>5, <2>3 DEF WriteHeader, Transmit, Progress, Blame,
                      CloseNilMeansStored, RefusalReported, NoStreamLeft
  <2>6. ServerReadsInOrder'
    <3>1. CASE server = "reading"
      <4>1. inbox' = Append(inbox, h) /\ Len(inbox) = 0
        BY <2>1, <2>2, <3>1
      <4>2. Len(inbox') = 1 /\ inbox'[1] = h
        BY <4>1, <2>1, AppendMessage
      <4> QED BY <1>5, <4>2, <2>1 DEF WriteHeader, ServerReadsInOrder
    <3>2. CASE server # "reading"
      BY <1>5, <2>2, <3>2 DEF WriteHeader, ServerReadsInOrder
    <3> QED BY <3>1, <3>2
  <2> QED BY <2>4, <2>5, <2>6
<1>6. CASE HeaderFails
  BY <1>6 DEF HeaderFails, MessageFails, WriteErrors, serverVars,
              Progress, ServerReadsInOrder, Blame, CloseNilMeansStored, RefusalReported, NoStreamLeft
<1>7. ASSUME NEW n \in 0..MaxPayload, Write(n) PROVE IInv'
  BY <1>7 DEF Write, serverVars,
              Progress, ServerReadsInOrder, Blame, CloseNilMeansStored, RefusalReported, NoStreamLeft
<1>8. CASE WritePiece
  <2> DEFINE m == Message(objectPart, accepted, accepted + Piece)
  <2>1. Piece \in Nat /\ Piece <= pending /\ Piece <= MaxChunkLen
    BY DEF Piece
  <2>2. m \in Messages /\ m.part = "chunk" /\ m.from = accepted /\ m.to = accepted + Piece
    BY <1>8, <2>1 DEF WritePiece, Message, Progress
  <2> HIDE DEF m
  <2>3. inbox' \in Seq(Messages) /\ (server = "reading" => inbox' # <<>>)
    BY <1>8, <2>2, AppendMessage DEF WritePiece, Transmit, m
  <2>4. /\ TypeOK'
        /\ Progress' /\ Blame'
        /\ CloseNilMeansStored' /\ RefusalReported' /\ NoStreamLeft'
    <3>1. TypeOK'
      BY <1>8, <2>1, <2>3 DEF WritePiece, Transmit
    <3>2. Progress' /\ Blame' /\ CloseNilMeansStored' /\ RefusalReported' /\ NoStreamLeft'
      BY <1>8, <2>3 DEF WritePiece, Transmit, Progress, Blame,
                        CloseNilMeansStored, RefusalReported, NoStreamLeft
    <3> QED BY <3>1, <3>2
  <2>5. ServerReadsInOrder'
    <3>1. CASE server = "reading"
      <4>1. inbox' = Append(inbox, m) /\ server' = server /\ accepted' = accepted + Piece
        BY <1>8, <3>1 DEF WritePiece, Transmit, m
      <4>2. inbox # <<>> /\ inbox[Len(inbox)].to = accepted
        BY <1>8, <3>1 DEF WritePiece, Progress, ServerReadsInOrder
      <4>3. Len(inbox') = Len(inbox) + 1 /\ inbox'[Len(inbox) + 1] = m
            /\ \A i \in 1..Len(inbox) : inbox'[i] = inbox[i]
        BY <4>1, <2>2, AppendMessage
      <4>4. ASSUME NEW i \in 1..Len(inbox')
            PROVE  /\ inbox'[i].part = IF i = 1 THEN "init" ELSE "chunk"
                   /\ inbox'[i].to - inbox'[i].from <= MaxChunkLen
                   /\ inbox'[i].from = IF i = 1 THEN 0 ELSE inbox'[i - 1].to
        <5>1. CASE i \in 1..Len(inbox)
          <6>1. i # 1 => i - 1 \in 1..Len(inbox)
            BY <5>1
          <6>2. inbox'[i] = inbox[i] /\ (i # 1 => inbox'[i - 1] = inbox[i - 1])
            BY <5>1, <6>1, <4>3
          <6> QED BY <5>1, <6>2 DEF ServerReadsInOrder
        <5>2. CASE i = Len(inbox) + 1
          <6>1. Len(inbox) \in Nat \ {0}
            BY <4>2
          <6>2. inbox'[i] = m /\ inbox'[i - 1] = inbox[Len(inbox)] /\ i # 1
            BY <5>2, <6>1, <4>3
          <6> QED BY <6>2, <4>2, <2>1, <2>2
        <5> QED BY <5>1, <5>2, <4>3
      <4>5. inbox'[Len(inbox')].to = accepted'
        BY <4>1, <4>3, <2>2
      <4> QED BY <4>4, <4>5 DEF ServerReadsInOrder
    <3>2. CASE server # "reading"
      BY <1>8, <3>2 DEF WritePiece, Transmit, ServerReadsInOrder
    <3> QED BY <3>1, <3>2
  <2> QED BY <2>4, <2>5
<1>9. CASE PieceFails
  BY <1>9 DEF PieceFails, MessageFails, WriteErrors, serverVars,
              Progress, ServerReadsInOrder, Blame, CloseNilMeansStored, RefusalReported, NoStreamLeft
<1>10. CASE CloseFailed
  BY <1>10 DEF CloseFailed, Final, Closed, serverVars,
               Progress, ServerReadsInOrder, Blame, CloseNilMeansStored, RefusalReported, NoStreamLeft
<1>11. CASE CloseBroken
  BY <1>11 DEF CloseBroken, Final, Closed, serverVars,
               Progress, ServerReadsInOrder, Blame, CloseNilMeansStored, RefusalReported, NoStreamLeft
<1>12. CASE CloseStatus
  BY <1>12 DEF CloseStatus, Final, Closed, Progress, ServerReadsInOrder, Blame,
               CloseNilMeansStored, RefusalReported, NoStreamLeft
<1>13. ASSUME NEW id \in {"missing", "invalid", "valid"}, CloseStored(id) PROVE IInv'
  BY <1>13 DEF CloseStored, Final, Closed, Progress, ServerReadsInOrder, Blame,
               CloseNilMeansStored, RefusalReported, NoStreamLeft
<1>14. CASE UNCHANGED vars
  BY <1>14 DEF vars, clientVars, serverVars,
               Progress, ServerReadsInOrder, Blame, CloseNilMeansStored, RefusalReported, NoStreamLeft
<1> QED
  BY <1>1, <1>2, <1>3, <1>4, <1>5, <1>6, <1>7, <1>8, <1>9, <1>10, <1>11, <1>12,
     <1>13, <1>14 DEF Next, Step, Call, Server

\* For every maxChunkLen and payload, the server reads the header and then all
\* bytes DefaultObjectWriter.Write has accepted, in their order.
THEOREM WriteInOrder == Spec => []ServerReadsInOrder
<1>1. IInv => ServerReadsInOrder
  BY DEF IInv
<1> QED BY <1>1, InitIInv, StepIInv, PTL DEF Spec

\* For every maxChunkLen and payload, a Close that returns nil follows the
\* server's consent to all bytes that were accepted.
THEOREM CloseNilCorrect == Spec => []CloseNilMeansStored
<1>1. IInv => CloseNilMeansStored
  BY DEF IInv
<1> QED BY <1>1, InitIInv, StepIInv, PTL DEF Spec

\* For every maxChunkLen and payload, Close returns the status with which the
\* server ended the stream.
THEOREM RefusalCorrect == Spec => []RefusalReported
<1>1. IInv => RefusalReported
  BY DEF IInv
<1> QED BY <1>1, InitIInv, StepIInv, PTL DEF Spec

\* For every maxChunkLen and payload, no stream that ObjectPutInit or Close has
\* given up stays open.
THEOREM StreamsEnd == Spec => []NoStreamLeft
<1>1. IInv => NoStreamLeft
  BY DEF IInv
<1> QED BY <1>1, InitIInv, StepIInv, PTL DEF Spec
=============================================================================
