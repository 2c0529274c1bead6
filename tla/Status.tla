-------------------------------- MODULE Status --------------------------------
(***************************************************************************)
(* Statuses of the API as Go errors: package client/status.  An error is   *)
(* converted for the wire (ErrorToV2), restored on the other side          *)
(* (ErrorFromV2), and may travel on in the same way, wrapped or not.       *)
(***************************************************************************)
EXTENDS Integers, Sequences

CONSTANTS
  Magics,   \* network magics, the values of a detail
  MaxHops   \* bound of the model: conversions there and back

VARIABLES
  goError,   \* the error at hand
  said,      \* what the sender said: type, first detail, message
  hops

statusVars == <<goError, said, hops>>

-----------------------------------------------------------------------------
(* Codes are pairs of a section and a number within it. *)

OK == <<"success", 0>>

commonCodes == [
  ServerInternal        |-> <<"common", 0>>,
  WrongMagicNumber      |-> <<"common", 1>>,
  SignatureVerification |-> <<"common", 2>>,
  NodeUnderMaintenance  |-> <<"common", 3>>]

objectCodes == [
  ObjectAccessDenied   |-> <<"object", 0>>,
  ObjectNotFound       |-> <<"object", 1>>,
  ObjectLocked         |-> <<"object", 2>>,
  LockNonRegularObject |-> <<"object", 3>>,
  ObjectAlreadyRemoved |-> <<"object", 4>>,
  ObjectOutOfRange     |-> <<"object", 5>>]

otherCodes == [
  ContainerNotFound    |-> <<"container", 0>>,
  EACLNotFound         |-> <<"container", 1>>,
  SessionTokenNotFound |-> <<"session", 0>>,
  SessionTokenExpired  |-> <<"session", 1>>]

Types == DOMAIN commonCodes \cup DOMAIN objectCodes \cup DOMAIN otherCodes

codes == [t \in Types |->
  IF t \in DOMAIN commonCodes THEN commonCodes[t]
  ELSE IF t \in DOMAIN objectCodes THEN objectCodes[t] ELSE otherCodes[t]]

\* Codes a newer server may use.
UnknownCodes == {<<"success", 1>>, <<"common", 9>>, <<"object", 9>>, <<"new", 0>>}

Statuses == [code : {codes[t] : t \in Types} \cup UnknownCodes \cup {OK},
             message : {"", "text"}, details : {<<>>, <<-1>>}]

NoError == [type |-> "nil", message |-> "", details |-> <<>>, wrapped |-> FALSE]
PlainError == [type |-> "plain", message |-> "text", details |-> <<>>, wrapped |-> FALSE]

Restored(type, st) ==
  [type |-> type, message |-> st.message, details |-> st.details, wrapped |-> FALSE]

ErrorFromV2(st) ==
  IF st.code = OK THEN NoError
  ELSE Restored(IF \E t \in Types : codes[t] = st.code
                THEN CHOOSE t \in Types : codes[t] = st.code
                ELSE "Unrecognized", st)

\* What ErrorToV2 does to the message, by type.  common.go keeps a message that
\* is set, and has no default for two types.
commonMessage(err) ==
  IF err.type \in {"SignatureVerification", "NodeUnderMaintenance"} /\ err.message = ""
  THEN "default" ELSE err.message

\* The types whose ErrorToV2 puts the default in any case.
lockStatuses == {"ObjectLocked", "LockNonRegularObject"}
accessStatuses == {"ObjectAccessDenied"}
lookupStatuses == {"ObjectNotFound", "ObjectAlreadyRemoved", "ObjectOutOfRange"}
containerStatuses == {"ContainerNotFound", "EACLNotFound"}
sessionStatuses == {"SessionTokenNotFound", "SessionTokenExpired"}

messageToV2(err) ==
  IF err.type \in lockStatuses \cup accessStatuses \cup lookupStatuses
                  \cup containerStatuses \cup sessionStatuses
  THEN "default" ELSE commonMessage(err)

\* Mutant of ErrorToV2: the error is not unwrapped.
ErrorToV2Cast(err) ==
  CASE err.type = "nil" -> [code |-> OK, message |-> "", details |-> <<>>]
    [] err.type \in Types /\ ~err.wrapped ->
         [code |-> codes[err.type], message |-> messageToV2(err), details |-> err.details]
    [] OTHER -> [code |-> codes["ServerInternal"], message |-> "text", details |-> <<>>]

\* A status anywhere in the chain of the error is used; any other error becomes
\* an internal one with its text.  The unrecognized status has no ErrorToV2.
ErrorToV2(err) ==
  CASE err.type = "nil" -> [code |-> OK, message |-> "", details |-> <<>>]
    [] err.type \in Types ->
         [code |-> codes[err.type], message |-> messageToV2(err), details |-> err.details]
    [] OTHER -> [code |-> codes["ServerInternal"], message |-> "text", details |-> <<>>]

\* errors.Is of an error with a type or the group apistatus.Error.
Is(err, target) ==
  CASE err.type \in Types -> target \in {err.type, "Error"}
    [] err.type = "Unrecognized" -> target = "Unrecognized"
    [] OTHER -> FALSE

\* The magic, 0 if there is none, -1 if it cannot be read.  Reason of
\* ObjectAccessDenied reads its detail in the same way.
CorrectMagic(err) ==
  IF err.details = <<>> THEN 0
  ELSE IF Head(err.details) \in Magics THEN Head(err.details) ELSE -1

-----------------------------------------------------------------------------
StatusInit ==
  /\ \/ \E t \in Types : goError = [type |-> t, message |-> "", details |-> <<>>, wrapped |-> FALSE]
     \/ goError \in {NoError, PlainError}
     \/ \E st \in Statuses : goError = ErrorFromV2(st)
  /\ said = [type |-> goError.type, magic |-> CorrectMagic(goError), message |-> goError.message]
  /\ hops = 0

\* No error, for a specification that only uses the conversions.
StatusRest ==
  goError = NoError /\ said = [type |-> "nil", magic |-> 0, message |-> ""] /\ hops = 0

SetMessage ==
  /\ goError.type \in DOMAIN commonCodes \ {"WrongMagicNumber"} /\ hops = 0 /\ ~goError.wrapped
  /\ goError' = [goError EXCEPT !.message = "text"]
  /\ said' = [said EXCEPT !.message = "text"]
  /\ UNCHANGED hops

\* WriteCorrectMagic and WriteReason append a detail.
WriteDetail(v) ==
  /\ goError.type \in {"WrongMagicNumber", "ObjectAccessDenied"} /\ hops = 0
  /\ ~goError.wrapped /\ Len(goError.details) < 2
  /\ goError' = [goError EXCEPT !.details = Append(@, v)]
  /\ said' = [said EXCEPT !.magic = IF goError.details = <<>> THEN v ELSE @]
  /\ UNCHANGED hops

\* fmt.Errorf with %w.
Wrap ==
  /\ goError.type # "nil" /\ ~goError.wrapped
  /\ goError' = [goError EXCEPT !.wrapped = TRUE]
  /\ UNCHANGED <<said, hops>>

\* Sent as a status and restored by the receiver.
Travel ==
  /\ hops < MaxHops /\ hops' = hops + 1
  /\ goError' = ErrorFromV2(ErrorToV2(goError))
  /\ UNCHANGED said

StatusNext == SetMessage \/ (\E v \in Magics : WriteDetail(v)) \/ Wrap \/ Travel

StatusSpec == StatusInit /\ [][StatusNext]_statusVars

-----------------------------------------------------------------------------
\* A status this version knows stays the same for errors.Is on its way through any
\* number of servers, wrapped or not, and every receiver reads the magic (or reason)
\* the sender wrote first, and none if none was written.  An error that is no status
\* is an internal one for every receiver.
ErrorSurvives ==
  /\ hops = 0 \/ said.type \in Types \cup {"nil"} => goError.type = said.type
  /\ hops > 0 /\ said.type = "plain" => Is(goError, "ServerInternal")
  /\ said.type \in {"WrongMagicNumber", "ObjectAccessDenied"} =>
       CorrectMagic(goError) = said.magic
=============================================================================
