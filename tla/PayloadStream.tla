--------------------------- MODULE PayloadStream ---------------------------
(***************************************************************************)
(* What a payload stream promises, however many objects it takes: nothing  *)
(* can be read under the root ID until the stream is being closed, and     *)
(* what can be read then is the whole payload, for good.                   *)
(***************************************************************************)
EXTENDS Naturals

VARIABLES
  status,    \* open, publishing, closed or failed
  accepted,  \* bytes accepted from the caller
  visible    \* sizes of the payloads that can be read under the root ID

vars == <<status, accepted, visible>>

Init == status = "open" /\ accepted = 0 /\ visible = {}

Accept ==
  /\ status = "open"
  /\ accepted' \in Nat /\ accepted' > accepted
  /\ UNCHANGED <<status, visible>>

\* The root becomes readable; the stream is closed at once or after a final
\* step that can still fail.
Publish ==
  /\ status = "open"
  /\ status' \in {"publishing", "closed"}
  /\ visible' = {accepted}
  /\ UNCHANGED accepted

Confirm ==
  /\ status = "publishing"
  /\ status' = "closed"
  /\ UNCHANGED <<accepted, visible>>

\* An error is reported: in a write, which may have accepted some bytes, or in
\* the final part, where the root may have become readable all the same.
Fail ==
  /\ status \in {"open", "publishing"}
  /\ status' = "failed"
  /\ \/ /\ accepted' \in Nat /\ accepted' >= accepted
        /\ UNCHANGED visible
     \/ /\ visible' = {accepted}
        /\ UNCHANGED accepted

Next == Accept \/ Publish \/ Confirm \/ Fail

Spec == Init /\ [][Next]_vars
=============================================================================
