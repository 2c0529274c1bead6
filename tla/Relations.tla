------------------------------ MODULE Relations ------------------------------
(***************************************************************************)
(* object/relations: Get restores the chain of a split object from its     *)
(* root ID.  The objects are the ones Slicer stores, and Get may run while *)
(* Close is still writing them or after it has failed.                     *)
(*                                                                         *)
(* One action is one call of the executor.  The storage nodes may know of  *)
(* the last child, of the linking object, of both or of none, whatever is  *)
(* stored; any call may fail; and one header may refer to a wrong previous *)
(* child.                                                                  *)
(***************************************************************************)
EXTENDS SlicerRefinement, SequencesExt

VARIABLES
  at,       \* idle, root, search, siblings, link, walk, done: what Get does
  info,     \* splitInfo: link and last part, 0 if unknown
  list,     \* the rest of the list of findSiblingByParentID
  chain,    \* the members found so far, in the order of the payload
  answer,   \* what Get has returned
  forged,   \* the header that is wrong: [at, prev], at = 0 if there is none
  fault     \* ghost: a call has failed or hidden what the others know

getVars == <<at, info, list, chain, answer, forged, fault>>
allVars == <<vars, getVars>>

NoAnswer == [kind |-> "none", children |-> <<>>, link |-> 0]
NoForgery == [at |-> 0, prev |-> 0]

GetInit ==
  /\ at = "idle" /\ info = [link |-> 0, last |-> 0] /\ list = <<>> /\ chain = <<>>
  /\ answer = NoAnswer /\ forged = NoForgery /\ fault = FALSE

Return(children, link) ==
  at' = "done" /\ answer' = [kind |-> "ok", children |-> children, link |-> link]

Fail == at' = "done" /\ answer' = [NoAnswer EXCEPT !.kind = "error"]

-----------------------------------------------------------------------------
(* What the storage nodes know. *)

Ids == 1..Len(stored)
Links == {i \in Ids : stored[i].parent /\ stored[i].children # <<>>}
Lasts == {i \in Ids : IsLastChild(stored[i])}
Whole == \E i \in Ids : IsWholeRoot(stored[i])

PreviousID(i) == IF i = forged.at THEN forged.prev ELSE stored[i].prev

-----------------------------------------------------------------------------
\* The ID of the root is known as soon as Close has computed it.
GetStart ==
  /\ at = "idle" /\ rootID
  /\ at' = "root"
  /\ forged' \in {NoForgery} \cup [at : Ids, prev : Ids]
  /\ UNCHANGED <<info, list, chain, answer, fault>>

\* getSplitInfo of the root: an object that was not split has no split info, for
\* one that was the node returns what it knows, and nothing for one that is not
\* there.
HeadRoot ==
  /\ at = "root"
  /\ \/ Whole /\ Return(<<>>, 0) /\ UNCHANGED <<info, fault>>
     \/ /\ Links \cup Lasts # {}
        /\ \E l \in Links \cup {0}, m \in Lasts \cup {0} :
             /\ info' = [link |-> l, last |-> m]
             /\ at' = IF l # 0 THEN "link" ELSE "search"
        /\ UNCHANGED <<answer, fault>>
     \/ ~Whole /\ Links \cup Lasts = {} /\ Fail /\ fault' = TRUE /\ UNCHANGED info
  /\ UNCHANGED <<list, chain, forged>>

\* findSiblingByParentID.
SearchSiblings ==
  /\ at = "search"
  /\ \E found \in SUBSET (Links \cup Lasts) : list' \in SetToSeqs(found)
  /\ at' = "siblings"
  /\ UNCHANGED <<info, chain, answer, forged, fault>>

\* getSplitInfo of one of them: the linking object ends the loop, a last child
\* does not, an object without a split ID is passed over.
HeadSibling ==
  /\ at = "siblings" /\ list # <<>>
  /\ LET o == stored[list[1]]
         isLink == o.split /\ o.parent /\ o.children # <<>>
         isLast == o.split /\ IsLastChild(o)
     IN  /\ info' = [link |-> IF isLink THEN list[1] ELSE info.link,
                     last |-> IF isLast THEN list[1] ELSE info.last]
         /\ at' = IF isLink THEN "link" ELSE at
  /\ list' = Tail(list)
  /\ UNCHANGED <<chain, answer, forged, fault>>

SiblingsSeen ==
  /\ at = "siblings" /\ list = <<>>
  /\ \/ info.last # 0 /\ at' = "walk" /\ chain' = <<info.last>> /\ UNCHANGED <<answer, fault>>
     \/ info.last = 0 /\ Fail /\ fault' = TRUE /\ UNCHANGED chain
  /\ UNCHANGED <<info, list, forged>>

\* listChildrenByLinker.
HeadLink ==
  /\ at = "link"
  /\ Return(stored[info.link].children, info.link)
  /\ UNCHANGED <<info, list, chain, forged, fault>>

\* Mutants of HeadLeft: a repeated member does not end the walk; the member whose
\* header is read is always the last one.
HeadLeftUnchecked ==
  /\ at = "walk"
  /\ LET prev == PreviousID(chain[1])
         Other(i) == i # prev
     IN \/ prev = 0 /\ Return(chain, 0) /\ UNCHANGED chain
        \/ prev # 0 /\ chain' = <<prev>> \o SelectSeq(chain, Other) /\ UNCHANGED <<at, answer>>
  /\ UNCHANGED <<info, list, forged, fault>>

\* getLeftSibling of the first member.
HeadLeft ==
  /\ at = "walk"
  /\ LET prev == PreviousID(chain[1])
         seen == \E i \in DOMAIN chain : chain[i] = prev
     IN \/ prev = 0 /\ Return(chain, 0) /\ UNCHANGED chain
        \/ prev # 0 /\ seen /\ Fail /\ UNCHANGED chain
        \/ prev # 0 /\ ~seen /\ chain' = <<prev>> \o chain /\ UNCHANGED <<at, answer>>
  /\ UNCHANGED <<info, list, forged, fault>>

\* Mutant of CallFails: the walk takes a failure for the end of the chain.
CallFailsEndsWalk ==
  /\ at \in {"root", "search", "siblings", "link", "walk"}
  /\ at = "siblings" => list # <<>>
  /\ IF at = "walk" THEN Return(chain, 0) ELSE Fail
  /\ fault' = TRUE
  /\ UNCHANGED <<info, list, chain, forged>>

\* The call fails: Get returns the error and tries nothing else.
CallFails ==
  /\ at \in {"root", "search", "siblings", "link", "walk"}
  /\ at = "siblings" => list # <<>>
  /\ Fail
  /\ fault' = TRUE
  /\ UNCHANGED <<info, list, chain, forged>>

GetStep ==
  \/ HeadRoot \/ SearchSiblings \/ HeadSibling \/ SiblingsSeen \/ HeadLink \/ HeadLeft
  \/ CallFails

RelationsInit == Init /\ GetInit

RelationsNext ==
  \/ Next /\ UNCHANGED getVars
  \/ (GetStart \/ GetStep) /\ UNCHANGED vars

\* A call of the executor ends; the writer of the stream owes nothing.
RelationsSpec ==
  RelationsInit /\ [][RelationsNext]_allVars /\ WF_getVars(GetStep)

-----------------------------------------------------------------------------
(* Properties. *)

Payloads(ids) == [i \in DOMAIN ids |-> stored[ids[i]].payload]

\* Get returns all of the chain or an error, in the order of the payload, never a
\* part of it and never an empty list for an object that was split: while Close
\* is under way, after it has failed, and whichever of the last child and the
\* linking object the nodes know of.  It fails only if a call failed, the root is
\* not there, no node knew of the last child or the linking object, or a header
\* is wrong.
ChainComplete ==
  /\ answer.kind = "ok" /\ forged = NoForgery =>
       LET parts == Payloads(answer.children) IN
       IF ~withSplit THEN parts = <<>>
       ELSE /\ parts # <<>> /\ parts[1].from = 0 /\ parts[Len(parts)].to = received
            /\ \A i \in 2..Len(parts) : parts[i].from = parts[i - 1].to
            /\ answer.link # 0 => stored[answer.link].children = answer.children
  /\ answer.kind = "error" => fault \/ forged # NoForgery

\* Get ends, also with a header that leads back into the chain.
GetReturns == at # "idle" ~> at = "done"
=============================================================================
