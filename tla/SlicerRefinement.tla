-------------------------- MODULE SlicerRefinement --------------------------
(***************************************************************************)
(* Slicer implements PayloadStream.  What can be read is computed the way  *)
(* a reader does it: from an object that carries the root header, back     *)
(* along the references to the previous child.                             *)
(***************************************************************************)
EXTENDS Slicer

\* Payload size of the chain that ends in object i.
Assembled ==
  LET size[i \in 0..Len(stored)] ==
        IF i = 0 THEN 0 ELSE Size(stored[i].payload) + size[stored[i].prev]
  IN  size

IsLastChild(o) == o.parent /\ o.children = <<>>

\* The single object of a stream that was not split is its own root.
IsWholeRoot(o) == o.header /\ rootID /\ ~withSplit

Readable ==
  {Assembled[i] : i \in {j \in 1..Len(stored) :
                           IsLastChild(stored[j]) \/ IsWholeRoot(stored[j])}}

Status ==
  CASE pc \in {"idle", "writing"} -> "open"
    [] pc = "linking" -> "publishing"
    [] OTHER -> pc

PS == INSTANCE PayloadStream
        WITH status <- Status, accepted <- received, visible <- Readable

\* The sliced stream behaves as one object: all of the payload becomes
\* readable in one step of Close, or nothing does, also when writes fail.
ImplementsPayloadStream == PS!Spec
=============================================================================
