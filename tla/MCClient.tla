------------------------------- MODULE MCClient -------------------------------
(***************************************************************************)
(* The client: its calls, the streams that read and write objects, and its *)
(* two pure parts, errors on their way between servers and layered         *)
(* signatures.  A behaviour is about one of the five.  Init, Next and vars *)
(* are those of ObjectWriter.                                              *)
(***************************************************************************)
EXTENDS Calls, Sign, ObjectReader, ObjectWriter, TLC

CONSTANTS c1, c2, s1, s2, b1, b2

VARIABLE subject

MCInit ==
  /\ subject \in {"call", "read", "put", "status", "sign"}
  /\ CallsInit /\ SignInit /\ Init
  /\ IF subject = "read" THEN ReaderInit ELSE ReaderRest
  /\ IF subject = "status" THEN StatusInit ELSE StatusRest

MCNext ==
  /\ UNCHANGED subject
  /\ \/ /\ subject = "call" /\ CallsNext
        /\ UNCHANGED <<statusVars, signVars, readerVars, vars>>
     \/ /\ subject = "read" /\ ReaderNext
        /\ UNCHANGED <<callVars, statusVars, signVars, vars>>
     \/ /\ subject = "put" /\ Next
        /\ UNCHANGED <<callVars, statusVars, signVars, readerVars>>
     \/ /\ subject = "status" /\ StatusNext
        /\ UNCHANGED <<callVars, signVars, readerVars, vars>>
     \/ /\ subject = "sign" /\ SignNext
        /\ UNCHANGED <<callVars, statusVars, readerVars, vars>>

Symmetry == Permutations(Callers)
=============================================================================
