----------------------------- MODULE SlicerPut -----------------------------
(***************************************************************************)
(* Slicer.Put: the loop of slice that reads the payload from an io.Reader  *)
(* into a buffer of Limit bytes and drives a PayloadWriter.                *)
(***************************************************************************)
EXTENDS Slicer

CONSTANT EOFWithData  \* the reader may return its last bytes along with io.EOF

VARIABLE delivered  \* bytes the reader has handed over

PutInit == Init /\ delivered = 0

\* data.Read returns n bytes and no error.
Read(n) ==
  /\ Write(n)
  /\ delivered' = delivered + n

\* data.Read returns io.EOF, with or without bytes: the writer is closed.
ReadEOF(n) ==
  /\ n = 0 \/ EOFWithData
  /\ delivered + n <= MaxInput
  /\ delivered' = delivered + n
  /\ pc = "idle"
  /\ Close \/ CloseFails

\* data.Read fails: the writer is left as it is.
ReadFails ==
  /\ pc = "idle"
  /\ pc' = "failed"
  /\ UNCHANGED <<pending, received, writerVars, writtenChildren, rootID, stored, delivered>>

PutNext ==
  \/ \E n \in 1..Limit : Read(n)
  \/ \E n \in 0..Limit : ReadEOF(n)
  \/ ReadFails
  \/ /\ WriteFits \/ WriteOverflows \/ OverflowFails \/ CloseLinks \/ (pc = "linking" /\ CloseFails)
     /\ UNCHANGED delivered

PutSpec == PutInit /\ [][PutNext]_<<vars, delivered>>

\* Doc of Slicer.Put: it "creates new NeoFS object from the input data stream".
\* Read as: after a Put without error the stored payload is all of the input.
PutStoresInput == pc = "closed" => received = delivered
=============================================================================
