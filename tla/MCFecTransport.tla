--------------------------- MODULE MCFecTransport ---------------------------
(* Media and networks for TLC. *)
EXTENDS FecTransport

Ends == {"sender", "receiver"}

Ordered == [tsinc |-> 1, reorder |-> FALSE, copies |-> 1, fails |-> Ends]
Unordered == [tsinc |-> 1, reorder |-> TRUE, copies |-> 1, fails |-> Ends]
Duplicating == [tsinc |-> 1, reorder |-> FALSE, copies |-> 2, fails |-> {"sender"}]
Audio == [tsinc |-> 0, reorder |-> TRUE, copies |-> 1, fails |-> Ends]

AllLinks == {Ordered, Unordered, Duplicating, Audio}

\* the bounds of the run satisfy what the theorems suppose
ASSUME FewAssumption == FewPackets
=============================================================================
