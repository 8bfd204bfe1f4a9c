------------------------------ MODULE MCExport ------------------------------
(* Export instantiated for TLC: two days with two aggregations each, an    *)
(* aggregate with no, two or three non-zero fields (so Segment sends a     *)
(* varying number of events and can fail between two of them), a batch of *)
(* two, and one failure of each endpoint.                                  *)
EXTENDS Export

MCNzChoices == {{}, {"au", "bdg"}, {"au", "pts", "bdg"}}
=============================================================================
