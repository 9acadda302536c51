----------------------------- MODULE MCPipeline -----------------------------
(* Instances of Pipeline for TLC.                                          *)
EXTENDS Pipeline, TLC

CONSTANTS tag1, tag2

(* Every report fills the buffer; or the second ends within the reference  *)
(* samples, and the third may fill it, end beyond them or be empty.        *)
MCFull == [n \in 1 .. MaxReports |-> {"all"}]
MCShort ==
  [n \in 1 .. MaxReports |->
     CASE n = 2 -> {"reference"}
       [] n = 3 -> {"all", "some", "none"}
       [] OTHER -> {"all"}]
=============================================================================
