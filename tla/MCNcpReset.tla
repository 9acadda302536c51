----------------------------- MODULE MCNcpReset -----------------------------
(* NcpReset has no constants but bounds: the configurations give them.     *)
EXTENDS NcpReset
=============================================================================
