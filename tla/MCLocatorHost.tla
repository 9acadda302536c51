--------------------------- MODULE MCLocatorHost ---------------------------
(* Instances of LocatorHost for TLC.                                       *)
EXTENDS LocatorHost

CONSTANTS t1, t2

(* An allowlist of a single tag and one of both.                           *)
MCConfig == {<<t1>>, <<t2, t1>>}

=============================================================================
