----------------------------- MODULE MCCteConn -----------------------------
(* Instances of CteConn for TLC.                                           *)
EXTENDS CteConn

CONSTANTS t1, t2

(* No allowlist, and one of two tags.                                      *)
MCAllowlists == {<<>>, <<t2, t1>>}

MCNoAllowlist == {<<>>}

=============================================================================
