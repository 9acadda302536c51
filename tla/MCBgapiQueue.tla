---------------------------- MODULE MCBgapiQueue ----------------------------
(* BgapiQueue has no constants but sizes: the configurations give them.    *)
EXTENDS BgapiQueue
=============================================================================
