--------------------------- MODULE MCChangeChain ---------------------------
(* Instances of ChangeChain for TLC.                                       *)
EXTENDS ChangeChain, TLC

CONSTANTS w1, w2, c1, c2, r1, r2, t1

\* One notice, first seen in the NSM system and later in the PAL system.
NsmThenPal == (1 :> {None, c1})

\* Two notices with identities of their own.
OwnIds == (1 :> {None, c1}) @@ (2 :> {c2})
=============================================================================
