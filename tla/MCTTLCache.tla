----------------------------- MODULE MCTTLCache -----------------------------
(* Three keys compete for one or two slots, with two times to live.        *)
EXTENDS TTLCache

CONSTANTS k1, k2, k3

MCKeys == {k1, k2, k3}
=============================================================================
