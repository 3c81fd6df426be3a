---------------------------- MODULE MCPeerKeys ----------------------------
(***************************************************************************)
(* Small instances of PeerKeys for TLC.                                    *)
(***************************************************************************)
EXTENDS PeerKeys, TLC

CONSTANTS alice, bob, nick, k1, k2, k3, w1, w2

Alike == Permutations({alice, bob}) \cup Permutations({k1, k2, k3}) \cup Permutations({w1, w2})

=============================================================================
