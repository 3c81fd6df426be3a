----------------------------- MODULE MCMailbox -----------------------------
(***************************************************************************)
(* Small instances of Mailbox for TLC.                                     *)
(***************************************************************************)
EXTENDS Mailbox, TLC

CONSTANTS me, other, p1, p2, old, w1

BothOrMe == {<<other, me>>, <<me>>}

=============================================================================
