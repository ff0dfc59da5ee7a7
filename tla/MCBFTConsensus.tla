--------------------------- MODULE MCBFTConsensus ---------------------------
(***************************************************************************)
(* Small instances of BFTConsensus for TLC.  The validator lists:          *)
(*   SoloList  one validator, which runs the code;                         *)
(*   DuoList   one that runs the code, which proposes in round 0, and a    *)
(*             peer;                                                       *)
(*   OpenList  one that runs the code, two peers and one that is down: with *)
(*             a peer outside the list (o4) a quorum can form without the  *)
(*             node; it never proposes in rounds 0 and 1.                  *)
(***************************************************************************)
EXTENDS BFTConsensus

CONSTANTS n1, p2, p3, d4, o4

SoloList == <<n1>>
DuoList  == <<p2, n1>>
OpenList == <<n1, p2, p3, d4>>

=============================================================================
