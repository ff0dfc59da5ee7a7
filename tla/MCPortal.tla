------------------------------ MODULE MCPortal ------------------------------
(***************************************************************************)
(* A small instance of Portal for TLC: three sign-ups of two emails, a     *)
(* sign-in, three verifications of two contracts, pages over two subjects, *)
(* two tabs of a browser that two people share.                            *)
(***************************************************************************)
EXTENDS Portal

CONSTANTS s1, s2, s3, e1, e2

=============================================================================
