---------------------------- MODULE MCBlockStore ----------------------------
(***************************************************************************)
(* Small instances of BlockStore for TLC: a transfer and a payment to      *)
(* oneself, in blocks of one or both.                                      *)
(***************************************************************************)
EXTENDS BlockStore

CONSTANTS transfer, payment, alice, bob

MCTxs == {transfer, payment}
MCFrom(tx) == IF tx = transfer THEN alice ELSE bob
MCTo(tx) == bob
MCPayloads == {<<transfer>>, <<transfer, payment>>}
OnePayload == {<<transfer>>}

=============================================================================
