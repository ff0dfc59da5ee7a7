---------------------------- MODULE MCApiServer ----------------------------
(***************************************************************************)
(* A small instance of ApiServer for TLC: two requests at a time, the node *)
(* itself as the sender of one payment, Alice as the sender of another one *)
(* and as the payee of the faucet.  The places for requests are            *)
(* interchangeable, and all that is checked of them is an invariant.       *)
(***************************************************************************)
EXTENDS ApiServer

CONSTANTS self, peer, alice, system, staking, j1, c1, c2

MCAddresses == {self, peer, alice, system, staking}

Funded(balance) == [EmptyAccount EXCEPT !.balance = balance]

MCGenesis ==
  [a \in MCAddresses |-> IF a \in {self, peer} THEN Funded(9) ELSE EmptyAccount]

MCBase == [MCGenesis EXCEPT ![alice] = Funded(5)]

Payment(from, to, price) ==
  [from |-> from, to |-> to, value |-> 1, nonce |-> 1, limit |-> 1,
   price |-> price, cmd |-> "none", amount |-> 0]

MCSent == {Payment(self, alice, 2), Payment(alice, self, 3)}
MCTxs  == MCSent \cup {Payout(alice, n) : n \in 0..3}

ClientSymmetry == Permutations(Clients)

=============================================================================
