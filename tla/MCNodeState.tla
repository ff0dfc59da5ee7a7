---------------------------- MODULE MCNodeState ----------------------------
(***************************************************************************)
(* Small instances of NodeState for TLC: a node, another proposer, a       *)
(* client who stakes, withdraws, and sends two transactions of one nonce,  *)
(* and a client who pays itself.  Balances and gas are small numbers.      *)
(***************************************************************************)
EXTENDS NodeState

CONSTANTS self, peer, alice, bob, system, staking, j1, j2

MCAddresses == {self, peer, alice, bob, system, staking}

Funded(balance) == [EmptyAccount EXCEPT !.balance = balance]

MCGenesis ==
  [a \in MCAddresses |-> IF a \in {self, peer} THEN Funded(9) ELSE EmptyAccount]

\* The other proposer has paid Alice and Bob out of its rewards, and has a
\* stake; Alice has a stake of 20.
MCBase ==
  [MCGenesis EXCEPT
     ![alice] = [Funded(60) EXCEPT !.nonce = 1],
     ![bob] = Funded(3),
     ![peer].nonce = 3,
     ![staking] = [Funded(36) EXCEPT !.storage.stake[alice] = 20,
                                     !.storage.stake[peer] = 16,
                                     !.storage.list = {alice, peer}]]

Tx(from, to, value, nonce, limit, price, cmd, amount) ==
  [from |-> from, to |-> to, value |-> value, nonce |-> nonce,
   limit |-> limit, price |-> price, cmd |-> cmd, amount |-> amount]

\* Alice's stake of 20 is 10 in hex after one withdrawal and c after two.
\* Bob can pay himself only after the transfer.
Withdraw == Tx(alice, staking, 0, 2, 2, 2, "unstake", 4)
Transfer == Tx(alice, bob, 3, 2, 2, 3, "none", 0)
ToMyself == Tx(bob, bob, 2, 1, 1, 4, "none", 0)

Several    == {Withdraw, Transfer, ToMyself}
OnePayment == {Transfer}

=============================================================================
