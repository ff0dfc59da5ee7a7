---------------------------- MODULE VerifiedChain ----------------------------
(***************************************************************************)
(* What the consensus engine promises about the block store of one node:   *)
(* a sequence of blocks that only grows, at its end, by a block of the     *)
(* next height whose state root is the one the stored payloads lead to.    *)
(***************************************************************************)
EXTENDS Integers, Sequences

CONSTANT Nodes  \* the nodes that keep a store

VARIABLE log  \* log[n] is what node n has stored: blocks with a height and
              \* a root, the sequence of payloads that leads to its state

\* The state root that a sequence of blocks leads to: their payloads, each
\* the last element of its block's root.
Root(blocks) == [i \in DOMAIN blocks |-> blocks[i].root[Len(blocks[i].root)]]

Init == log = [n \in Nodes |-> <<>>]

Store(n, b) ==
  /\ b.height = Len(log[n]) + 1
  /\ b.root = Root(Append(log[n], b))
  /\ log' = [log EXCEPT ![n] = Append(@, b)]

Next == \E n \in Nodes : \E i \in DOMAIN log'[n] : Store(n, log'[n][i])

Spec == Init /\ [][Next]_log

=============================================================================
