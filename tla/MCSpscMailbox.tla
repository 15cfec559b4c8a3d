--------------------------- MODULE MCSpscMailbox ----------------------------
(* Instances of SpscMailbox for TLC: MCSpscRoles.cfg lets two producers    *)
(* and two consumers overlap, against the contract; MCSpscContract.cfg has *)
(* one of each and two closers that race, so that a slot is used again     *)
(* while the mailbox is being closed.                                      *)
EXTENDS SpscMailbox, TLC

(* Threads of one role, and messages, are interchangeable. *)
Symmetric ==
    Permutations(Producers) \cup Permutations(Consumers) \cup Permutations(Closers)
        \cup Permutations(Msgs)
=============================================================================
