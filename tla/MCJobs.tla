------------------------------- MODULE MCJobs -------------------------------
(***************************************************************************)
(* Small instances of Jobs.  A change of status tells the buyer and the    *)
(* seller; a change of priority is an alert, tells the seller and Ops, and *)
(* is mailed to the seller.  The seller of the item of the silent change   *)
(* has no user: Ops are told, and no seller is there to be mailed.         *)
(***************************************************************************)
EXTENDS Jobs, TLC

CONSTANTS moved, raised, silent, buyer, seller, ops, mail

Symmetry == Permutations(Worker)

Told(c) ==
  IF c = moved THEN {buyer, seller} ELSE IF c = silent THEN {ops} ELSE {seller, ops}

Mail(c) == IF c = silent THEN None ELSE mail

=============================================================================
