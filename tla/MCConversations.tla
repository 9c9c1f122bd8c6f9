--------------------------- MODULE MCConversations ---------------------------
(***************************************************************************)
(* Small instances of Conversations: one order item is enough, since no    *)
(* request looks at two; two conversations of it, so that one can follow   *)
(* the other.  Inactivity takes a tick or two: the clock has to pass the   *)
(* limit once before and once after a message.                             *)
(***************************************************************************)
EXTENDS Conversations, TLC

CreateAndList == {"create", "list"}

ThreadSymmetry == Permutations(Thread)

=============================================================================
