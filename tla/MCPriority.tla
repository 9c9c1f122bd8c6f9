----------------------------- MODULE MCPriority -----------------------------
(***************************************************************************)
(* Small instances of Priority.  The conversations are about an item that  *)
(* is late.  At 99, two days take their priority from medium to high and   *)
(* on, and the status of the item takes it back; at 600, hour 12 takes it  *)
(* from medium to high.                                                    *)
(***************************************************************************)
EXTENDS Priority

Late == [c \in Conversation |-> "atraso"]
Worth600 == [c \in Conversation |-> 600]
Worth99 == [c \in Conversation |-> 99]

AfterTwoDays == {0, 48}
AroundTwelve == {0, 12, 13}

\* Ops works on the first conversation; the item of the second one moves on, while it
\* is talked in and closed.
OpsAndOthers == <<OpsRequest, {"status", "message", "close"}>>
JustMessages == <<{"message"}>>

=============================================================================
