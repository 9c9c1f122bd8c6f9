----------------------------- MODULE AsyncView -----------------------------
(***************************************************************************)
(* What a page of the frontend holds of a request (useAsync): it is        *)
(* loading, it failed, or it has an answer.  The hook keeps no identity of *)
(* the request: whichever answer arrives is put in the view.               *)
(***************************************************************************)
EXTENDS Sequences

Loading == [status |-> "loading"]
Failed == [status |-> "error"]
Success(data) == [status |-> "success", data |-> data]

Views(Data) == {Loading, Failed} \cup {Success(data) : data \in Data}

\* The effect of a change of the dependencies, or of retry: the view starts
\* again and one more request is under way; no earlier one is cancelled.
Requested(net, request) == Append(net, request)

\* An answer arrives, whichever request it belongs to.
Arrived(data) == Success(data)

=============================================================================
