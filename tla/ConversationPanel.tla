------------------------- MODULE ConversationPanel -------------------------
(***************************************************************************)
(* The conversation panel of an order item, as the buyer or the seller     *)
(* sees it, over the conversations the API keeps: the list is fetched once,*)
(* one conversation is selected, its messages come in windows of time, and *)
(* messages, closures and openings are sent while other requests are in    *)
(* flight.  Nothing is polled: what the other party does is seen at the    *)
(* next load.                                                              *)
(***************************************************************************)
EXTENDS FiniteSetsExt, SequencesExt

CONSTANTS
    Histories,         \* the conversations of the item when the panel opens
    MessageWindow,     \* 24 hours, in units of time
    StartTime,
    MaxTime,
    MaxConversations,
    MaxRequests,       \* requests in flight at once
    MaxClicks          \* gestures of the user

Messages == [at : Nat, by : {"buyer", "seller", "system", "other"}]
Conversations == [status : {"open", "closed"}, opened : Nat, thread : Seq(Messages)]

\* Messages in the order of their times, no two at the same.
Ordered(thread) == \A i, j \in DOMAIN thread : i < j => thread[i].at < thread[j].at

\* What the constants must be: an item has one open conversation at most, and
\* nothing is written yet that the clock has not reached.
PanelConstants ==
    /\ StartTime \in Nat /\ MaxTime \in Nat /\ StartTime <= MaxTime
    /\ MessageWindow \in Nat /\ MaxRequests \in Nat \ {0}
    /\ \A rows \in Histories :
          /\ rows \in Seq(Conversations)
          /\ \A c, d \in DOMAIN rows : rows[c].status = "open" /\ rows[d].status = "open" => c = d
          /\ \A c \in DOMAIN rows :
                /\ Ordered(rows[c].thread)
                /\ \A i \in DOMAIN rows[c].thread : rows[c].thread[i].at < StartTime

VARIABLES
    viewer,            \* "buyer" or "seller"
    server,            \* the conversations, oldest first: status, opening time, messages
    now,
    listing,           \* the list of conversations: loading, error or loaded
    selected,          \* the conversation shown, as last answered; id 0 for none
    messages,          \* the messages shown
    hasOlder,
    loadingMessages, messagesError,
    opening, sending, closing,   \* buttons that wait for their answer
    net,               \* requests in flight
    crossed,           \* history: since the thread was last emptied, two requests
                       \* that change the messages shown were in flight together
    clicks

panelVars == <<viewer, server, now, listing, selected, messages, hasOlder,
               loadingMessages, messagesError, opening, sending, closing,
               net, crossed, clicks>>

-----------------------------------------------------------------------------
(* The API, as the panel uses it *)

Open == {c \in DOMAIN server : server[c].status = "open"}

Said(c, by) == [server EXCEPT ![c].thread = Append(@, [at |-> now, by |-> by])]

\* Inactivity closes with a system message.
Expired(c) == [Said(c, "system") EXCEPT ![c].status = "closed"]

\* Reading a conversation closes it first if it has been silent for too long:
\* what a read of some conversations may find, or make.
Reads(conversations) ==
    {[rows |-> server, at |-> now]} \cup
        {[rows |-> Expired(c), at |-> now + 1] :
            c \in {d \in Open \cap conversations : now < MaxTime}}

LastInteraction(conversation) ==
    IF conversation.thread = <<>> THEN conversation.opened ELSE Last(conversation.thread).at

NoConversation == [id |-> 0, status |-> "none"]
Conversation(rows, c) == [id |-> c, status |-> rows[c].status]

\* The list comes by last interaction; the open one is taken, else the first.
Preferred(rows) ==
    LET open == {c \in DOMAIN rows : rows[c].status = "open"}
        latest(c) == \A d \in DOMAIN rows : LastInteraction(rows[d]) <= LastInteraction(rows[c])
    IN  CASE rows = <<>> -> NoConversation
          [] open # {}   -> Conversation(rows, CHOOSE c \in open : TRUE)
          [] OTHER       -> Conversation(rows, CHOOSE c \in DOMAIN rows : latest(c))

\* How many messages of a thread were written before a time: the first ones.
WrittenBefore(thread, time) == Cardinality({i \in DOMAIN thread : thread[i].at < time})

\* The messages of a window: the last 24 hours, or the 24 hours before a time.
Window(thread, time, before) ==
    LET from == IF before = -1 THEN time - MessageWindow ELSE before - MessageWindow
        older == WrittenBefore(thread, from)
        last == IF before = -1 THEN Len(thread) ELSE WrittenBefore(thread, before)
    IN  [items |-> SubSeq(thread, older + 1, last), has_older |-> older > 0]

-----------------------------------------------------------------------------
Pending == [status |-> "pending"]
Ok(data) == [status |-> "ok", data |-> data]
Refused == [status |-> "refused"]

ListRequest == [op |-> "list", answer |-> Pending]
MessagesRequest(c, before, older) ==
    [op |-> "messages", conv |-> c, before |-> before, older |-> older, answer |-> Pending]
MutationRequest(op, c) == [op |-> op, conv |-> c, answer |-> Pending]

\* The requests whose answer changes the messages shown.
TouchesThread(request) == request.op \in {"messages", "send"}

Overlaps(request, pipe) ==
    TouchesThread(request) /\ \E i \in DOMAIN pipe : TouchesThread(pipe[i])

Issue(request) ==
    /\ net' = Append(net, request)
    /\ crossed' = (crossed \/ Overlaps(request, net))

Init ==
    /\ viewer \in {"buyer", "seller"}
    /\ server \in Histories
    /\ now = StartTime
    /\ listing = "loading"
    /\ selected = NoConversation
    /\ messages = <<>>
    /\ hasOlder = FALSE /\ loadingMessages = FALSE /\ messagesError = FALSE
    /\ opening = FALSE /\ sending = FALSE /\ closing = FALSE
    /\ net = <<ListRequest>>
    /\ crossed = FALSE
    /\ clicks = 0

-----------------------------------------------------------------------------
(* The user *)

Click ==
    /\ clicks < MaxClicks /\ clicks' = clicks + 1
    /\ Len(net) < MaxRequests
    /\ UNCHANGED <<viewer, server, now, selected, messages, hasOlder>>

HasThread == listing = "loaded" /\ selected # NoConversation

RetryList ==
    /\ Click
    /\ listing = "error"
    /\ listing' = "loading"
    /\ Issue(ListRequest)
    /\ UNCHANGED <<loadingMessages, messagesError, opening, sending, closing>>

\* loadMessages: the button says "loading", the last error goes.
LoadMessages(c, before, older) ==
    /\ loadingMessages' = TRUE
    /\ messagesError' = FALSE
    /\ Issue(MessagesRequest(c, before, older))

\* "Carregar mais antigas": from the first message shown, if there is one.
LoadOlder ==
    /\ Click
    /\ HasThread /\ hasOlder /\ ~loadingMessages
    /\ LoadMessages(selected.id, IF messages = <<>> THEN -1 ELSE messages[1].at, TRUE)
    /\ UNCHANGED <<listing, opening, sending, closing>>

RetryMessages ==
    /\ Click
    /\ HasThread /\ messagesError
    /\ LoadMessages(selected.id, -1, FALSE)
    /\ UNCHANGED <<listing, opening, sending, closing>>

\* The form to open a conversation shows when there is none or it is closed.
HandleOpenConversation ==
    /\ Click
    /\ listing = "loaded" /\ selected.status # "open" /\ ~opening
    /\ opening' = TRUE
    /\ Issue(MutationRequest("open", 0))
    /\ UNCHANGED <<listing, loadingMessages, messagesError, sending, closing>>

HandleSend ==
    /\ Click
    /\ HasThread /\ selected.status = "open" /\ ~sending
    /\ sending' = TRUE
    /\ Issue(MutationRequest("send", selected.id))
    /\ UNCHANGED <<listing, loadingMessages, messagesError, opening, closing>>

\* Only the seller has the button.
HandleClose ==
    /\ Click
    /\ HasThread /\ selected.status = "open" /\ viewer = "seller" /\ ~closing
    /\ closing' = TRUE
    /\ Issue(MutationRequest("close", selected.id))
    /\ UNCHANGED <<listing, loadingMessages, messagesError, opening, sending>>

-----------------------------------------------------------------------------
(* The API answers; what it writes it writes whether or not the answer is   *)
(* ever seen.                                                               *)

ClientUnchanged ==
    UNCHANGED <<viewer, listing, selected, messages, hasOlder, loadingMessages,
                messagesError, opening, sending, closing, crossed, clicks>>

Answered(i, answer) == net' = [net EXCEPT ![i].answer = answer]
Waits(i, op) == net[i].op = op /\ net[i].answer = Pending

ServeList(i) ==
    /\ Waits(i, "list")
    /\ \E found \in Reads(DOMAIN server) :
          /\ server' = found.rows /\ now' = found.at
          /\ Answered(i, Ok(Preferred(found.rows)))

ServeMessages(i) ==
    /\ Waits(i, "messages")
    /\ \E found \in Reads({net[i].conv}) :
          /\ server' = found.rows /\ now' = found.at
          /\ Answered(i, Ok(Window(found.rows[net[i].conv].thread, found.at, net[i].before)))

\* Refused when the conversation is closed, or was silent for too long: its
\* closure is then undone with the request.
ServeSend(i) ==
    /\ Waits(i, "send")
    /\ \/ /\ net[i].conv \in Open
          /\ now < MaxTime /\ now' = now + 1
          /\ server' = Said(net[i].conv, viewer)
          /\ Answered(i, Ok([at |-> now, by |-> viewer]))
       \/ Answered(i, Refused) /\ UNCHANGED <<server, now>>

ServeClose(i) ==
    /\ Waits(i, "close")
    /\ \/ /\ net[i].conv \in Open
          /\ server' = [server EXCEPT ![net[i].conv].status = "closed"]
          /\ Answered(i, Ok([id |-> net[i].conv, status |-> "closed"]))
       \/ Answered(i, Refused) /\ UNCHANGED server
    /\ UNCHANGED now

\* The open conversation is reused, or one is opened.
ServeOpen(i) ==
    /\ Waits(i, "open")
    /\ IF Open # {}
       THEN Answered(i, Ok(Preferred(server))) /\ UNCHANGED <<server, now>>
       ELSE /\ Len(server) < MaxConversations
            /\ now < MaxTime /\ now' = now + 1
            /\ server' = Append(server, [status |-> "open", opened |-> now, thread |-> <<>>])
            /\ Answered(i, Ok([id |-> Len(server) + 1, status |-> "open"]))

-----------------------------------------------------------------------------
(* The answers reach the panel, in any order *)

\* Mutant of Select: the messages stay until those of the conversation come.
SelectOverMessages(pipe, conversation) ==
    /\ selected' = conversation
    /\ IF conversation = NoConversation
       THEN net' = pipe /\ UNCHANGED <<messages, loadingMessages, messagesError, crossed>>
       ELSE LET request == MessagesRequest(conversation.id, -1, FALSE)
            IN  /\ loadingMessages' = TRUE /\ messagesError' = FALSE
                /\ net' = Append(pipe, request)
                /\ crossed' = Overlaps(request, pipe)
                /\ UNCHANGED messages

\* setSelected with a conversation: the thread is emptied and loaded again.
Select(pipe, conversation) ==
    /\ selected' = conversation
    /\ IF conversation = NoConversation
       THEN net' = pipe /\ UNCHANGED <<messages, loadingMessages, messagesError, crossed>>
       ELSE LET request == MessagesRequest(conversation.id, -1, FALSE)
            IN  /\ messages' = <<>>
                /\ loadingMessages' = TRUE /\ messagesError' = FALSE
                /\ net' = Append(pipe, request)
                /\ crossed' = Overlaps(request, pipe)

ServerUnchanged == UNCHANGED <<viewer, server, now, clicks>>
Comes(i, op) == net[i].op = op /\ net[i].answer.status = "ok" /\ ServerUnchanged

ShowList(i) ==
    /\ Comes(i, "list")
    /\ listing' = "loaded"
    /\ Select(RemoveAt(net, i), net[i].answer.data)
    /\ UNCHANGED <<hasOlder, opening, sending, closing>>

\* A window before a time goes in front of what is shown, the last one replaces
\* it, and neither looks at which conversation is selected now.
ShowMessages(i) ==
    /\ Comes(i, "messages")
    /\ LET window == net[i].answer.data
       IN  /\ messages' = IF net[i].before = -1 THEN window.items ELSE window.items \o messages
           /\ hasOlder' = window.has_older
    /\ loadingMessages' = FALSE
    /\ net' = RemoveAt(net, i)
    /\ UNCHANGED <<listing, selected, messagesError, opening, sending, closing, crossed>>

ShowSent(i) ==
    /\ Comes(i, "send")
    /\ messages' = Append(messages, net[i].answer.data)
    /\ sending' = FALSE
    /\ net' = RemoveAt(net, i)
    /\ UNCHANGED <<listing, selected, hasOlder, loadingMessages, messagesError,
                   opening, closing, crossed>>

ShowClosed(i) ==
    /\ Comes(i, "close")
    /\ closing' = FALSE
    /\ Select(RemoveAt(net, i), net[i].answer.data)
    /\ UNCHANGED <<listing, hasOlder, opening, sending>>

ShowOpened(i) ==
    /\ Comes(i, "open")
    /\ opening' = FALSE
    /\ Select(RemoveAt(net, i), net[i].answer.data)
    /\ UNCHANGED <<listing, hasOlder, sending, closing>>

\* A refusal, or an answer that is lost at any moment: the button is free again.
ShowError(i) ==
    /\ net[i].answer.status \in {"refused", "pending", "ok"}
    /\ listing' = IF net[i].op = "list" THEN "error" ELSE listing
    /\ messagesError' = (messagesError \/ net[i].op = "messages")
    /\ loadingMessages' = (loadingMessages /\ net[i].op # "messages")
    /\ opening' = (opening /\ net[i].op # "open")
    /\ sending' = (sending /\ net[i].op # "send")
    /\ closing' = (closing /\ net[i].op # "close")
    /\ net' = RemoveAt(net, i)
    /\ UNCHANGED <<selected, messages, hasOlder, crossed>>
    /\ ServerUnchanged

-----------------------------------------------------------------------------
(* The rest of the world *)

Elsewhere == UNCHANGED net /\ ClientUnchanged

OtherWrites(c) ==
    /\ c \in Open /\ now < MaxTime
    /\ server' = Said(c, "other") /\ now' = now + 1
    /\ Elsewhere

\* The other party closes, or another session of this one.
OtherCloses(c) ==
    /\ c \in Open
    /\ server' = [server EXCEPT ![c].status = "closed"]
    /\ UNCHANGED now
    /\ Elsewhere

\* The job that closes idle conversations, or the read of another session.
Expires(c) ==
    /\ c \in Open /\ now < MaxTime
    /\ server' = Expired(c)
    /\ now' = now + 1
    /\ Elsewhere

Tick == now < MaxTime /\ now' = now + 1 /\ UNCHANGED server /\ Elsewhere

Next ==
    \/ RetryList \/ LoadOlder \/ RetryMessages
    \/ HandleOpenConversation \/ HandleSend \/ HandleClose
    \/ \E i \in DOMAIN net :
          \/ (ServeList(i) /\ ClientUnchanged) \/ (ServeMessages(i) /\ ClientUnchanged)
          \/ (ServeSend(i) /\ ClientUnchanged) \/ (ServeClose(i) /\ ClientUnchanged)
          \/ (ServeOpen(i) /\ ClientUnchanged)
          \/ ShowList(i) \/ ShowMessages(i) \/ ShowSent(i) \/ ShowClosed(i) \/ ShowOpened(i)
          \/ ShowError(i)
    \/ \E c \in DOMAIN server : OtherWrites(c) \/ OtherCloses(c) \/ Expires(c)
    \/ Tick

Spec == Init /\ [][Next]_panelVars

-----------------------------------------------------------------------------
(* Properties *)

\* The type invariant of the panel.
TypeOK ==
    /\ listing \in {"loading", "error", "loaded"}
    /\ selected.id \in 0..Len(server)
    /\ Cardinality(Open) <= 1
    /\ {hasOlder, loadingMessages, messagesError, opening, sending, closing, crossed}
           \subseteq BOOLEAN
    /\ Len(net) <= MaxRequests
    /\ loadingMessages => \E i \in DOMAIN net : net[i].op = "messages"
    /\ now \in StartTime..MaxTime

\* Unless two requests that change the messages shown were in flight together
\* since the thread was last emptied, the panel shows messages of the selected conversation
\* and no other, in their order, each once: whatever was sent, closed, opened
\* again or loaded in pages, and whatever the other party did meanwhile
\* (ConversationPanel.tsx:101, 143).
PanelTellsTheThread ==
    (selected # NoConversation /\ ~crossed) =>
        /\ \A i \in DOMAIN messages : \E k \in DOMAIN server[selected.id].thread :
               messages[i] = server[selected.id].thread[k]
        /\ Ordered(messages)

\* An answer to "Carregar mais antigas", which is offered while there are older
\* messages, brings one if it crossed nothing (ConversationPanel.tsx:239).
OlderBringsMore ==
    \A i \in DOMAIN net :
        (net[i].op = "messages" /\ net[i].older /\ ~crossed /\ ShowMessages(i))
            => Len(messages') > Len(messages)

=============================================================================
