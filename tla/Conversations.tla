----------------------------- MODULE Conversations -----------------------------
(***************************************************************************)
(* Messages between two people: the server's rows and rooms, the page each *)
(* of them has open, and the ways a message gets from one to the other -   *)
(* the answer of the sender's own request, the socket event to the room,   *)
(* and the fetch of a conversation's messages.                             *)
(*                                                                         *)
(* Commands and events of one socket stay in order.  Requests over HTTP    *)
(* overtake them and each other.                                           *)
(***************************************************************************)
EXTENDS FiniteSets, Integers, Sequences

CONSTANTS
  People,         \* the two participants
  Viewers,        \* those of them with a page open; the others only send
  Conversations,  \* conversations they have
  Messages,       \* identities of message rows, none used twice
  Fetches,        \* fetches of messages a page may have under way
  MaxCommands,    \* bound: socket commands under way when a conversation is selected
  Nobody

ASSUME PeopleAssumption == Viewers \subseteq People /\ Nobody \notin People \cup Conversations

VARIABLES
  row,        \* each message: who wrote it, where, and whether the other has read it
  notices,    \* messages whose recipient has a notification
  room,       \* the conversations whose room each person's socket is in
  commands,   \* join and leave commands on their way to the server
  inbox,      \* new_message events on their way to each page
  page,       \* the conversation a page has selected, and how often it shows a message
  sending,    \* each person's sendMessage request
  fetching,   \* getConversationMessages requests
  reading,    \* conversations a page has asked to mark as read
  told        \* messages whose sender has had the answer

serverVars == <<row, notices, room>>
vars == <<serverVars, commands, inbox, page, sending, fetching, reading, told>>

Unwritten == [by |-> Nobody, in |-> Nobody, read |-> FALSE]
IdleSend == [pc |-> "idle", via |-> "none", in |-> Nobody, message |-> Nobody]
IdleFetch == [pc |-> "idle", in |-> Nobody, answer |-> {}, marked |-> {}]

Stored(m) == row[m].by # Nobody
StoredIn(c) == {m \in Messages : row[m].in = c /\ Stored(m)}

\* Types; and what is announced, notified or answered is stored.
ConversationsTypeOK ==
  /\ row \in [Messages -> [by : People \cup {Nobody}, in : Conversations \cup {Nobody},
                           read : BOOLEAN]]
  /\ notices \cup told \subseteq {m \in Messages : Stored(m)}
  /\ room \in [People -> SUBSET Conversations]
  /\ commands \in [People -> Seq([join : BOOLEAN, conversation : Conversations])]
  /\ inbox \in [People -> Seq({m \in Messages : Stored(m)})]
  /\ page \in [People -> [active : Conversations \cup {Nobody}, shown : [Messages -> 0 .. 2]]]
  /\ sending \in [People -> [pc : {"idle", "sent", "stored", "emitted", "noticed"},
                             via : {"none", "http", "socket"},
                             in : Conversations \cup {Nobody},
                             message : Messages \cup {Nobody}]]
  /\ fetching \in [People \X Fetches -> [pc : {"idle", "sent", "marked", "found"},
                                         in : Conversations \cup {Nobody},
                                         answer : SUBSET Messages, marked : SUBSET Messages]]
  /\ reading \in [People -> SUBSET Conversations]

ConversationsInit ==
  /\ row = [m \in Messages |-> Unwritten]
  /\ notices = {} /\ told = {}
  /\ room = [p \in People |-> {}]
  /\ commands = [p \in People |-> <<>>] /\ inbox = [p \in People |-> <<>>]
  /\ page = [p \in People |-> [active |-> Nobody, shown |-> [m \in Messages |-> 0]]]
  /\ sending = [p \in People |-> IdleSend]
  /\ fetching = [f \in People \X Fetches |-> IdleFetch]
  /\ reading = [p \in People |-> {}]

------------------------------------------------------------------------------
(***************************************************************************)
(* The page.                                                               *)
(***************************************************************************)
\* Selecting a conversation changes rooms and fetches its messages; the old ones stay on
\* the page until the answer.  Selecting the same one again only fetches.
SelectConversation(p, c, f) ==
  LET old == page[p].active
      leave == IF old = Nobody THEN <<>> ELSE <<[join |-> FALSE, conversation |-> old]>>
  IN  /\ p \in Viewers /\ fetching[<<p, f>>] = IdleFetch
      /\ fetching' = [fetching EXCEPT ![<<p, f>>].pc = "sent", ![<<p, f>>].in = c]
      /\ c = old \/ Len(commands[p]) < MaxCommands
      /\ page' = [page EXCEPT ![p].active = c]
      /\ commands' = IF c = old THEN commands
           ELSE [commands EXCEPT ![p] = @ \o leave \o <<[join |-> TRUE, conversation |-> c]>>]
      /\ UNCHANGED <<serverVars, inbox, sending, reading, told>>

\* Mutation: the message is appended without removing the one shown already.
ShowAgain(p, m) == [page EXCEPT ![p].shown[m] = @ + 1]

\* [...prev.filter((m) => m.id !== newMsg.id), newMsg]
Show(p, m) == [page EXCEPT ![p].shown[m] = 1]

\* Events of a conversation that is no longer selected are dropped.  A message of the
\* other's makes the page ask to mark the conversation as read.
HandleNewMessage(p) ==
  LET m == Head(inbox[p])
      c == row[m].in
  IN  /\ inbox[p] # <<>>
      /\ inbox' = [inbox EXCEPT ![p] = Tail(@)]
      /\ \/ c # page[p].active /\ UNCHANGED <<page, reading>>
         \/ /\ c = page[p].active
            /\ page' = Show(p, m)
            /\ reading' = IF row[m].by = p THEN reading
                                           ELSE [reading EXCEPT ![p] = @ \cup {c}]
      /\ UNCHANGED <<serverVars, commands, sending, fetching, told>>

\* The answer of a fetch replaces what is shown; a failed one clears the page.
ReceiveMessages(p, f) ==
  /\ \/ fetching[<<p, f>>].pc = "found"
        /\ page' = [page EXCEPT ![p].shown =
                     [m \in Messages |-> IF m \in fetching[<<p, f>>].answer THEN 1 ELSE 0]]
     \/ fetching[<<p, f>>].pc # "idle"
        /\ page' = [page EXCEPT ![p].shown = [m \in Messages |-> 0]]
  /\ fetching' = [fetching EXCEPT ![<<p, f>>] = IdleFetch]
  /\ UNCHANGED <<serverVars, commands, inbox, sending, reading, told>>

\* A message is sent by the page's form, or by a client's send_message event.
HandleSend(p, via, c) ==
  /\ sending[p] = IdleSend
  /\ p \in Viewers => page[p].active = c
  /\ sending' = [sending EXCEPT ![p] =
       [pc |-> "sent", via |-> via, in |-> c, message |-> Nobody]]
  /\ UNCHANGED <<serverVars, commands, inbox, page, fetching, reading, told>>

ReceiveSent(p) ==
  /\ sending[p].pc = "noticed" /\ sending[p].via = "http"
  /\ page' = IF p \in Viewers THEN Show(p, sending[p].message) ELSE page
  /\ told' = told \cup {sending[p].message}
  /\ sending' = [sending EXCEPT ![p] = IdleSend]
  /\ UNCHANGED <<serverVars, commands, inbox, fetching, reading>>

------------------------------------------------------------------------------
(***************************************************************************)
(* The server.                                                             *)
(***************************************************************************)
EmitToConversation(c, m) ==
  inbox' = [p \in People |-> IF c \in room[p] THEN Append(inbox[p], m) ELSE inbox[p]]

\* Joins and leaves, in the order they were sent.
HandleCommand(p) ==
  LET command == Head(commands[p])
      c == command.conversation
  IN  /\ commands[p] # <<>>
      /\ commands' = [commands EXCEPT ![p] = Tail(@)]
      /\ room' = [room EXCEPT ![p] = IF command.join THEN @ \cup {c} ELSE @ \ {c}]
      /\ UNCHANGED <<row, notices, inbox, page, sending, fetching, reading, told>>

\* The connection breaks: its rooms and what is on its way are lost.  The socket that
\* replaces it is in no room until the page selects another conversation.
Disconnect(p) ==
  /\ p \in Viewers
  /\ room' = [room EXCEPT ![p] = {}]
  /\ commands' = [commands EXCEPT ![p] = <<>>]
  /\ inbox' = [inbox EXCEPT ![p] = <<>>]
  /\ sending' = IF sending[p].via = "socket" THEN [sending EXCEPT ![p] = IdleSend] ELSE sending
  /\ UNCHANGED <<row, notices, page, fetching, reading, told>>

\* Mutation: the message is announced although its transaction was rolled back.
StoreNothing(p) ==
  /\ sending[p].pc = "sent"
  /\ \E m \in Messages :
       /\ row[m] = Unwritten
       /\ sending' = [sending EXCEPT ![p].pc = "stored", ![p].message = m]
  /\ UNCHANGED <<serverVars, commands, inbox, page, fetching, reading, told>>

\* sendMessage: the transaction, the event to the room, the notification.
StoreMessage(p) ==
  /\ sending[p].pc = "sent"
  /\ \E m \in Messages :
       /\ row[m] = Unwritten
       /\ row' = [row EXCEPT ![m] = [by |-> p, in |-> sending[p].in, read |-> FALSE]]
       /\ sending' = [sending EXCEPT ![p].pc = "stored", ![p].message = m]
  /\ UNCHANGED <<notices, room, commands, inbox, page, fetching, reading, told>>

EmitMessage(p) ==
  /\ sending[p].pc = "stored"
  /\ EmitToConversation(sending[p].in, sending[p].message)
  /\ sending' = [sending EXCEPT ![p].pc = "emitted"]
  /\ UNCHANGED <<serverVars, commands, page, fetching, reading, told>>

\* Mutation: the notification is not waited for.
AnswerFirst(p) ==
  /\ sending[p].pc = "emitted"
  /\ notices' \in {notices, notices \cup {sending[p].message}}
  /\ sending' = [sending EXCEPT ![p].pc = "noticed"]
  /\ UNCHANGED <<row, room, commands, inbox, page, fetching, reading, told>>

CreateNotification(p) ==
  /\ sending[p].pc = "emitted"
  /\ notices' = notices \cup {sending[p].message}
  /\ sending' = [sending EXCEPT ![p].pc = "noticed"]
  /\ UNCHANGED <<row, room, commands, inbox, page, fetching, reading, told>>

\* The handler of the socket event sends the message to the room a second time.
EmitAgain(p) ==
  /\ sending[p].pc = "noticed" /\ sending[p].via = "socket"
  /\ EmitToConversation(sending[p].in, sending[p].message)
  /\ sending' = [sending EXCEPT ![p] = IdleSend]
  /\ UNCHANGED <<serverVars, commands, page, fetching, reading, told>>

\* A restricted sender is refused, the server fails, or the answer is lost: the page
\* offers the text for sending again.
FailSend(p) ==
  /\ sending[p].pc # "idle"
  /\ sending' = [sending EXCEPT ![p] = IdleSend]
  /\ UNCHANGED <<serverVars, commands, inbox, page, fetching, reading, told>>

\* What a person has not read of a conversation.
Unread(p, c) == {m \in StoredIn(c) : row[m].by # p /\ ~row[m].read}
MarkRead(read) ==
  row' = [m \in Messages |-> IF m \in read THEN [row[m] EXCEPT !.read = TRUE] ELSE row[m]]

MarkConversationAsRead(p, c) ==
  /\ c \in reading[p]
  /\ MarkRead(Unread(p, c))
  /\ reading' = [reading EXCEPT ![p] = @ \ {c}]
  /\ UNCHANGED <<notices, room, commands, inbox, page, sending, fetching, told>>

\* Mutation: the messages are found first and marked after.
GetMessagesSwapped(p, f) ==
  LET c == fetching[<<p, f>>].in
      read == Unread(p, c)
  IN  /\ \/ /\ fetching[<<p, f>>].pc = "sent"
            /\ fetching' = [fetching EXCEPT ![<<p, f>>].pc = "marked",
                                            ![<<p, f>>].answer = StoredIn(c)]
            /\ UNCHANGED row
         \/ /\ fetching[<<p, f>>].pc = "marked"
            /\ MarkRead(read)
            /\ fetching' = [fetching EXCEPT ![<<p, f>>].pc = "found", ![<<p, f>>].marked = read]
      /\ UNCHANGED <<notices, room, commands, inbox, page, sending, reading, told>>

\* getConversationMessages: the update that marks, and the query.
GetConversationMessages(p, f) ==
  LET c == fetching[<<p, f>>].in
      read == Unread(p, c)
  IN  /\ \/ /\ fetching[<<p, f>>].pc = "sent"
            /\ MarkRead(read)
            /\ fetching' = [fetching EXCEPT ![<<p, f>>].pc = "marked", ![<<p, f>>].marked = read]
         \/ /\ fetching[<<p, f>>].pc = "marked"
            /\ fetching' = [fetching EXCEPT ![<<p, f>>].pc = "found",
                                            ![<<p, f>>].answer = StoredIn(c)]
            /\ UNCHANGED row
      /\ UNCHANGED <<notices, room, commands, inbox, page, sending, reading, told>>

------------------------------------------------------------------------------
Next ==
  \E p \in People :
    \/ \E c \in Conversations :
         \/ MarkConversationAsRead(p, c)
         \/ \E f \in Fetches : SelectConversation(p, c, f)
         \/ \E via \in {"http", "socket"} : HandleSend(p, via, c)
    \/ \E f \in Fetches : ReceiveMessages(p, f) \/ GetConversationMessages(p, f)
    \/ HandleNewMessage(p) \/ ReceiveSent(p) \/ HandleCommand(p) \/ Disconnect(p)
    \/ StoreMessage(p) \/ EmitMessage(p) \/ CreateNotification(p) \/ EmitAgain(p)
    \/ FailSend(p)

Init == ConversationsInit

Spec == Init /\ [][Next]_vars

------------------------------------------------------------------------------
\* A page shows a message once, although the same message reaches it by the answer of its
\* own request, by one or two socket events and by fetches, in any order
\* (MessagesPage.tsx:37, :143; socket.ts:63-71).
ShownOnce == \A p \in People, m \in Messages : page[p].shown[m] <= 1

\* No fetch marks as read what it does not return (messaging.service.ts:160-168), although
\* messages are stored between its statements.
MarkedIsReturned ==
  \A f \in People \X Fetches :
    fetching[f].pc = "found" => fetching[f].marked \subseteq fetching[f].answer

\* A sender who has the answer has a recipient with a notification.
AnsweredIsNotified == told \subseteq notices

==============================================================================
