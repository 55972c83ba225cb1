--------------------------- MODULE ConversationProofs ---------------------------
(***************************************************************************)
(* Conversations' invariants hold for any people, conversations, messages, *)
(* fetches and bound on the commands under way.                            *)
(***************************************************************************)
EXTENDS Conversations, TLAPS

StoredMessages == {m \in Messages : Stored(m)}
FetchRecord == [pc : {"idle", "sent", "marked", "found"}, in : Conversations \cup {Nobody},
                answer : SUBSET Messages, marked : SUBSET Messages]
Command == [join : BOOLEAN, conversation : Conversations]
Rows == [by : People \cup {Nobody}, in : Conversations \cup {Nobody}, read : BOOLEAN]

(***************************************************************************)
(* The inductive invariant, by the variables it is about.                  *)
(***************************************************************************)
\* A row is unwritten or complete.
RowsOK ==
  /\ row \in [Messages -> Rows]
  /\ \A m \in Messages : row[m] = Unwritten \/ (row[m].by \in People /\ row[m].in \in Conversations)

\* What is notified is stored, and what is answered is notified.
NoticesOK == notices \subseteq StoredMessages /\ told \subseteq notices

RoomOK == room \in [People -> SUBSET Conversations]
CommandsOK == commands \in [People -> Seq(Command)]
InboxOK == inbox \in [People -> Seq(StoredMessages)]

\* The page shows a message once.
PageOK == page \in [People -> [active : Conversations \cup {Nobody}, shown : [Messages -> 0 .. 1]]]

\* How far a request is says what it has done.
SendOK ==
  /\ sending \in [People -> [pc : {"idle", "sent", "stored", "emitted", "noticed"},
                             via : {"none", "http", "socket"},
                             in : Conversations \cup {Nobody},
                             message : Messages \cup {Nobody}]]
  /\ \A p \in People :
       /\ sending[p].pc # "idle" => sending[p].in \in Conversations
       /\ sending[p].pc \in {"stored", "emitted", "noticed"} =>
            sending[p].message \in StoredMessages
       /\ sending[p].pc = "noticed" => sending[p].message \in notices

\* What a fetch has marked is stored where it reads, and then it is in the answer.
FetchOK ==
  /\ fetching \in [People \X Fetches -> FetchRecord]
  /\ \A f \in People \X Fetches :
       /\ fetching[f].pc = "marked" => fetching[f].marked \subseteq StoredIn(fetching[f].in)
       /\ fetching[f].pc = "found" => fetching[f].marked \subseteq fetching[f].answer

ReadingOK == reading \in [People -> SUBSET Conversations]

Inv ==
  /\ RowsOK /\ NoticesOK /\ RoomOK /\ CommandsOK /\ InboxOK
  /\ PageOK /\ SendOK /\ FetchOK /\ ReadingOK

\* The invariant contains what the run checks of messages.
LEMMA InvImplies ==
  ASSUME Inv
  PROVE  ConversationsTypeOK /\ ShownOnce /\ MarkedIsReturned /\ AnsweredIsNotified
<1>1. ConversationsTypeOK
  <2>1. notices \cup told \subseteq StoredMessages
    BY DEF Inv, NoticesOK
  <2>2. page \in [People -> [active : Conversations \cup {Nobody}, shown : [Messages -> 0 .. 2]]]
    BY DEF Inv, PageOK
  <2> QED BY <2>1, <2>2 DEF Inv, ConversationsTypeOK, RowsOK, Rows, RoomOK, CommandsOK, Command,
             InboxOK, SendOK, FetchOK, FetchRecord, ReadingOK,
             StoredMessages
<1>2. ShownOnce
  BY DEF Inv, PageOK, ShownOnce
<1>3. MarkedIsReturned
  BY DEF Inv, FetchOK, MarkedIsReturned
<1>4. AnsweredIsNotified
  BY DEF Inv, NoticesOK, AnsweredIsNotified
<1> QED BY <1>1, <1>2, <1>3, <1>4

\* Nothing sent and nothing shown satisfies the invariant.
LEMMA InitInv == ASSUME Init PROVE Inv
<1> USE DEF Init, ConversationsInit
<1>1. RowsOK
  BY DEF RowsOK, Rows, Unwritten
<1>2. CommandsOK /\ InboxOK
  BY DEF CommandsOK, InboxOK
<1>3. PageOK
  BY DEF PageOK
<1>4. SendOK
  BY DEF SendOK, IdleSend
<1>5. FetchOK
  BY DEF FetchOK, FetchRecord, IdleFetch
<1> QED BY <1>1, <1>2, <1>3, <1>4, <1>5 DEF Inv, NoticesOK, RoomOK, ReadingOK

------------------------------------------------------------------------------
(***************************************************************************)
(* Rows are written once and marked: who wrote a message, and where, stays.*)
(***************************************************************************)
RowsKept ==
  /\ RowsOK'
  /\ \A m \in Messages : Stored(m) => Stored(m)' /\ row'[m].in = row[m].in

\* A step that changes no row keeps every message stored.
LEMMA RowsUnchanged ==
  ASSUME Inv, UNCHANGED row
  PROVE  RowsKept
  BY DEF Inv, RowsKept, RowsOK, Stored

\* Marking as read moves no message and rewrites no sender.
LEMMA MarkKeepsRows ==
  ASSUME Inv, NEW read, MarkRead(read), read \subseteq StoredMessages
  PROVE  RowsKept
<1>1. row \in [Messages -> Rows]
  BY DEF Inv, RowsOK
<1>2. \A m \in Messages :
        /\ row'[m] \in Rows
        /\ row'[m].by = row[m].by /\ row'[m].in = row[m].in
        /\ m \notin read => row'[m] = row[m]
  BY <1>1 DEF MarkRead, Rows
<1>3. row' \in [Messages -> Rows]
  BY <1>2 DEF MarkRead
<1>4. \A m \in Messages : Stored(m) => row[m].by \in People /\ row[m].in \in Conversations
  BY DEF Inv, RowsOK, Stored, Unwritten
<1>5. RowsOK'
  BY <1>2, <1>3, <1>4 DEF Inv, RowsOK, StoredMessages
<1> QED BY <1>2, <1>5 DEF RowsKept, Stored

\* A sequence over a set is one over every larger set.
LEMMA SeqGrows ==
  ASSUME NEW S, NEW T, S \subseteq T, NEW s \in Seq(S)
  PROVE  s \in Seq(T)
  OBVIOUS

\* While rows are kept, what an action leaves alone stays as it should be.
LEMMA Frame ==
  ASSUME Inv, RowsKept
  PROVE  /\ StoredMessages \subseteq StoredMessages'
         /\ \A c : StoredIn(c) \subseteq StoredIn(c)'
         /\ UNCHANGED <<notices, told>> => NoticesOK'
         /\ UNCHANGED room => RoomOK'
         /\ UNCHANGED commands => CommandsOK'
         /\ inbox \in [People -> Seq(StoredMessages')]
         /\ UNCHANGED inbox => InboxOK'
         /\ UNCHANGED page => PageOK'
         /\ UNCHANGED sending /\ notices \subseteq notices' => SendOK'
         /\ UNCHANGED fetching => FetchOK'
         /\ UNCHANGED reading => ReadingOK'
<1>1. StoredMessages \subseteq StoredMessages'
  BY DEF RowsKept, StoredMessages
<1>2. \A c : StoredIn(c) \subseteq StoredIn(c)'
  BY DEF RowsKept, StoredIn
<1>3. inbox \in [People -> Seq(StoredMessages')]
  <2>1. inbox \in [People -> Seq(StoredMessages)]
    BY DEF Inv, InboxOK
  <2>2. \A p \in People : inbox[p] \in Seq(StoredMessages')
    BY <1>1, <2>1, SeqGrows
  <2> QED BY <2>1, <2>2
<1>4. UNCHANGED <<notices, told>> => NoticesOK'
  BY <1>1 DEF Inv, NoticesOK
<1>5. UNCHANGED sending /\ notices \subseteq notices' => SendOK'
  BY <1>1 DEF Inv, SendOK
<1>6. UNCHANGED fetching => FetchOK'
  BY <1>2 DEF Inv, FetchOK
<1>7. /\ UNCHANGED room => RoomOK'
      /\ UNCHANGED commands => CommandsOK'
      /\ UNCHANGED page => PageOK'
      /\ UNCHANGED reading => ReadingOK'
  BY DEF Inv, RoomOK, CommandsOK, PageOK, ReadingOK
<1> QED BY <1>1, <1>2, <1>3, <1>4, <1>5, <1>6, <1>7 DEF InboxOK

------------------------------------------------------------------------------
(***************************************************************************)
(* Every action preserves the invariant.                                   *)
(***************************************************************************)
LEMMA SelectConversationKeeps ==
  ASSUME Inv, NEW p \in People, NEW c \in Conversations, NEW f \in Fetches,
         SelectConversation(p, c, f)
  PROVE  Inv'
<1>1. RowsKept
  BY RowsUnchanged DEF SelectConversation, serverVars
<1>2. CommandsOK'
  <2> DEFINE leave == IF page[p].active = Nobody THEN <<>>
                        ELSE <<[join |-> FALSE, conversation |-> page[p].active]>>
  <2>1. leave \in Seq(Command)
    <3>1. page[p].active # Nobody => [join |-> FALSE, conversation |-> page[p].active] \in Command
      BY DEF Inv, PageOK, Command
    <3> QED BY <3>1
  <2>2. [join |-> TRUE, conversation |-> c] \in Command
    BY DEF Command
  <2>3. commands[p] \o leave \o <<[join |-> TRUE, conversation |-> c]>> \in Seq(Command)
    <3>1. commands[p] \in Seq(Command) /\ <<[join |-> TRUE, conversation |-> c]>> \in Seq(Command)
      BY <2>2 DEF Inv, CommandsOK
    <3> HIDE DEF leave
    <3> QED BY <2>1, <3>1
  <2> QED BY <2>3 DEF Inv, CommandsOK, SelectConversation
<1>3. PageOK'
  BY DEF Inv, PageOK, SelectConversation
<1>4. FetchOK'
  BY <1>1, Frame DEF Inv, FetchOK, FetchRecord, SelectConversation,
     IdleFetch
<1> QED BY <1>1, <1>2, <1>3, <1>4, Frame DEF Inv, RowsKept, SelectConversation, serverVars

\* Sending from the page or from elsewhere keeps the invariant.
LEMMA HandleSendKeeps ==
  ASSUME Inv, NEW p \in People, NEW via \in {"http", "socket"}, NEW c \in Conversations,
         HandleSend(p, via, c)
  PROVE  Inv'
<1>1. RowsKept
  BY RowsUnchanged DEF HandleSend, serverVars
<1>2. SendOK'
  BY <1>1, Frame DEF Inv, SendOK, HandleSend, serverVars
<1> QED BY <1>1, <1>2, Frame DEF Inv, RowsKept, HandleSend, serverVars

\* The answer of a fetch replaces what the page shows: each message once.
LEMMA ReceiveMessagesKeeps ==
  ASSUME Inv, NEW p \in People, NEW f \in Fetches, ReceiveMessages(p, f)
  PROVE  Inv'
<1>1. RowsKept
  BY RowsUnchanged DEF ReceiveMessages, serverVars
<1>2. PageOK'
  <2>1. \E shown \in [Messages -> 0 .. 1] : page' = [page EXCEPT ![p].shown = shown]
    <3>1. /\ [m \in Messages |-> IF m \in fetching[<<p, f>>].answer THEN 1 ELSE 0]
               \in [Messages -> 0 .. 1]
          /\ [m \in Messages |-> 0] \in [Messages -> 0 .. 1]
      OBVIOUS
    <3> QED BY <3>1 DEF ReceiveMessages
  <2> QED BY <2>1 DEF Inv, PageOK
<1>3. FetchOK'
  BY <1>1, Frame DEF Inv, FetchOK, FetchRecord, ReceiveMessages,
     IdleFetch
<1> QED BY <1>1, <1>2, <1>3, Frame DEF Inv, RowsKept, ReceiveMessages, serverVars

\* A fetch takes a step.
LEMMA FetchStep ==
  ASSUME Inv, RowsKept, NEW g \in People \X Fetches, NEW r \in FetchRecord,
         fetching' = [fetching EXCEPT ![g] = r],
         r.pc = "marked" => r.marked \subseteq StoredIn(r.in)',
         r.pc = "found" => r.marked \subseteq r.answer
  PROVE  FetchOK'
<1>1. fetching' \in [People \X Fetches -> FetchRecord] /\ fetching'[g] = r
  BY DEF Inv, FetchOK
<1>2. ASSUME NEW h \in People \X Fetches, h # g
      PROVE  (/\ fetching[h].pc = "marked" => fetching[h].marked \subseteq StoredIn(fetching[h].in)
              /\ fetching[h].pc = "found" => fetching[h].marked \subseteq fetching[h].answer)'
  <2>1. fetching'[h] = fetching[h]
    BY <1>2 DEF Inv, FetchOK
  <2>2. \A m \in StoredIn(fetching[h].in) :
          m \in Messages /\ row'[m].in = fetching[h].in /\ Stored(m)'
    BY DEF RowsKept, StoredIn
  <2> QED BY <2>1, <2>2 DEF Inv, FetchOK, StoredIn
<1> QED BY <1>1, <1>2 DEF FetchOK

\* What a fetch would mark is stored in its conversation.
LEMMA UnreadIsStored ==
  ASSUME NEW p, NEW c
  PROVE  Unread(p, c) \subseteq StoredMessages /\ Unread(p, c) \subseteq StoredIn(c)
  BY DEF Unread, StoredIn, StoredMessages

\* The update and the query of a fetch: the query finds all that was marked.
LEMMA GetConversationMessagesKeeps ==
  ASSUME Inv, NEW p \in People, NEW f \in Fetches, GetConversationMessages(p, f)
  PROVE  Inv'
<1>0. PICK c : c = fetching[<<p, f>>].in
  OBVIOUS
<1>1. RowsKept
  <2>1. MarkRead(Unread(p, c)) \/ UNCHANGED row
    BY <1>0 DEF GetConversationMessages
  <2> QED BY <2>1, UnreadIsStored, MarkKeepsRows, RowsUnchanged
<1>2. FetchOK'
  <2>1. /\ Unread(p, c) \subseteq StoredIn(c)' /\ StoredIn(c) \subseteq Messages
        /\ Unread(p, c) \subseteq Messages
    BY <1>1, Frame, UnreadIsStored DEF StoredIn, Unread
  <2>2. fetching[<<p, f>>] \in FetchRecord
    BY DEF Inv, FetchOK
  <2>3. CASE fetching[<<p, f>>].pc = "sent"
    <3> DEFINE r == [fetching[<<p, f>>] EXCEPT !.pc = "marked", !.marked = Unread(p, c)]
    <3>1. fetching' = [fetching EXCEPT ![<<p, f>>] = r]
      BY <1>0, <2>3 DEF GetConversationMessages
    <3>2. r \in FetchRecord /\ r.pc = "marked" /\ r.in = c /\ r.marked = Unread(p, c)
      BY <1>0, <2>1, <2>2 DEF FetchRecord
    <3> QED BY <1>1, <2>1, <3>1, <3>2, FetchStep
  <2>4. CASE fetching[<<p, f>>].pc = "marked"
    <3> DEFINE r == [fetching[<<p, f>>] EXCEPT !.pc = "found", !.answer = StoredIn(c)]
    <3>1. fetching' = [fetching EXCEPT ![<<p, f>>] = r]
      BY <1>0, <2>4 DEF GetConversationMessages
    <3>2. fetching[<<p, f>>].marked \subseteq StoredIn(c)
      BY <1>0, <2>4 DEF Inv, FetchOK
    <3>3. r \in FetchRecord /\ r.pc = "found" /\ r.marked \subseteq r.answer
      BY <2>1, <2>2, <3>2 DEF FetchRecord
    <3> QED BY <1>1, <3>1, <3>3, FetchStep
  <2> QED BY <2>3, <2>4 DEF GetConversationMessages
<1> QED BY <1>1, <1>2, Frame DEF Inv, RowsKept, GetConversationMessages

\* The request to mark as read keeps the invariant.
LEMMA MarkConversationAsReadKeeps ==
  ASSUME Inv, NEW p \in People, NEW c \in Conversations, MarkConversationAsRead(p, c)
  PROVE  Inv'
<1>1. RowsKept
  BY UnreadIsStored, MarkKeepsRows DEF MarkConversationAsRead
<1>2. ReadingOK'
  BY DEF Inv, ReadingOK, MarkConversationAsRead
<1> QED BY <1>1, <1>2, Frame DEF Inv, RowsKept, MarkConversationAsRead

\* An event adds its message only where the page does not show it.
LEMMA HandleNewMessageKeeps ==
  ASSUME Inv, NEW p \in People, HandleNewMessage(p)
  PROVE  Inv'
<1>1. RowsKept
  BY RowsUnchanged DEF HandleNewMessage, serverVars
<1> DEFINE m == Head(inbox[p])
<1>2. m \in StoredMessages /\ Tail(inbox[p]) \in Seq(StoredMessages)
  BY DEF Inv, InboxOK, HandleNewMessage
<1>3. InboxOK'
  BY <1>1, <1>2, Frame, SeqGrows DEF Inv, InboxOK, HandleNewMessage
<1>4. row[m].in \in Conversations
  BY <1>2 DEF Inv, RowsOK, StoredMessages, Stored, Unwritten
<1>5. PageOK'
  BY <1>2 DEF Inv, PageOK, HandleNewMessage, Show, StoredMessages
<1>6. ReadingOK'
  BY <1>4 DEF Inv, ReadingOK, HandleNewMessage
<1> QED BY <1>1, <1>2, <1>3, <1>4, <1>5, <1>6, Frame DEF Inv, RowsKept, HandleNewMessage, serverVars

\* So does the answer of the sender's own request.
LEMMA ReceiveSentKeeps ==
  ASSUME Inv, NEW p \in People, ReceiveSent(p)
  PROVE  Inv'
<1>1. RowsKept
  BY RowsUnchanged DEF ReceiveSent, serverVars
<1>2. sending[p].message \in notices /\ sending[p].message \in Messages
  BY DEF Inv, SendOK, ReceiveSent, StoredMessages
<1>3. NoticesOK'
  BY <1>1, <1>2, Frame DEF Inv, NoticesOK, ReceiveSent, serverVars
<1>4. PageOK'
  BY <1>2 DEF Inv, PageOK, ReceiveSent, Show
<1>5. SendOK'
  BY <1>1, Frame DEF Inv, SendOK, ReceiveSent, IdleSend, serverVars
<1> QED BY <1>1, <1>2, <1>3, <1>4, <1>5, Frame DEF Inv, RowsKept, ReceiveSent, serverVars

\* Joining and leaving a room keep the invariant.
LEMMA HandleCommandKeeps ==
  ASSUME Inv, NEW p \in People, HandleCommand(p)
  PROVE  Inv'
<1>1. RowsKept
  BY RowsUnchanged DEF HandleCommand
<1>2. Head(commands[p]) \in Command /\ Tail(commands[p]) \in Seq(Command)
  BY DEF Inv, CommandsOK, HandleCommand
<1>3. CommandsOK'
  BY <1>2 DEF Inv, CommandsOK, HandleCommand
<1>4. RoomOK'
  <2>1. Head(commands[p]).conversation \in Conversations
    BY <1>2 DEF Command
  <2> QED BY <2>1 DEF Inv, RoomOK, HandleCommand
<1> QED BY <1>1, <1>2, <1>3, <1>4, Frame DEF Inv, RowsKept, HandleCommand

\* So does the loss of a socket.
LEMMA DisconnectKeeps ==
  ASSUME Inv, NEW p \in People, Disconnect(p)
  PROVE  Inv'
<1>1. RowsKept
  BY RowsUnchanged DEF Disconnect
<1>2. RoomOK'
  BY DEF Inv, RoomOK, Disconnect
<1>3. CommandsOK'
  BY DEF Inv, CommandsOK, Disconnect
<1>4. InboxOK'
  BY <1>1, Frame DEF InboxOK, Disconnect
<1>5. SendOK'
  BY <1>1, Frame DEF Inv, SendOK, Disconnect, IdleSend
<1> QED BY <1>1, <1>2, <1>3, <1>4, <1>5, Frame DEF Inv, RowsKept, Disconnect

\* A message is stored in an unused row.
LEMMA StoreMessageKeeps ==
  ASSUME Inv, NEW p \in People, StoreMessage(p)
  PROVE  Inv'
<1>1. PICK m \in Messages :
        /\ row[m] = Unwritten
        /\ row' = [row EXCEPT ![m] = [by |-> p, in |-> sending[p].in, read |-> FALSE]]
        /\ sending' = [sending EXCEPT ![p].pc = "stored", ![p].message = m]
  BY DEF StoreMessage
<1>2. sending[p].in \in Conversations
  BY DEF Inv, SendOK, StoreMessage
<1>3. RowsOK'
  BY <1>1, <1>2 DEF Inv, RowsOK, Rows
<1>4. ~Stored(m) /\ Stored(m)'
  BY <1>1, PeopleAssumption DEF Inv, RowsOK, Stored, Unwritten
<1>5. RowsKept
  BY <1>1, <1>3, <1>4 DEF Inv, RowsKept, RowsOK, Stored
<1>6. SendOK'
  <2>1. m \in StoredMessages'
    BY <1>4 DEF StoredMessages
  <2>2. \A q \in People : q # p => sending'[q] = sending[q]
    BY <1>1 DEF Inv, SendOK
  <2>3. /\ sending'[p].pc = "stored" /\ sending'[p].via = sending[p].via
        /\ sending'[p].in = sending[p].in /\ sending'[p].message = m
    BY <1>1 DEF Inv, SendOK
  <2> QED BY <1>1, <1>2, <1>5, <2>1, <2>2, <2>3, Frame DEF Inv, SendOK, StoreMessage
<1> QED BY <1>1, <1>2, <1>3, <1>4, <1>5, <1>6, Frame DEF Inv, RowsKept, StoreMessage

\* What is emitted to a room is stored.
LEMMA EmitKeepsInbox ==
  ASSUME Inv, UNCHANGED row, NEW c, NEW m \in StoredMessages, EmitToConversation(c, m)
  PROVE  InboxOK'
<1>1. \A p \in People : Append(inbox[p], m) \in Seq(StoredMessages)
  BY DEF Inv, InboxOK
<1>2. inbox' \in [People -> Seq(StoredMessages)]
  BY <1>1 DEF Inv, InboxOK, EmitToConversation
<1>3. StoredMessages' = StoredMessages
  BY DEF StoredMessages, Stored
<1> QED BY <1>2, <1>3 DEF InboxOK

\* The service's emission keeps the invariant.
LEMMA EmitMessageKeeps ==
  ASSUME Inv, NEW p \in People, EmitMessage(p)
  PROVE  Inv'
<1>1. RowsKept
  BY RowsUnchanged DEF EmitMessage, serverVars
<1>2. InboxOK'
  <2>1. sending[p].message \in StoredMessages
    BY DEF Inv, SendOK, EmitMessage
  <2> QED BY <2>1, EmitKeepsInbox DEF EmitMessage, serverVars
<1>3. SendOK'
  BY <1>1, Frame DEF Inv, SendOK, EmitMessage, serverVars
<1> QED BY <1>1, <1>2, <1>3, Frame DEF Inv, RowsKept, EmitMessage, serverVars

\* So does the second emission by the socket's handler.
LEMMA EmitAgainKeeps ==
  ASSUME Inv, NEW p \in People, EmitAgain(p)
  PROVE  Inv'
<1>1. RowsKept
  BY RowsUnchanged DEF EmitAgain, serverVars
<1>2. InboxOK'
  <2>1. sending[p].message \in StoredMessages
    BY DEF Inv, SendOK, EmitAgain
  <2> QED BY <2>1, EmitKeepsInbox DEF EmitAgain, serverVars
<1>3. SendOK'
  BY <1>1, Frame DEF Inv, SendOK, EmitAgain, IdleSend, serverVars
<1> QED BY <1>1, <1>2, <1>3, Frame DEF Inv, RowsKept, EmitAgain, serverVars

\* The notification precedes the answer.
LEMMA CreateNotificationKeeps ==
  ASSUME Inv, NEW p \in People, CreateNotification(p)
  PROVE  Inv'
<1>1. RowsKept
  BY RowsUnchanged DEF CreateNotification
<1>2. sending[p].message \in StoredMessages
  BY DEF Inv, SendOK, CreateNotification
<1>3. NoticesOK'
  BY <1>1, <1>2, Frame DEF Inv, NoticesOK, CreateNotification
<1>4. SendOK'
  BY <1>1, Frame DEF Inv, SendOK, CreateNotification
<1> QED BY <1>1, <1>2, <1>3, <1>4, Frame DEF Inv, RowsKept, CreateNotification

\* A request that fails tells its sender nothing.
LEMMA FailSendKeeps ==
  ASSUME Inv, NEW p \in People, FailSend(p)
  PROVE  Inv'
<1>1. RowsKept
  BY RowsUnchanged DEF FailSend, serverVars
<1>2. SendOK'
  BY <1>1, Frame DEF Inv, SendOK, FailSend, IdleSend, serverVars
<1> QED BY <1>1, <1>2, Frame DEF Inv, RowsKept, FailSend, serverVars

\* A step that changes nothing keeps the invariant.
LEMMA StutterKeeps ==
  ASSUME Inv, UNCHANGED vars
  PROVE  Inv'
<1>1. RowsKept
  BY RowsUnchanged DEF vars, serverVars
<1> QED BY <1>1, Frame DEF Inv, RowsKept, vars, serverVars

\* Every step keeps the invariant.
LEMMA NextKeeps ==
  ASSUME Inv, [Next]_vars
  PROVE  Inv'
<1>1. CASE UNCHANGED vars
  BY <1>1, StutterKeeps
<1>2. CASE Next
  <2>1. PICK p \in People :
          \/ \E c \in Conversations :
               \/ MarkConversationAsRead(p, c)
               \/ \E f \in Fetches : SelectConversation(p, c, f)
               \/ \E via \in {"http", "socket"} : HandleSend(p, via, c)
          \/ \E f \in Fetches : ReceiveMessages(p, f) \/ GetConversationMessages(p, f)
          \/ HandleNewMessage(p) \/ ReceiveSent(p) \/ HandleCommand(p) \/ Disconnect(p)
          \/ StoreMessage(p) \/ EmitMessage(p) \/ CreateNotification(p) \/ EmitAgain(p)
          \/ FailSend(p)
    BY <1>2 DEF Next
  <2>2. CASE \E c \in Conversations :
               \/ MarkConversationAsRead(p, c)
               \/ \E f \in Fetches : SelectConversation(p, c, f)
               \/ \E via \in {"http", "socket"} : HandleSend(p, via, c)
    BY <2>2, MarkConversationAsReadKeeps, SelectConversationKeeps, HandleSendKeeps
  <2>3. CASE \E f \in Fetches : ReceiveMessages(p, f) \/ GetConversationMessages(p, f)
    BY <2>3, ReceiveMessagesKeeps, GetConversationMessagesKeeps
  <2>4. CASE \/ HandleNewMessage(p) \/ ReceiveSent(p) \/ HandleCommand(p) \/ Disconnect(p)
             \/ StoreMessage(p) \/ EmitMessage(p) \/ CreateNotification(p) \/ EmitAgain(p)
             \/ FailSend(p)
    BY <2>4, HandleNewMessageKeeps, ReceiveSentKeeps, HandleCommandKeeps, DisconnectKeeps,
       StoreMessageKeeps, EmitMessageKeeps, CreateNotificationKeeps, EmitAgainKeeps, FailSendKeeps
  <2> QED BY <2>1, <2>2, <2>3, <2>4
<1> QED BY <1>1, <1>2

\* The inductive invariant of conversations: rows, sockets, fetches and what pages show
\* (messaging.service.ts, socket.ts, MessagesPage.tsx).
THEOREM Invariance == Spec => []Inv
  BY InitInv, NextKeeps, PTL DEF Spec

------------------------------------------------------------------------------
\* The types, and that what is announced, notified or answered is stored
\* (messaging.service.ts:186-243).
THEOREM TypeCorrect == Spec => []ConversationsTypeOK
  BY Invariance, InvImplies, PTL

\* A page shows a message once, however often and in whatever order it arrives
\* (MessagesPage.tsx:37, :143; socket.ts:63-71).
THEOREM MessagesShownOnce == Spec => []ShownOnce
  BY Invariance, InvImplies, PTL

\* No fetch marks as read what it does not return (messaging.service.ts:160-168).
THEOREM MarkedMessagesReturned == Spec => []MarkedIsReturned
  BY Invariance, InvImplies, PTL

\* A sender who has the answer has a recipient with a notification (messaging.service.ts:228).
THEOREM AnsweredMessagesNotified == Spec => []AnsweredIsNotified
  BY Invariance, InvImplies, PTL

==============================================================================
