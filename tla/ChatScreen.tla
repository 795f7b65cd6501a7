----------------------------- MODULE ChatScreen ------------------------------
(***************************************************************************)
(* The chat screen of the client: the contact list, the open chat and its  *)
(* messages.  The UI thread fills and replaces them in answer to the user, *)
(* the listener thread extends them when the server pushes a message, and  *)
(* neither takes a lock.                                                   *)
(*                                                                         *)
(* Both lists are an array and a count.  A thread that appends reads the   *)
(* count, writes the place after the last one, and increments the count,   *)
(* which is a load and a store; between these the listener may spend two   *)
(* seconds asking the server for a name it will not get.  The appends of   *)
(* the UI thread are one step to the place and one to the count, and those *)
(* of a history, between which the UI thread looks at the count over and   *)
(* over, one more for the test.                                            *)
(*                                                                         *)
(* A request of the UI thread is a command, an answer that the listener    *)
(* puts into the one response slot, and the look at the slot; what other   *)
(* requests do to the slot is in ClientRequests.  The requests for names   *)
(* of the UI thread only take time.                                        *)
(*                                                                         *)
(* A history longer than the buffer of recv arrives in two parts, of which *)
(* the first is taken for the whole.  Nothing keeps users from finding     *)
(* themselves: what they send to themselves is pushed back to them before  *)
(* it is acknowledged.                                                     *)
(*                                                                         *)
(* The identifiers of users and of rooms are both numbers from 1: a room   *)
(* and a user may have the same one.                                       *)
(***************************************************************************)
EXTENDS Integers, FiniteSets, SequencesExt

CONSTANTS Users,         \* the other users
          Groups,        \* the rooms there are or will be
          Members,       \* the other users who write in the rooms
          Me,            \* g_my_user_id
          MaxContacts,   \* the places of g_contacts (1024)
          MaxShown,      \* the places of g_chat_messages (2048)
          Stores,        \* what the server may have saved before
          MaxSent,       \* bound: how many messages are sent, by anyone
          MaxActions     \* bound: how many requests the user makes

ASSUME ChatScreenAssumption ==
    /\ Users \subseteq Nat \ {0} /\ Groups \subseteq Nat \ {0}
    /\ Members \subseteq Users
    /\ Me \in Nat \ (Users \cup {0})
    /\ MaxContacts \in Nat \ {0} /\ MaxShown \in Nat \ {0}
    /\ MaxSent \in Nat /\ MaxActions \in Nat

VARIABLES
    contacts,   \* g_contacts and g_contact_count
    rooms,      \* g_rooms
    chat,       \* g_current_chat_contact_id and g_is_current_chat_room
    title,      \* what g_current_chat_contact_name names
    list,       \* g_chat_messages and g_chat_message_count
    found,      \* g_new_chat_found_user_id, once a search has found somebody
    ui, listener,   \* the two threads
    answer,     \* g_last_response
    requests, wire, \* between the client and the server, in both directions
    serving,    \* the answer the server has computed and not written
    store,      \* the messages the server has saved
    pending,    \* those it has still to push to this client
    joined,     \* the rooms of which the user is a member
    actions,    \* how many requests the user has made
    loaded,     \* history: the open chat was loaded from its history, and all of it
    late,       \* history: a request of the UI thread went without its answer
    handled,    \* history: the messages the client is done with
    raced,      \* history: both threads have been adding contacts
    mixed,      \* history: both threads have been changing this list
    straddled   \* history: messages under way while the chat was opened

server == <<requests, wire, serving, store, pending, joined>>
history == <<raced, mixed, straddled>>
vars == <<contacts, rooms, chat, title, list, found, ui, listener, answer, server,
          actions, loaded, late, handled, history>>

NoId == -1
DM(u) == [id |-> u, room |-> FALSE]
Room(g) == [id |-> g, room |-> TRUE]
Chats == {DM(u) : u \in Users \cup {Me}} \cup {Room(g) : g \in Groups}

\* What was saved before is numbered in the order in which it was saved.
ASSUME StoresAssumption ==
    /\ Stores \subseteq Seq([n : Nat, from : Users \cup {Me}, to : Chats])
    /\ \A s \in Stores : Len(s) <= MaxSent /\ \A i \in DOMAIN s : s[i].n = i

\* A message, with the chat in which this client shows it.
Message(n, from, to) == [n |-> n, from |-> from, to |-> to]
NoMessage == Message(0, 0, DM(0))

\* An answer; part is history: it is the first part of a longer one.
Answer(kind, ok, data) ==
    [what |-> "answer", kind |-> kind, ok |-> ok, data |-> data, part |-> FALSE]
Rest == Answer("rest", FALSE, 0)
NoAnswer == Answer("none", FALSE, 0)
Push(m) == [what |-> "push", message |-> m]

\* The contents of an array up to its count, past its end included.
Listed == {contacts.slot[i] : i \in 1..contacts.count}
Shown == {list.slot[i] : i \in 1..list.count}

Quiet == [pc |-> "idle", kind |-> "none", arg |-> 0, message |-> NoMessage, todo |-> <<>>]

Init == /\ contacts = [slot |-> [i \in 1..MaxContacts + 1 |-> 0], count |-> 0]
        /\ rooms = {}
        /\ chat = DM(NoId)
        /\ title = DM(NoId)
        /\ list = [slot |-> [i \in 1..MaxShown + 1 |-> NoMessage], count |-> 0]
        /\ found = NoId
        /\ ui = [Quiet EXCEPT !.pc = "start"]
        /\ listener = [pc |-> "recv", message |-> NoMessage, place |-> 0, seen |-> 0]
        /\ answer = NoAnswer
        /\ requests = <<>> /\ wire = <<>> /\ serving = NoAnswer
        /\ store \in Stores
        /\ handled = {store[i].n : i \in DOMAIN store}
        /\ pending = {}
        /\ joined \in SUBSET Groups
        /\ actions = 0
        /\ loaded = FALSE /\ late = FALSE
        /\ raced = FALSE /\ mixed = FALSE /\ straddled = {}

-----------------------------------------------------------------------------
(***************************************************************************)
(* The UI thread: its requests                                             *)
(***************************************************************************)
\* Network_clear_response and Network_send.
Ask(kind, arg, m) ==
    /\ answer' = NoAnswer
    /\ requests' = Append(requests, [kind |-> kind, arg |-> arg, message |-> m])
    /\ ui' = [Quiet EXCEPT !.pc = "wait", !.kind = kind, !.arg = arg, !.message = m]
    /\ UNCHANGED <<wire, serving, store, pending, joined>>

\* A click or a line entered, in a frame of its own, that leads to a request.
Click == /\ ui.pc = "idle" /\ actions < MaxActions
         /\ actions' = actions + 1

\* The first frame of the screen: the handler is set and the contacts asked for.
Start == /\ ui.pc = "start"
         /\ Ask("contacts", Me, NoMessage)
         /\ UNCHANGED <<contacts, rooms, chat, title, list, found, listener, actions,
                        loaded, late, handled>>

AskGroups == /\ ui.pc = "groups"
             /\ Ask("groups", Me, NoMessage)
             /\ UNCHANGED <<contacts, rooms, chat, title, list, found, listener, actions,
                            loaded, late, handled>>

\* A room or a contact of the list is clicked: it becomes the open chat, and
\* its history is asked for.
Open(c) ==
    /\ Click
    /\ chat' = c /\ title' = c
    /\ loaded' = FALSE
    /\ Ask(IF c.room THEN "group_history" ELSE "history", c.id, NoMessage)
    /\ UNCHANGED <<contacts, rooms, list, found, listener, late, handled>>

OpenRoom == \E g \in rooms : Open(Room(g))
OpenContact == \E u \in Listed : Open(DM(u))

\* A message is entered: the kind of the open chat decides how it is sent.
Send ==
    /\ Click /\ chat.id # NoId
    /\ Len(store) < MaxSent
    /\ Ask(IF chat.room THEN "send_group" ELSE "send_dm", chat.id,
           Message(MaxSent + actions', Me, chat))
    /\ UNCHANGED <<contacts, rooms, chat, title, list, found, listener, loaded, late, handled>>

\* The dialog for a new chat is opened, and knows of no search.
NewChat ==
    /\ ui.pc = "idle" /\ found # NoId
    /\ found' = NoId
    /\ UNCHANGED <<contacts, rooms, chat, title, list, ui, listener, answer, server, actions,
                   loaded, late, handled>>

Search(u) ==
    /\ Click
    /\ Ask("search", u, NoMessage)
    /\ UNCHANGED <<contacts, rooms, chat, title, list, found, listener, loaded, late, handled>>

CreateRoom ==
    /\ Click
    /\ Ask("create", Me, NoMessage)
    /\ UNCHANGED <<contacts, rooms, chat, title, list, found, listener, loaded, late, handled>>

JoinRoom(g) ==
    /\ Click
    /\ Ask("join", g, NoMessage)
    /\ UNCHANGED <<contacts, rooms, chat, title, list, found, listener, loaded, late, handled>>

-----------------------------------------------------------------------------
(***************************************************************************)
(* The UI thread: what it does with the outcome of a request               *)
(***************************************************************************)
Ends == ui' = Quiet

\* contact_ids is NULL when the request fails and when there are none.
AfterContacts(ok, data) ==
    /\ ui.kind = "contacts"
    /\ ui' = IF ok /\ data # <<>> THEN [Quiet EXCEPT !.pc = "fill", !.todo = data]
             ELSE [Quiet EXCEPT !.pc = "groups"]
    /\ UNCHANGED <<contacts, rooms, list, found, loaded>>

AfterGroups(ok, data) ==
    /\ ui.kind = "groups"
    /\ rooms' = IF ok THEN data ELSE {}
    /\ Ends
    /\ UNCHANGED <<contacts, list, found, loaded>>

\* A variant with a bug: a history is added to the messages that are there.
AfterHistoryAdded(ok, data) ==
    /\ ui.kind \in {"history", "group_history"}
    /\ ui' = [ui EXCEPT !.pc = "load", !.todo = IF ok THEN data ELSE <<>>]
    /\ loaded' = (ok /\ ~answer.part)
    /\ UNCHANGED <<contacts, rooms, list, found>>

\* parse_and_load_messages begins with an empty list, whatever it was given.
AfterHistory(ok, data) ==
    /\ ui.kind \in {"history", "group_history"}
    /\ list' = [list EXCEPT !.count = 0]
    /\ ui' = [ui EXCEPT !.pc = "load", !.todo = IF ok THEN data ELSE <<>>]
    /\ loaded' = (ok /\ ~answer.part)
    /\ UNCHANGED <<contacts, rooms, found>>

\* The message that was sent is written after the last one; the count follows.
AfterSend(ok, data) ==
    /\ ui.kind \in {"send_dm", "send_group"}
    /\ IF ok /\ list.count < MaxShown
       THEN /\ list' = [list EXCEPT !.slot[list.count + 1] = ui.message]
            /\ ui' = [ui EXCEPT !.pc = "count_own"]
       ELSE /\ Ends
            /\ UNCHANGED list
    /\ UNCHANGED <<contacts, rooms, found, loaded>>

AfterSearch(ok, data) ==
    /\ ui.kind = "search"
    /\ found' = IF ok THEN data ELSE NoId
    /\ Ends
    /\ UNCHANGED <<contacts, rooms, list, loaded>>

\* addRoomToList: a room that is there already is not added twice.
AfterRoom(ok, data) ==
    /\ ui.kind \in {"create", "join"}
    /\ rooms' = IF ~ok THEN rooms
                ELSE rooms \cup {IF ui.kind = "create" THEN data ELSE ui.arg}
    /\ Ends
    /\ UNCHANGED <<contacts, list, found, loaded>>

After(ok, data) ==
    /\ \/ AfterContacts(ok, data) \/ AfterGroups(ok, data) \/ AfterHistory(ok, data)
       \/ AfterSend(ok, data) \/ AfterSearch(ok, data) \/ AfterRoom(ok, data)
    /\ UNCHANGED <<chat, title, listener, answer, server, actions, handled>>

\* The first answer found in the slot decides: one of another kind is a failure,
\* one to another request of this kind is taken for the one to this.
TakeAnswer ==
    /\ ui.pc = "wait" /\ answer # NoAnswer
    /\ After(answer.kind = ui.kind /\ answer.ok, answer.data)
    /\ late' = (late \/ answer.kind # ui.kind)

\* The polling ends without one.
TimeOut ==
    /\ ui.pc = "wait" /\ answer = NoAnswer
    /\ After(FALSE, 0)
    /\ late' = TRUE

-----------------------------------------------------------------------------
(***************************************************************************)
(* The UI thread: its work on the lists                                    *)
(***************************************************************************)
\* The contacts that were asked for, from the first place of the array, with a
\* request for each name in between; the count comes last.
FillContact ==
    /\ ui.pc = "fill"
    /\ LET i == ui.arg + 1
       IN  IF i <= Len(ui.todo) /\ i <= MaxContacts
           THEN /\ contacts' = [contacts EXCEPT !.slot[i] = ui.todo[i]]
                /\ ui' = [ui EXCEPT !.arg = i]
           ELSE /\ contacts' = [contacts EXCEPT !.count = ui.arg]
                /\ ui' = [Quiet EXCEPT !.pc = "groups"]
    /\ UNCHANGED <<rooms, chat, title, list, found, listener, answer, server, actions,
                   loaded, late, handled>>

\* One message of the history after the other, while there is room: the test ...
LoadMessage ==
    /\ ui.pc = "load"
    /\ ui' = IF ui.todo # <<>> /\ list.count < MaxShown THEN [ui EXCEPT !.pc = "put"]
             ELSE IF chat.room THEN [Quiet EXCEPT !.pc = "names"]
             ELSE Quiet
    /\ UNCHANGED <<contacts, rooms, chat, title, list, found, listener, answer, server,
                   actions, loaded, late, handled>>

\* ... the place after the last one, wherever that is by now ...
PutLoaded ==
    /\ ui.pc = "put"
    /\ list' = [list EXCEPT !.slot[list.count + 1] = Head(ui.todo)]
    /\ ui' = [ui EXCEPT !.pc = "count_loaded", !.todo = Tail(@)]
    /\ UNCHANGED <<contacts, rooms, chat, title, found, listener, answer, server, actions,
                   loaded, late, handled>>

\* ... and the count.
CountLoaded ==
    /\ ui.pc = "count_loaded"
    /\ list' = [list EXCEPT !.count = @ + 1]
    /\ ui' = [ui EXCEPT !.pc = "load"]
    /\ UNCHANGED <<contacts, rooms, chat, title, found, listener, answer, server, actions,
                   loaded, late, handled>>

\* The names of the senders of a room take time.
NamesKnown ==
    /\ ui.pc = "names"
    /\ Ends
    /\ UNCHANGED <<contacts, rooms, chat, title, list, found, listener, answer, server,
                   actions, loaded, late, handled>>

CountOwn ==
    /\ ui.pc = "count_own"
    /\ list' = [list EXCEPT !.count = @ + 1]
    /\ handled' = handled \cup {ui.message.n}
    /\ Ends
    /\ UNCHANGED <<contacts, rooms, chat, title, found, listener, answer, server, actions,
                   loaded, late>>

\* A variant with a bug: the contact is added without a look at those that are there.
StartChatUnsearched ==
    /\ Click /\ found # NoId
    /\ IF contacts.count >= MaxContacts
       THEN /\ ui' = [Quiet EXCEPT !.pc = "show"]
            /\ UNCHANGED contacts
       ELSE /\ contacts' = [contacts EXCEPT !.slot[contacts.count + 1] = found]
            /\ ui' = [Quiet EXCEPT !.pc = "count_contact"]
    /\ UNCHANGED <<rooms, chat, title, list, found, listener, answer, server,
                   loaded, late, handled>>

\* Start Chat: first the contact is added, if it is not there and there is room.
StartChat ==
    /\ Click /\ found # NoId
    /\ IF found \in Listed \/ contacts.count >= MaxContacts
       THEN /\ ui' = [Quiet EXCEPT !.pc = "show"]
            /\ UNCHANGED contacts
       ELSE /\ contacts' = [contacts EXCEPT !.slot[contacts.count + 1] = found]
            /\ ui' = [Quiet EXCEPT !.pc = "count_contact"]
    /\ UNCHANGED <<rooms, chat, title, list, found, listener, answer, server,
                   loaded, late, handled>>

\* Its name is known, or not.
CountContact ==
    /\ ui.pc = "count_contact"
    /\ contacts' = [contacts EXCEPT !.count = @ + 1]
    /\ ui' = [Quiet EXCEPT !.pc = "show"]
    /\ UNCHANGED <<rooms, chat, title, list, found, listener, answer, server, actions,
                   loaded, late, handled>>

\* ... then the chat is shown, with an empty list.  Whether the open chat is a
\* room stays as it was.
ShowChat ==
    /\ ui.pc = "show"
    /\ chat' = [chat EXCEPT !.id = found]
    /\ title' = DM(found)
    /\ list' = [list EXCEPT !.count = 0]
    /\ found' = NoId
    /\ loaded' = FALSE
    /\ Ends
    /\ UNCHANGED <<contacts, rooms, listener, answer, server, actions, late, handled>>

-----------------------------------------------------------------------------
(***************************************************************************)
(* The listener thread                                                     *)
(***************************************************************************)
Received == Head(wire)

\* An answer goes to the slot.
ReceiveAnswer ==
    /\ listener.pc = "recv" /\ wire # <<>> /\ Received.what = "answer"
    /\ answer' = Received
    /\ wire' = Tail(wire)
    /\ UNCHANGED <<contacts, rooms, chat, title, list, found, ui, listener, requests,
                   serving, store, pending, joined, actions, loaded, late, handled>>

\* A history that does not fit into the buffer of recv: the rest is an answer nobody
\* has asked for.
ReceivePart ==
    /\ listener.pc = "recv" /\ wire # <<>> /\ Received.what = "answer"
    /\ Received.kind \in {"history", "group_history"}
    /\ \E k \in 0..Len(Received.data) - 1 :
          answer' = [Received EXCEPT !.data = SubSeq(@, 1, k), !.part = TRUE]
    /\ wire' = <<Rest>> \o Tail(wire)
    /\ UNCHANGED <<contacts, rooms, chat, title, list, found, ui, listener, requests,
                   serving, store, pending, joined, actions, loaded, late, handled>>

\* A push goes to handle_async_messages.  The sender of a direct message is looked
\* for among the contacts, and becomes one when there is room.
ReceivePush ==
    /\ listener.pc = "recv" /\ wire # <<>> /\ Received.what = "push"
    /\ LET m == Received.message
           known == m.to.room \/ m.from \in Listed \/ contacts.count >= MaxContacts
       IN  listener' = [listener EXCEPT !.message = m, !.pc = IF known THEN "check" ELSE "write"]
    /\ wire' = Tail(wire)
    /\ UNCHANGED <<contacts, rooms, chat, title, list, found, ui, answer, requests,
                   serving, store, pending, joined, actions, loaded, late, handled>>

\* The request for a name on this thread: it clears the slot, and its answer will
\* be received when nobody waits for it any more.
AskName ==
    /\ answer' = NoAnswer
    /\ requests' = Append(requests, [kind |-> "user_info", arg |-> listener.message.from,
                                     message |-> NoMessage])
    /\ UNCHANGED <<wire, serving, store, pending, joined>>

WriteContact ==
    /\ listener.pc = "write"
    /\ contacts' = [contacts EXCEPT !.slot[contacts.count + 1] = listener.message.from]
    /\ AskName
    /\ listener' = [listener EXCEPT !.pc = "load_contacts"]
    /\ UNCHANGED <<rooms, chat, title, list, found, ui, actions, loaded, late, handled>>

LoadContactCount ==
    /\ listener.pc = "load_contacts"
    /\ listener' = [listener EXCEPT !.pc = "store_contacts", !.seen = contacts.count]
    /\ UNCHANGED <<contacts, rooms, chat, title, list, found, ui, answer, server, actions,
                   loaded, late, handled>>

StoreContactCount ==
    /\ listener.pc = "store_contacts"
    /\ contacts' = [contacts EXCEPT !.count = listener.seen + 1]
    /\ listener' = [listener EXCEPT !.pc = "check", !.seen = 0]
    /\ UNCHANGED <<rooms, chat, title, list, found, ui, answer, server, actions,
                   loaded, late, handled>>

Finished == [pc |-> "recv", message |-> NoMessage, place |-> 0, seen |-> 0]

\* A variant with a bug: a room and a user with the same identifier are taken for
\* the same chat.
CheckChatById ==
    /\ listener.pc = "check"
    /\ IF listener.message.to.id = chat.id /\ list.count < MaxShown
       THEN /\ listener' = [listener EXCEPT !.pc = "put", !.place = list.count + 1]
            /\ UNCHANGED handled
       ELSE /\ listener' = Finished
            /\ handled' = handled \cup {listener.message.n}
    /\ UNCHANGED <<contacts, rooms, chat, title, list, found, ui, answer, server, actions,
                   loaded, late>>

\* A message of the open chat gets the place after the last one; any other is
\* not shown.
CheckChat ==
    /\ listener.pc = "check"
    /\ IF listener.message.to = chat /\ list.count < MaxShown
       THEN /\ listener' = [listener EXCEPT !.pc = "put", !.place = list.count + 1]
            /\ UNCHANGED handled
       ELSE /\ listener' = Finished
            /\ handled' = handled \cup {listener.message.n}
    /\ UNCHANGED <<contacts, rooms, chat, title, list, found, ui, answer, server, actions,
                   loaded, late>>

\* It is written there.  In a room the name of an unknown sender is asked for
\* before the message is counted.
PutMessage ==
    /\ listener.pc = "put"
    /\ list' = [list EXCEPT !.slot[listener.place] = listener.message]
    /\ IF listener.message.to.room /\ listener.message.from \notin Listed
       THEN AskName
       ELSE UNCHANGED <<answer, server>>
    /\ listener' = [listener EXCEPT !.pc = "load_list"]
    /\ UNCHANGED <<contacts, rooms, chat, title, found, ui, actions, loaded, late, handled>>

LoadListCount ==
    /\ listener.pc = "load_list"
    /\ listener' = [listener EXCEPT !.pc = "store_list", !.seen = list.count]
    /\ UNCHANGED <<contacts, rooms, chat, title, list, found, ui, answer, server, actions,
                   loaded, late, handled>>

\* A variant with a bug: the place, which counts from 1, taken for an index from 0.
StoreListCountBehind ==
    /\ listener.pc = "store_list"
    /\ list' = [list EXCEPT !.count = listener.place + 1]
    /\ listener' = Finished
    /\ handled' = handled \cup {listener.message.n}
    /\ UNCHANGED <<contacts, rooms, chat, title, found, ui, answer, server, actions,
                   loaded, late>>

StoreListCount ==
    /\ listener.pc = "store_list"
    /\ list' = [list EXCEPT !.count = listener.seen + 1]
    /\ listener' = Finished
    /\ handled' = handled \cup {listener.message.n}
    /\ UNCHANGED <<contacts, rooms, chat, title, found, ui, answer, server, actions,
                   loaded, late>>

-----------------------------------------------------------------------------
(***************************************************************************)
(* The server, as this client meets it                                     *)
(***************************************************************************)
Peers == {m.to.id : m \in {n \in {store[i] : i \in DOMAIN store} : ~n.to.room}}
History(c) ==
    LET upTo[i \in 0..Len(store)] ==
           IF i = 0 THEN <<>>
           ELSE IF store[i].to = c THEN Append(upTo[i - 1], store[i])
           ELSE upTo[i - 1]
    IN  upTo[Len(store)]

\* What the handler of this client answers.  A search finds a user or not, a room
\* is created or joined or not.
Answers(r) ==
    CASE r.kind = "contacts"      -> {Answer(r.kind, TRUE, SetToSeq(Peers))}
      [] r.kind = "groups"        -> {Answer(r.kind, TRUE, joined)}
      [] r.kind = "history"       -> {Answer(r.kind, TRUE, History(DM(r.arg)))}
      [] r.kind = "group_history" -> {Answer(r.kind, TRUE, History(Room(r.arg)))}
      [] r.kind = "search"        -> {Answer(r.kind, ok, r.arg) : ok \in BOOLEAN}
      [] r.kind = "create"        -> {Answer(r.kind, TRUE, g) : g \in Groups \ joined}
                                     \cup {Answer(r.kind, FALSE, 0)}
      [] r.kind = "join"          -> {Answer(r.kind, r.arg \in Groups \ joined, r.arg)}
      [] OTHER                    -> {Answer(r.kind, TRUE, r.arg)}

\* A message to oneself: the connection of its receiver is this one.
ToMe(r) == r.kind = "send_dm" /\ r.arg = Me

\* A command is read, and done.  A history is answered in a second step, because the
\* other handlers may push messages in between, and so is a message to oneself, which
\* is pushed first.
Serve ==
    /\ requests # <<>> /\ serving = NoAnswer
    /\ requests' = Tail(requests)
    /\ LET r == Head(requests)
       IN  \E a \in Answers(r) :
              /\ IF r.kind \in {"history", "group_history"} THEN serving' = a /\ UNCHANGED wire
                 ELSE IF ToMe(r) THEN serving' = a /\ wire' = Append(wire, Push(r.message))
                 ELSE wire' = Append(wire, a) /\ UNCHANGED serving
              /\ store' = IF r.kind \in {"send_dm", "send_group"} THEN Append(store, r.message)
                          ELSE store
              /\ joined' = IF r.kind \in {"create", "join"} /\ a.ok THEN joined \cup {a.data}
                           ELSE joined
    /\ UNCHANGED <<contacts, rooms, chat, title, list, found, ui, listener, answer,
                   pending, actions, loaded, late, handled>>

\* Its answer is written.
Reply ==
    /\ serving # NoAnswer
    /\ wire' = Append(wire, serving)
    /\ serving' = NoAnswer
    /\ UNCHANGED <<contacts, rooms, chat, title, list, found, ui, listener, answer, requests,
                   store, pending, joined, actions, loaded, late, handled>>

\* The handler of another client saves a message for this one ...
UserSends(u, c) ==
    /\ Len(store) < MaxSent
    /\ c = DM(u) \/ (u \in Members /\ c.room /\ c.id \in joined)
    /\ LET m == Message(Len(store) + 1, u, c)
       IN  /\ store' = Append(store, m)
           /\ pending' = pending \cup {m}
    /\ UNCHANGED <<contacts, rooms, chat, title, list, found, ui, listener, answer, requests,
                   wire, serving, joined, actions, loaded, late, handled>>

\* ... and pushes it.
PushMessage ==
    \E m \in pending :
       /\ pending' = pending \ {m}
       /\ wire' = Append(wire, Push(m))
       /\ UNCHANGED <<contacts, rooms, chat, title, list, found, ui, listener, answer, requests,
                      serving, store, joined, actions, loaded, late, handled>>

-----------------------------------------------------------------------------
UIStep == \/ Start \/ AskGroups \/ TakeAnswer \/ TimeOut \/ FillContact
          \/ LoadMessage \/ PutLoaded \/ CountLoaded \/ NamesKnown
          \/ CountOwn \/ CountContact \/ ShowChat

User == \/ OpenRoom \/ OpenContact \/ Send \/ CreateRoom \/ NewChat \/ StartChat
        \/ \E u \in Users \cup {Me} : Search(u)
        \/ \E g \in Groups : JoinRoom(g)

ListenerStep == \/ ReceiveAnswer \/ ReceivePart \/ ReceivePush
                \/ WriteContact \/ LoadContactCount \/ StoreContactCount
                \/ CheckChat \/ PutMessage \/ LoadListCount \/ StoreListCount

ServerStep == \/ Serve \/ Reply \/ PushMessage
              \/ \E u \in Users, c \in Chats : UserSends(u, c)

(***************************************************************************)
(* What the history variables record of each step.                         *)
(***************************************************************************)
Loading == ui.pc \in {"start", "fill"} \/ (ui.pc = "wait" /\ ui.kind = "contacts")
UIAdds == Loading \/ ui.pc = "count_contact"
ListenerAdds == listener.pc \in {"write", "load_contacts", "store_contacts"}

UIChangesList == ui.pc \in {"load", "put", "count_loaded", "count_own"}
ListenerChangesList == listener.pc \in {"put", "load_list", "store_list"}

Opening == \/ ui.pc = "wait" /\ ui.kind \in {"history", "group_history"}
           \/ ui.pc \in {"load", "put", "count_loaded"}
UnderWay == {store[i].n : i \in DOMAIN store} \ handled

\* A step of the UI thread that begins a new list.
Emptied == (ui.pc = "wait" /\ ui'.pc = "load") \/ (ui.pc = "show" /\ ui'.pc = "idle")

Observe ==
    /\ raced' = (raced \/ (UIAdds' /\ ListenerAdds'))
    /\ mixed' = IF Emptied THEN ListenerChangesList'
                ELSE mixed \/ (UIChangesList' /\ ListenerChangesList')
    /\ straddled' = IF Opening' THEN UnderWay' \cup (IF Opening THEN straddled ELSE {})
                    ELSE straddled

Next == (UIStep \/ User \/ ListenerStep \/ ServerStep) /\ Observe

Spec == Init /\ [][Next]_vars

-----------------------------------------------------------------------------
(***************************************************************************)
(* Properties                                                              *)
(***************************************************************************)
\* Neither array is ever overrun by more than one place, whatever the interleaving:
\* each thread tests the count before it appends, so the tests that have passed and
\* not been counted are at most two.
OverrunByOne ==
    /\ contacts.count <= MaxContacts + 1
    /\ list.count <= MaxShown + 1

\* Unless both threads were adding contacts at a time (the first load of the list
\* counts as one long addition) the list has no gap and nobody twice, and everyone
\* whose message was handled is in it, or it is full.
ContactsWhole ==
    ~raced =>
       /\ contacts.count <= MaxContacts
       /\ Cardinality(Listed) = contacts.count /\ Listed \subseteq Users \cup {Me}
       /\ ui.pc = "idle" /\ contacts.count < MaxContacts =>
             \A i \in DOMAIN store :
                ~late /\ store[i].n \in handled /\ ~store[i].to.room => store[i].to.id \in Listed

\* The UI thread waits for the user, and no excuse was given by a request that went
\* without its answer or by both threads changing the list at a time.
Settled == ui.pc = "idle" /\ ~late /\ ~mixed /\ title = chat

\* The messages on the screen are messages of the chat it names.
ShownBelong == Settled => \A m \in Shown : m # NoMessage /\ m.to = chat

\* The screen shows each message of the open chat that the client has handled exactly
\* once, and not twice or never because it is both in the history and pushed: unless
\* it was under way while the chat was being opened, its history was cut, or the chat
\* is that of the user with himself.
Times(m) == Cardinality({j \in 1..list.count : list.slot[j] = m})

ShownOnce ==
    Settled /\ loaded /\ chat # DM(Me) =>
       \A i \in DOMAIN store :
          LET m == store[i]
          IN  m.to = chat /\ m.n \in handled \ straddled =>
                 /\ Times(m) <= 1
                 /\ list.count < MaxShown => Times(m) = 1

\* What chatScreen.c says of g_is_current_chat_room: "true if chatting in a room, false
\* for DM".  A message is sent to the chat that the screen names.
SentToShownChat ==
    ui.pc = "wait" /\ ui.kind \in {"send_dm", "send_group"} => ui.message.to = title

=============================================================================
