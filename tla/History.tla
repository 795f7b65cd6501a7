------------------------------- MODULE History -------------------------------
(***************************************************************************)
(* The lists that the server sends as one string and the client takes      *)
(* apart: the history of a chat and the rooms of a user.                   *)
(*                                                                         *)
(* A message is stored as it was typed, without the "^" that ends a field. *)
(* The server writes "sender,text,time;" for each message of the history,  *)
(* oldest first, into a buffer, and "id,name;" for each room; the client   *)
(* keeps what one recv returns and splits it at ";" and at ",", which a    *)
(* text may hold.  strtok_r passes over empty fields.                      *)
(*                                                                         *)
(* A string is a sequence of characters.  An id is one character, a time   *)
(* another; the sizes count what follows "HISTORY_DATA^" and the like.     *)
(* A history that several recvs take apart is in ClientRequests.           *)
(***************************************************************************)
EXTENDS Naturals, Sequences, SequencesExt

CONSTANTS
    Users, Rooms,   \* their ids, as characters
    Nobody,         \* what atol makes of a string that is no number (0)
    Letters,        \* characters without a meaning to the parsers
    Texts,          \* what is typed: messages and names of rooms
    Time,           \* a time of day
    ReplyMax,       \* the server's buffer (16384 bytes, 8192 for rooms)
    SlotMax,        \* the client's buffer (2047 bytes)
    MaxTexts        \* bound: how many messages are sent and rooms created

Chars == Users \cup Rooms \cup Letters \cup {",", ";", Time}

\* Ids are numbers and a time is a date and a time of day: neither holds a
\* separator.
ASSUME HistoryAssumption ==
    /\ {",", ";"} \cap (Users \cup Rooms \cup {Time}) = {}
    /\ Texts \subseteq Seq(Chars) \ {<<>>}
    /\ SlotMax \in Nat /\ ReplyMax \in Nat

VARIABLES messages,   \* messages.lpdb and groupmessages.lpdb
          created     \* the user's rooms: groups.lpdb, in the order of groupusers.lpdb

historyVars == <<messages, created>>

Message == [from : Users, to : Users \cup Rooms, text : Texts]
Room == [id : Rooms, name : Texts]

HistoryInit == /\ messages = <<>>
               /\ created = <<>>

More == Len(messages) + Len(created) < MaxTexts

\* SEND_DM and SEND_GROUP_MSG store a message at the end.
Send(from, to, text) ==
    /\ More /\ from # to
    /\ messages' = Append(messages, [from |-> from, to |-> to, text |-> text])
    /\ UNCHANGED created

\* CREATE_GROUP: an id that no room has.
CreateRoom(id, name) ==
    /\ More /\ \A i \in DOMAIN created : created[i].id # id
    /\ created' = Append(created, [id |-> id, name |-> name])
    /\ UNCHANGED messages

HistoryNext == \E text \in Texts :
                  \/ \E from \in Users, to \in Users \cup Rooms : Send(from, to, text)
                  \/ \E id \in Rooms : CreateRoom(id, text)

HistorySpec == HistoryInit /\ [][HistoryNext]_historyVars

-----------------------------------------------------------------------------
(***************************************************************************)
(* Sequences                                                               *)
(***************************************************************************)
\* The elements of s that are in S, and the sequences of s one after the other.
Selected(s, S) ==
    LET kept[n \in 0..Len(s)] ==
            IF n = 0 THEN <<>>
            ELSE IF s[n] \in S THEN Append(kept[n - 1], s[n]) ELSE kept[n - 1]
    IN  kept[Len(s)]

Joined(s) ==
    LET joined[n \in 0..Len(s)] == IF n = 0 THEN <<>> ELSE joined[n - 1] \o s[n]
    IN  joined[Len(s)]

\* Some of the elements of s, in their order, are t.
Within(t, s) ==
    \E at \in [DOMAIN t -> DOMAIN s] :
        /\ \A i \in DOMAIN t : t[i] = s[at[i]]
        /\ \A i, j \in DOMAIN t : i < j => at[i] < at[j]

-----------------------------------------------------------------------------
(***************************************************************************)
(* The server                                                              *)
(***************************************************************************)
\* MessageService_get_history and GroupService_get_group_history: the messages
\* between me and another user, in both directions, or those to a room.
Between(me, with) ==
    {m \in Message : IF with \in Rooms THEN m.to = with
                     ELSE <<m.from, m.to>> \in {<<me, with>>, <<with, me>>}}
Conversation(me, with) == Selected(messages, Between(me, with))

\* The loop over the entries: it ends at the first one that does not fit.
Filled(entries) ==
    LET reply[n \in 0..Len(entries)] ==
            IF n = 0 THEN [text |-> <<>>, full |-> FALSE]
            ELSE LET last == reply[n - 1]
                 IN  IF ~last.full /\ Len(last.text) + Len(entries[n]) < ReplyMax
                     THEN [text |-> last.text \o entries[n], full |-> FALSE]
                     ELSE [text |-> last.text, full |-> TRUE]
    IN  reply[Len(entries)]
Fill(entries) == Filled(entries).text

\* One for the rooms does not end: it passes over what does not fit.
FillAll(entries) ==
    LET reply[n \in 0..Len(entries)] ==
            IF n = 0 THEN <<>>
            ELSE LET last == reply[n - 1]
                 IN  IF Len(last) + Len(entries[n]) < ReplyMax THEN last \o entries[n] ELSE last
    IN  reply[Len(entries)]

\* Variants with a bug each: the text before its sender; no end of an entry.
MessageEntrySwapped(m) == m.text \o <<",", m.from, ",", Time, ";">>
RoomEntryEndless(r) == <<r.id, ",">> \o r.name

MessageEntry(m) == <<m.from, ",">> \o m.text \o <<",", Time, ";">>
RoomEntry(r) == <<r.id, ",">> \o r.name \o <<";">>

Entries(chat) == [i \in DOMAIN chat |-> MessageEntry(chat[i])]
RoomEntries(rooms) == [i \in DOMAIN rooms |-> RoomEntry(rooms[i])]

HistoryReply(me, with) == Fill(Entries(Conversation(me, with)))
RoomsReply == FillAll(RoomEntries(created))

-----------------------------------------------------------------------------
(***************************************************************************)
(* The client                                                              *)
(***************************************************************************)
\* What recv and the response slot keep of a reply.
Received(reply) == SubSeq(reply, 1, IF Len(reply) < SlotMax THEN Len(reply) ELSE SlotMax)

\* The fields that strtok_r finds: never an empty one.
Ended(split) == IF split.last = <<>> THEN split.done ELSE Append(split.done, split.last)

Split(s, separator) ==
    LET split[n \in 0..Len(s)] ==
            IF n = 0 THEN [done |-> <<>>, last |-> <<>>]
            ELSE LET before == split[n - 1]
                 IN  IF s[n] = separator THEN [done |-> Ended(before), last |-> <<>>]
                     ELSE [done |-> before.done, last |-> Append(before.last, s[n])]
    IN  split[Len(s)]
Tokens(s, separator) == Ended(Split(s, separator))

\* Each entry taken apart, and those with enough fields.
Fields(data) ==
    LET entries == Tokens(data, ";")
    IN  [i \in DOMAIN entries |-> Tokens(entries[i], ",")]
Having(n) == {fields \in Seq(Seq(Chars)) : Len(fields) >= n}

\* atol, for ids of one digit.
Id(token) == IF Head(token) \in Users \cup Rooms THEN Head(token) ELSE Nobody

\* A variant with a bug: an entry without a time accepted.
ParseWithoutTime(data) ==
    LET whole == Selected(Fields(data), Having(2))
    IN  [i \in DOMAIN whole |-> [sender |-> Id(whole[i][1]), text |-> whole[i][2]]]

\* parse_and_load_messages: an entry with less than three fields is dropped.
Parse(data) ==
    LET whole == Selected(Fields(data), Having(3))
    IN  [i \in DOMAIN whole |-> [sender |-> Id(whole[i][1]), text |-> whole[i][2]]]

\* MessageService_get_my_groups.
ParseRooms(data) ==
    LET whole == Selected(Fields(data), Having(2))
    IN  [i \in DOMAIN whole |-> [id |-> Id(whole[i][1]), name |-> whole[i][2]]]

Shown(me, with) == Parse(Received(HistoryReply(me, with)))
RoomsShown == ParseRooms(Received(RoomsReply))

-----------------------------------------------------------------------------
(***************************************************************************)
(* Properties                                                              *)
(***************************************************************************)
Plain(text) == \A i \in DOMAIN text : text[i] \notin {",", ";"}
Sealed(text) == \A i \in DOMAIN text : text[i] # ";"

\* The entries together fit into both buffers.
Fits(entries) == LET size == Len(Joined(entries)) IN size <= SlotMax /\ size < ReplyMax

PlainMessages == {m \in Message : Plain(m.text)}

Chats == {c \in Users \X (Users \cup Rooms) : c[1] # c[2]}

Sent(chat) == [i \in DOMAIN chat |-> [sender |-> chat[i].from, text |-> chat[i].text]]

\* Texts without separators are shown as they were sent, whole, in the order they
\* were sent, from the first one on: a chat too long for the client's buffer
\* loses its newest messages, and no chat that fits loses any.
PlainShownFromTheOldest ==
    \A c \in Chats :
       LET chat == Conversation(c[1], c[2])
       IN  (\A i \in DOMAIN chat : Plain(chat[i].text)) =>
              /\ IsPrefix(Shown(c[1], c[2]), Sent(chat))
              /\ Fits(Entries(chat)) => Shown(c[1], c[2]) = Sent(chat)

\* A text with separators spoils itself only: in a chat that fits every plain text
\* is shown under its sender, in order, and no text without ";" is shown under
\* anybody but its sender.
SeparatorsSpoilTheirOwn ==
    \A c \in Chats :
       LET chat == Conversation(c[1], c[2])
           shown == Shown(c[1], c[2])
       IN  Fits(Entries(chat)) =>
              /\ Within(Sent(Selected(chat, PlainMessages)), shown)
              /\ (\A i \in DOMAIN chat : Sealed(chat[i].text)) =>
                    Within([i \in DOMAIN shown |-> shown[i].sender],
                           [i \in DOMAIN chat |-> chat[i].from])

\* Each room with a plain name is listed under its id, whatever the other rooms
\* are called, if the list fits.
PlainRoomsListed ==
    Fits(RoomEntries(created)) =>
       \A i \in DOMAIN created : Plain(created[i].name) =>
          \E j \in DOMAIN RoomsShown :
             RoomsShown[j] = [id |-> created[i].id, name |-> created[i].name]

=============================================================================
