# Yahuu: TLA+ models of the chat server and its client

Yahuu is a chat program in C. A server (`src/server`) gives each connection a
thread, keeps the users on line in a table in memory and everything else in text
files, one per collection, through a small library of its own, PeachDB. A client
(`src/client`, raylib) draws the screens on one thread and listens to the socket
on another. The only lock is the one around the client's response slot; the session
table, the files and the lists of the chat screen are shared without any.

This directory models the parts of it in which the order of steps matters, checks
them with TLC on small instances, and proves with TLAPS what can be proved for
every instance. `PROJECT.json` says which lines each definition stands for, which
run checks which property, and which hazard of the code each property is for.

Contents: 1. components, 2. modules, 3. runs, 4. disagreements between code and
comments, 5. proofs, 6. what is not modelled, 7. plan.

Paths below are relative to `src/src/`, except `shared/` (`src/shared/`).

## 1. The components

| component | state | operations | hard behaviour |
|---|---|---|---|
| PeachDB, `server/services/peachdb/peachdb.c` | `index.mpdb`; one `{collection}.lpdb` each; `.tmp` files | create collection, highest key, write, update, delete, read | each operation opens the file once or more, unlocked; "w" truncates before the content is there; killed at any step |
| message, group, user services, `server/services/{message,group,user}Service`, `server/models/usermodel` | none of their own | register, login, save_dm, create_group, join_group, save_group_message, queries | look up, compute a key, write: three steps over the same file, of several threads; lists sent as one string that texts may cut |
| session manager, `server/services/sessionManager` | `g_sessions[MAX_SESSIONS]`, `g_session_count` | add, remove_by_socket, get_socket, get_user, get_session_by_socket | search by user OR socket, swap-remove, full table, pointers into the table kept by the callers, calls that overlap |
| socket service, `server/services/socketService/socketService.c` | one thread per connection, its locals; the position of `strtok`, shared by all | accept, one branch per command, end of a connection | threads interleave, inside a parse too; descriptors are reused; writes to sockets of clients who left; SIGPIPE is not ignored |
| start-up, `server/main.c`, `UserService_createDocument` | files | create the index and five collections | interrupted starts, errors that are not passed on |
| network service of the client, `client/services/networkService` | response slot, `g_is_connected`, handler pointer, listener thread | connect, send, clear and get response, set handler, disconnect | one recv is taken for one message; slot shared by two threads |
| services of the client, `client/services/{message,auth,group}Service` | current user id | clear the slot, send, poll 20 or 40 times, parse the answer | late answers, time-outs, answers matched by prefix only |
| chat screen, `client/views/screens/chatScreen/chatScreen.c` | contact list, rooms, current chat, messages shown, dialogs | buttons, entries, three text fields; handler of pushed messages (on the listener thread) | requests made on the listener thread; lists shared by two threads; dialogs over one another |
| login and register screens, controllers, client state, screen manager, `components.c` | current screen, text fields | drawing a frame, which is also what acts on the mouse and the keys; one service call per button | late answers decide who one is; fields that stay active while hidden |
| raygui (vendored) | - | - | nothing of it is called |
| first server (`server/old`), `shared/protocol.h`, debug helpers | - | - | not built or not called |

How they interact: a command arrives at `client_handler`, which calls the services,
which call PeachDB; a login or the end of a connection changes the session table; a
message is saved, its receivers are looked up in the table, it is written to their
sockets, and the reply goes to the sender last. In the client a button calls a
service, which clears the response slot, sends, and polls the slot; the listener
fills the slot, or hands a pushed message to the chat screen's handler, which may
itself call a service and poll.

What makes each part correct:

- *PeachDB*: an acknowledged record stays where it is; keys are given in order; a
  failure has a cause; no interrupted start or replacement loses a record.
- *services*: a name, or a membership, is double only if two commands overlapped; a
  membership is of a group that exists; a created group has its owner.
- *session table*: a user is there at most once and is found on the connection of
  the last login; a disconnection takes nobody else off line.
- *message sending*: the reply is true; a message is stored and forwarded under its
  sender; it reaches its receivers and nobody else: all of this but for what account
  switches and removed sessions do to the table.
- *commands*: a command is served with its own fields.
- *client*: each request ends, with its own answer; no answer counts twice; the client
  is, to the server, the user it believes to be.
- *chat screen*: the messages shown are those of the chat it names, each once; a contact
  who wrote is in the list; the arrays are not left; one field takes the keys.
- *lists sent as strings*: what was sent is shown, or at least nothing else.

`PROJECT.json` lists the hazards by line with the properties that are about them.

## 2. The modules

| module | models | based on |
|---|---|---|
| `PeachCollection` | concurrent inserts into one collection | |
| `Registry` | REGISTER, CREATE_GROUP, JOIN_GROUP over three collections | implements three instances of `PeachCollection` |
| `Store` | all files, over starts, crashes, failing calls, updates and deletions | |
| `Presence` | what the session table promises: a map from users to sockets | |
| `SessionManager` | the table and the handlers that change it, a call being one step | implements `Presence` |
| `SessionTable` | the same calls as the loads and stores they are, any number at once | |
| `Commands` | how each handler reads, checks and answers a command | extends `SessionTable`; implements `SessionManager` while calls do not overlap |
| `ChatServer` | direct and group messages through several handlers | instance of `SessionManager` for the table |
| `Login` | clients that register and log in, and who they are taken for | instance of `SessionManager` for the table |
| `History` | histories and rooms as the strings that the server writes and the client splits | |
| `ClientRequests` | the client's two threads, the stream, the server as the client meets it | |
| `ChatScreen` | the lists of the chat screen under both threads of the client | |
| `InputFields` | the three screens frame by frame: which field takes a key | |
| `PeachCollectionProofs`, `SessionManagerProofs`, `RegistryProofs`, `StoreProofs`, `ChatServerProofs`, `ClientRequestsProofs`, `ChatScreenProofs`, `CommandsProofs` | the theorems of the module they are named after, section 5; `RegistryProofs` also those of `Login`, `StoreProofs` those of `History`, `ClientRequestsProofs` those of `InputFields` | extend these modules; `RegistryProofs` uses `PeachCollectionProofs` and `SessionManagerProofs`, `ChatServerProofs` uses `SessionManagerProofs` |
| `MC*` | symmetry sets and constants for TLC | extend the module |

**`PeachCollection`.** `file` is the list of records; a thread goes through
`GetNextKey` (`Peach_get_highest_key` + 1), `FindNoDuplicate` or `FindDuplicate` (the
first half of `Peach_write_record`) and `AppendRecord` (the second half). A scan of a
file that only grows takes effect when it reads the end of the file; an append is
one `write` to a file opened with `"a"`. A record is its key and its writer; `seen` and
`checked` record how long the file was when the key was computed and scanned for.

**`Registry`.** `db` holds the three collections, `pc` and `job` the locals of each
handler. The lookups that precede an insert (`NameFree`, `GroupFound` twice,
`NotMember`) are steps of their own, each a scan of one file; the insert is that of
`PeachCollection`, its key one more than the highest; `AfterAppend` is what
`GroupService_create_group` does after its first insert. `Accounts`, `Groups` and
`Members` are the refinement mappings. Two threads may serve one user: the server allows
a second login. Group names are left out, and so are the commands that only read.

**`Store`.** The index is `NoFile`, `Empty` (opened with `"w"`, not written yet) or the
list of collections; a collection's file is `NoFile`, or its lines, the first of which
every reader skips. Each library call that changes the disk is a step, in the order
of the code, and `Crash` may come between any two; `OpenFails` and its like are the
error returns. A record is inserted with the next key (`Insert`), with the key 0 when the
file cannot be opened for the highest key, which is then -1 and which none of the callers
checks (`InsertUnderKeyZero`), or not at all when it cannot be opened later
(`InsertFails`). The results that `UserService_createDocument` and `main` ignore are
ignored (`NextCollection`, `NewIndexFails`). One operation runs at a time: the races of
inserts are in the two modules above, and no handler calls update or delete.

**`SessionManager`.** `sessions` is the used part of `g_sessions`; `Add` and
`RemoveBySocket` are the functions, a call being one step; `conn` is the life of each
descriptor (`closed`, `open`, `removed` between `SessionManager_remove_by_socket` and
`close`), after which `accept` may give it out again; `acked` is who was told SUCCESS on
it. A client may log in to another account on a connection that has one: nothing in the
server prevents it, here or in the modules that use this one. In `Presence`, too, several
users may be at one socket, a login there may change nothing, and the end of the connection
takes only one of them off line.

**`SessionTable`.** The array, the count and, per thread, the call in progress. A step is
one turn of a search loop or one store: the count is loaded each time the code names
it, `g_session_count++` is a load and a store, and the copy of the last entry over the
removed one is two halves. A load or store outside the array sets `outside`, and
nothing happens after it: what it finds or hits is undefined.

**`Commands`.** From `recv` to the reply, for every command; a message is its command and
its fields. `olds` is the static position of `strtok`, which each call reads and writes, so
an overlapping parse goes on in the other thread's message; `cut` is what the calls have
cut off in each copy; a pointer into a copy that was freed reads as any field. LOGIN and
the end of a connection run the calls of `SessionTable`; the other services report an
outcome. `sessions` remembers the table when no call was in progress, which is what the
refinement of `SessionManager` compares: the entry a call leaves behind above the count
is invisible, and the steps of one call are one step.

**`ChatServer`.** `handler[fd]` holds the locals of the thread: the pointer to its
session is an INDEX into the table, read again at each use (`CurrentUser`), as the code
does. Each of session lookup, read of the sender, save, receiver lookup, write and
reply is a step. Saving is the insert of `Store` reduced to its three outcomes: the
record is stored (`Save`), it is not (`SaveFails`: a duplicate key, a file that cannot be
opened), or it is stored under the key 0 and the client is told COULD_NOT_SAVE
(`SaveUnderKeyZero`). The list of members may not be readable, which the reply does not
tell (`ReadMembers`). `switched` remembers the descriptors on which a client has logged in
to another account, as long as entries with them are left in the table, which may be
longer than the connection.
`Write` to a socket whose client has left is lost or kills the process, which is the
end (`alive`). Members of a group are visited in any order.

**`Login`.** Clients with their screen, `g_current_user_id`, request and slot, connected by
two queues of lines to the handlers, whose table is that of `SessionManager`. Lines that
arrive together are one string, of which the first is understood (`Understood`); `TimeOut`
ends a request, whose answer may still come. A client may be quit and started again, on
a descriptor that was another's. `lost` remembers that a request ended without its answer,
`typed` what the user entered in this process.

**`History`.** `messages` and `created` are what the server has stored. `Conversation`,
`Entries`, `Shown` and their like for rooms are the functions of server and client, on
sequences of characters: the string is built entry by entry until the buffer is full
(`Filled`, a loop that ends at the first entry that does not fit; `FillAll`, one that
passes over it), cut at the size of the client's slot (`Received`), and split at `;` and at
`,` with the empty fields passed over, as `strtok_r` does (`Tokens`). The loops are
recursive functions, which can be proved about.

**`ClientRequests`.** `slot` is the response buffer; `ui` and `listener` the threads;
`requests` and `wire` the two directions of the stream. `Recv(k)` and `Serve(k)` take
the next `k` messages for one, as a `recv` of a byte stream may; `RecvPart` leaves the
rest of a long history. What the listener does with a text is two steps more: it tests
`g_async_handler` for a push (`Sort`) and writes the slot (`Respond`), and the UI thread
may set the handler and clear the slot for its first request in between (`OpenChat`,
`Start`). `Polls` stands for the 20 or 40 looks at the slot. The server answers any
command with success or failure, pushes messages once the user is logged in, and may
end.

**`ChatScreen`.** A list is an array with one place more than the code's and a count; an
append of the listener is a test of the count, a write to the place, a load and a store
of the count. Those of the UI thread test and write in one step when there is one
element, and in two when they load a history (`LoadMessage`, `PutLoaded`,
`CountLoaded`). On the listener thread the request for a name, which takes two seconds,
comes between. The open chat is two variables (`chat`) and a name on the screen
(`title`), which Start Chat changes without the flag for rooms. A history is computed by
the server and written in a second step, because other handlers may push in between; it
may arrive in two parts, of which the first is taken for the whole (`ReceivePart`).
Users may find themselves and open a chat with themselves: what they send there is
pushed to them, before it is acknowledged. What other requests do to the slot is in
`ClientRequests`; requests for names only take time here.

**`InputFields`.** One record, `screens`, holds the static variables of the screens: the
flags and the lengths of the texts, the dialogs and their mode. `Frame` draws the parts
of the screen in the order of the code, each acting on the press, the release and the
keys of the frame; `Layout` has the rectangles the code computes for its window of 800
by 600, and `Spots` the places that differ by what is under the mouse. Both dialogs may
be open, and clicks reach what is under them.

Modelling decisions a reader may want to question:

- Calls of the session manager are atomic in `SessionManager`, `ChatServer` and `Login`,
  and loads and stores in `SessionTable` and `Commands`, which say when the difference
  shows.
- A handler parses its own command everywhere but in `Commands`.
- The stream is split or joined in `ClientRequests`, and joined in `Login`, in both
  directions; `ChatServer` and `Commands` receive commands one by one.
- A line written to a client that left is lost in `Login`; that it may kill the server is
  in `ChatServer`. `Login` leaves out the client's offline mode.
- `ChatScreen` leaves out the limit of 256 rooms, drawing and scrolling.
- Texts in `InputFields` stay shorter than their arrays. `drawTextField` compares with
  `MAX_TEXT_LENGTH` (99999), which none of the arrays has, and what happens beyond
  their ends is undefined. Characters outside 32..125, which are taken and dropped, are
  not typed. Escape is not pressed: it is raylib's exit key and ends the main loop.
- In `History` an id is one character and a history comes in one `recv`. In `ChatScreen`
  it comes in one or in two; in three or more it does not: each further part would be one
  more answer that nobody has asked for.
- In `Registry` and `PeachCollection` opening a file does not fail; failing opens are in
  `Store`, and what they make of a message in `ChatServer`. A `fprintf` or `fclose` that
  fails, as on a full disk, is nowhere.
- A crash is the end of the process: what was closed is on the disk. Power failures,
  which may lose closed files, are not modelled.
- Integers are unbounded: keys and ids are `long` and grow by one for each record.

## 3. The runs

| run | instance | checks |
|---|---|---|
| `collection` | 3 threads, inserts begin on up to 4 records | `TypeOK`, `IdsFollowRealTime`, `DuplicateNeedsOverlap`, `FailureNeedsConflict`, `AcknowledgedStay` |
| `registry` | 3 threads (two for one user), 1 name, group ids 1..1 to join, 4 commands | `TypeOK`, `MembershipHasGroup`, `NameTwiceNeedsOverlap`, `MemberTwiceNeedsOverlap`, `OwnerMissingNeedsOverlap`, `ImplementsCollections` |
| `store` | 2 collections, 2 records, 3 crashes, 1 failing call | `AcknowledgedKept`, `BrokenIndexStays` |
| `sessions` | 4 users, 4 sockets, 3 places, account switches | `TypeOK`, `UsersDistinct`, `ImplementsPresence` |
| `commands` | 2 sockets, 2 places, 3 commands out of nine messages | `TypeOK`, `ServedAsSent`, `OutsideNeedsOverlap`, `ImplementsSessions` |
| `chat` | 3 users, 3 sockets, 3 places, 4 logins, 1 message, 3 connections | `ReplyTellsTheTruth`, `AttributionNeedsRemovalOrSwitch`, `MisdeliveryNeedsReuseOrSwitch`, `SteadyReceiversReached` |
| `login` | 2 clients, users, sockets, passwords; 3 requests, 1 push, 2 starts of a client | `IdentityNeedsLostAnswer`, `ChatNeedsCredentials` |
| `history` | 2 users, 2 rooms, 7 texts; up to 3 sent; buffers of 24 and 16 characters | `PlainShownFromTheOldest`, `SeparatorsSpoilTheirOwn`, `PlainRoomsListed` |
| `client` | logins and histories; 2 polls, 4 requests, 1 push | `WrongAnswerNeedsSlip`, `AnswersCountOnce`, `TimeoutDespiteAnswerNeedsAsk`, `RequestsEnd`, `ListenerReturns` |
| `chat_screen` | 3 users with oneself, 1 room, 2 places for contacts, 2 for messages; 1 message saved before, 1 more, 2 requests | `OverrunByOne`, `ContactsWhole`, `ShownBelong`, `ShownOnce` |
| `fields` | every place of the three screens; 2 characters a frame, 2 in the fields | `OneFieldListens`, `BackspaceErasesOne` |
| `start_chat` | 1 user, 1 room, 4 requests | section 4 |

What they show:

- **Inserts** (`collection`). Without any lock a record that was there when another insert
  began has the smaller id, and stored records never move. A key is double only if both
  inserts scanned before the first append, and an insert fails only because another
  one stored its key meanwhile.
- **Accounts and groups** (`registry`). A name or a membership is double, and a group is
  without its owner, only after commands overlapped in one particular window. A
  membership never refers to a missing group, not even for a moment. Each collection
  is a `PeachCollection`, so what holds of inserts holds of accounts and groups.
- **Files** (`store`). An acknowledged record survives any crash: a start does not
  truncate a collection that has records, and an interrupted update or deletion
  leaves the others in the original or, between `remove` and `rename`, in the
  temporary file (which no start looks for: the record is on the disk, not in the
  program's reach). All this holds as long as no library call has failed during a
  start; otherwise it does not: a crash leaves a file without its header, a start
  whose `fopen` fails passes over it, the first insert takes the place of the header,
  and the next start truncates the file. An index left without a count stays so: no
  later start creates the collections, though each reports success.
- **Sessions** (`sessions`). A user has one entry, and the table is the map of `Presence`,
  swap-remove, updates in place and full table included: a login moves one user, the end
  of a connection takes one user of that socket off line, and nobody else. With account
  switches two users may be found at one socket, of whom only one goes off line with it.
- **Commands** (`commands`). A command is served with its own fields, and refused for want
  of fields exactly when it had too few, unless another thread called `strtok` between
  the first and the last call of its parse. The array of sessions is left only after two
  calls of the session manager overlapped (two logins that both found the last place, two
  removals of one entry); until then its loads and stores are the operations of
  `SessionManager`, so all that is proved of these applies.
- **Messages** (`chat`). Who is told SUCCESS has the message stored under a key of its own,
  and only such messages are forwarded. COULD_NOT_SAVE is told also of a message that was
  stored, under the key 0. A message is stored or forwarded under the wrong user only if
  its client had switched accounts (its entry keeps the first one), if its descriptor
  still has the entry of a client that had, or if a session was removed between the
  lookup of the pointer and its use. It reaches the wrong reader only if the receiver's
  socket was closed between its lookup and the write, or if accounts were switched there:
  a second entry of a closed connection leads to the next client of the descriptor. No
  switch on one connection disturbs what is sent on and to the others. When the sender is
  told SUCCESS, each receiver who was there throughout was sent the message; in a group
  unless a session was removed meanwhile or the sender had switched accounts (a member is
  then taken for the sender and passed over), or the members could not be read.
- **Who one is** (`login`). The server takes a client for the user it believes to be, unless
  one of its requests ended without its own answer: a LOGIN that timed out is served
  later, and its SUCCESS answers the next attempt. Even so, a chat screen opens only for
  a user whose password was typed in that process.
- **Lists as strings** (`history`). Texts without `,` and `;` are shown whole and in order,
  from the oldest on: a chat too long for the buffer loses its newest messages, which
  are the ones one looks for. A text with separators spoils what is shown of itself, and
  of no other.
- **The client** (`client`). A request takes another one's answer only when the exchange
  has slipped: after a request of this client timed out, on either thread, or after one
  took for its answer a message pushed before the chat screen was there or the second part
  of a long history. No answer makes two requests succeed; a request times out in spite of
  its answer only if the listener's own request cleared the slot. Every request ends, and
  the listener always returns to the stream. A request of the chat screen takes a push for
  its answer once at most: when its first frame sets the handler between the listener's
  test of the handler and its write to the slot.
- **The chat screen** (`chat_screen`). Whatever the two threads do, each array is left by one
  place at most. Unless both were adding at a time, nobody is in the contact list twice
  and everyone who wrote is in it, or it is full. Once the UI thread has settled, what is
  shown belongs to the chat, and each message is there once, unless it was on its way
  while the chat was opened (then it may be there twice, or not at all), its history did
  not fit into one `recv` (the newest messages are then missing), a request went
  unanswered, or both threads changed the list at a time. In a chat with oneself, which
  this does not cover, a message is shown twice: once as pushed, once as one's own.
- **Keys** (`fields`). Flags that hidden fields keep do no harm by themselves: a press on the
  way back to a field clears or sets them, so at most one field of a screen listens, unless both
  dialogs are open, whose fields overlap. One Backspace erases one character, except in
  the password of the register screen, which is drawn twice in a frame, and under both
  dialogs.

Bounds. They are constants named `Max...`, in the guard of the action they limit, and
`PeachCollection`'s is on the length of the file, so that started inserts finish. Three
threads on one collection are two that collide and one that computes its key between
their appends; four records let a thread insert again after a collision. The table of 3
places is smaller than the number of users, so it fills, and 4 sockets let an entry move
while it is full. In `registry` four commands are one of each kind and a second of any;
group id 1 is enough for a JOIN_GROUP to race with the creation of the group it joins.
In `store` three crashes are one in the first start, one in the start that repairs it,
and one while a record is replaced; two collections are one that is listed and one yet
to come. In `chat` three sockets let a group's message go to two, or two connections
leave a descriptor for the third. Four logins are enough for the longest of these
stories: two users log in, the second connection switches to the first user's account,
so that both entries have its descriptor, one of which stays when it ends, and a client
logs in on the descriptor it had. In `commands` two places and three commands let two
logins, or two removals, meet at the end of the array; the messages have each shape:
with and without a session, asking for no, one or two fields, sent with as many, fewer
and more. In `login` three requests are one that is lost, one that gets its answer and
one more; the second start takes over a descriptor. In `history` three texts overrun the
client's buffer, and the longest ones the server's. In `client` four requests are a
login, a history that comes in two parts, and two more, the second of which gets the
answer of the first: the shortest way to a wrong answer without a time-out. A history
that comes whole is like the short answers, so it stands for all requests of the chat
screen. One push is enough for the listener to make a request. `Polls = 2` distinguishes
a look that is not the last from the last. In `chat_screen` there are three people to be
contacts and two places, so that a contact is looked for among others and the list gets
full; two messages, one of which may be both in the history and pushed, fill the places
for messages and one more. One message was saved before, of another user, in the room,
or to oneself, so that there is a history to load and to cut; two requests search
somebody and start a chat, or open one chat while another is on the way. In `fields` two
characters at a time are what a field drawn twice, or two that listen, need to differ
from one.

Symmetry is used for threads, users, clients, passwords and sockets in `collection`,
`sessions`, `chat`, `registry`, `commands` and `login`, whose properties are invariants,
conditions on steps and refinements without fairness. It is not used for `client`, the
only run with liveness.

Deadlock is not checked where the bounds or the end of the process stop the system:
`collection`, `registry`, `store`, `commands`, `chat`, `login`, `history`, `client`,
`chat_screen`. It is checked in `sessions` and `fields`.

Fairness. Only `ClientRequests` has liveness properties. `FairSpec` asks for weak fairness
of `UIStep` and `ListenerStep`: each is a thread that the operating system runs and whose
step, when possible, needs nobody else (a poll is a timed sleep, a `recv` returns when
there is something to return). Nothing is assumed of the user, who may never press a
button, or of the server, which may never answer.

## 4. Disagreements between the code and its comments

- `start_chat`: `chatScreen.c:55` says of `g_is_current_chat_room` "true if chatting in a room,
  false for DM". Start Chat sets the number and the name of the chat and leaves the flag:
  from an open room, the screen names a user and the message goes to the room with that
  user's number. TLC finds it in the run.

Seen while modelling, with no run of their own:

- `peachdb.c:225` says that a record is appended "ensuring the first field is a unique key".
  Two inserts that both scan before the first append write one key twice;
  `DuplicateNeedsOverlap` says that this is the only way.
- `sessionManager.h:37` says that the socket is returned "if the user is online, otherwise
  -1". After account switches a user may be found on a socket that is closed; `Presence`
  says how far this goes.
- `messageService.h:13` says of the message's id "or -1 on failure". When the highest key
  cannot be read the message is stored and 0 is returned, which the handler takes for a
  failure; `ReplyTellsTheTruth` says so.
- `userService.c:24` says that critical errors are passed up. They are not; that is why
  `BrokenIndexStays` is about starts that report success.
- `chatScreen.c:615` says "Also close on ESC". Escape is raylib's exit key, which
  the program leaves set: it ends the main loop, and the client with it.
- The register screen draws the password twice and never compares it with the repeated one.

## 5. Proofs

All theorems are about the definitions the runs check, for every value of the constants
that satisfies the assumptions of their module: any number of threads, users, sockets,
rooms and messages, tables of any size. The assumptions are of three kinds. Bounds are
natural numbers, arrays have a place (`ChatScreenAssumption`), a request is polled for at
least once (`ClientAssumption`). Markers are none of what they are not: `NoUser` and
`NoSocket` no user and no socket, `NoFile` and `Empty` no list (`StoreAssumption`). And the
inputs are what the program can meet: `Order` lists each collection once, the messages
of `Commands` have a command and a list of fields (`CommandsAssumption`), the set of
sockets is finite (`TableAssumption`), the stores that `ChatScreen` may start with number
their messages (`StoresAssumption`), and ids and times, unlike texts, hold no separator
(`HistoryAssumption`).

Each proof has the same shape: an invariant that is inductive, one lemma per action (or
per group of actions) that keeps it, and a last step of temporal logic. The invariants
were checked with TLC on the runs' instances before they were proved.

**`PeachCollectionProofs`**: `TypeCorrect`, `RealTimeOrder`, `DuplicateWindow`,
`FailureHasWinner`, `Durable`, which are all the properties of the run `collection`, and
`DenseKeys` (keys are 1..n without a gap) and `WriterOrder` (the ids of one thread increase).
The invariant `IInv` adds to them what a thread knows while its insert is under way
(`Pending`: its key is at most one above a key in the file and above all keys it has
seen; `Scanned`: none of the records it scanned has its key). Without `Pending` an
append could leave a gap or go back. Files only grow, so an append disturbs no other
thread's knowledge. That `HighestKey`, a CHOOSE, is the maximum follows from the keys
being 1..n.

**`SessionManagerProofs`**: `TypeCorrect`, `OneEntryPerUser` and `TableIsPresence` for
any clients, switching or not. The invariant is that users in the table are distinct.
The refinement follows what each operation does to the map: a login maps to a login of
the map, one that finds the table full to one that finds the map full
(`OnlineUsersCount`: the users on line are as many as the entries), a removal takes
exactly the user of the first entry with that socket off line although the last entry
moves into its place.

**`RegistryProofs`**: all properties of the run `registry`. For `TypeCorrect`, `GroupsExist`,
`NamesOverlap` and `MembersOverlap` the invariant has a part about the files (dense keys,
contents of the right kind, the three properties) and one about each thread
(`ThreadOK`): the group of a membership on its way exists, all keys below the computed
one are taken, the content is in none of the records it looked at, and these are still
there. `GrowthKeeps`: what a thread has looked up stays true as files grow.
`ImplementsInserts` is the refinement of three `PeachCollection`s; their bound on the
length of a file needs that records and inserts under way are never more than the
commands (`Counted`). `OwnersOverlap` follows both records of one CREATE_GROUP (`Owners`):
from the group to the membership the thread goes on with, and, when that insert fails,
to the record of the other thread that took its key, which is after what the creator had
looked at.

Its second part proves both properties of the run `login`, with what is proved of the
session table. `ChatsNeedCredentials`: whatever is on its way is `Justified`, a LOGIN by
what was typed on this process's login screen, a LOGIN_SUCCESS, on the wire, in the
handler's hand or in the slot, by the password that was typed when its user was
registered; accounts keep their passwords, requests that run together keep the first
user and the first word of the password. `IdentityIsRight` needs more: as long as no
answer was lost each request is at exactly one place (`InStep`: at the server, in hand,
among the lines on the wire, in the slot, or overtaken there by another line), and the
entry of its connection, if it has one, is of the user whom the answer at that place
names (`Follows`). A connection so has at most one entry (`Orderly`), which is why
removing the first one is enough.

**`StoreProofs`**: `NothingAcknowledgedIsLost` and `BrokenForever`. A record is lost if its
collection is created once more or a file goes before its replacement is there. `Safe`
therefore says that every collection with acknowledged records is listed, or that nothing
reads the index again (no count), or that the list is in memory and about to be written
(`Known`), in each phase of a start; and which of the two files of a replacement has
them (`Kept`). It holds as long as no library call failed during a start (`~skipped`),
which is the property's own condition. What `HighestKey` and the recursive function `Copy`
compute needs induction over the length of the file, which is done on a SET of natural
numbers (`InductionSet`, from the well-foundedness of the order).

Its second part proves the three properties of the run `history`, for texts of any
length, any number of messages and rooms, and buffers of any size. `PlainShownInOrder`:
texts without separators come back whole, from the oldest on.
`SeparatorsStayInTheirText`: other texts spoil nothing but what is shown of themselves.
`PlainRoomsAlwaysListed`: nor do names of rooms. The invariant of the states is that
messages and rooms are all that is stored (`HistoryTypeOK`); the argument is about the
functions. Each loop over a sequence is a recursive function, and `Loop` says of any
such function what its value is for one element more; the laws of each operator follow
(`JoinedLaws`, `SelectedLaws`, `FilledLaws`, `FillAllLaws`, `SplitLaws`). Induction over
sequences (`SeqInductionSet`) is over a set of them, again, since an operator cannot be
a parameter. Every entry ends with `;`, so what the client finds in entries one after
the other is what it finds in each (`TokensConcat`, `ParsedConcat`), and the entries can
be looked at one by one: a plain one gives one row (`PlainParsed`), one without `;` one
row at most, of its sender (`SealedParsed`), a plain one that the client's buffer cuts
is read as its message or not at all (`PartialParsed`), because a part of it without a
time has too few fields. That the server's buffer holds the first entries, or all of
them if they fit, is `FillIsCorrect` and `FillAllIsWhole`. The rows of some of the
entries are among all rows in their order (`PlainIsKept`, `SendersAreKept`,
`RoomsAreKept`).

**`ChatServerProofs`**: `TypeCorrect` and all properties of the run `chat`. The table
brings the invariant of `SessionManagerProofs`. `EntriesTellTheTruth` adds what clients
that switch leave of it: an entry whose descriptor is not `switched` is of an open
connection that was last told its user is logged in (`OwnEntries`). `SenderIsRight`: as
long as no session is removed (`calm`), logins only append entries or change the socket
of one, so the index a handler holds stays on the entry of its client
(`PointerOfClient`). `ReceiverIsRight`: the target of a message is the receiver's socket
until that socket is closed or its client switches (`TargetOfReceiver`).
`RepliesTellTheTruth` follows a message by its identifier: stored under its own key,
under the key 0 or not, its handler, the reply and the lines on the sockets agree
(`IdentityInv`). `ReceiversAreReached` says of each receiver with a steady session that
it is still to be visited, being visited, or has its line (`NobodySkipped`).

**`ClientRequestsProofs`**: the three safety properties of the run `client`. Nothing in the
protocol ties an answer to a request, so the proof gives each answer the name of its
request and follows it: it is in one place only, command, wire, slot or taken (`Single`),
and while nothing has slipped (`Clean`) the only name under way is that of the request
being polled for (`InStep`). Further invariants count the pushed messages and say what
may arrive during the listener's own request (`Pushes`, `Arrivals`). The attempt
corrected the property: that a wrong answer needs a time-out is true in small instances,
but the second part of a long history, or a message pushed before the chat screen is
there, may be taken for an answer and shifts all later ones. `WrongAnswerNeedsSlip` and the
bounds of the run were changed accordingly. Its second half, about pushes, needs that the
listener is between its test and its write at most once when the handler is set.

Its second part proves both properties of the run `fields` (`OneFieldTakesKeys`,
`OneBackspaceOneCharacter`), for any number of characters. But for the two dialogs over
each other, no two fields of a screen are under one press (`PlacesOverlap`,
`LoginApart`, `RegisterApart`, `ChatApart`), so of those drawn together one at most is
active. Flags of fields that are not drawn need more (`Exclusive`): the search's is
clear while its dialog is closed, because the presses that open and close the dialog are
outside the field; the room's may stay set, when the button `rooms` is pressed again
while the dialog is open, but the two buttons that bring the field back clear the input.
A frame keeps this part by part (`ListPanelFacts`, `SectionFacts`, `NewChatFacts`,
`RoomFacts`), and what it erases is counted along the way (`Framed`).

**`ChatScreenProofs`**: the four properties of the run `chat_screen`. `OverrunAtMostOne` is part
of the types: each thread may be between its test of a count and its increment, once
(`ContactsBound`, `ListBound`). `MessagesBelong` needs that, as long as no request was late,
what is under way is the answer to the UI thread's one request, with the history of the
chat being opened (`Exchange`, `HistoryRight`), and that the rows are of the open chat
(`ListRight`). `EverybodyIsThere`: as long as one thread has added contacts at a time,
the places are distinct (`ContactsRight`), and whoever wrote is listed, being written, or in
the list still being loaded (`Everybody`). `EachMessageOnce`: messages are numbered, and a
number is in one place, not sent, pushed, in the listener's hand or handled
(`Numbered`); the list, with what is left to load, has each handled one once (`OnceRows`,
`OnceDue`), step by step while a history is loaded (`ListStep`), and a history that was not
cut has all that was handled before it was computed (`Loads`, `Due`).

**`CommandsProofs`**: all properties of the run `commands`. `TypeCorrect` and
`CommandsAreServedAsSent` are about the parse: every pointer is freed, NULL or into a copy
in use (`Points`), which has to be said of the position of `strtok`, too; a parse that no
other entered stands where its own calls left it (`OwnAt`, `Stands`). `OneCallStaysInside` and
`SessionsOneAtATime` are about the calls of the session manager. While at most one is in
progress, `Half` says for each point of its loops what it has done so far: nothing
and which entries it has passed; one field of one entry; the new entry above the count;
the result but for the count. When it returns, the table up to the count is the result of
the operation of `SessionManager` on the table at its start. So the abstract step is the
return, and all other steps are stutters. `Counted` ties the history variable `most` to the
calls in progress.

Checked by TLC only: `RequestsEnd` and `ListenerReturns` of `ClientRequests`, because
liveness under fairness is out of the prover's reach. All other properties of the
passing runs are stated by theorems.

## 6. What is not modelled

- Drawing and scrolling. The auto-scroll flag `g_should_scroll_to_bottom`, set by the
  listener after a message and cleared by the UI thread after it has read the count, may
  be cleared for a message that was not yet counted; nothing but the view depends on it.
- raygui: vendored, and the program calls nothing of it.
- The client's group service: the program does not call it. Its `strtok` in
  `MessageService_get_contacts`, shared with the listener, has the effect that
  `Commands` shows of the server's.
- Lines longer than the buffers of PeachDB (`peachdb.c:567`): a text gets longer than its
  array of 100 or 256 bytes only by the overrun of `drawTextField`, which is undefined, and
  below that no line reaches 1023 bytes.
- Inserts while a collection is rewritten (`peachdb.c:455`): no handler calls update or
  delete.
- `server/old`, `shared/protocol.h`, debug helpers, tests: not built, or not part of the
  program.
- Power failures, which may lose files that were closed.

## 7. Plan

Every component that the program runs is modelled as far as section 6 says, and every
safety property that a run checks is proved. What would be next, as the code changes: a
model of the files in which an update may meet inserts, once a handler calls one; and
a history that comes in more than two `recv`s, followed to the rows of the chat screen.
