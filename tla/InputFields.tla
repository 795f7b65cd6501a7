----------------------------- MODULE InputFields ------------------------------
(***************************************************************************)
(* Which text field of the client a key goes to.                           *)
(*                                                                         *)
(* There is no focus: each field has a flag of its own, set by a press     *)
(* inside its rectangle and cleared by a press outside it WHEN THE FIELD IS *)
(* DRAWN, and each field that is drawn and active takes one character from *)
(* the queue of the window and sees the same Backspace.  A frame draws the *)
(* parts of a screen one after the other, and each part acts on the press, *)
(* the release and the keys of the frame.  Flags and texts are static: a   *)
(* field that is not drawn keeps both.  The two dialogs of the chat screen *)
(* do not stop clicks to what is under them.                               *)
(*                                                                         *)
(* A text is its length.  Texts stay shorter than the arrays; drawTextField *)
(* compares with MAX_TEXT_LENGTH, which is larger than any of them, and    *)
(* what happens after the end of one is undefined.  Characters outside     *)
(* 32..125, which are taken and dropped, are not typed here.  Escape is    *)
(* not either: it is raylib's exit key, which the program leaves set, and  *)
(* ends the main loop before the next frame.                               *)
(***************************************************************************)
EXTENDS Naturals, Sequences, FiniteSets, Functions

CONSTANTS MaxTexts,    \* bound: how long the texts are together
          MaxQueue     \* bound: how many characters arrive between two frames

VARIABLE screens   \* the static variables of the screens

Screens == {"LOGIN", "REGISTER", "CHAT"}
Fields == {"login_username", "login_password", "signup_username",
           "signup_password", "repeat_password", "input", "search", "room"}

\* Where things are in the window of 800 by 600.  The two text buttons are as
\* wide as the font makes them.
Box(x, y, w, h) == [x |-> x, y |-> y, w |-> w, h |-> h]
LoginLayout ==
  [login_username |-> Box(230, 270, 340, 30), login_password |-> Box(230, 370, 340, 30),
   login |-> Box(300, 440, 200, 40), to_register |-> Box(360, 510, 80, 20)]
RegisterLayout ==
  [signup_username |-> Box(230, 270, 340, 30), signup_password |-> Box(230, 350, 340, 30),
   repeat_password |-> Box(230, 420, 340, 30),
   signup |-> Box(300, 475, 200, 40), to_login |-> Box(320, 520, 160, 20)]
ChatLayout ==
  [new_chat |-> Box(15, 60, 170, 40), rooms |-> Box(15, 110, 170, 40),
   entry |-> Box(0, 180, 200, 40), input |-> Box(210, 550, 580, 40),
   search |-> Box(230, 265, 340, 35), start_chat |-> Box(320, 340, 160, 35),
   close_new_chat |-> Box(565, 185, 25, 25),
   create |-> Box(250, 230, 300, 40), join |-> Box(250, 290, 300, 40),
   room |-> Box(230, 250, 340, 35), action |-> Box(320, 300, 160, 35),
   back |-> Box(230, 400, 80, 30), close_rooms |-> Box(565, 160, 25, 25)]
Layout == [LOGIN |-> LoginLayout, REGISTER |-> RegisterLayout, CHAT |-> ChatLayout]

\* CheckCollisionPointRec.
Inside(x, y, box) == /\ box.x <= x /\ x < box.x + box.w
                     /\ box.y <= y /\ y < box.y + box.h

\* Where the mouse can be, as the set of things at that place: one place for each
\* cell of the grid that the edges of the rectangles make.
Places(boxes) ==
    LET Xs == {0} \cup UNION {{boxes[r].x, boxes[r].x + boxes[r].w} : r \in DOMAIN boxes}
        Ys == {0} \cup UNION {{boxes[r].y, boxes[r].y + boxes[r].h} : r \in DOMAIN boxes}
    IN  {{r \in DOMAIN boxes : Inside(x, y, boxes[r])} : x \in Xs, y \in Ys}
Spots == [s \in Screens |-> Places(Layout[s])]

\* What a frame finds: the mouse button going down, or up, at a place (up where
\* nothing is stands for neither); the number of characters since the last frame; two
\* keys; and the success or failure of a request, should it make one.  Only four
\* things act when the button goes up.
Releasable == {"login", "to_register", "signup", "to_login"}
Mouse(s) == [what : {"press"}, at : Spots[s]]
            \cup [what : {"release"}, at : {spot \cap Releasable : spot \in Spots[s]}]
\* How many characters the bound leaves.
TextLeft == MaxTexts - FoldFunction(+, 0, screens.text)
Events(s) ==
    {e \in [mouse : Mouse(s), keys : {n \in 0..MaxQueue : n <= TextLeft},
            backspace : BOOLEAN, enter : BOOLEAN, ok : BOOLEAN] :
        e.ok \/ e.enter \/ e.mouse.what = "release"}

Pressed(e, thing) == e.mouse.what = "press" /\ thing \in e.mouse.at
Released(e, thing) == e.mouse.what = "release" /\ thing \in e.mouse.at

\* mode is that of the room dialog; found says that a search has found a user;
\* open that a chat has been chosen.  queue is how many characters of the frame no field
\* has taken yet, erased the fields that have lost one to Backspace.
FieldsInit == screens = [screen |-> "LOGIN", text |-> [f \in Fields |-> 0],
                         active |-> [f \in Fields |-> FALSE],
                         newChat |-> FALSE, found |-> FALSE, rooms |-> FALSE, mode |-> 0,
                         open |-> FALSE, queue |-> 0, erased |-> <<>>]

-----------------------------------------------------------------------------
(***************************************************************************)
(* drawTextField                                                           *)
(***************************************************************************)
\* An active field takes a character, then sees the Backspace.
TakesKeys(s, f, e, on) ==
    LET takes == on /\ s.queue > 0
        length == IF takes THEN s.text[f] + 1 ELSE s.text[f]
        erases == on /\ e.backspace /\ length > 0
    IN  [s EXCEPT !.active[f] = on,
                  !.text[f] = IF erases THEN length - 1 ELSE length,
                  !.queue = IF takes THEN @ - 1 ELSE @,
                  !.erased = IF erases THEN Append(@, f) ELSE @]

\* A variant with a bug: a press elsewhere leaves the field active.
FieldStaysActive(s, f, e) == TakesKeys(s, f, e, s.active[f] \/ Pressed(e, f))

drawTextField(s, f, e) ==
    TakesKeys(s, f, e, IF e.mouse.what = "press" THEN Pressed(e, f) ELSE s.active[f])

-----------------------------------------------------------------------------
(***************************************************************************)
(* The login and register screens                                          *)
(***************************************************************************)
\* Both kinds of button call their function when the mouse goes up over them: called is
\* what that makes of the screens.
DrawRoundedButton(s, e, button, called) == IF Released(e, button) THEN called ELSE s
DrawTextButton(s, e, link, called) == IF Released(e, link) THEN called ELSE s

changeScreenState(s, screen) == [s EXCEPT !.screen = screen]

\* A login that fails changes no field.
login(s, ok) == IF ok THEN changeScreenState(s, "CHAT") ELSE s

drawLoginScreen(s, e) ==
    LET t == drawTextField(drawTextField(s, "login_username", e), "login_password", e)
        u == DrawRoundedButton(t, e, "login", login(t, e.ok))
    IN  DrawTextButton(u, e, "to_register", changeScreenState(u, "REGISTER"))

\* A registration that fails leaves the password's field inactive.
signup(s, ok) == IF ok THEN changeScreenState(s, "LOGIN")
                 ELSE [s EXCEPT !.active["signup_password"] = FALSE]

\* The password is drawn before the repeated password, and again with it.
drawRegisterScreen(s, e) ==
    LET t1 == drawTextField(drawTextField(s, "signup_username", e), "signup_password", e)
        t2 == drawTextField(drawTextField(t1, "signup_password", e), "repeat_password", e)
        u == DrawRoundedButton(t2, e, "signup", signup(t2, e.ok))
    IN  DrawTextButton(u, e, "to_login", changeScreenState(u, "LOGIN"))

-----------------------------------------------------------------------------
(***************************************************************************)
(* The chat screen, in the order in which its parts are drawn              *)
(***************************************************************************)
drawChatListPanel(s, e) ==
    CASE Pressed(e, "new_chat") ->
           [s EXCEPT !.newChat = TRUE, !.found = FALSE, !.text["search"] = 0]
      [] Pressed(e, "rooms") ->
           [s EXCEPT !.rooms = TRUE, !.mode = 0, !.text["room"] = 0]
      [] Pressed(e, "entry") -> [s EXCEPT !.open = TRUE]
      [] OTHER -> s

\* Enter sends what is in the input, and clears it whether or not that succeeds.
Sent(s, e) ==
    IF s.active["input"] /\ e.enter /\ s.open THEN [s EXCEPT !.text["input"] = 0] ELSE s

\* A variant with a bug: the input drawn a second time, over the messages.
SectionDrawingTwice(s, e) ==
    Sent(drawTextField(drawTextField(s, "input", e), "input", e), e)

drawChatSection(s, e) == Sent(drawTextField(s, "input", e), e)

\* Enter searches; Start Chat is there after a search that has found somebody.
NewChatDialog(s, e) ==
    LET t == drawTextField(s, "search", e)
        u == IF t.active["search"] /\ e.enter /\ t.text["search"] > 0
             THEN [t EXCEPT !.found = e.ok] ELSE t
    IN  CASE Pressed(e, "start_chat") /\ u.found ->
               [u EXCEPT !.open = TRUE, !.newChat = FALSE]
          [] Pressed(e, "close_new_chat") -> [u EXCEPT !.newChat = FALSE]
          [] OTHER -> u
drawNewChatDialog(s, e) == IF s.newChat THEN NewChatDialog(s, e) ELSE s

\* mode 0 has two buttons, modes 1 and 2 the field; what the Create and the Join
\* button do to the list of rooms is in ChatScreen.
RoomDialog(s, e) ==
    LET t == IF s.mode = 0 THEN s ELSE drawTextField(s, "room", e)
        entering(m) == [t EXCEPT !.mode = m, !.text["room"] = 0]
    IN  CASE t.mode = 0 /\ Pressed(e, "create") -> entering(1)
          [] t.mode = 0 /\ Pressed(e, "join") -> entering(2)
          [] t.mode # 0 /\ Pressed(e, "back") -> [t EXCEPT !.mode = 0]
          [] Pressed(e, "close_rooms") -> [t EXCEPT !.rooms = FALSE, !.mode = 0]
          [] OTHER -> t
drawRoomDialog(s, e) == IF s.rooms THEN RoomDialog(s, e) ELSE s

drawChatScreen(s, e) ==
    drawRoomDialog(drawNewChatDialog(drawChatSection(drawChatListPanel(s, e), e), e), e)

-----------------------------------------------------------------------------
\* updateScreen, once per frame.  Characters that no field takes are gone with it.
Frame(e) ==
    LET s == [screens EXCEPT !.queue = e.keys, !.erased = <<>>]
    IN  screens' = [CASE s.screen = "LOGIN" -> drawLoginScreen(s, e)
                      [] s.screen = "REGISTER" -> drawRegisterScreen(s, e)
                      [] s.screen = "CHAT" -> drawChatScreen(s, e)
                    EXCEPT !.queue = 0]

FieldsNext == \E e \in Events(screens.screen) : Frame(e)

FieldsSpec == FieldsInit /\ [][FieldsNext]_screens

-----------------------------------------------------------------------------
(***************************************************************************)
(* Properties                                                              *)
(***************************************************************************)
\* The fields on the screen.
Drawn == CASE screens.screen = "LOGIN" -> {"login_username", "login_password"}
           [] screens.screen = "REGISTER" ->
                {"signup_username", "signup_password", "repeat_password"}
           [] screens.screen = "CHAT" ->
                {"input"} \cup (IF screens.newChat THEN {"search"} ELSE {})
                          \cup (IF screens.rooms /\ screens.mode # 0 THEN {"room"} ELSE {})

\* Both dialogs are open, one over the other: their fields overlap.
BothDialogs == screens.newChat /\ screens.rooms

\* At most one field of the screen listens to the keys, flags that were left set in
\* hidden fields included, unless both dialogs of the chat screen are open.
OneFieldListens ==
    Cardinality({f \in Drawn : screens.active[f]}) > 1 => BothDialogs

\* One Backspace erases one character, unless it is in the password of the register
\* screen, which is drawn twice in a frame, or both dialogs are open.
BackspaceErasesOne ==
    [][Len(screens'.erased) > 1 =>
          \/ screens'.erased = <<"signup_password", "signup_password">>
          \/ BothDialogs]_screens

=============================================================================
