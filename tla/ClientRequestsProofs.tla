------------------------- MODULE ClientRequestsProofs -------------------------
(***************************************************************************)
(* The answers a client takes for its own, for every number of requests,   *)
(* of pushed messages and of polls.                                        *)
(*                                                                         *)
(* Nothing ties a response to a request, so the argument follows each      *)
(* answer on its way.  An answer is in one place at most: still a command, *)
(* on the wire, in the hands of the listener, in the slot, or taken        *)
(* (Single).  As long as no request has ended without its answer, the only *)
(* one under way is that of the request being polled for (InStep).         *)
(*                                                                         *)
(* The second part is about InputFields, the keys of the same client.      *)
(***************************************************************************)
EXTENDS ClientRequests, InputFields, FiniteSetTheorems, TLAPS

-----------------------------------------------------------------------------
(***************************************************************************)
(* Types                                                                   *)
(***************************************************************************)
Threads == {"ui", "listener"}
CommandKinds == Kinds \cup {"login", "user_info", "none"}
Texts == [what : {"none", "answer", "tail", "push"}, by : Threads, n : Nat,
          kind : CommandKinds, ok : BOOLEAN]
Commands == [by : Threads, n : Nat, kind : CommandKinds]
Results == [n : Nat, kind : CommandKinds,
            outcome : {"success", "fail", "timeout", "unsent"}, took : Texts,
            late : BOOLEAN, arrived : BOOLEAN, asked : BOOLEAN]

UIStates == [pc : {"idle", "send", "poll", "join", "gone"}, n : Nat, kind : CommandKinds,
             polls : Nat, loggedIn : BOOLEAN, arrived : BOOLEAN, asked : BOOLEAN,
             stray : BOOLEAN]
ListenerStates == [pc : {"recv", "sort", "write", "ask", "poll", "done"}, n : Nat,
                   polls : Nat, text : Texts]

Typed ==
    /\ connected \in BOOLEAN /\ handler \in BOOLEAN /\ timedOut \in BOOLEAN
    /\ slot \in Texts
    /\ ui \in UIStates
    /\ listener \in ListenerStates
    /\ slot.what = "none" => slot = None
    /\ \A i \in DOMAIN wire : wire[i].what # "none"
    /\ requests \in Seq(Commands)
    /\ wire \in Seq(Texts)
    /\ results \in Seq(Results)

\* What is left of a sequence when its first k elements are gone.
LEMMA RestFacts ==
    ASSUME NEW S, NEW s \in Seq(S), NEW k \in 1..Len(s)
    PROVE  /\ SubSeq(s, k + 1, Len(s)) \in Seq(S)
           /\ Len(SubSeq(s, k + 1, Len(s))) = Len(s) - k
           /\ DOMAIN SubSeq(s, k + 1, Len(s)) = 1..Len(s) - k
           /\ \A i \in 1..Len(s) - k : /\ i + k \in DOMAIN s
                                       /\ SubSeq(s, k + 1, Len(s))[i] = s[i + k]
OBVIOUS

\* An element at the end.
LEMMA AppendFacts ==
    ASSUME NEW S, NEW s \in Seq(S), NEW e \in S
    PROVE  /\ Append(s, e) \in Seq(S)
           /\ DOMAIN Append(s, e) = DOMAIN s \cup {Len(s) + 1}
           /\ Append(s, e)[Len(s) + 1] = e
           /\ \A i \in DOMAIN s : Append(s, e)[i] = s[i] /\ i # Len(s) + 1
OBVIOUS

\* Nothing is under way before the first request.
LEMMA InitTyped == Init => Typed
<1> SUFFICES ASSUME Init PROVE Typed
  OBVIOUS
<1>1. /\ connected \in BOOLEAN /\ handler \in BOOLEAN /\ timedOut \in BOOLEAN
      /\ requests = <<>> /\ wire = <<>> /\ results = <<>>
  BY DEF Init
<1>2. slot \in Texts /\ slot = None
  BY DEF Init, None, Text, Texts, Threads, CommandKinds
<1>3. ui \in UIStates
  BY DEF Init, UIStates, CommandKinds
<1>4. listener \in ListenerStates
  <2>1. None \in Texts
    BY DEF None, Text, Texts, Threads, CommandKinds
  <2>2. \A t \in Texts, pc \in {"recv", "done"} :
           [pc |-> pc, n |-> 0, polls |-> 0, text |-> t] \in ListenerStates
    BY DEF ListenerStates
  <2>3. PICK pc \in {"recv", "done"} :
           listener = [pc |-> pc, n |-> 0, polls |-> 0, text |-> None]
    BY DEF Init
  <2> QED
    BY <2>1, <2>2, <2>3
<1> QED
  <2> HIDE DEF Texts, Commands, Results, None
  <2>1. /\ requests \in Seq(Commands) /\ wire \in Seq(Texts) /\ results \in Seq(Results)
        /\ DOMAIN wire = {}
    BY <1>1
  <2> QED
    BY <1>1, <1>2, <1>3, <1>4, <2>1 DEF Typed

\* The two threads keep their shape.
LEMMA ThreadsTyped ==
    ASSUME Typed, Next
    PROVE  ui' \in UIStates /\ listener' \in ListenerStates
<1>1. ui \in UIStates /\ listener \in ListenerStates
  BY DEF Typed
<1>2. None \in Texts
  BY DEF None, Text, Texts, Threads, CommandKinds
<1>3. Loop \in ListenerStates
  <2> HIDE DEF Texts, None
  <2> QED
    BY <1>1, <1>2 DEF Loop, ListenerStates
<1>4. ASSUME NEW outcome, NEW took, Ended(outcome, took) PROVE ui' \in UIStates
  BY <1>1, <1>4 DEF Ended, UIStates
<1>5. \A t \in Texts, pc \in {"sort", "write"} :
         [listener EXCEPT !.pc = pc, !.text = t] \in ListenerStates
  <2> HIDE DEF Texts
  <2> QED
    BY <1>1 DEF ListenerStates
<1>6. ASSUME NEW text \in Texts, Received(text) PROVE listener' \in ListenerStates
  BY <1>5, <1>6 DEF Received
<1>7. ASSUME Handle PROVE ui' \in UIStates /\ listener' \in ListenerStates
  <2>1. [listener EXCEPT !.pc = "ask", !.n = @ + 1, !.polls = 0, !.text = None]
           \in ListenerStates
    <3>1. listener.n + 1 \in Nat
      BY <1>1 DEF ListenerStates
    <3> HIDE DEF Texts, None
    <3> QED
      BY <1>1, <1>2, <3>1 DEF ListenerStates
  <2>2. [ui EXCEPT !.asked = TRUE] \in UIStates
    BY <1>1 DEF UIStates
  <2> QED
    BY <1>1, <1>3, <1>7, <2>1, <2>2 DEF Handle
<1>8. ASSUME NEW kind \in Kinds \cup {"login"}, Start(kind)
      PROVE  ui' \in UIStates /\ listener' \in ListenerStates
  <2>1. kind \in CommandKinds
    BY DEF CommandKinds
  <2>2. ui.n + 1 \in Nat
    BY <1>1 DEF UIStates
  <2>3. [ui EXCEPT !.pc = "send", !.n = @ + 1, !.kind = kind, !.polls = 0,
                   !.arrived = FALSE, !.asked = FALSE] \in UIStates
    BY <1>1, <2>1, <2>2 DEF UIStates
  <2> QED
    BY <1>1, <1>8, <2>3 DEF Start
<1>9. ASSUME Send PROVE ui' \in UIStates /\ listener' \in ListenerStates
  <2>1. [ui EXCEPT !.pc = "poll"] \in UIStates
    BY <1>1 DEF UIStates
  <2> QED
    BY <1>1, <1>4, <1>9, <2>1 DEF Send
<1>10. ASSUME PollFinds PROVE ui' \in UIStates /\ listener' \in ListenerStates
  BY <1>1, <1>4, <1>10 DEF PollFinds
<1>11. ASSUME PollEmpty PROVE ui' \in UIStates /\ listener' \in ListenerStates
  <2>1. [ui EXCEPT !.polls = @ + 1] \in UIStates
    BY <1>1 DEF UIStates
  <2> QED
    BY <1>1, <1>4, <1>11, <2>1 DEF PollEmpty
<1>12. ASSUME OpenChat \/ Quit \/ Join PROVE ui' \in UIStates /\ listener' \in ListenerStates
  <2>1. \A b \in BOOLEAN : [ui EXCEPT !.stray = b] \in UIStates
    BY <1>1 DEF UIStates
  <2>2. \A pc \in {"join", "gone"} : [ui EXCEPT !.pc = pc] \in UIStates
    BY <1>1 DEF UIStates
  <2>3. CASE OpenChat
    <3>1. (listener.pc = "write" /\ listener.text.what = "push") \in BOOLEAN
      OBVIOUS
    <3>2. PICK b \in BOOLEAN : b = (listener.pc = "write" /\ listener.text.what = "push")
      BY <3>1
    <3>3. ui' = [ui EXCEPT !.stray = b] /\ listener' = listener
      BY <2>3, <3>2 DEF OpenChat
    <3> QED
      BY <1>1, <2>1, <3>3
  <2>4. CASE Quit \/ Join
    BY <1>1, <2>2, <2>4 DEF Quit, Join
  <2> QED
    BY <1>12, <2>3, <2>4
<1>13. wire # <<>> => wire[1] \in Texts
  <2> HIDE DEF Texts
  <2> QED
    BY DEF Typed
<1>14. ASSUME NEW k, Recv(k) PROVE ui' \in UIStates /\ listener' \in ListenerStates
  BY <1>1, <1>6, <1>13, <1>14 DEF Recv, Listening
<1>15. ASSUME RecvPart PROVE ui' \in UIStates /\ listener' \in ListenerStates
  BY <1>1, <1>6, <1>13, <1>15 DEF RecvPart, Listening
<1>16. ASSUME RecvEnds PROVE ui' \in UIStates /\ listener' \in ListenerStates
  <2>1. [listener EXCEPT !.pc = "done"] \in ListenerStates
    <3> HIDE DEF Texts
    <3> QED
      BY <1>1 DEF ListenerStates
  <2> QED
    BY <1>1, <1>16, <2>1 DEF RecvEnds
<1>17. ASSUME Sort PROVE ui' \in UIStates /\ listener' \in ListenerStates
  <2>1. [listener EXCEPT !.pc = "write"] \in ListenerStates
    <3> HIDE DEF Texts
    <3> QED
      BY <1>1 DEF ListenerStates
  <2> QED
    BY <1>1, <1>7, <1>17, <2>1 DEF Sort
<1>18. ASSUME Respond PROVE ui' \in UIStates /\ listener' \in ListenerStates
  <2>1. \A b \in BOOLEAN : [ui EXCEPT !.arrived = b] \in UIStates
    BY <1>1 DEF UIStates
  <2>2. PICK b : b = (ui.arrived \/ (/\ listener.text.what = "answer"
                                     /\ listener.text.by = "ui"
                                     /\ ui.pc = "poll" /\ listener.text.n = ui.n))
    OBVIOUS
  <2>3. b \in BOOLEAN
    BY <1>1, <2>2 DEF UIStates
  <2>4. ui' = [ui EXCEPT !.arrived = b] /\ listener' = Loop
    BY <1>18, <2>2 DEF Respond
  <2> QED
    BY <1>3, <2>1, <2>3, <2>4
<1>19. ASSUME AskSends PROVE ui' \in UIStates /\ listener' \in ListenerStates
  <2>1. [listener EXCEPT !.pc = "poll"] \in ListenerStates
    <3> HIDE DEF Texts
    <3> QED
      BY <1>1 DEF ListenerStates
  <2> QED
    BY <1>1, <1>3, <1>19, <2>1 DEF AskSends
<1>20. ASSUME AskPoll PROVE ui' \in UIStates /\ listener' \in ListenerStates
  <2>1. [listener EXCEPT !.polls = @ + 1] \in ListenerStates
    <3> HIDE DEF Texts
    <3> QED
      BY <1>1 DEF ListenerStates
  <2> QED
    BY <1>1, <1>3, <1>20, <2>1 DEF AskPoll
<1>21. ASSUME (\E k : Serve(k)) \/ PushMessage \/ ServerEnds
       PROVE  ui' \in UIStates /\ listener' \in ListenerStates
  BY <1>1, <1>21 DEF Serve, PushMessage, ServerEnds
<1> QED
  BY <1>8, <1>9, <1>10, <1>11, <1>12, <1>14, <1>15, <1>16, <1>17, <1>18, <1>19, <1>20, <1>21
     DEF Next, UIStep, ListenerStep, User, ServerStep

\* A text is in the hands of the listener between its recv and what becomes of it;
\* only a push is looked at again.
Held ==
    /\ listener.pc \in {"sort", "write"} => listener.text.what # "none"
    /\ listener.pc \notin {"sort", "write"} => listener.text = None
    /\ listener.pc = "sort" => listener.text.what = "push"

\* What becomes of it: it goes with the step that takes the listener on.
LEMMA ListenerHeld ==
    ASSUME Typed, Held, Next
    PROVE  Held'
<1>1. listener \in ListenerStates
  BY DEF Typed
<1>2. ASSUME listener' = Loop \/ UNCHANGED listener PROVE Held'
  BY <1>1, <1>2 DEF Loop, Held, ListenerStates
<1>3. ASSUME NEW text, text.what # "none", Received(text) PROVE Held'
  BY <1>1, <1>3 DEF Received, Held, ListenerStates
<1>4. wire # <<>> => wire[1].what # "none"
  <2>1. wire # <<>> => 1 \in DOMAIN wire
    BY DEF Typed
  <2> QED
    BY <2>1 DEF Typed
<1>5. ASSUME (\E k : Recv(k)) \/ RecvPart PROVE Held'
  BY <1>3, <1>4, <1>5 DEF Recv, RecvPart, Listening
<1>6. CASE Sort
  <2>1. ASSUME listener' = [listener EXCEPT !.pc = "write"] PROVE Held'
    BY <1>1, <1>6, <2>1 DEF Sort, Held, ListenerStates
  <2>2. ASSUME listener' = [listener EXCEPT !.pc = "ask", !.n = @ + 1, !.polls = 0,
                                            !.text = None]
        PROVE  Held'
    BY <1>1, <2>2 DEF Held, ListenerStates
  <2> QED
    BY <1>2, <1>6, <2>1, <2>2 DEF Sort, Handle
<1>7. CASE Respond
  BY <1>2, <1>7 DEF Respond
<1>8. CASE RecvEnds \/ AskSends \/ AskPoll
  <2>1. listener.text = None /\ listener.pc \in {"recv", "ask", "poll"}
    BY <1>8 DEF Held, RecvEnds, AskSends, AskPoll
  <2>2. ASSUME listener' = Loop PROVE Held'
    BY <1>2, <2>2
  <2>3. ASSUME NEW pc \in {"done", "poll"}, listener' = [listener EXCEPT !.pc = pc]
        PROVE  Held'
    BY <1>1, <2>1, <2>3 DEF Held, ListenerStates
  <2>4. ASSUME listener' = [listener EXCEPT !.polls = @ + 1] PROVE Held'
    BY <1>1, <2>1, <2>4 DEF Held, ListenerStates
  <2> QED
    BY <1>2, <1>8, <2>2, <2>3, <2>4 DEF RecvEnds, AskSends, AskPoll
<1>9. CASE UNCHANGED listener
  BY <1>2, <1>9
<1> QED
  BY <1>5, <1>6, <1>7, <1>8, <1>9
     DEF Next, UIStep, ListenerStep, User, ServerStep, Start, Send, PollFinds, PollEmpty,
         OpenChat, Quit, Join, Serve, PushMessage, ServerEnds

-----------------------------------------------------------------------------
(***************************************************************************)
(* Where an answer can be                                                  *)
(***************************************************************************)
Name(x) == <<x.by, x.n>>
Answers(w) == {i \in DOMAIN w : w[i].what = "answer"}
Served == {i \in DOMAIN results : results[i].took.what = "answer"}

Requested == {Name(requests[i]) : i \in DOMAIN requests}
Wired == {Name(wire[i]) : i \in Answers(wire)}
InHand == IF listener.text.what = "answer" THEN {Name(listener.text)} ELSE {}
Coming == Wired \cup InHand
InSlot == IF slot.what = "answer" THEN {Name(slot)} ELSE {}
Taken == {Name(results[i].took) : i \in Served}

OnceRequested == \A i, j \in DOMAIN requests : Name(requests[i]) = Name(requests[j]) => i = j
OnceWired == \A i, j \in Answers(wire) : Name(wire[i]) = Name(wire[j]) => i = j
OnceTaken == \A i, j \in Served : Name(results[i].took) = Name(results[j].took) => i = j

\* A thread has given this number to a command of its own.
Issued(p) == \/ p[1] = "ui" /\ (p[2] < ui.n \/ (p[2] = ui.n /\ ui.pc # "send"))
             \/ /\ p[1] = "listener"
                /\ p[2] < listener.n \/ (p[2] = listener.n /\ listener.pc # "ask")

Waiting == ui.pc \in {"send", "poll"}

\* Every answer is in one place, and was asked for.
Single ==
    /\ OnceRequested /\ OnceWired /\ OnceTaken
    /\ Wired \cap InHand = {}
    /\ Requested \cap Coming = {}
    /\ (Requested \cup Coming) \cap (InSlot \cup Taken) = {}
    /\ Waiting => InSlot \cap Taken = {}
    /\ \A p \in Requested \cup Coming \cup InSlot \cup Taken :
          p \in Threads \X Nat /\ Issued(p)

\* A command joins the others.
LEMMA RequestsGrow ==
    ASSUME requests \in Seq(Commands), NEW c \in Commands,
           requests' = Append(requests, c)
    PROVE  /\ requests' \in Seq(Commands)
           /\ Requested' = Requested \cup {Name(c)}
           /\ OnceRequested /\ Name(c) \notin Requested => OnceRequested'
<1>1. /\ requests' \in Seq(Commands)
      /\ DOMAIN requests' = DOMAIN requests \cup {Len(requests) + 1}
      /\ requests'[Len(requests) + 1] = c
      /\ \A i \in DOMAIN requests : requests'[i] = requests[i] /\ i # Len(requests) + 1
  <2> HIDE DEF Commands
  <2> QED
    BY AppendFacts
<1>2. PICK m : m = Len(requests) + 1
  OBVIOUS
<1>3. Requested' = Requested \cup {Name(c)}
  BY <1>1, <1>2 DEF Requested
<1>4. OnceRequested /\ Name(c) \notin Requested => OnceRequested'
  BY <1>1, <1>2 DEF Requested, OnceRequested
<1> QED
  BY <1>1, <1>3, <1>4

\* The first commands go, and with them the name of the first.
LEMMA RequestsShrink ==
    ASSUME requests \in Seq(Commands), NEW k \in 1..Len(requests),
           requests' = SubSeq(requests, k + 1, Len(requests))
    PROVE  /\ requests' \in Seq(Commands)
           /\ Requested' \subseteq Requested
           /\ Name(requests[1]) \in Requested /\ requests[1] \in Commands
           /\ OnceRequested => OnceRequested' /\ Name(requests[1]) \notin Requested'
<1>1. /\ requests' \in Seq(Commands)
      /\ DOMAIN requests' = 1..Len(requests) - k
      /\ \A i \in 1..Len(requests) - k : i + k \in DOMAIN requests /\ requests'[i] = requests[i + k]
  <2> HIDE DEF Commands
  <2> QED
    BY RestFacts
<1>2. 1 \in DOMAIN requests /\ \A i \in 1..Len(requests) - k : i + k # 1
  OBVIOUS
<1>3. Requested' \subseteq Requested
  BY <1>1 DEF Requested
<1>4. Name(requests[1]) \in Requested /\ requests[1] \in Commands
  BY <1>2 DEF Requested
<1>5. ASSUME OnceRequested PROVE OnceRequested' /\ Name(requests[1]) \notin Requested'
  <2>1. OnceRequested'
    <3> SUFFICES ASSUME NEW i \in DOMAIN requests', NEW j \in DOMAIN requests',
                        Name(requests'[i]) = Name(requests'[j])
                 PROVE  i = j
      BY DEF OnceRequested
    <3>1. i + k = j + k
      BY <1>1, <1>5 DEF OnceRequested
    <3> QED
      BY <1>1, <3>1
  <2>2. Name(requests[1]) \notin Requested'
    BY <1>1, <1>2, <1>5 DEF OnceRequested, Requested
  <2> QED
    BY <2>1, <2>2
<1> QED
  BY <1>1, <1>3, <1>4, <1>5

\* A text joins the wire.
LEMMA WireGrows ==
    ASSUME wire \in Seq(Texts), NEW t \in Texts, wire' = Append(wire, t)
    PROVE  /\ wire' \in Seq(Texts)
           /\ (\A i \in DOMAIN wire : wire[i].what # "none") /\ t.what # "none" =>
                 \A i \in DOMAIN wire' : wire'[i].what # "none"
           /\ Wired' = Wired \cup (IF t.what = "answer" THEN {Name(t)} ELSE {})
           /\ OnceWired /\ (t.what = "answer" => Name(t) \notin Wired) => OnceWired'
<1>1. /\ wire' \in Seq(Texts)
      /\ DOMAIN wire' = DOMAIN wire \cup {Len(wire) + 1}
      /\ wire'[Len(wire) + 1] = t
      /\ \A i \in DOMAIN wire : wire'[i] = wire[i] /\ i # Len(wire) + 1
  <2> HIDE DEF Texts
  <2> QED
    BY AppendFacts
<1>2. PICK m : m = Len(wire) + 1
  OBVIOUS
<1>3. /\ DOMAIN wire' = DOMAIN wire \cup {m} /\ wire'[m] = t
      /\ \A i \in DOMAIN wire : wire'[i] = wire[i] /\ i # m
  BY <1>1, <1>2
<1>4. Answers(wire)' = Answers(wire) \cup (IF t.what = "answer" THEN {m} ELSE {})
  BY <1>3 DEF Answers
<1>5. Wired' = Wired \cup (IF t.what = "answer" THEN {Name(t)} ELSE {})
  BY <1>3, <1>4 DEF Wired, Answers
<1>6. OnceWired /\ (t.what = "answer" => Name(t) \notin Wired) => OnceWired'
  BY <1>3, <1>4 DEF OnceWired, Wired, Answers
<1> QED
  BY <1>1, <1>3, <1>5, <1>6

\* The first texts go, and with them the name of the first if it is an answer.
LEMMA WireShrinks ==
    ASSUME wire \in Seq(Texts), NEW k \in 1..Len(wire),
           wire' = SubSeq(wire, k + 1, Len(wire))
    PROVE  /\ wire' \in Seq(Texts)
           /\ (\A i \in DOMAIN wire : wire[i].what # "none") =>
                 \A i \in DOMAIN wire' : wire'[i].what # "none"
           /\ Wired' \subseteq Wired
           /\ wire[1] \in Texts /\ 1 \in DOMAIN wire
           /\ wire[1].what = "answer" => Name(wire[1]) \in Wired
           /\ OnceWired => /\ OnceWired'
                           /\ wire[1].what = "answer" => Name(wire[1]) \notin Wired'
<1>1. /\ wire' \in Seq(Texts)
      /\ DOMAIN wire' = 1..Len(wire) - k
      /\ \A i \in 1..Len(wire) - k : i + k \in DOMAIN wire /\ wire'[i] = wire[i + k]
  <2> HIDE DEF Texts
  <2> QED
    BY RestFacts
<1>2. 1 \in DOMAIN wire /\ \A i \in 1..Len(wire) - k : i + k # 1
  OBVIOUS
<1>3. \A i \in Answers(wire)' : i \in 1..Len(wire) - k /\ i + k \in Answers(wire)
  BY <1>1 DEF Answers
<1>4. Wired' \subseteq Wired
  BY <1>1, <1>3 DEF Wired
<1>5. wire[1] \in Texts
  <2> HIDE DEF Texts
  <2> QED
    BY <1>2
<1>6. wire[1].what = "answer" => 1 \in Answers(wire) /\ Name(wire[1]) \in Wired
  BY <1>2 DEF Wired, Answers
<1>7. ASSUME OnceWired
      PROVE  OnceWired' /\ (wire[1].what = "answer" => Name(wire[1]) \notin Wired')
  <2>1. OnceWired'
    <3> SUFFICES ASSUME NEW i \in Answers(wire)', NEW j \in Answers(wire)',
                        Name(wire'[i]) = Name(wire'[j])
                 PROVE  i = j
      BY DEF OnceWired
    <3>1. i + k = j + k
      BY <1>1, <1>3, <1>7 DEF OnceWired
    <3> QED
      BY <1>3, <3>1
  <2>2. wire[1].what = "answer" => Name(wire[1]) \notin Wired'
    BY <1>1, <1>2, <1>3, <1>6, <1>7 DEF OnceWired, Wired
  <2> QED
    BY <2>1, <2>2
<1> QED
  BY <1>1, <1>2, <1>4, <1>5, <1>6, <1>7

\* The first part of a history goes; its second part is no answer.
LEMMA WireSplits ==
    ASSUME wire \in Seq(Texts), wire # <<>>, wire[1].what = "answer",
           wire' = [wire EXCEPT ![1].what = "tail"]
    PROVE  /\ wire' \in Seq(Texts)
           /\ (\A i \in DOMAIN wire : wire[i].what # "none") =>
                 \A i \in DOMAIN wire' : wire'[i].what # "none"
           /\ Wired' \subseteq Wired
           /\ wire[1] \in Texts /\ Name(wire[1]) \in Wired
           /\ OnceWired => OnceWired' /\ Name(wire[1]) \notin Wired'
<1>1. 1 \in DOMAIN wire /\ wire[1] \in Texts
  OBVIOUS
<1>2. PICK t : t = [wire[1] EXCEPT !.what = "tail"]
  OBVIOUS
<1>3. t \in Texts /\ t.what = "tail"
  BY <1>1, <1>2 DEF Texts
<1>4. wire' = [wire EXCEPT ![1] = t]
  BY <1>2
<1> HIDE DEF Texts
<1>5. /\ wire' \in Seq(Texts) /\ DOMAIN wire' = DOMAIN wire
      /\ wire'[1] = t /\ \A i \in DOMAIN wire \ {1} : wire'[i] = wire[i]
  BY <1>1, <1>3, <1>4
<1>6. Answers(wire)' = Answers(wire) \ {1} /\ 1 \in Answers(wire)
  BY <1>1, <1>3, <1>5 DEF Answers
<1>7. Wired' \subseteq Wired /\ Name(wire[1]) \in Wired
  BY <1>5, <1>6 DEF Wired, Answers
<1>8. ASSUME OnceWired PROVE OnceWired' /\ Name(wire[1]) \notin Wired'
  <2>1. \A i \in Answers(wire)' : i \in Answers(wire) \ {1} /\ wire'[i] = wire[i]
    BY <1>5, <1>6 DEF Answers
  <2> QED
    BY <1>6, <1>8, <2>1 DEF OnceWired, Wired
<1> QED
  BY <1>1, <1>3, <1>5, <1>7, <1>8

\* A request ends with a text, or without.
LEMMA ResultsGrow ==
    ASSUME results \in Seq(Results), NEW r \in Results, results' = Append(results, r)
    PROVE  /\ results' \in Seq(Results)
           /\ Taken' = Taken \cup (IF r.took.what = "answer" THEN {Name(r.took)} ELSE {})
           /\ OnceTaken /\ (r.took.what = "answer" => Name(r.took) \notin Taken) => OnceTaken'
<1>1. /\ results' \in Seq(Results)
      /\ DOMAIN results' = DOMAIN results \cup {Len(results) + 1}
      /\ results'[Len(results) + 1] = r
      /\ \A i \in DOMAIN results : results'[i] = results[i] /\ i # Len(results) + 1
  <2> HIDE DEF Results
  <2> QED
    BY AppendFacts
<1>2. PICK m : m = Len(results) + 1
  OBVIOUS
<1>3. /\ DOMAIN results' = DOMAIN results \cup {m} /\ results'[m] = r
      /\ \A i \in DOMAIN results : results'[i] = results[i] /\ i # m
  BY <1>1, <1>2
<1>4. Served' = Served \cup (IF r.took.what = "answer" THEN {m} ELSE {})
  BY <1>3 DEF Served
<1>5. Taken' = Taken \cup (IF r.took.what = "answer" THEN {Name(r.took)} ELSE {})
  BY <1>3, <1>4 DEF Taken, Served
<1>6. OnceTaken /\ (r.took.what = "answer" => Name(r.took) \notin Taken) => OnceTaken'
  BY <1>3, <1>4 DEF OnceTaken, Taken, Served
<1> QED
  BY <1>1, <1>5, <1>6

-----------------------------------------------------------------------------
(***************************************************************************)
(* The invariant                                                           *)
(***************************************************************************)

\* While the listener asks for a name nobody writes to the slot: its own answer
\* is still on the wire, and its request always times out.
Unanswered == listener.pc \in {"ask", "poll"} => slot = None

\* Every request so far has had its answer, or could not be sent.
Clean == ~timedOut /\ \A i \in DOMAIN results : results[i].took.what \notin {"push", "tail"}

InStep ==
    Clean => /\ \A p \in Requested \cup Coming :
                   \/ p = <<"ui", ui.n>> /\ ui.pc = "poll"
                   \/ p = <<"listener", listener.n>> /\ listener.pc = "poll"
             /\ InSlot \subseteq {<<"ui", ui.n>>}

OwnAnswers ==
    \A i \in DOMAIN results :
       LET r == results[i]
       IN  r.took.what = "answer" /\ ~Own(r) =>
              \/ r.late
              \/ \E j \in 1..i - 1 : results[j].took.what \in {"push", "tail"}

IInv == Typed /\ Held /\ Unanswered /\ Single /\ InStep /\ OwnAnswers

\* The invariant holds at the start.
LEMMA InitIInv == Init => IInv
<1> SUFFICES ASSUME Init PROVE IInv
  OBVIOUS
<1>1. /\ requests = <<>> /\ wire = <<>> /\ results = <<>> /\ slot.what = "none"
      /\ listener.pc \in {"recv", "done"} /\ listener.text = None
  BY DEF Init, None, Text
<1>2. /\ Requested = {} /\ Wired = {} /\ InHand = {} /\ Coming = {}
      /\ InSlot = {} /\ Taken = {}
  BY <1>1 DEF Requested, Wired, Answers, InHand, Coming, InSlot, Taken, Served, None, Text
<1>3. Single
  BY <1>1, <1>2 DEF Single, OnceRequested, OnceWired, OnceTaken, Answers, Served
<1> QED
  BY <1>1, <1>2, <1>3, InitTyped DEF IInv, Held, Unanswered, InStep, OwnAnswers

\* What a step that ends no request leaves as it is.
LEMMA ResultsKept ==
    ASSUME Typed, UNCHANGED results
    PROVE  /\ results' \in Seq(Results) /\ Taken' = Taken
           /\ OnceTaken => OnceTaken'
           /\ OwnAnswers => OwnAnswers'
           /\ Clean' => Clean \/ timedOut # timedOut'
BY DEF Typed, Taken, OnceTaken, Served, OwnAnswers, Own, Clean

\* A step that leaves the requests alone keeps what is known of them, ...
LEMMA RequestsKept ==
    ASSUME UNCHANGED requests
    PROVE  Requested' = Requested /\ (OnceRequested => OnceRequested')
BY DEF Requested, OnceRequested

\* ... and one that leaves the wire alone what is known of the responses on it.
LEMMA WireKept ==
    ASSUME UNCHANGED wire
    PROVE  Wired' = Wired /\ (OnceWired => OnceWired')
BY DEF Wired, OnceWired, Answers

\* The end of a request: its record is typed and says what was in the slot, the
\* answer is right unless something went wrong before.
LEMMA EndFacts ==
    ASSUME IInv, NEW outcome \in {"success", "fail", "timeout", "unsent"},
           NEW took \in Texts, Ended(outcome, took), Waiting,
           took = None \/ took = slot
    PROVE  /\ results' \in Seq(Results)
           /\ Taken \subseteq Taken' /\ Taken' \subseteq Taken \cup InSlot
           /\ slot.what = "answer" /\ took = slot => Name(slot) \in Taken'
           /\ OnceTaken' /\ OwnAnswers'
           /\ Clean' => \/ timedOut # timedOut'
                        \/ Clean /\ took.what \in {"none", "answer"}
           /\ ui'.n = ui.n /\ ui'.pc = "idle"
<1> DEFINE r == [n |-> ui.n, kind |-> ui.kind, outcome |-> outcome, took |-> took,
                 late |-> timedOut, arrived |-> ui.arrived, asked |-> ui.asked]
<1>1. /\ r \in Results /\ results' = Append(results, r)
      /\ r.took = took /\ r.n = ui.n /\ r.late = timedOut
  BY DEF IInv, Typed, UIStates, Ended, Results
<1> HIDE DEF r
<1>2. results \in Seq(Results) /\ OnceTaken /\ InSlot \cap Taken = {}
  BY DEF IInv, Typed, Single
<1>3. /\ results' \in Seq(Results)
      /\ Taken' = Taken \cup (IF took.what = "answer" THEN {Name(took)} ELSE {})
      /\ (took.what = "answer" => Name(took) \notin Taken) => OnceTaken'
  BY <1>1, <1>2, ResultsGrow
<1>4. took.what = "answer" => took = slot /\ InSlot = {Name(slot)}
  BY DEF None, Text, InSlot
<1>5. OnceTaken' /\ Taken' \subseteq Taken \cup InSlot
  BY <1>2, <1>3, <1>4
<1>6. /\ DOMAIN results' = DOMAIN results \cup {Len(results) + 1}
      /\ results'[Len(results) + 1] = r
      /\ \A i \in DOMAIN results : results'[i] = results[i] /\ i # Len(results) + 1
  <2> HIDE DEF Results
  <2> QED
    BY <1>1, <1>2, AppendFacts
<1>7. PICK m : m = Len(results) + 1
  OBVIOUS
<1>8. DOMAIN results = 1..m - 1 /\ m \in Nat
  BY <1>2, <1>7
<1>9. OwnAnswers'
  <2> SUFFICES ASSUME NEW i \in DOMAIN results', results'[i].took.what = "answer",
                      ~Own(results'[i]), ~results'[i].late
               PROVE  \E j \in 1..i - 1 : results'[j].took.what \in {"push", "tail"}
    BY DEF OwnAnswers, Own
  <2>1. CASE i \in DOMAIN results
    <3>1. results'[i] = results[i]
      BY <1>6, <2>1
    <3>2. PICK j \in 1..i - 1 : results[j].took.what \in {"push", "tail"}
      BY <2>1, <3>1 DEF IInv, OwnAnswers
    <3>3. j \in DOMAIN results
      BY <1>8, <2>1, <3>2
    <3> QED
      BY <1>6, <3>2, <3>3
  <2>2. CASE i = m
    <3>1. results'[i] = r
      BY <1>6, <1>7, <2>2
    <3>2. ~timedOut /\ slot.what = "answer" /\ took = slot /\ Name(slot) # <<"ui", ui.n>>
      BY <1>1, <1>4, <3>1 DEF Own, Name
    <3>3. ~Clean
      BY <3>2 DEF IInv, InStep, InSlot
    <3>4. PICK j \in DOMAIN results : results[j].took.what \in {"push", "tail"}
      BY <3>2, <3>3 DEF Clean
    <3> QED
      BY <1>6, <1>8, <2>2, <3>4
  <2> QED
    BY <1>6, <1>7, <2>1, <2>2
<1>10. ASSUME Clean', timedOut' = timedOut PROVE Clean /\ took.what \in {"none", "answer"}
  <2>1. Clean
    BY <1>6, <1>10 DEF Clean
  <2>2. took.what \notin {"push", "tail"}
    BY <1>1, <1>6, <1>10 DEF Clean
  <2> QED
    BY <2>1, <2>2 DEF Texts
<1>11. ui'.n = ui.n /\ ui'.pc = "idle"
  BY DEF Ended, IInv, Typed
<1> QED
  BY <1>3, <1>5, <1>9, <1>10, <1>11

\* What no single step can disturb once its own effects are known.
LEMMA SingleKept ==
    ASSUME Single, OnceRequested', OnceWired', OnceTaken',
           Requested' \subseteq Requested, Coming' \subseteq Coming,
           Wired' \cap InHand' = {},
           InSlot' \cup Taken' \subseteq InSlot \cup Taken,
           Waiting' => InSlot' \cap Taken' = {},
           \A p \in Threads \X Nat : Issued(p) => Issued(p)'
    PROVE  Single'
<1>1. /\ Requested \cap Coming = {}
      /\ (Requested \cup Coming) \cap (InSlot \cup Taken) = {}
      /\ \A p \in Requested \cup Coming \cup InSlot \cup Taken :
            p \in Threads \X Nat /\ Issued(p)
  BY DEF Single
<1>2. /\ Requested' \cap Coming' = {}
      /\ (Requested' \cup Coming') \cap (InSlot' \cup Taken') = {}
  BY <1>1
<1>3. \A p \in Requested' \cup Coming' \cup InSlot' \cup Taken' :
         p \in Threads \X Nat /\ Issued(p)'
  BY <1>1
<1> QED
  BY <1>2, <1>3 DEF Single

\* A thread that keeps its number, and is not about to send, keeps what it has issued.
LEMMA IssuedKept ==
    ASSUME Typed,
           \/ ui'.n = ui.n /\ (ui'.pc = "send" => ui.pc = "send")
           \/ ui'.n = ui.n + 1,
           \/ listener'.n = listener.n /\ (listener'.pc = "ask" => listener.pc = "ask")
           \/ listener'.n = listener.n + 1
    PROVE  \A p \in Threads \X Nat : Issued(p) => Issued(p)'
<1>1. ui.n \in Nat /\ listener.n \in Nat
  BY DEF Typed, UIStates, ListenerStates
<1> QED
  BY <1>1 DEF Issued

\* A step that sends nothing, brings no answer and ends no request: texts may go, a
\* thread may move on, as long as it does not stop waiting for an answer unnoticed.
LEMMA QuietIInv ==
    ASSUME IInv, Next \/ UNCHANGED <<ui, listener>>, UNCHANGED results,
           connected' \in BOOLEAN, handler' \in BOOLEAN, timedOut' \in BOOLEAN,
           timedOut => timedOut',
           slot' = slot \/ slot' = None,
           requests' \in Seq(Commands), Requested' \subseteq Requested, OnceRequested',
           wire' \in Seq(Texts), \A i \in DOMAIN wire' : wire'[i].what # "none",
           Coming' \subseteq Coming, Wired' \cap InHand' = {}, OnceWired',
           \/ /\ ui'.n = ui.n
              /\ ui'.pc = "send" => ui.pc = "send"
              /\ Waiting' => Waiting
           \/ ui'.n = ui.n + 1 /\ slot' = None,
           ui.pc = "poll" => ui'.pc = "poll" /\ ui'.n = ui.n,
           \/ listener'.n = listener.n /\ (listener'.pc = "ask" => listener.pc = "ask")
           \/ listener'.n = listener.n + 1,
           listener.pc = "poll" =>
              timedOut' \/ (listener'.pc = "poll" /\ listener'.n = listener.n),
           listener'.pc \in {"ask", "poll"} => listener.pc \in {"ask", "poll"} \/ slot' = None
    PROVE  IInv'
<1>1. Typed /\ Held /\ Unanswered /\ Single /\ InStep /\ OwnAnswers
  BY DEF IInv
<1>2. None \in Texts
  BY DEF None, Text, Texts, Threads, CommandKinds
<1>3. Typed'
  <2>1. ui' \in UIStates /\ listener' \in ListenerStates
    BY <1>1, ThreadsTyped DEF Typed
  <2>2. results' \in Seq(Results) /\ slot' \in Texts /\ (slot'.what = "none" => slot' = None)
    BY <1>1, <1>2 DEF Typed
  <2> QED
    BY <2>1, <2>2 DEF Typed, None
<1>4. Unanswered'
  BY <1>1 DEF Unanswered, None
<1>5. InSlot' \subseteq InSlot /\ (slot' = None => InSlot' = {})
  BY DEF InSlot, Name, None, Text
<1>6. Taken' = Taken /\ OnceTaken' /\ OwnAnswers'
  BY <1>1, ResultsKept DEF Single
<1>7. Single'
  <2>1. \A p \in Threads \X Nat : Issued(p) => Issued(p)'
    BY <1>1, IssuedKept
  <2>2. Waiting' => InSlot' \cap Taken' = {}
    BY <1>1, <1>5, <1>6 DEF Single
  <2> QED
    BY <1>1, <1>5, <1>6, <2>1, <2>2, SingleKept
<1>7a. Held'
  BY <1>1, ListenerHeld DEF Held
<1>8. InStep'
  <2> SUFFICES ASSUME Clean'
               PROVE  /\ \A p \in Requested' \cup Coming' :
                            \/ p = <<"ui", ui'.n>> /\ ui'.pc = "poll"
                            \/ p = <<"listener", listener'.n>> /\ listener'.pc = "poll"
                      /\ InSlot' \subseteq {<<"ui", ui'.n>>}
    BY DEF InStep
  <2>1. Clean /\ ~timedOut'
    BY <1>1 DEF Clean, Typed
  <2>2. /\ \A p \in Requested \cup Coming :
              \/ p = <<"ui", ui.n>> /\ ui.pc = "poll"
              \/ p = <<"listener", listener.n>> /\ listener.pc = "poll"
        /\ InSlot \subseteq {<<"ui", ui.n>>}
    BY <1>1, <2>1 DEF InStep
  <2>3. \A p \in Requested' \cup Coming' :
           \/ p = <<"ui", ui'.n>> /\ ui'.pc = "poll"
           \/ p = <<"listener", listener'.n>> /\ listener'.pc = "poll"
    BY <2>1, <2>2
  <2>4. InSlot' \subseteq {<<"ui", ui'.n>>}
    BY <1>5, <2>2
  <2> QED
    BY <2>3, <2>4
<1> QED
  BY <1>3, <1>4, <1>6, <1>7, <1>7a, <1>8 DEF IInv

\* The texts that do not move stay as they are.
LEMMA TextsStay ==
    ASSUME IInv
    PROVE  /\ UNCHANGED requests => /\ requests' \in Seq(Commands)
                                    /\ Requested' \subseteq Requested /\ OnceRequested'
           /\ UNCHANGED wire => /\ wire' \in Seq(Texts)
                                /\ \A i \in DOMAIN wire' : wire'[i].what # "none"
                                /\ OnceWired'
           /\ UNCHANGED wire /\ (InHand' = InHand \/ InHand' = {}) =>
                 Coming' \subseteq Coming /\ Wired' \cap InHand' = {}
<1>1. UNCHANGED requests => Requested' \subseteq Requested /\ OnceRequested'
  BY RequestsKept DEF IInv, Single
<1>2. UNCHANGED wire => Wired' \subseteq Wired /\ OnceWired'
  BY WireKept DEF IInv, Single
<1>3. Wired \cap InHand = {}
  BY DEF IInv, Single
<1> QED
  BY <1>1, <1>2, <1>3 DEF IInv, Typed, Coming

\* The hands of the listener are empty, or as they were.
LEMMA HandStays ==
    ASSUME Held, \/ UNCHANGED listener
                 \/ Held' /\ listener'.pc \notin {"sort", "write"}
    PROVE  InHand' = InHand \/ InHand' = {}
BY DEF Held, InHand, Name, None, Text

-----------------------------------------------------------------------------
(***************************************************************************)
(* The UI thread                                                           *)
(***************************************************************************)
LEMMA StartIInv ==
    ASSUME IInv, Next, NEW kind \in Kinds \cup {"login"}, Start(kind)
    PROVE  IInv'
<1>1. /\ Typed /\ slot' = None /\ ui.pc = "idle"
      /\ UNCHANGED <<connected, handler, listener, requests, wire, timedOut, results>>
  BY DEF IInv, Start
<1>2. ui'.n = ui.n + 1
  BY <1>1 DEF Start, Typed
<1>3. connected' \in BOOLEAN /\ handler' \in BOOLEAN /\ timedOut' \in BOOLEAN
  BY <1>1 DEF Typed
<1>4. InHand' = InHand
  BY <1>1 DEF InHand, Name
<1> QED
  BY <1>1, <1>2, <1>3, <1>4, TextsStay, QuietIInv

\* A request ends: nothing but the slot and what was taken is concerned.
LEMMA EndIInv ==
    ASSUME IInv, Next, NEW outcome \in {"success", "fail", "timeout", "unsent"},
           NEW took \in {None, slot}, Ended(outcome, took),
           Waiting, ui.pc = "poll" => took = slot,
           ui.pc = "poll" /\ slot = None => timedOut',
           timedOut => timedOut', timedOut' \in BOOLEAN,
           UNCHANGED <<connected, handler, slot, requests, wire, listener>>
    PROVE  IInv'
<1>1. Typed /\ Held /\ Unanswered /\ Single /\ InStep /\ took \in Texts
  <2>1. None \in Texts
    BY DEF None, Text, Texts, Threads, CommandKinds
  <2> QED
    BY <2>1 DEF IInv, Typed
<1>2. /\ results' \in Seq(Results)
      /\ Taken \subseteq Taken' /\ Taken' \subseteq Taken \cup InSlot
      /\ slot.what = "answer" /\ took = slot => Name(slot) \in Taken'
      /\ OnceTaken' /\ OwnAnswers'
      /\ Clean' => \/ timedOut # timedOut'
                   \/ Clean /\ took.what \in {"none", "answer"}
      /\ ui'.n = ui.n /\ ui'.pc = "idle"
  BY <1>1, EndFacts
<1>3. Typed'
  BY <1>1, <1>2, ThreadsTyped DEF Typed, None
<1>4. Unanswered' /\ Held'
  BY <1>1 DEF Unanswered, Held, None
<1>5. /\ InSlot' = InSlot /\ Requested' = Requested
      /\ Wired' = Wired /\ InHand' = InHand /\ Coming' = Coming
  BY RequestsKept, WireKept DEF InSlot, InHand, Coming, Name
<1>6. Single'
  <2>1. \A p \in Threads \X Nat : Issued(p) => Issued(p)'
    BY <1>1, <1>2, IssuedKept
  <2>2. OnceRequested' /\ OnceWired' /\ ~Waiting'
    BY <1>1, <1>2, RequestsKept, WireKept DEF Single, Waiting
  <2>3. Wired' \cap InHand' = {}
    BY <1>1, <1>5 DEF Single
  <2> QED
    BY <1>1, <1>2, <1>5, <2>1, <2>2, <2>3, SingleKept
<1>7. InStep'
  <2> SUFFICES ASSUME Clean'
               PROVE  /\ \A p \in Requested \cup Coming :
                            p = <<"listener", listener.n>> /\ listener.pc = "poll"
                      /\ InSlot \subseteq {<<"ui", ui.n>>}
    BY <1>2, <1>5 DEF InStep
  <2>1. Clean /\ ~timedOut' /\ took.what \in {"none", "answer"}
    BY <1>1, <1>2 DEF Clean, Typed
  <2>2. ASSUME NEW p \in Requested \cup Coming, p = <<"ui", ui.n>>, ui.pc = "poll"
        PROVE  FALSE
    <3>1. slot # None /\ took = slot /\ slot.what = "answer"
      BY <1>1, <2>1, <2>2 DEF Typed
    <3>2. InSlot = {<<"ui", ui.n>>}
      BY <1>1, <2>1, <3>1 DEF InStep, InSlot
    <3> QED
      BY <1>1, <2>2, <3>2 DEF Single
  <2> QED
    BY <1>1, <2>1, <2>2 DEF InStep
<1> QED
  BY <1>2, <1>3, <1>4, <1>6, <1>7 DEF IInv

\* The UI thread sends a request, or fails to.
LEMMA SendIInv ==
    ASSUME IInv, Next, Send
    PROVE  IInv'
<1>1. /\ Typed /\ Held /\ Unanswered /\ Single /\ InStep /\ OwnAnswers /\ ui.pc = "send"
      /\ UNCHANGED <<connected, handler, slot, listener, wire, server, timedOut>>
  BY DEF IInv, Send
<1>2. CASE /\ Sends(Command("ui", ui.n, ui.kind))
           /\ ui' = [ui EXCEPT !.pc = "poll"]
           /\ UNCHANGED results
  <2>1. ui'.pc = "poll" /\ ui'.n = ui.n
    BY <1>1, <1>2 DEF Typed
  <2>2. PICK c : c = Command("ui", ui.n, ui.kind)
    OBVIOUS
  <2>3. c \in Commands /\ Name(c) = <<"ui", ui.n>>
    BY <1>1, <2>2 DEF Command, Commands, Typed, UIStates, Threads, Name
  <2>4. requests' = requests \/ requests' = Append(requests, c)
    BY <1>2, <2>2 DEF Sends
  <2>5. ~Issued(Name(c))
    BY <1>1, <2>3 DEF Issued, Typed, UIStates
  <2>6. Name(c) \notin Requested \cup Coming \cup InSlot \cup Taken
    BY <1>1, <2>5 DEF Single
  <2>7. /\ requests' \in Seq(Commands) /\ OnceRequested'
        /\ Requested' \subseteq Requested \cup {<<"ui", ui.n>>}
    <3>1. requests \in Seq(Commands) /\ OnceRequested
      BY <1>1 DEF Typed, Single
    <3>2. CASE requests' = requests
      BY <3>1, <3>2, RequestsKept
    <3>3. CASE requests' = Append(requests, c)
      BY <2>3, <2>6, <3>1, <3>3, RequestsGrow
    <3> QED
      BY <2>4, <3>2, <3>3
  <2>8. Wired' = Wired /\ OnceWired' /\ Taken' = Taken /\ OnceTaken' /\ OwnAnswers'
    BY <1>1, <1>2, WireKept, ResultsKept DEF Single
  <2>9. InSlot' = InSlot /\ InHand' = InHand /\ Coming' = Coming /\ Wired \cap InHand = {}
    BY <1>1, <2>8 DEF InSlot, InHand, Coming, Name, Single
  <2>10. Typed'
    BY <1>1, <1>2, <2>7, ThreadsTyped DEF Typed, None
  <2>11. Unanswered' /\ Held'
    BY <1>1 DEF Unanswered, Held, None
  <2>12. Single'
    <3>1. \A p \in Threads \X Nat : Issued(p) => Issued(p)'
      BY <1>1, <2>1, IssuedKept
    <3>2. \A p : p = <<"ui", ui.n>> => p \in Threads \X Nat /\ Issued(p)'
      BY <1>1, <2>1 DEF Issued, Typed, UIStates, Threads
    <3>3. /\ Requested \cap Coming = {}
          /\ (Requested \cup Coming) \cap (InSlot \cup Taken) = {}
          /\ InSlot \cap Taken = {}
          /\ \A p \in Requested \cup Coming \cup InSlot \cup Taken :
                p \in Threads \X Nat /\ Issued(p)
      BY <1>1 DEF Single, Waiting
    <3>4. Requested' \cap Coming = {}
      BY <2>3, <2>6, <2>7, <3>3
    <3>5. (Requested' \cup Coming) \cap (InSlot \cup Taken) = {}
      BY <2>3, <2>6, <2>7, <3>3
    <3>6. \A p \in Requested' \cup Coming \cup InSlot \cup Taken :
             p \in Threads \X Nat /\ Issued(p)'
      BY <2>7, <3>1, <3>2, <3>3
    <3> QED
      BY <2>7, <2>8, <2>9, <3>3, <3>4, <3>5, <3>6 DEF Single
  <2>13. InStep'
    <3> SUFFICES ASSUME Clean'
                 PROVE  /\ \A p \in Requested' \cup Coming :
                              \/ p = <<"ui", ui.n>>
                              \/ p = <<"listener", listener.n>> /\ listener.pc = "poll"
                        /\ InSlot \subseteq {<<"ui", ui.n>>}
      BY <1>1, <2>1, <2>8, <2>9 DEF InStep
    <3>1. Clean
      BY <1>1, <1>2 DEF Clean
    <3> QED
      BY <1>1, <2>7, <3>1 DEF InStep
  <2> QED
    BY <2>8, <2>10, <2>11, <2>12, <2>13 DEF IInv
<1>3. CASE Ended("unsent", None) /\ UNCHANGED requests
  BY <1>1, <1>3, EndIInv DEF Waiting, Typed
<1>4. CASE UNCHANGED <<ui, results, requests>>
  <2>1. connected' \in BOOLEAN /\ handler' \in BOOLEAN /\ timedOut' \in BOOLEAN
    BY <1>1 DEF Typed
  <2> QED
    BY <1>1, <1>4, <2>1, TextsStay, HandStays, QuietIInv DEF Waiting
<1> QED
  BY <1>2, <1>3, <1>4 DEF Send

\* The UI thread finds a response in the slot.
LEMMA PollFindsIInv ==
    ASSUME IInv, Next, PollFinds
    PROVE  IInv'
<1>1. PICK outcome \in {"success", "fail"} : Ended(outcome, slot)
  BY DEF PollFinds
<1>2. timedOut' \in BOOLEAN /\ (timedOut => timedOut')
  BY DEF PollFinds, IInv, Typed
<1> QED
  BY <1>1, <1>2, EndIInv DEF PollFinds, Waiting

\* It finds none, and waits on or gives up.
LEMMA PollEmptyIInv ==
    ASSUME IInv, Next, PollEmpty
    PROVE  IInv'
<1>1. /\ Typed /\ ui.pc = "poll" /\ slot = None
      /\ UNCHANGED <<connected, handler, slot, requests, wire, listener>>
  BY DEF IInv, PollEmpty
<1>2. CASE Ended("timeout", None) /\ timedOut' = TRUE
  BY <1>1, <1>2, EndIInv DEF Waiting
<1>3. CASE ui' = [ui EXCEPT !.polls = @ + 1] /\ UNCHANGED <<timedOut, results>>
  <2>1. ui'.pc = "poll" /\ ui'.n = ui.n
    BY <1>1, <1>3 DEF Typed
  <2>2. connected' \in BOOLEAN /\ handler' \in BOOLEAN /\ timedOut' \in BOOLEAN
    BY <1>1, <1>3 DEF Typed
  <2> QED
    BY <1>1, <1>3, <2>1, <2>2, TextsStay, HandStays, QuietIInv DEF Waiting, Unanswered, IInv
<1> QED
  BY <1>2, <1>3 DEF PollEmpty

\* The steps of the UI thread that have nothing to do with a request.
LEMMA IdleIInv ==
    ASSUME IInv, Next, OpenChat \/ Quit \/ Join
    PROVE  IInv'
<1>1. /\ Typed /\ ui.pc \in {"idle", "join"}
      /\ UNCHANGED <<slot, requests, wire, listener, timedOut, results>>
  BY DEF IInv, OpenChat, Quit, Join
<1>2. ui'.n = ui.n /\ ui'.pc \in {"idle", "join", "gone"}
  BY <1>1 DEF OpenChat, Quit, Join, Typed, UIStates
<1>3. connected' \in BOOLEAN /\ handler' \in BOOLEAN /\ timedOut' \in BOOLEAN
  BY <1>1 DEF OpenChat, Quit, Join, Typed
<1> QED
  BY <1>1, <1>2, <1>3, TextsStay, HandStays, QuietIInv DEF Waiting, IInv

-----------------------------------------------------------------------------
(***************************************************************************)
(* The listener thread                                                     *)
(***************************************************************************)

\* The text of a recv that took it from the wire: it was on it, and is in hand now.
LEMMA ReceivedIInv ==
    ASSUME IInv, Next, listener.pc = "recv",
           wire' \in Seq(Texts), \A i \in DOMAIN wire' : wire'[i].what # "none",
           Wired' \subseteq Wired, OnceWired', NEW text \in Texts, Received(text),
           text.what = "answer" => Name(text) \in Wired /\ Name(text) \notin Wired',
           UNCHANGED <<connected, handler, slot, ui, requests, timedOut, results>>
    PROVE  IInv'
<1>1. Typed /\ Held
  BY DEF IInv
<1>2. /\ listener'.text = text /\ listener'.n = listener.n
      /\ listener'.pc \in {"sort", "write"}
  BY <1>1 DEF Received, Typed, ListenerStates
<1>3. InHand' = IF text.what = "answer" THEN {Name(text)} ELSE {}
  BY <1>2 DEF InHand, Name
<1>4. Coming' \subseteq Coming /\ Wired' \cap InHand' = {}
  BY <1>3 DEF Coming
<1>5. connected' \in BOOLEAN /\ handler' \in BOOLEAN /\ timedOut' \in BOOLEAN
  BY <1>1 DEF Typed
<1> QED
  BY <1>1, <1>2, <1>4, <1>5, TextsStay, QuietIInv DEF Waiting

\* The listener receives some of the responses on the wire, as one text.
LEMMA RecvIInv ==
    ASSUME IInv, Next, NEW k, Recv(k)
    PROVE  IInv'
<1>1. /\ Typed /\ k \in 1..Len(wire) /\ wire' = SubSeq(wire, k + 1, Len(wire))
      /\ listener.pc = "recv" /\ Received(wire[1])
      /\ UNCHANGED <<connected, handler, slot, ui, requests, timedOut, results>>
  BY DEF IInv, Recv, Listening
<1>2. /\ wire \in Seq(Texts) /\ OnceWired
      /\ \A i \in DOMAIN wire : wire[i].what # "none"
  BY DEF IInv, Typed, Single
<1>3. /\ wire' \in Seq(Texts)
      /\ \A i \in DOMAIN wire' : wire'[i].what # "none"
      /\ Wired' \subseteq Wired /\ OnceWired'
      /\ wire[1] \in Texts /\ wire[1].what # "none"
      /\ wire[1].what = "answer" => Name(wire[1]) \in Wired /\ Name(wire[1]) \notin Wired'
  BY <1>1, <1>2, WireShrinks
<1> QED
  BY <1>1, <1>3, ReceivedIInv

\* The listener receives the first part of a response.
LEMMA RecvPartIInv ==
    ASSUME IInv, Next, RecvPart
    PROVE  IInv'
<1>1. /\ wire' = [wire EXCEPT ![1].what = "tail"] /\ wire[1].what = "answer"
      /\ wire # <<>> /\ listener.pc = "recv" /\ Received(wire[1])
      /\ UNCHANGED <<connected, handler, slot, ui, requests, timedOut, results>>
  BY DEF RecvPart, Listening
<1>2. /\ wire \in Seq(Texts) /\ OnceWired
      /\ \A i \in DOMAIN wire : wire[i].what # "none"
  BY DEF IInv, Typed, Single
<1>3. /\ wire' \in Seq(Texts)
      /\ \A i \in DOMAIN wire' : wire'[i].what # "none"
      /\ Wired' \subseteq Wired /\ OnceWired'
      /\ wire[1] \in Texts /\ Name(wire[1]) \in Wired /\ Name(wire[1]) \notin Wired'
  BY <1>1, <1>2, WireSplits
<1> QED
  BY <1>1, <1>3, ReceivedIInv

\* A push goes to the handler, or is held for the slot.
LEMMA SortIInv ==
    ASSUME IInv, Next, Sort
    PROVE  IInv'
<1>1. /\ Typed /\ Held /\ listener.pc = "sort" /\ listener.text.what = "push"
      /\ UNCHANGED <<connected, handler, requests, wire, timedOut, results>>
  BY DEF IInv, Held, Sort
<1>2. connected' \in BOOLEAN /\ handler' \in BOOLEAN /\ timedOut' \in BOOLEAN
  BY <1>1 DEF Typed
<1>3. CASE Handle
  <2>1. /\ ui'.n = ui.n /\ ui'.pc = ui.pc
        /\ \/ slot' = slot /\ listener' = Loop
           \/ /\ slot' = None
              /\ listener' = [listener EXCEPT !.pc = "ask", !.n = @ + 1, !.polls = 0,
                                              !.text = None]
    BY <1>1, <1>3 DEF Handle, Typed, UIStates
  <2>2. /\ listener'.text = None
        /\ \/ slot' = slot /\ listener'.n = listener.n /\ listener'.pc \in {"recv", "done"}
           \/ slot' = None /\ listener'.n = listener.n + 1 /\ listener'.pc = "ask"
    BY <1>1, <2>1 DEF Loop, Typed, ListenerStates
  <2>3. InHand' = {}
    BY <2>2 DEF InHand, None, Text
  <2> QED
    BY <1>1, <1>2, <2>1, <2>2, <2>3, TextsStay, QuietIInv DEF Waiting
<1>4. CASE listener' = [listener EXCEPT !.pc = "write"] /\ UNCHANGED <<slot, ui>>
  <2>1. listener'.text = listener.text /\ listener'.n = listener.n /\ listener'.pc = "write"
    BY <1>1, <1>4 DEF Typed, ListenerStates
  <2>2. InHand' = {}
    BY <1>1, <2>1 DEF InHand
  <2> QED
    BY <1>1, <1>2, <1>4, <2>1, <2>2, TextsStay, QuietIInv DEF Waiting
<1> QED
  BY <1>3, <1>4 DEF Sort

\* The text in hand overwrites the slot.
LEMMA RespondIInv ==
    ASSUME IInv, Next, Respond
    PROVE  IInv'
<1>1. /\ Typed /\ Held /\ Unanswered /\ Single /\ InStep /\ OwnAnswers
      /\ listener.pc = "write"
      /\ UNCHANGED <<connected, handler, requests, wire, timedOut, results>>
  BY DEF IInv, Respond
<1>2. PICK text : text = listener.text
  OBVIOUS
<1>3. text \in Texts /\ text.what # "none" /\ slot' = text
  BY <1>1, <1>2 DEF Respond, Held, Typed, ListenerStates
<1>4. /\ ui'.n = ui.n /\ ui'.pc = ui.pc /\ listener'.n = listener.n
      /\ listener'.pc \in {"recv", "done"} /\ listener'.text = None
  BY <1>1 DEF Respond, Loop, Typed, UIStates, ListenerStates
<1>5. InSlot' = InHand /\ InHand' = {} /\ Wired' = Wired /\ Coming' = Wired /\ OnceWired'
  BY <1>1, <1>2, <1>3, <1>4, WireKept DEF InSlot, InHand, Coming, Name, None, Text, Single
<1>6. /\ requests' \in Seq(Commands) /\ Requested' = Requested /\ OnceRequested'
      /\ results' \in Seq(Results) /\ Taken' = Taken /\ OnceTaken' /\ OwnAnswers'
      /\ (Clean' => Clean)
  BY <1>1, RequestsKept, ResultsKept DEF Single, Typed
<1>7. Typed'
  BY <1>1, <1>3, <1>6, ThreadsTyped DEF Typed
<1>8. Unanswered' /\ Held'
  BY <1>1, <1>4, ListenerHeld DEF Unanswered
<1>9. Single'
  <2>1. \A p \in Threads \X Nat : Issued(p) => Issued(p)'
    BY <1>1, <1>4, IssuedKept
  <2>2. /\ Wired \cap InHand = {} /\ Coming = Wired \cup InHand
        /\ Requested \cap Coming = {}
        /\ (Requested \cup Coming) \cap (InSlot \cup Taken) = {}
        /\ \A p \in Requested \cup Coming \cup InSlot \cup Taken :
              p \in Threads \X Nat /\ Issued(p)
    BY <1>1 DEF Single, Coming
  <2>3. /\ Requested' \cap Coming' = {} /\ InSlot' \cap Taken' = {}
        /\ Wired' \cap InHand' = {}
        /\ (Requested' \cup Coming') \cap (InSlot' \cup Taken') = {}
    BY <1>5, <1>6, <2>2
  <2>4. \A p \in Requested' \cup Coming' \cup InSlot' \cup Taken' :
           p \in Threads \X Nat /\ Issued(p)'
    BY <1>5, <1>6, <2>1, <2>2
  <2> QED
    BY <1>5, <1>6, <2>3, <2>4 DEF Single
<1>10. InStep'
  <2> SUFFICES ASSUME Clean
               PROVE  /\ \A p \in Requested \cup Wired : p = <<"ui", ui.n>> /\ ui.pc = "poll"
                      /\ InHand \subseteq {<<"ui", ui.n>>}
    BY <1>4, <1>5, <1>6 DEF InStep
  <2>1. \A p \in Requested \cup Coming : p = <<"ui", ui.n>> /\ ui.pc = "poll"
    BY <1>1 DEF InStep
  <2> QED
    BY <2>1 DEF Coming
<1> QED
  BY <1>6, <1>7, <1>8, <1>9, <1>10 DEF IInv

\* Nothing is on the wire any more.
LEMMA RecvEndsIInv ==
    ASSUME IInv, Next, RecvEnds
    PROVE  IInv'
<1>1. /\ Typed /\ Held /\ wire' = <<>> /\ connected' = FALSE /\ listener.pc = "recv"
      /\ UNCHANGED <<handler, slot, ui, requests, timedOut, results>>
  BY DEF IInv, RecvEnds
<1>2. listener'.n = listener.n /\ listener'.pc = "done" /\ listener'.text = None
  BY <1>1 DEF RecvEnds, Typed, Held, ListenerStates
<1>3. /\ wire' \in Seq(Texts) /\ DOMAIN wire' = {} /\ Wired' = {} /\ OnceWired'
  <2> HIDE DEF Texts
  <2>1. wire' \in Seq(Texts) /\ DOMAIN wire' = {}
    BY <1>1
  <2> QED
    BY <2>1 DEF Wired, OnceWired, Answers
<1>4. handler' \in BOOLEAN /\ timedOut' \in BOOLEAN /\ connected' \in BOOLEAN
  BY <1>1 DEF Typed
<1>5. Coming' = {} /\ Wired' \cap InHand' = {}
  BY <1>2, <1>3 DEF Coming, InHand, None, Text
<1> QED
  BY <1>1, <1>2, <1>3, <1>4, <1>5, TextsStay, QuietIInv DEF Waiting

\* The listener, inside its handler, polls for an answer of its own.
LEMMA AskPollIInv ==
    ASSUME IInv, Next, AskPoll
    PROVE  IInv'
<1>1. /\ Typed /\ Held /\ listener.pc = "poll" /\ slot = None
      /\ UNCHANGED <<connected, handler, slot, ui, requests, wire, results>>
  BY DEF IInv, AskPoll, Unanswered
<1>2. \/ listener'.pc = "poll" /\ listener'.n = listener.n /\ timedOut' = timedOut
      \/ listener'.pc \in {"recv", "done"} /\ listener'.n = listener.n /\ timedOut' = TRUE
  BY <1>1 DEF AskPoll, Loop, Typed, ListenerStates
<1>3. connected' \in BOOLEAN /\ handler' \in BOOLEAN /\ timedOut' \in BOOLEAN
  BY <1>1, <1>2 DEF Typed
<1>4. InHand' = InHand \/ InHand' = {}
  BY <1>1, <1>2, HandStays, ListenerHeld
<1> QED
  BY <1>1, <1>2, <1>3, <1>4, TextsStay, QuietIInv DEF Waiting

\* The listener's own request, under a number of its own.
LEMMA AskSendsIInv ==
    ASSUME IInv, Next, AskSends
    PROVE  IInv'
<1>1. /\ Typed /\ Held /\ Unanswered /\ Single /\ InStep /\ OwnAnswers /\ listener.pc = "ask"
      /\ UNCHANGED <<connected, handler, slot, ui, wire, timedOut, results>>
  BY DEF IInv, AskSends
<1>2. CASE /\ Sends(Command("listener", listener.n, "user_info"))
           /\ listener' = [listener EXCEPT !.pc = "poll"]
  <2>1. listener'.pc = "poll" /\ listener'.n = listener.n /\ listener'.text = listener.text
    BY <1>1, <1>2 DEF Typed, ListenerStates
  <2>2. PICK c : c = Command("listener", listener.n, "user_info")
    OBVIOUS
  <2>3. c \in Commands /\ Name(c) = <<"listener", listener.n>>
    BY <1>1, <2>2 DEF Command, Commands, Typed, ListenerStates, Threads, Name, CommandKinds
  <2>4. requests' = requests \/ requests' = Append(requests, c)
    BY <1>2, <2>2 DEF Sends
  <2>5. ~Issued(Name(c))
    BY <1>1, <2>3 DEF Issued, Typed, ListenerStates
  <2>6. Name(c) \notin Requested \cup Coming \cup InSlot \cup Taken
    BY <1>1, <2>5 DEF Single
  <2>7. /\ requests' \in Seq(Commands) /\ OnceRequested'
        /\ Requested' \subseteq Requested \cup {<<"listener", listener.n>>}
    <3>1. requests \in Seq(Commands) /\ OnceRequested
      BY <1>1 DEF Typed, Single
    <3>2. CASE requests' = requests
      BY <3>1, <3>2, RequestsKept
    <3>3. CASE requests' = Append(requests, c)
      BY <2>3, <2>6, <3>1, <3>3, RequestsGrow
    <3> QED
      BY <2>4, <3>2, <3>3
  <2>8. /\ Wired' = Wired /\ OnceWired' /\ Taken' = Taken /\ OnceTaken' /\ OwnAnswers'
        /\ (Clean' => Clean)
    BY <1>1, WireKept, ResultsKept DEF Single
  <2>9. /\ InSlot' = InSlot /\ InSlot = {} /\ InHand' = InHand /\ Coming' = Coming
        /\ Wired \cap InHand = {}
    BY <1>1, <2>1, <2>8 DEF InSlot, InHand, Coming, Name, Unanswered, None, Text, Single
  <2>10. Typed'
    BY <1>1, <2>7, ThreadsTyped DEF Typed, None
  <2>11. Unanswered' /\ Held'
    BY <1>1, ListenerHeld DEF Unanswered, None
  <2>12. Single'
    <3>1. \A p \in Threads \X Nat : Issued(p) => Issued(p)'
      BY <1>1, <2>1, IssuedKept
    <3>2. \A p : p = <<"listener", listener.n>> => p \in Threads \X Nat /\ Issued(p)'
      BY <1>1, <2>1 DEF Issued, Typed, ListenerStates, Threads
    <3>3. /\ Requested \cap Coming = {} /\ (Requested \cup Coming) \cap Taken = {}
          /\ \A p \in Requested \cup Coming \cup Taken : p \in Threads \X Nat /\ Issued(p)
      BY <1>1 DEF Single
    <3>4. Requested' \cap Coming = {} /\ (Requested' \cup Coming) \cap Taken = {}
      BY <2>3, <2>6, <2>7, <3>3
    <3>5. \A p \in Requested' \cup Coming \cup Taken : p \in Threads \X Nat /\ Issued(p)'
      BY <2>7, <3>1, <3>2, <3>3
    <3> QED
      BY <2>7, <2>8, <2>9, <3>4, <3>5 DEF Single
  <2>13. InStep'
    <3> SUFFICES ASSUME Clean
                 PROVE  \A p \in Requested' \cup Coming :
                           \/ p = <<"ui", ui.n>> /\ ui.pc = "poll"
                           \/ p = <<"listener", listener.n>>
      BY <1>1, <2>1, <2>8, <2>9 DEF InStep
    <3> QED
      BY <1>1, <2>7 DEF InStep
  <2> QED
    BY <2>8, <2>10, <2>11, <2>12, <2>13 DEF IInv
<1>3. CASE (listener' = Loop \/ UNCHANGED listener) /\ UNCHANGED requests
  <2>1. listener'.n = listener.n /\ listener'.pc \in {"ask", "recv", "done"}
    BY <1>1, <1>3 DEF Loop, Typed, ListenerStates
  <2>2. connected' \in BOOLEAN /\ handler' \in BOOLEAN /\ timedOut' \in BOOLEAN
    BY <1>1 DEF Typed
  <2>3. InHand' = InHand \/ InHand' = {}
    BY <1>1, <2>1, HandStays, ListenerHeld
  <2> QED
    BY <1>1, <1>3, <2>1, <2>2, <2>3, TextsStay, QuietIInv DEF Waiting
<1> QED
  BY <1>2, <1>3 DEF AskSends

-----------------------------------------------------------------------------
(***************************************************************************)
(* The server                                                              *)
(***************************************************************************)

\* The first command becomes an answer; those read with it get none.
LEMMA ServeIInv ==
    ASSUME IInv, Next, NEW k, Serve(k)
    PROVE  IInv'
<1>1. /\ Typed /\ Held /\ Unanswered /\ Single /\ InStep /\ OwnAnswers
      /\ k \in 1..Len(requests) /\ requests' = SubSeq(requests, k + 1, Len(requests))
      /\ UNCHANGED <<connected, handler, slot, ui, listener, timedOut, results>>
  BY DEF IInv, Serve
<1>2. PICK c : c = requests[1]
  OBVIOUS
<1>2a. PICK ok \in BOOLEAN : wire' = Append(wire, Text("answer", c.by, c.n, c.kind, ok))
  BY <1>2 DEF Serve
<1>3. /\ requests' \in Seq(Commands) /\ Requested' \subseteq Requested
      /\ Name(c) \in Requested /\ c \in Commands
      /\ OnceRequested' /\ Name(c) \notin Requested'
  BY <1>1, <1>2, RequestsShrink DEF Single, Typed
<1>4. PICK t : t = Text("answer", c.by, c.n, c.kind, ok)
  OBVIOUS
<1>5. t \in Texts /\ t.what = "answer" /\ Name(t) = Name(c)
  BY <1>3, <1>4 DEF Text, Texts, Commands, Name
<1>6. /\ Wired \cap InHand = {} /\ Requested \cap Coming = {}
      /\ (Requested \cup Coming) \cap (InSlot \cup Taken) = {}
      /\ Waiting => InSlot \cap Taken = {}
      /\ \A p \in Requested \cup Coming \cup InSlot \cup Taken :
            p \in Threads \X Nat /\ Issued(p)
  BY <1>1 DEF Single
<1>7. /\ wire' \in Seq(Texts) /\ Wired' = Wired \cup {Name(c)} /\ OnceWired'
      /\ \A i \in DOMAIN wire' : wire'[i].what # "none"
  <2>1. wire \in Seq(Texts) /\ OnceWired /\ \A i \in DOMAIN wire : wire[i].what # "none"
    BY <1>1 DEF Typed, Single
  <2> QED
    BY <1>2a, <1>3, <1>4, <1>5, <1>6, <2>1, WireGrows DEF Coming
<1>8. /\ results' \in Seq(Results) /\ Taken' = Taken /\ OnceTaken' /\ OwnAnswers'
      /\ (Clean' => Clean) /\ InSlot' = InSlot /\ (Waiting' => Waiting)
      /\ InHand' = InHand
  BY <1>1, ResultsKept DEF Single, InSlot, InHand, Name, Waiting
<1>8a. Coming' = Coming \cup {Name(c)} /\ Wired' \cap InHand' = {}
  BY <1>3, <1>6, <1>7, <1>8 DEF Coming
<1>9. Typed'
  BY <1>1, <1>3, <1>7, <1>8, ThreadsTyped DEF Typed, None
<1>10. Unanswered' /\ Held'
  BY <1>1 DEF Unanswered, Held, None
<1>11. Single'
  <2>1. \A p \in Threads \X Nat : Issued(p) => Issued(p)'
    BY <1>1, IssuedKept
  <2>2. Requested' \cap Coming' = {}
    BY <1>3, <1>6, <1>8a
  <2>3. (Requested' \cup Coming') \cap (InSlot \cup Taken) = {}
    BY <1>3, <1>6, <1>8a
  <2>4. \A p \in Requested' \cup Coming' \cup InSlot \cup Taken :
           p \in Threads \X Nat /\ Issued(p)'
    BY <1>3, <1>6, <1>8a, <2>1
  <2> QED
    BY <1>3, <1>6, <1>7, <1>8, <1>8a, <2>2, <2>3, <2>4 DEF Single
<1>12. InStep'
  <2>1. Requested' \cup Coming' \subseteq Requested \cup Coming
    BY <1>3, <1>8a
  <2> QED
    BY <1>1, <1>8, <2>1 DEF InStep
<1> QED
  BY <1>8, <1>9, <1>10, <1>11, <1>12 DEF IInv

\* A push on the wire is no answer.
LEMMA PushIInv ==
    ASSUME IInv, Next, PushMessage
    PROVE  IInv'
<1>1. /\ Typed /\ wire' = Append(wire, Push)
      /\ UNCHANGED <<connected, handler, slot, ui, listener, requests, timedOut, results>>
      /\ Wired \cap InHand = {}
  BY DEF IInv, PushMessage, Single
<1>2. Push \in Texts /\ Push.what = "push"
  BY DEF Push, Text, Texts, Threads, CommandKinds
<1>3. /\ wire' \in Seq(Texts) /\ Wired' = Wired /\ OnceWired'
      /\ \A i \in DOMAIN wire' : wire'[i].what # "none"
  <2>1. wire \in Seq(Texts) /\ OnceWired /\ \A i \in DOMAIN wire : wire[i].what # "none"
    BY DEF IInv, Typed, Single
  <2> QED
    BY <1>1, <1>2, <2>1, WireGrows
<1>4. connected' \in BOOLEAN /\ handler' \in BOOLEAN /\ timedOut' \in BOOLEAN
  BY <1>1 DEF Typed
<1>5. Coming' = Coming /\ Wired' \cap InHand' = {}
  BY <1>1, <1>3 DEF Coming, InHand, Name
<1> QED
  BY <1>1, <1>3, <1>4, <1>5, TextsStay, QuietIInv DEF Waiting

\* The commands that wait are lost.
LEMMA ServerEndsIInv ==
    ASSUME IInv, Next, ServerEnds
    PROVE  IInv'
<1>1. /\ Typed /\ requests' = <<>>
      /\ UNCHANGED <<connected, handler, slot, ui, listener, wire, timedOut, results>>
  BY DEF IInv, ServerEnds
<1>2. requests' \in Seq(Commands) /\ Requested' = {} /\ OnceRequested'
  <2> HIDE DEF Commands
  <2>1. requests' \in Seq(Commands) /\ DOMAIN requests' = {}
    BY <1>1
  <2> QED
    BY <2>1 DEF Requested, OnceRequested
<1>3. connected' \in BOOLEAN /\ handler' \in BOOLEAN /\ timedOut' \in BOOLEAN
  BY <1>1 DEF Typed
<1> QED
  BY <1>1, <1>2, <1>3, TextsStay, HandStays, QuietIInv DEF Waiting, IInv

-----------------------------------------------------------------------------
\* Every step keeps the invariant.
LEMMA NextIInv == IInv /\ [Next]_vars => IInv'
<1> SUFFICES ASSUME IInv, [Next]_vars PROVE IInv'
  OBVIOUS
<1>1. CASE UNCHANGED vars
  <2>1. /\ UNCHANGED <<connected, handler, slot, ui, listener, requests, wire, timedOut,
                       results>>
        /\ connected' \in BOOLEAN /\ handler' \in BOOLEAN /\ timedOut' \in BOOLEAN
    BY <1>1 DEF vars, IInv, Typed
  <2> QED
    BY <2>1, TextsStay, HandStays, QuietIInv DEF Waiting, IInv
<1>2. CASE Next
  <2>1. ASSUME NEW kind \in Kinds \cup {"login"}, Start(kind) PROVE IInv'
    BY <1>2, <2>1, StartIInv
  <2>2. CASE UIStep
    BY <1>2, <2>2, SendIInv, PollFindsIInv, PollEmptyIInv, IdleIInv DEF UIStep
  <2>3. CASE ListenerStep
    BY <1>2, <2>3, RecvIInv, RecvPartIInv, RecvEndsIInv, SortIInv, RespondIInv,
       AskSendsIInv, AskPollIInv DEF ListenerStep
  <2>4. CASE User
    BY <1>2, <2>1, <2>4, IdleIInv DEF User
  <2>5. CASE ServerStep
    BY <1>2, <2>5, ServeIInv, PushIInv, ServerEndsIInv DEF ServerStep
  <2> QED
    BY <1>2, <2>2, <2>3, <2>4, <2>5 DEF Next
<1> QED
  BY <1>1, <1>2

\* The invariant holds in every state that can be reached.
THEOREM Inductive == Spec => []IInv
<1> QED
  BY InitIInv, NextIInv, PTL DEF Spec

\* Every answer of the server ends one request of the UI at most, however many
\* requests are made, time out and find the answers of others: a message is not
\* shown as sent on the strength of another one's answer and its own.
THEOREM EachAnswerOnce == Spec => []AnswersCountOnce
<1>1. IInv => AnswersCountOnce
  BY DEF IInv, Single, OnceTaken, Served, Name, AnswersCountOnce
<1> QED
  BY <1>1, Inductive, PTL

-----------------------------------------------------------------------------
(***************************************************************************)
(* Pushes taken for answers, and answers that came in time                 *)
(***************************************************************************)

\* A result that is a push taken by a request of the chat screen.
Stray(r) == r.took.what = "push" /\ r.kind # "login"

\* Where a push can be that still reaches such a request: in hand, on its way to the
\* slot although the handler is set; in the slot, with the request waiting; taken.
StrayInHand == handler /\ listener.pc = "write" /\ listener.text.what = "push"
StrayInSlot == Waiting /\ slot.what = "push" /\ ui.kind # "login"
StrayTaken == \E i \in DOMAIN results : Stray(results[i])

\* Before the handler is set only a login can be waiting; the push that is in hand
\* when it is set is the only one a request of the chat screen ever takes.
Pushes ==
    /\ Waiting => ui.kind = "login" \/ handler
    /\ ~handler => ~StrayTaken
    /\ StrayInHand \/ StrayInSlot \/ StrayTaken => ui.stray
    /\ ~(StrayInHand /\ StrayInSlot) /\ ~(StrayInHand /\ StrayTaken)
    /\ ~(StrayInSlot /\ StrayTaken)
    /\ \A i, j \in DOMAIN results : Stray(results[i]) /\ Stray(results[j]) => i = j

\* An answer that has reached the slot stays there until it is found, unless the
\* listener clears the slot for a request of its own.
Arrivals ==
    /\ ui.pc = "send" => ~ui.arrived
    /\ ui.pc = "poll" /\ ui.arrived /\ ~ui.asked => slot # None
    /\ \A i \in DOMAIN results :
          results[i].outcome = "timeout" /\ results[i].arrived => results[i].asked

\* A step that ends no request, and brings no push nearer to one.
LEMMA PushesKept ==
    ASSUME Typed, Pushes, UNCHANGED results, ui'.stray = ui.stray,
           handler' \in BOOLEAN, handler => handler',
           Waiting' => ui'.kind = "login" \/ handler',
           StrayInHand' => StrayInHand, StrayInSlot' => StrayInSlot
    PROVE  Pushes'
<1>1. StrayTaken' = StrayTaken /\ \A i \in DOMAIN results : results'[i] = results[i]
  BY DEF StrayTaken, Stray
<1> QED
  BY <1>1 DEF Pushes, Stray

\* The end of a request adds a result that obeys both.
LEMMA EndFates ==
    ASSUME Typed, Pushes, Arrivals, NEW outcome, NEW took \in {None, slot},
           Ended(outcome, took), Waiting, UNCHANGED <<slot, handler, listener>>,
           outcome = "timeout" => ui.pc = "poll" /\ slot = None
    PROVE  Pushes' /\ Arrivals'
<1> DEFINE r == [n |-> ui.n, kind |-> ui.kind, outcome |-> outcome, took |-> took,
                 late |-> timedOut, arrived |-> ui.arrived, asked |-> ui.asked]
<1>1. /\ results' = Append(results, r) /\ results \in Seq(Results)
      /\ r.took = took /\ r.kind = ui.kind /\ r.outcome = outcome
      /\ r.arrived = ui.arrived /\ r.asked = ui.asked
  BY DEF Ended, Typed
<1>2. ui'.pc = "idle" /\ ui'.stray = ui.stray
  BY DEF Ended, Typed, UIStates
<1> HIDE DEF r
<1>3. \A i \in DOMAIN results' :
         (i \in DOMAIN results /\ results'[i] = results[i]) \/ results'[i] = r
  <2> HIDE DEF Results
  <2> QED
    BY <1>1
<1>4. Stray(r) => StrayInSlot
  BY <1>1 DEF Stray, StrayInSlot, None, Text
<1>5. outcome = "timeout" /\ ui.arrived => ui.asked
  BY DEF Arrivals, Typed, UIStates
<1>6. Arrivals'
  BY <1>1, <1>2, <1>3, <1>5 DEF Arrivals
<1>7. PICK m : m = Len(results) + 1
  OBVIOUS
<1>8. DOMAIN results' = DOMAIN results \cup {m} /\ m \notin DOMAIN results
  <2> HIDE DEF Results
  <2> QED
    BY <1>1, <1>7
<1>9. results'[m] = r /\ \A i \in DOMAIN results : results'[i] = results[i]
  <2> HIDE DEF Results
  <2> QED
    BY <1>1, <1>7
<1>10. /\ StrayTaken' => StrayTaken \/ Stray(r)
       /\ ~StrayInSlot' /\ ~Waiting' /\ StrayInHand' = StrayInHand
  BY <1>2, <1>8, <1>9 DEF StrayTaken, StrayInSlot, StrayInHand, Waiting, Stray
<1>11. ~handler' => ~StrayTaken'
  BY <1>4, <1>10 DEF Pushes, StrayInSlot
<1>12. StrayInHand' \/ StrayTaken' => ui'.stray
  BY <1>2, <1>4, <1>10 DEF Pushes
<1>13. ~(StrayInHand' /\ StrayTaken')
  BY <1>4, <1>10 DEF Pushes
<1>14. \A i, j \in DOMAIN results' : Stray(results'[i]) /\ Stray(results'[j]) => i = j
  <2> SUFFICES ASSUME NEW i \in DOMAIN results', NEW j \in DOMAIN results',
                      Stray(results'[i]), Stray(results'[j])
               PROVE  i = j
    OBVIOUS
  <2>1. CASE i \in DOMAIN results /\ j \in DOMAIN results
    BY <1>9, <2>1 DEF Pushes
  <2>2. CASE i = m /\ j \in DOMAIN results
    BY <1>4, <1>9, <2>2 DEF Pushes, StrayTaken
  <2>3. CASE i \in DOMAIN results /\ j = m
    BY <1>4, <1>9, <2>3 DEF Pushes, StrayTaken
  <2> QED
    BY <1>8, <2>1, <2>2, <2>3
<1>15. Pushes'
  BY <1>10, <1>11, <1>12, <1>13, <1>14 DEF Pushes, Stray
<1> QED
  BY <1>6, <1>15

\* Every step keeps both.
LEMMA NextFates == IInv /\ Pushes /\ Arrivals /\ [Next]_vars => Pushes' /\ Arrivals'
<1> SUFFICES ASSUME IInv, Pushes, Arrivals, [Next]_vars
             PROVE  Pushes' /\ Arrivals'
  OBVIOUS
<1>1. Typed /\ Held
  BY DEF IInv
<1>1a. ui \in UIStates /\ listener \in ListenerStates /\ handler \in BOOLEAN
  BY <1>1 DEF Typed
\* The slot, the results and the chat as they are, the listener with no push to write.
<1>2. ASSUME UNCHANGED <<slot, results>>, handler' = handler, ui'.stray = ui.stray,
             \/ UNCHANGED ui
             \/ ui'.pc \notin {"send", "poll"}
             \/ ui' = [ui EXCEPT !.polls = @ + 1],
             StrayInHand' => StrayInHand
      PROVE  Pushes' /\ Arrivals'
  <2>1. /\ Waiting' => Waiting /\ ui'.kind = ui.kind /\ ui'.pc = ui.pc
        /\ Waiting' => ui'.arrived = ui.arrived /\ ui'.asked = ui.asked
    BY <1>1a, <1>2 DEF Waiting, UIStates
  <2>2. StrayInSlot' => StrayInSlot
    BY <1>2, <2>1 DEF StrayInSlot
  <2>3. Pushes'
    <3>1. Waiting' => ui'.kind = "login" \/ handler'
      BY <1>2, <2>1 DEF Pushes
    <3> QED
      BY <1>1, <1>1a, <1>2, <2>2, <3>1, PushesKept
  <2>4. Arrivals'
    BY <1>2, <2>1 DEF Arrivals, Waiting, None, Text
  <2> QED
    BY <2>3, <2>4
<1>3. ASSUME NEW kind, Start(kind) PROVE Pushes' /\ Arrivals'
  <2>1. /\ slot' = None /\ UNCHANGED <<handler, listener, results>>
        /\ ui'.pc = "send" /\ ui'.kind = kind /\ ~ui'.arrived
        /\ kind = "login" \/ handler
    BY <1>1a, <1>3 DEF Start, UIStates
  <2>2. ui'.stray = ui.stray
    BY <1>1a, <1>3 DEF Start, UIStates
  <2>3. ~StrayInSlot' /\ StrayInHand' = StrayInHand
    BY <2>1 DEF StrayInSlot, StrayInHand, None, Text
  <2>4. Pushes'
    BY <1>1, <1>1a, <2>1, <2>2, <2>3, PushesKept
  <2>5. Arrivals'
    BY <2>1 DEF Arrivals, None, Text
  <2> QED
    BY <2>4, <2>5
<1>4. ASSUME Send PROVE Pushes' /\ Arrivals'
  <2>0. ui.pc = "send" /\ UNCHANGED <<handler, slot, listener>>
    BY <1>4 DEF Send
  <2>1. CASE ui' = [ui EXCEPT !.pc = "poll"] /\ UNCHANGED results
    <3>1. /\ ui'.pc = "poll" /\ ui'.kind = ui.kind /\ ui'.arrived = ui.arrived
          /\ ui'.stray = ui.stray
      BY <1>1a, <2>0, <2>1 DEF UIStates
    <3>2. (Waiting' => Waiting) /\ StrayInHand' = StrayInHand /\ StrayInSlot' = StrayInSlot
      BY <2>0, <3>1 DEF Waiting, StrayInHand, StrayInSlot
    <3>3. Waiting' => ui'.kind = "login" \/ handler'
      BY <2>0, <3>1, <3>2 DEF Pushes
    <3>4. Pushes'
      BY <1>1, <1>1a, <2>0, <2>1, <3>1, <3>2, <3>3, PushesKept
    <3>5. Arrivals'
      BY <2>0, <2>1, <3>1 DEF Arrivals
    <3> QED
      BY <3>4, <3>5
  <2>2. CASE Ended("unsent", None)
    BY <1>1, <2>0, <2>2, EndFates DEF Waiting
  <2>3. CASE UNCHANGED <<ui, results>>
    <3>1. StrayInHand' = StrayInHand
      BY <2>0 DEF StrayInHand
    <3> QED
      BY <1>2, <2>0, <2>3, <3>1
  <2> QED
    BY <1>4, <2>1, <2>2, <2>3 DEF Send
<1>5. ASSUME PollFinds PROVE Pushes' /\ Arrivals'
  <2>1. PICK outcome \in {"success", "fail"} : Ended(outcome, slot)
    BY <1>5 DEF PollFinds
  <2> QED
    BY <1>1, <1>5, <2>1, EndFates DEF PollFinds, Waiting
<1>6. ASSUME PollEmpty PROVE Pushes' /\ Arrivals'
  <2>1. CASE Ended("timeout", None)
    BY <1>1, <1>6, <2>1, EndFates DEF PollEmpty, Waiting
  <2>2. CASE ui' = [ui EXCEPT !.polls = @ + 1] /\ UNCHANGED results
    <3>1. /\ ui'.stray = ui.stray /\ UNCHANGED <<slot, handler, listener>>
          /\ StrayInHand' = StrayInHand
      BY <1>1a, <1>6, <2>2 DEF PollEmpty, UIStates, StrayInHand
    <3> QED
      BY <1>2, <2>2, <3>1
  <2> QED
    BY <1>6, <2>1, <2>2 DEF PollEmpty
<1>7. ASSUME OpenChat PROVE Pushes' /\ Arrivals'
  <2>1. /\ ~handler /\ handler' /\ ui.pc = "idle" /\ UNCHANGED <<slot, listener, results>>
    BY <1>7 DEF OpenChat
  <2>2. PICK b : b = (listener.pc = "write" /\ listener.text.what = "push")
    OBVIOUS
  <2>3. ui'.pc = ui.pc /\ ui'.stray = b
    BY <1>1a, <1>7, <2>2 DEF OpenChat, UIStates
  <2>4. StrayInHand' => ui'.stray
    BY <2>1, <2>2, <2>3 DEF StrayInHand
  <2>5. ~Waiting' /\ ~StrayInSlot' /\ ~StrayTaken'
    BY <2>1, <2>3 DEF Waiting, StrayInSlot, StrayTaken, Stray, Pushes
  <2>6. Pushes'
    BY <2>1, <2>4, <2>5 DEF Pushes, Stray
  <2>7. Arrivals'
    BY <2>1, <2>3 DEF Arrivals
  <2> QED
    BY <2>6, <2>7
<1>8. ASSUME Quit \/ Join PROVE Pushes' /\ Arrivals'
  <2>1. /\ UNCHANGED <<slot, results, handler, listener>>
        /\ ui'.pc \notin {"send", "poll"} /\ ui'.stray = ui.stray
    BY <1>1a, <1>8 DEF Quit, Join, UIStates
  <2>2. StrayInHand' = StrayInHand
    BY <2>1 DEF StrayInHand
  <2> QED
    BY <1>2, <2>1, <2>2
\* A text is received: if it is a push, it is yet to be sorted.
<1>9. ASSUME (\E k : Recv(k)) \/ RecvPart PROVE Pushes' /\ Arrivals'
  <2>1. UNCHANGED <<slot, results, handler, ui>> /\ Received(wire[1])
    BY <1>9 DEF Recv, RecvPart
  <2>2. ~StrayInHand'
    BY <1>1a, <2>1 DEF Received, StrayInHand, ListenerStates
  <2> QED
    BY <1>2, <2>1, <2>2
<1>10. ASSUME Sort PROVE Pushes' /\ Arrivals'
  <2>1. UNCHANGED <<results, handler>> /\ listener.pc = "sort"
    BY <1>10 DEF Sort
  <2>2. CASE ~handler /\ UNCHANGED <<slot, ui>>
    <3>1. ~StrayInHand'
      BY <2>1, <2>2 DEF StrayInHand
    <3> QED
      BY <1>2, <2>1, <2>2, <3>1
  <2>3. CASE listener' = Loop /\ UNCHANGED <<slot, ui>>
    <3>1. ~StrayInHand'
      BY <1>1a, <2>3 DEF Loop, StrayInHand, ListenerStates
    <3> QED
      BY <1>2, <2>1, <2>3, <3>1
  <2>4. CASE /\ slot' = None /\ ui' = [ui EXCEPT !.asked = TRUE]
             /\ listener' = [listener EXCEPT !.pc = "ask", !.n = @ + 1, !.polls = 0,
                                             !.text = None]
    <3>1. /\ ui'.pc = ui.pc /\ ui'.kind = ui.kind /\ ui'.arrived = ui.arrived
          /\ ui'.asked = TRUE /\ ui'.stray = ui.stray
      BY <1>1a, <2>4 DEF UIStates
    <3>2. ~StrayInHand' /\ ~StrayInSlot'
      BY <1>1a, <2>4 DEF StrayInHand, StrayInSlot, None, Text, ListenerStates
    <3>3. Waiting' => ui'.kind = "login" \/ handler'
      BY <2>1, <3>1 DEF Pushes, Waiting
    <3>4. Pushes'
      BY <1>1, <1>1a, <2>1, <3>1, <3>2, <3>3, PushesKept
    <3>5. Arrivals'
      BY <2>1, <2>4, <3>1 DEF Arrivals
    <3> QED
      BY <3>4, <3>5
  <2> QED
    BY <1>10, <2>2, <2>3, <2>4 DEF Sort, Handle
\* The text in hand goes to the slot, and a push with it.
<1>11. ASSUME Respond PROVE Pushes' /\ Arrivals'
  <2>1. /\ UNCHANGED <<results, handler>> /\ slot' = listener.text
        /\ listener.pc = "write" /\ listener.text.what # "none" /\ listener' = Loop
    BY <1>1, <1>11 DEF Respond, Held
  <2>2. /\ ui'.pc = ui.pc /\ ui'.kind = ui.kind /\ ui'.asked = ui.asked
        /\ ui'.stray = ui.stray /\ (ui.pc # "poll" => ui'.arrived = ui.arrived)
    BY <1>1a, <1>11 DEF Respond, UIStates
  <2>3. ~StrayInHand'
    BY <1>1a, <2>1 DEF Loop, StrayInHand, ListenerStates
  <2>4. Waiting' = Waiting /\ (Waiting => ui.kind = "login" \/ handler)
    BY <2>2 DEF Waiting, Pushes
  <2>5. StrayInSlot' => StrayInHand
    BY <2>1, <2>2, <2>4 DEF StrayInSlot, StrayInHand
  <2>6. StrayTaken' = StrayTaken
    BY <2>1 DEF StrayTaken, Stray
  <2>7. Pushes'
    BY <2>1, <2>2, <2>3, <2>4, <2>5, <2>6 DEF Pushes, Stray
  <2>8. slot' # None
    BY <2>1 DEF None, Text
  <2>9. Arrivals'
    BY <2>1, <2>2, <2>8 DEF Arrivals
  <2> QED
    BY <2>7, <2>9
<1>12. CASE RecvEnds \/ AskSends \/ AskPoll
  <2>1. UNCHANGED <<handler, slot, ui, results>>
    BY <1>12 DEF RecvEnds, AskSends, AskPoll
  <2>2. ~StrayInHand'
    BY <1>1a, <1>12 DEF RecvEnds, AskSends, AskPoll, Loop, StrayInHand, ListenerStates
  <2> QED
    BY <1>2, <2>1, <2>2
<1>13. CASE (\E k : Serve(k)) \/ PushMessage \/ ServerEnds \/ UNCHANGED vars
  <2>1. UNCHANGED <<handler, slot, ui, results, listener>>
    BY <1>13 DEF Serve, PushMessage, ServerEnds, vars
  <2>2. StrayInHand' = StrayInHand
    BY <2>1 DEF StrayInHand
  <2> QED
    BY <1>2, <2>1, <2>2
<1> QED
  BY <1>3, <1>4, <1>5, <1>6, <1>7, <1>8, <1>9, <1>10, <1>11, <1>12, <1>13
     DEF Next, UIStep, ListenerStep, User, ServerStep

\* Both hold in every state that can be reached.
LEMMA Fates == Spec => [](Pushes /\ Arrivals)
<1>1. Init => Pushes /\ Arrivals
  <2> SUFFICES ASSUME Init PROVE Pushes /\ Arrivals
    OBVIOUS
  <2>1. ui.pc = "idle" /\ results = <<>> /\ ~handler
    BY DEF Init
  <2>2. ~Waiting /\ ~StrayInHand /\ ~StrayInSlot /\ ~StrayTaken
    BY <2>1 DEF Waiting, StrayInHand, StrayInSlot, StrayTaken
  <2> QED
    BY <2>1, <2>2 DEF Pushes, Arrivals
<1> QED
  BY <1>1, NextFates, Inductive, PTL DEF Spec

\* A request is answered with the answer to another one only after the exchange has
\* slipped: some request has timed out, or a request has taken a push or the tail of
\* a history for its answer.  Of the requests of the chat screen one at most takes a
\* push, and only the push that was on its way to the slot, no handler having been
\* found for it, when the chat screen set the handler.
THEOREM AnswersGoAstrayOnlyAfterASlip == Spec => []WrongAnswerNeedsSlip
<1>1. IInv /\ Pushes => WrongAnswerNeedsSlip
  <2> SUFFICES ASSUME IInv, Pushes, NEW i \in DOMAIN results
               PROVE  LET r == results[i]
                      IN  /\ r.took.what = "answer" /\ ~Own(r) =>
                                \/ r.late
                                \/ \E j \in 1..i - 1 :
                                      results[j].took.what \in {"push", "tail"}
                          /\ r.took.what = "push" /\ r.kind # "login" =>
                                /\ ui.stray
                                /\ \A j \in 1..i - 1 : results[j].took.what = "push" =>
                                                          results[j].kind = "login"
    BY DEF WrongAnswerNeedsSlip
  <2>1. \A j \in 1..i - 1 : j \in DOMAIN results /\ j # i
    BY DEF IInv, Typed
  <2>2. ASSUME Stray(results[i])
        PROVE  ui.stray /\ \A j \in 1..i - 1 : ~Stray(results[j])
    BY <2>1, <2>2 DEF Pushes, StrayTaken
  <2> QED
    BY <2>2 DEF IInv, OwnAnswers, Stray
<1> QED
  BY <1>1, Inductive, Fates, PTL

\* A request times out with its answer received in time only when the handler of a
\* push has cleared the slot for a question of its own.
THEOREM OnlyTheHandlerLosesAnswers == Spec => []TimeoutDespiteAnswerNeedsAsk
<1>1. Arrivals => TimeoutDespiteAnswerNeedsAsk
  BY DEF Arrivals, TimeoutDespiteAnswerNeedsAsk
<1> QED
  BY <1>1, Fates, PTL

-----------------------------------------------------------------------------
(***************************************************************************)
(* InputFields: the field a key of the same client goes to.                *)
(*                                                                         *)
(* What a frame makes of the flags depends on which things of a screen are *)
(* apart (Meet), and on which presses open and close a dialog; Exclusive   *)
(* says what they leave set, fields that are not drawn included.           *)
(***************************************************************************)
State == [screen : Screens, text : [Fields -> Nat], active : [Fields -> BOOLEAN],
          newChat : BOOLEAN, found : BOOLEAN, rooms : BOOLEAN, mode : {0, 1, 2},
          open : BOOLEAN, queue : Nat, erased : Seq(Fields)]

-----------------------------------------------------------------------------
(***************************************************************************)
(* A press is in one place                                                 *)
(***************************************************************************)
Meet(s, a, b) == \E spot \in Spots[s] : a \in spot /\ b \in spot

\* What is under the mouse at one place overlaps there.
LEMMA PlacesOverlap ==
    ASSUME NEW boxes,
           \A r \in DOMAIN boxes : /\ boxes[r].x \in Int /\ boxes[r].y \in Int
                                   /\ boxes[r].w \in Int /\ boxes[r].h \in Int,
           NEW spot \in Places(boxes), NEW a \in spot, NEW b \in spot
    PROVE  \E x, y \in Int : Inside(x, y, boxes[a]) /\ Inside(x, y, boxes[b])
<1> DEFINE Xs == {0} \cup UNION {{boxes[r].x, boxes[r].x + boxes[r].w} : r \in DOMAIN boxes}
           Ys == {0} \cup UNION {{boxes[r].y, boxes[r].y + boxes[r].h} : r \in DOMAIN boxes}
<1>1. Xs \subseteq Int /\ Ys \subseteq Int
  OBVIOUS
<1>2. spot \in {{r \in DOMAIN boxes : Inside(x, y, boxes[r])} : x \in Xs, y \in Ys}
  BY DEF Places
<1> HIDE DEF Xs, Ys
<1>3. PICK x \in Xs, y \in Ys : spot = {r \in DOMAIN boxes : Inside(x, y, boxes[r])}
  BY <1>2
<1> QED
  BY <1>1, <1>3

LEMMA LoginApart == ~Meet("LOGIN", "login_username", "login_password")
<1>1. \A r \in DOMAIN LoginLayout :
          /\ LoginLayout[r].x \in Int /\ LoginLayout[r].y \in Int
          /\ LoginLayout[r].w \in Int /\ LoginLayout[r].h \in Int
  BY DEF LoginLayout, Box
<1>2. Spots["LOGIN"] = Places(LoginLayout)
  BY DEF Spots, Layout, Screens
<1>3. ASSUME NEW a, NEW b, Meet("LOGIN", a, b)
      PROVE  \E x, y \in Int :
                Inside(x, y, LoginLayout[a]) /\ Inside(x, y, LoginLayout[b])
  BY <1>1, <1>2, <1>3, PlacesOverlap DEF Meet
<1> QED
  BY <1>3 DEF Inside, LoginLayout, Box

LEMMA RegisterApart ==
    /\ ~Meet("REGISTER", "signup_username", "signup_password")
    /\ ~Meet("REGISTER", "signup_username", "repeat_password")
    /\ ~Meet("REGISTER", "signup_password", "repeat_password")
<1>1. \A r \in DOMAIN RegisterLayout :
          /\ RegisterLayout[r].x \in Int /\ RegisterLayout[r].y \in Int
          /\ RegisterLayout[r].w \in Int /\ RegisterLayout[r].h \in Int
  BY DEF RegisterLayout, Box
<1>2. Spots["REGISTER"] = Places(RegisterLayout)
  BY DEF Spots, Layout, Screens
<1>3. ASSUME NEW a, NEW b, Meet("REGISTER", a, b)
      PROVE  \E x, y \in Int :
                Inside(x, y, RegisterLayout[a]) /\ Inside(x, y, RegisterLayout[b])
  BY <1>1, <1>2, <1>3, PlacesOverlap DEF Meet
<1> QED
  BY <1>3 DEF Inside, RegisterLayout, Box

LEMMA ChatApart ==
    /\ ~Meet("CHAT", "input", "search") /\ ~Meet("CHAT", "input", "room")
    /\ ~Meet("CHAT", "input", "create") /\ ~Meet("CHAT", "input", "join")
    /\ ~Meet("CHAT", "search", "new_chat") /\ ~Meet("CHAT", "search", "start_chat")
    /\ ~Meet("CHAT", "search", "close_new_chat")
<1>1. \A r \in DOMAIN ChatLayout :
          /\ ChatLayout[r].x \in Int /\ ChatLayout[r].y \in Int
          /\ ChatLayout[r].w \in Int /\ ChatLayout[r].h \in Int
  BY DEF ChatLayout, Box
<1>2. Spots["CHAT"] = Places(ChatLayout)
  BY DEF Spots, Layout, Screens
<1>3. ASSUME NEW a, NEW b, Meet("CHAT", a, b)
      PROVE  \E x, y \in Int :
                Inside(x, y, ChatLayout[a]) /\ Inside(x, y, ChatLayout[b])
  BY <1>1, <1>2, <1>3, PlacesOverlap DEF Meet
<1> QED
  BY <1>3 DEF Inside, ChatLayout, Box

\* The kinds of what is in an event.
LEMMA EventFacts ==
    ASSUME NEW s \in Screens, NEW e \in Events(s)
    PROVE  /\ e.keys \in Nat /\ e.ok \in BOOLEAN
           /\ \A a, b : Pressed(e, a) /\ Pressed(e, b) => Meet(s, a, b)
<1>1. e.keys \in Nat /\ e.ok \in BOOLEAN /\ e.mouse \in Mouse(s)
  BY DEF Events
<1>2. e.mouse.what = "press" => e.mouse.at \in Spots[s]
  BY <1>1 DEF Mouse
<1> QED
  BY <1>1, <1>2 DEF Pressed, Meet

-----------------------------------------------------------------------------
(***************************************************************************)
(* What the parts of a screen do to the flags                              *)
(***************************************************************************)
\* The rest of the state, as far as the flags depend on it.
SameDialogs(s, t) == /\ t.screen = s.screen /\ t.newChat = s.newChat
                     /\ t.rooms = s.rooms /\ t.mode = s.mode

\* Field f has been drawn between s and t.
Drew(s, t, f, e) ==
    /\ \A g \in Fields \ {f} : t.active[g] = s.active[g]
    /\ t.active[f] = IF e.mouse.what = "press" THEN Pressed(e, f) ELSE s.active[f]
    /\ \/ t.erased = s.erased
       \/ t.active[f] /\ t.erased = Append(s.erased, f)

\* An active field takes a character and sees the Backspace.
LEMMA KeysFacts ==
    ASSUME NEW s \in State, NEW f \in Fields, NEW e, NEW on \in BOOLEAN
    PROVE  LET t == TakesKeys(s, f, e, on)
           IN  /\ t \in State /\ SameDialogs(s, t)
               /\ \A g \in Fields \ {f} : t.active[g] = s.active[g]
               /\ t.active[f] = on
               /\ \/ t.erased = s.erased
                  \/ on /\ t.erased = Append(s.erased, f)
<1> DEFINE length == IF on /\ s.queue > 0 THEN s.text[f] + 1 ELSE s.text[f]
           erases == on /\ e.backspace /\ length > 0
           active == [s.active EXCEPT ![f] = on]
           text == [s.text EXCEPT ![f] = IF erases THEN length - 1 ELSE length]
           queue == IF on /\ s.queue > 0 THEN s.queue - 1 ELSE s.queue
           erased == IF erases THEN Append(s.erased, f) ELSE s.erased
           t == [s EXCEPT !.active = active, !.text = text,
                          !.queue = queue, !.erased = erased]
<1>1. TakesKeys(s, f, e, on) = t
  BY DEF TakesKeys
<1>2. length \in Nat /\ (erases => length - 1 \in Nat)
  BY DEF State
<1>3. text \in [Fields -> Nat]
  BY <1>2 DEF State
<1>4. active \in [Fields -> BOOLEAN] /\ queue \in Nat /\ erased \in Seq(Fields)
  BY DEF State
<1>5. active[f] = on /\ \A g \in Fields \ {f} : active[g] = s.active[g]
  BY DEF State
<1>6. erased = s.erased \/ (on /\ erased = Append(s.erased, f))
  OBVIOUS
<1> HIDE DEF active, text, queue, erased
<1>7. t \in State
  BY <1>3, <1>4 DEF State
<1>8. SameDialogs(s, t) /\ t.active = active /\ t.erased = erased
  BY DEF State, SameDialogs
<1> QED
  BY <1>1, <1>5, <1>6, <1>7, <1>8

LEMMA FieldFacts ==
    ASSUME NEW s \in State, NEW f \in Fields, NEW e
    PROVE  LET t == drawTextField(s, f, e)
           IN  t \in State /\ SameDialogs(s, t) /\ Drew(s, t, f, e)
<1> DEFINE on == IF e.mouse.what = "press" THEN Pressed(e, f) ELSE s.active[f]
<1>1. on \in BOOLEAN
  BY DEF Pressed, State
<1>2. drawTextField(s, f, e) = TakesKeys(s, f, e, on)
  BY DEF drawTextField
<1> HIDE DEF on
<1>3. LET t == TakesKeys(s, f, e, on)
      IN  /\ t \in State /\ SameDialogs(s, t)
          /\ \A g \in Fields \ {f} : t.active[g] = s.active[g]
          /\ t.active[f] = on
          /\ \/ t.erased = s.erased
             \/ on /\ t.erased = Append(s.erased, f)
  BY <1>1, KeysFacts
<1> QED
  BY <1>2, <1>3 DEF Drew, on

\* A field that is drawn erases one character at most, and only if it is active.
LEMMA ErasedOne ==
    ASSUME NEW s \in State, NEW t \in State, NEW f \in Fields, NEW e, Drew(s, t, f, e)
    PROVE  \/ Len(t.erased) = Len(s.erased)
           \/ t.active[f] /\ Len(t.erased) = Len(s.erased) + 1
BY DEF Drew, State

\* No two fields of a screen listen, flags of hidden ones included: that of the search is
\* clear while its dialog is closed; that of the room's name may stay set where "rooms"
\* has taken its dialog back to the two buttons, which clears the input when pressed.
Exclusive(s) ==
    /\ ~(s.active["login_username"] /\ s.active["login_password"])
    /\ ~(s.active["signup_username"] /\ s.active["signup_password"])
    /\ ~(s.active["signup_username"] /\ s.active["repeat_password"])
    /\ ~(s.active["signup_password"] /\ s.active["repeat_password"])
    /\ ~(s.active["input"] /\ s.active["search"])
    /\ s.active["search"] => s.newChat
    /\ s.active["input"] /\ s.active["room"] => ~s.rooms \/ s.mode = 0

\* What a frame has made of s: Backspace has erased as promised.
Framed(s, t) ==
    /\ t \in State
    /\ Exclusive(t)
    /\ Len(t.erased) > 1 => \/ t.erased = <<"signup_password", "signup_password">>
                            \/ s.newChat /\ s.rooms

LEMMA LoginFrame ==
    ASSUME NEW s \in State, Exclusive(s), s.erased = <<>>, NEW e \in Events("LOGIN")
    PROVE  Framed(s, drawLoginScreen(s, e))
<1> DEFINE t1 == drawTextField(s, "login_username", e)
           t2 == drawTextField(t1, "login_password", e)
           t == drawLoginScreen(s, e)
<1>1. t1 \in State /\ SameDialogs(s, t1) /\ Drew(s, t1, "login_username", e)
  BY FieldFacts DEF Fields
<1> HIDE DEF t1
<1>2. t2 \in State /\ SameDialogs(t1, t2) /\ Drew(t1, t2, "login_password", e)
  BY <1>1, FieldFacts DEF Fields
<1>3. \E screen \in Screens : t = [t2 EXCEPT !.screen = screen]
  BY <1>2 DEF drawLoginScreen, DrawRoundedButton, DrawTextButton, login,
              changeScreenState,
              Screens, State, t1
<1> HIDE DEF t2, t
<1>4. PICK screen \in Screens : t = [t2 EXCEPT !.screen = screen]
  BY <1>3
<1>5. t \in State /\ t.active = t2.active /\ t.erased = t2.erased
      /\ t.newChat = s.newChat /\ t.rooms = s.rooms /\ t.mode = s.mode
  BY <1>1, <1>2, <1>4 DEF State, SameDialogs
<1>6. ~(Pressed(e, "login_username") /\ Pressed(e, "login_password"))
  BY EventFacts, LoginApart DEF Screens
<1>7. ~(t2.active["login_username"] /\ t2.active["login_password"])
  BY <1>1, <1>2, <1>6 DEF Drew, Exclusive, Fields
<1>8. Exclusive(t)
  BY <1>1, <1>2, <1>5, <1>7 DEF Drew, Exclusive, Fields
<1>9. \/ Len(t1.erased) = 0
      \/ t2.active["login_username"] /\ Len(t1.erased) = 1
  <2>1. Len(s.erased) = 0 /\ t2.active["login_username"] = t1.active["login_username"]
    BY <1>2 DEF Drew, Fields
  <2>2. \/ Len(t1.erased) = Len(s.erased)
        \/ t1.active["login_username"] /\ Len(t1.erased) = Len(s.erased) + 1
    <3>1. "login_username" \in Fields
      BY DEF Fields
    <3> QED
      BY <1>1, <3>1, ErasedOne
  <2> QED
    BY <2>1, <2>2
<1>10. Len(t2.erased) <= 1
  BY <1>1, <1>2, <1>7, <1>9, ErasedOne DEF Fields
<1> QED
  BY <1>5, <1>8, <1>10 DEF Framed, t

\* The password is drawn twice, and loses a character each time.
LEMMA RegisterFrame ==
    ASSUME NEW s \in State, Exclusive(s), s.erased = <<>>, NEW e \in Events("REGISTER")
    PROVE  Framed(s, drawRegisterScreen(s, e))
<1> DEFINE t1 == drawTextField(s, "signup_username", e)
           t2 == drawTextField(t1, "signup_password", e)
           t3 == drawTextField(t2, "signup_password", e)
           t4 == drawTextField(t3, "repeat_password", e)
           t == drawRegisterScreen(s, e)
           un == t4.active["signup_username"]
           pw == t4.active["signup_password"]
           rp == t4.active["repeat_password"]
<1>1. t1 \in State /\ SameDialogs(s, t1) /\ Drew(s, t1, "signup_username", e)
  BY FieldFacts DEF Fields
<1> HIDE DEF t1
<1>2. t2 \in State /\ SameDialogs(t1, t2) /\ Drew(t1, t2, "signup_password", e)
  BY <1>1, FieldFacts DEF Fields
<1> HIDE DEF t2
<1>3. t3 \in State /\ SameDialogs(t2, t3) /\ Drew(t2, t3, "signup_password", e)
  BY <1>2, FieldFacts DEF Fields
<1> HIDE DEF t3
<1>4. t4 \in State /\ SameDialogs(t3, t4) /\ Drew(t3, t4, "repeat_password", e)
  BY <1>3, FieldFacts DEF Fields
<1>5. \E screen \in Screens :
         \/ t = [t4 EXCEPT !.screen = screen]
         \/ t = [[t4 EXCEPT !.active["signup_password"] = FALSE] EXCEPT !.screen = screen]
  <2> HIDE DEF t4
  <2>1. t4.screen \in Screens
    BY <1>4 DEF State
  <2>2. [t4 EXCEPT !.screen = t4.screen] = t4
    BY <1>4 DEF State
  <2>3. LET v == [t4 EXCEPT !.active["signup_password"] = FALSE]
        IN  [v EXCEPT !.screen = t4.screen] = v
    BY <1>4 DEF State
  <2> DEFINE u == DrawRoundedButton(t4, e, "signup", signup(t4, e.ok))
  <2>4. \/ u = t4 \/ u = [t4 EXCEPT !.screen = "LOGIN"]
        \/ u = [t4 EXCEPT !.active["signup_password"] = FALSE]
    BY DEF DrawRoundedButton, signup, changeScreenState
  <2>5. t = DrawTextButton(u, e, "to_login", changeScreenState(u, "LOGIN"))
    BY DEF drawRegisterScreen, t1, t2, t3, t4
  <2> HIDE DEF u, t
  <2>6. t = u \/ t = [u EXCEPT !.screen = "LOGIN"]
    BY <2>5 DEF DrawTextButton, changeScreenState
  <2>7. [[t4 EXCEPT !.screen = "LOGIN"] EXCEPT !.screen = "LOGIN"]
        = [t4 EXCEPT !.screen = "LOGIN"]
    BY <1>4 DEF State
  <2>8. "LOGIN" \in Screens
    BY DEF Screens
  <2> QED
    BY <2>1, <2>2, <2>3, <2>4, <2>6, <2>7, <2>8
<1> HIDE DEF t4, t
<1>6. PICK screen \in Screens :
         \/ t = [t4 EXCEPT !.screen = screen]
         \/ t = [[t4 EXCEPT !.active["signup_password"] = FALSE] EXCEPT !.screen = screen]
  BY <1>5
<1>7. /\ t \in State /\ t.erased = t4.erased
      /\ \A g \in Fields : t.active[g] => t4.active[g]
      /\ t.newChat = t4.newChat /\ t.rooms = t4.rooms /\ t.mode = t4.mode
  <2>1. CASE t = [t4 EXCEPT !.screen = screen]
    BY <1>4, <2>1 DEF State
  <2>2. CASE t = [[t4 EXCEPT !.active["signup_password"] = FALSE] EXCEPT !.screen = screen]
    <3> DEFINE active == [t4.active EXCEPT !["signup_password"] = FALSE]
    <3>1. active \in [Fields -> BOOLEAN] /\ \A g \in Fields : active[g] => t4.active[g]
      BY <1>4 DEF State
    <3>2. t = [[t4 EXCEPT !.active = active] EXCEPT !.screen = screen]
      BY <2>2
    <3> HIDE DEF active
    <3>3. t.active = active
      BY <1>4, <3>2 DEF State
    <3> QED
      BY <1>4, <3>1, <3>2, <3>3 DEF State
  <2> QED
    BY <1>6, <2>1, <2>2
<1>8. /\ ~(Pressed(e, "signup_username") /\ Pressed(e, "signup_password"))
      /\ ~(Pressed(e, "signup_username") /\ Pressed(e, "repeat_password"))
      /\ ~(Pressed(e, "signup_password") /\ Pressed(e, "repeat_password"))
  BY EventFacts, RegisterApart DEF Screens
<1>9. /\ \A g \in Fields \ {"signup_username", "signup_password", "repeat_password"} :
             t4.active[g] = s.active[g]
      /\ t1.active["signup_username"] = un
      /\ t2.active["signup_password"] = pw /\ t3.active["signup_password"] = pw
  BY <1>1, <1>2, <1>3, <1>4 DEF Drew, Fields
<1>10. ~(un /\ pw) /\ ~(un /\ rp) /\ ~(pw /\ rp)
  BY <1>1, <1>2, <1>3, <1>4, <1>8 DEF Drew, Exclusive, Fields
<1>11. t4.newChat = s.newChat /\ t4.rooms = s.rooms /\ t4.mode = s.mode
  BY <1>1, <1>2, <1>3, <1>4 DEF SameDialogs
<1>12. Exclusive(t4)
  BY <1>9, <1>10, <1>11 DEF Exclusive, Fields
<1>13. Exclusive(t)
  BY <1>7, <1>12 DEF Exclusive, Fields
<1>14. ASSUME Len(t4.erased) > 1
       PROVE  t4.erased = <<"signup_password", "signup_password">>
  <2>0. Len(t4.erased) > 1
    BY <1>14
  <2>1. CASE pw
    <3>1. t1.erased = <<>> /\ t4.erased = t3.erased
      BY <1>1, <1>4, <1>9, <1>10, <2>1 DEF Drew
    <3>2. t2.erased = <<>> \/ t2.erased = <<"signup_password">>
      BY <1>2, <3>1 DEF Drew
    <3>3. \/ t3.erased = <<>> \/ t3.erased = <<"signup_password">>
          \/ t3.erased = <<"signup_password", "signup_password">>
      BY <1>3, <3>2 DEF Drew
    <3>4. Len(<<>>) = 0 /\ Len(<<"signup_password">>) = 1
      OBVIOUS
    <3>5. ASSUME t4.erased = <<>> \/ t4.erased = <<"signup_password">> PROVE FALSE
      <4> DEFINE k == Len(t4.erased)
      <4>1. k = 0 \/ k = 1
        BY <3>4, <3>5
      <4>2. k > 1
        BY <2>0
      <4> HIDE DEF k
      <4> QED
        BY <4>1, <4>2
    <3> QED
      BY <3>1, <3>3, <3>5
  <2>2. CASE ~pw
    <3>1. t3.erased = t1.erased
      BY <1>2, <1>3, <1>9, <2>2 DEF Drew
    <3>2. Len(t1.erased) = 0 \/ (un /\ Len(t1.erased) = 1)
      <4>1. Len(s.erased) = 0 /\ "signup_username" \in Fields
        BY DEF Fields
      <4>2. \/ Len(t1.erased) = Len(s.erased)
            \/ t1.active["signup_username"] /\ Len(t1.erased) = Len(s.erased) + 1
        BY <1>1, <4>1, ErasedOne
      <4> QED
        BY <1>9, <4>1, <4>2
    <3>3. Len(t4.erased) = Len(t3.erased) \/ (rp /\ Len(t4.erased) = Len(t3.erased) + 1)
      <4>1. "repeat_password" \in Fields
        BY DEF Fields
      <4> QED
        BY <1>3, <1>4, <4>1, ErasedOne
    <3> DEFINE k1 == Len(t1.erased)
               k4 == Len(t4.erased)
    <3>4. /\ k1 = 0 \/ (un /\ k1 = 1)
          /\ k4 = k1 \/ (rp /\ k4 = k1 + 1)
          /\ k4 > 1
      BY <2>0, <3>1, <3>2, <3>3
    <3> HIDE DEF k1, k4
    <3> QED
      BY <1>10, <3>4
  <2> QED
    BY <2>1, <2>2
<1> QED
  BY <1>7, <1>13, <1>14 DEF Framed, t

-----------------------------------------------------------------------------
(***************************************************************************)
(* The parts of the chat screen                                            *)
(***************************************************************************)
\* Only new_chat opens the dialog of the search, and rooms takes its dialog to the two
\* buttons.
LEMMA ListPanelFacts ==
    ASSUME NEW s \in State, NEW e
    PROVE  LET t == drawChatListPanel(s, e)
           IN  /\ t \in State
               /\ t.active = s.active /\ t.erased = s.erased /\ t.screen = s.screen
               /\ s.newChat => t.newChat
               /\ t.newChat /\ ~s.newChat => Pressed(e, "new_chat")
               /\ t.rooms /\ t.mode # 0 => s.rooms /\ s.mode # 0
<1> DEFINE t == drawChatListPanel(s, e)
<1>1. \/ /\ Pressed(e, "new_chat")
         /\ t = [s EXCEPT !.newChat = TRUE, !.found = FALSE, !.text["search"] = 0]
      \/ t = [s EXCEPT !.rooms = TRUE, !.mode = 0, !.text["room"] = 0]
      \/ t = [s EXCEPT !.open = TRUE]
      \/ t = s
  BY DEF drawChatListPanel
<1>2. CASE /\ Pressed(e, "new_chat")
           /\ t = [s EXCEPT !.newChat = TRUE, !.found = FALSE, !.text["search"] = 0]
  <2> DEFINE v == [s EXCEPT !.newChat = TRUE, !.found = FALSE]
             text == [v.text EXCEPT !["search"] = 0]
  <2>1. t = [v EXCEPT !.text = text]
    BY <1>2
  <2>2. v \in State
    BY DEF State
  <2>3. /\ v.active = s.active /\ v.erased = s.erased /\ v.screen = s.screen
        /\ v.newChat = TRUE /\ v.rooms = s.rooms /\ v.mode = s.mode
    BY DEF State
  <2> HIDE DEF v, t
  <2>4. text \in [Fields -> Nat]
    BY <2>2 DEF State, Fields
  <2> HIDE DEF text
  <2>5. t \in State
    BY <2>1, <2>2, <2>4 DEF State
  <2>6. /\ t.active = v.active /\ t.erased = v.erased /\ t.screen = v.screen
        /\ t.newChat = v.newChat /\ t.rooms = v.rooms /\ t.mode = v.mode
    BY <2>1, <2>2 DEF State
  <2> QED
    BY <1>2, <2>3, <2>5, <2>6 DEF t
<1>3. CASE t = [s EXCEPT !.rooms = TRUE, !.mode = 0, !.text["room"] = 0]
  <2> DEFINE v == [s EXCEPT !.rooms = TRUE, !.mode = 0]
             text == [v.text EXCEPT !["room"] = 0]
  <2>1. t = [v EXCEPT !.text = text]
    BY <1>3
  <2>2. v \in State
    BY DEF State
  <2>3. /\ v.active = s.active /\ v.erased = s.erased /\ v.screen = s.screen
        /\ v.newChat = s.newChat /\ v.mode = 0
    BY DEF State
  <2> HIDE DEF v, t
  <2>4. text \in [Fields -> Nat]
    BY <2>2 DEF State, Fields
  <2> HIDE DEF text
  <2>5. t \in State
    BY <2>1, <2>2, <2>4 DEF State
  <2>6. /\ t.active = v.active /\ t.erased = v.erased /\ t.screen = v.screen
        /\ t.newChat = v.newChat /\ t.rooms = v.rooms /\ t.mode = v.mode
    BY <2>1, <2>2 DEF State
  <2> QED
    BY <1>3, <2>3, <2>5, <2>6 DEF t
<1>4. CASE t = s \/ t = [s EXCEPT !.open = TRUE]
  <2> HIDE DEF t
  <2>1. t \in State
    BY <1>4 DEF State
  <2>2. /\ t.active = s.active /\ t.erased = s.erased /\ t.screen = s.screen
        /\ t.newChat = s.newChat /\ t.rooms = s.rooms /\ t.mode = s.mode
    BY <1>4 DEF State
  <2> QED
    BY <2>1, <2>2 DEF t
<1> QED
  BY <1>1, <1>2, <1>3, <1>4

LEMMA SectionFacts ==
    ASSUME NEW s \in State, NEW e
    PROVE  LET t == drawChatSection(s, e)
           IN  t \in State /\ SameDialogs(s, t) /\ Drew(s, t, "input", e)
<1> DEFINE u == drawTextField(s, "input", e)
           text == [u.text EXCEPT !["input"] = 0]
           t == drawChatSection(s, e)
<1>1. u \in State /\ SameDialogs(s, u) /\ Drew(s, u, "input", e)
  BY FieldFacts DEF Fields
<1>2. t = u \/ t = [u EXCEPT !.text = text]
  BY DEF drawChatSection, Sent
<1> HIDE DEF u, t
<1>3. text \in [Fields -> Nat]
  BY <1>1 DEF State, Fields
<1> HIDE DEF text
<1>4. t \in State
  BY <1>1, <1>2, <1>3 DEF State
<1>5. t.active = u.active /\ t.erased = u.erased /\ SameDialogs(u, t)
  BY <1>1, <1>2 DEF State, SameDialogs
<1> QED
  BY <1>1, <1>4, <1>5 DEF Drew, SameDialogs, t

\* The dialog of the search closes only by a press outside its field.
LEMMA NewChatFacts ==
    ASSUME NEW s \in State, NEW e, e.ok \in BOOLEAN, s.newChat
    PROVE  LET t == drawNewChatDialog(s, e)
           IN  /\ t \in State /\ Drew(s, t, "search", e)
               /\ t.screen = s.screen /\ t.rooms = s.rooms /\ t.mode = s.mode
               /\ ~t.newChat => Pressed(e, "start_chat") \/ Pressed(e, "close_new_chat")
<1> DEFINE v == drawTextField(s, "search", e)
           u == IF v.active["search"] /\ e.enter /\ v.text["search"] > 0
                THEN [v EXCEPT !.found = e.ok] ELSE v
           t == drawNewChatDialog(s, e)
<1>1. v \in State /\ SameDialogs(s, v) /\ Drew(s, v, "search", e)
  BY FieldFacts DEF Fields
<1>2. /\ t = u \/ t = [u EXCEPT !.open = TRUE, !.newChat = FALSE]
         \/ t = [u EXCEPT !.newChat = FALSE]
      /\ t # u => Pressed(e, "start_chat") \/ Pressed(e, "close_new_chat")
  BY DEF drawNewChatDialog, NewChatDialog
<1>3. u = v \/ u = [v EXCEPT !.found = e.ok]
  OBVIOUS
<1> HIDE DEF v, u, t
<1>4. u \in State
  BY <1>1, <1>3 DEF State
<1>5. u.active = v.active /\ u.erased = v.erased /\ SameDialogs(v, u)
  BY <1>1, <1>3 DEF State, SameDialogs
<1>6. t \in State
  BY <1>2, <1>4 DEF State
<1>7. /\ t.active = u.active /\ t.erased = u.erased /\ t.screen = u.screen
      /\ t.rooms = u.rooms /\ t.mode = u.mode
  BY <1>2, <1>4 DEF State
<1>8. ~t.newChat => t # u
  BY <1>1, <1>5 DEF SameDialogs
<1> QED
  BY <1>1, <1>2, <1>5, <1>6, <1>7, <1>8 DEF Drew, SameDialogs, t

\* The field of a room's name is drawn only where its dialog has left the two buttons,
\* which create and join make it do.
LEMMA RoomFacts ==
    ASSUME NEW s \in State, NEW e, s.rooms
    PROVE  LET t == drawRoomDialog(s, e)
           IN  /\ t \in State
               /\ t.screen = s.screen /\ t.newChat = s.newChat
               /\ IF s.mode = 0 THEN t.active = s.active /\ t.erased = s.erased
                                ELSE Drew(s, t, "room", e)
               /\ s.mode = 0 /\ t.mode # 0 => Pressed(e, "create") \/ Pressed(e, "join")
<1> DEFINE u == IF s.mode = 0 THEN s ELSE drawTextField(s, "room", e)
           text == [u.text EXCEPT !["room"] = 0]
           t == drawRoomDialog(s, e)
<1>1. /\ u \in State /\ SameDialogs(s, u)
      /\ IF s.mode = 0 THEN u = s ELSE Drew(s, u, "room", e)
  <2>1. CASE s.mode = 0
    BY <2>1 DEF SameDialogs
  <2>2. CASE s.mode # 0
    BY <2>2, FieldFacts DEF Fields
  <2> QED
    BY <2>1, <2>2
<1>2. \/ /\ \/ t = [u EXCEPT !.mode = 1, !.text = text]
            \/ t = [u EXCEPT !.mode = 2, !.text = text]
         /\ Pressed(e, "create") \/ Pressed(e, "join")
      \/ t = [u EXCEPT !.mode = 0]
      \/ t = [u EXCEPT !.rooms = FALSE, !.mode = 0]
      \/ t = u
  BY DEF drawRoomDialog, RoomDialog
<1> HIDE DEF u, t
<1>3. text \in [Fields -> Nat]
  BY <1>1 DEF State, Fields
<1> HIDE DEF text
<1>4. t \in State
  <2>1. CASE \/ t = [u EXCEPT !.mode = 1, !.text = text]
             \/ t = [u EXCEPT !.mode = 2, !.text = text]
    BY <1>1, <1>3, <2>1 DEF State
  <2>2. CASE \/ t = [u EXCEPT !.mode = 0]
             \/ t = [u EXCEPT !.rooms = FALSE, !.mode = 0]
             \/ t = u
    BY <1>1, <2>2 DEF State
  <2> QED
    BY <1>2, <2>1, <2>2
<1>5. /\ t.active = u.active /\ t.erased = u.erased /\ t.screen = u.screen
      /\ t.newChat = u.newChat
  BY <1>1, <1>2 DEF State
<1>6. t.mode # 0 => u.mode # 0 \/ Pressed(e, "create") \/ Pressed(e, "join")
  BY <1>1, <1>2 DEF State
<1> QED
  BY <1>1, <1>4, <1>5, <1>6 DEF Drew, SameDialogs, t

LEMMA ChatFrame ==
    ASSUME NEW s \in State, Exclusive(s), s.erased = <<>>, NEW e \in Events("CHAT")
    PROVE  Framed(s, drawChatScreen(s, e))
<1> DEFINE t1 == drawChatListPanel(s, e)
           t2 == drawChatSection(t1, e)
           t3 == drawNewChatDialog(t2, e)
           t == drawRoomDialog(t3, e)
           input == t.active["input"]
           search == t.active["search"]
           room == t.active["room"]
           RoomDrawn == t3.rooms /\ t3.mode # 0
<1>1. /\ t1 \in State
      /\ t1.active = s.active /\ t1.erased = s.erased /\ t1.screen = s.screen
      /\ s.newChat => t1.newChat
      /\ t1.newChat /\ ~s.newChat => Pressed(e, "new_chat")
      /\ t1.rooms /\ t1.mode # 0 => s.rooms /\ s.mode # 0
  BY ListPanelFacts
<1> HIDE DEF t1
<1>2. t2 \in State /\ SameDialogs(t1, t2) /\ Drew(t1, t2, "input", e)
  BY <1>1, SectionFacts
<1> HIDE DEF t2
<1>3. /\ t3 \in State
      /\ t3.screen = t2.screen /\ t3.rooms = t2.rooms /\ t3.mode = t2.mode
      /\ IF t2.newChat
         THEN /\ Drew(t2, t3, "search", e)
              /\ ~t3.newChat => Pressed(e, "start_chat") \/ Pressed(e, "close_new_chat")
         ELSE t3 = t2
  <2>1. CASE t2.newChat
    BY <1>2, <2>1, EventFacts, NewChatFacts DEF Screens
  <2>2. CASE ~t2.newChat
    BY <1>2, <2>2 DEF drawNewChatDialog
  <2> QED
    BY <2>1, <2>2
<1> HIDE DEF t3
<1>4. /\ t \in State /\ t.screen = t3.screen /\ t.newChat = t3.newChat
      /\ IF RoomDrawn THEN Drew(t3, t, "room", e)
                      ELSE t.active = t3.active /\ t.erased = t3.erased
      /\ t.rooms /\ t.mode # 0 =>
            RoomDrawn \/ Pressed(e, "create") \/ Pressed(e, "join")
  <2>1. CASE t3.rooms
    BY <1>3, <2>1, RoomFacts
  <2>2. CASE ~t3.rooms
    BY <1>3, <2>2 DEF drawRoomDialog
  <2> QED
    BY <2>1, <2>2
<1> HIDE DEF t
<1>5. /\ ~(Pressed(e, "input") /\ Pressed(e, "search"))
      /\ ~(Pressed(e, "input") /\ Pressed(e, "room"))
      /\ ~(Pressed(e, "input") /\ Pressed(e, "create"))
      /\ ~(Pressed(e, "input") /\ Pressed(e, "join"))
      /\ ~(Pressed(e, "search") /\ Pressed(e, "new_chat"))
      /\ ~(Pressed(e, "search") /\ Pressed(e, "start_chat"))
      /\ ~(Pressed(e, "search") /\ Pressed(e, "close_new_chat"))
  BY EventFacts, ChatApart DEF Screens
\* What became of the flags.
<1>6. /\ \A g \in Fields \ {"input", "search", "room"} : t.active[g] = s.active[g]
      /\ input = t2.active["input"] /\ search = t3.active["search"]
      /\ input = IF e.mouse.what = "press" THEN Pressed(e, "input") ELSE s.active["input"]
      /\ search = IF t2.newChat /\ e.mouse.what = "press"
                  THEN Pressed(e, "search") ELSE s.active["search"]
      /\ room = IF RoomDrawn /\ e.mouse.what = "press"
                THEN Pressed(e, "room") ELSE s.active["room"]
  BY <1>1, <1>2, <1>3, <1>4 DEF Drew, Fields
<1>7. \A b : Pressed(e, b) => e.mouse.what = "press"
  BY DEF Pressed
<1>8. t2.newChat = t1.newChat /\ t2.rooms = t1.rooms /\ t2.mode = t1.mode
  BY <1>2 DEF SameDialogs
<1>9. RoomDrawn => s.rooms /\ s.mode # 0
  BY <1>1, <1>3, <1>8
<1>10. search => t2.newChat
  BY <1>1, <1>6, <1>8 DEF Exclusive
<1>11. ~(input /\ search)
  BY <1>5, <1>6, <1>10 DEF Exclusive
<1>12. search => t.newChat
  BY <1>3, <1>4, <1>5, <1>6, <1>7, <1>10
<1>13. ~(input /\ room /\ RoomDrawn)
  BY <1>5, <1>6, <1>9 DEF Exclusive
<1>14. input /\ room => ~t.rooms \/ t.mode = 0
  BY <1>4, <1>5, <1>6, <1>7, <1>13
<1>15. Exclusive(t)
  BY <1>6, <1>11, <1>12, <1>14 DEF Exclusive, Fields
\* What Backspace has erased.
<1> DEFINE k0 == Len(s.erased)
           k2 == Len(t2.erased)
           k3 == Len(t3.erased)
           k == Len(t.erased)
<1>16. k0 = 0 /\ Len(t1.erased) = k0
  BY <1>1
<1>17. k2 = k0 \/ (input /\ k2 = k0 + 1)
  <2>1. "input" \in Fields
    BY DEF Fields
  <2>2. \/ Len(t2.erased) = Len(t1.erased)
        \/ t2.active["input"] /\ Len(t2.erased) = Len(t1.erased) + 1
    BY <1>1, <1>2, <2>1, ErasedOne
  <2> QED
    BY <1>6, <1>16, <2>2
<1>18. k3 = k2 \/ (search /\ k3 = k2 + 1)
  <2>1. "search" \in Fields
    BY DEF Fields
  <2>2. CASE t2.newChat
    <3>1. \/ Len(t3.erased) = Len(t2.erased)
          \/ t3.active["search"] /\ Len(t3.erased) = Len(t2.erased) + 1
      BY <1>2, <1>3, <2>1, <2>2, ErasedOne
    <3> QED
      BY <1>6, <3>1
  <2>3. CASE ~t2.newChat
    BY <1>3, <2>3
  <2> QED
    BY <2>2, <2>3
<1>19. k = k3 \/ (room /\ RoomDrawn /\ k = k3 + 1)
  <2>1. "room" \in Fields
    BY DEF Fields
  <2>2. CASE RoomDrawn
    <3>1. \/ Len(t.erased) = Len(t3.erased)
          \/ t.active["room"] /\ Len(t.erased) = Len(t3.erased) + 1
      BY <1>3, <1>4, <2>1, <2>2, ErasedOne
    <3> QED
      BY <2>2, <3>1
  <2>3. CASE ~RoomDrawn
    BY <1>4, <2>3
  <2> QED
    BY <2>2, <2>3
<1>20. search /\ RoomDrawn => s.newChat /\ s.rooms
  BY <1>1, <1>5, <1>6, <1>7, <1>8, <1>9, <1>10
<1>21. k > 1 => s.newChat /\ s.rooms
  <2> HIDE DEF k0, k2, k3, k, input, search, room, RoomDrawn
  <2>1. k > 1 => search /\ RoomDrawn
    BY <1>11, <1>13, <1>16, <1>17, <1>18, <1>19
  <2> QED
    BY <1>20, <2>1
<1>22. drawChatScreen(s, e) = t
  BY DEF drawChatScreen, t, t3, t2, t1
<1> QED
  BY <1>4, <1>15, <1>21, <1>22 DEF Framed

-----------------------------------------------------------------------------
(***************************************************************************)
(* The theorems                                                            *)
(***************************************************************************)
\* The inductive invariant.
FieldsInv == screens \in State /\ Exclusive(screens)

LEMMA InitFields == FieldsInit => FieldsInv
BY DEF FieldsInit, FieldsInv, State, Exclusive, Fields, Screens

\* A frame begins with the state of the last one, keys of its own, and nothing erased.
LEMMA FrameFields ==
    ASSUME FieldsInv, NEW e \in Events(screens.screen), Frame(e)
    PROVE  FieldsInv' /\ Framed(screens, screens')
<1> DEFINE s == [screens EXCEPT !.queue = e.keys, !.erased = <<>>]
           t == CASE s.screen = "LOGIN" -> drawLoginScreen(s, e)
                  [] s.screen = "REGISTER" -> drawRegisterScreen(s, e)
                  [] s.screen = "CHAT" -> drawChatScreen(s, e)
<1>1. screens.screen \in Screens
  BY DEF FieldsInv, State
<1>2. e.keys \in Nat
  BY <1>1, EventFacts
<1>3. <<>> \in Seq(Fields)
  OBVIOUS
<1>4. s \in State
  BY <1>2, <1>3 DEF FieldsInv, State
<1>5. /\ s.screen = screens.screen /\ s.active = screens.active /\ s.erased = <<>>
      /\ s.newChat = screens.newChat /\ s.rooms = screens.rooms /\ s.mode = screens.mode
  BY DEF FieldsInv, State
<1>6. screens' = [t EXCEPT !.queue = 0]
  BY DEF Frame
<1> HIDE DEF s
<1>7. Exclusive(s)
  BY <1>5 DEF FieldsInv, Exclusive
<1>8. Framed(s, t)
  <2>1. CASE screens.screen = "LOGIN"
    BY <1>4, <1>5, <1>7, <2>1, LoginFrame
  <2>2. CASE screens.screen = "REGISTER"
    BY <1>4, <1>5, <1>7, <2>2, RegisterFrame
  <2>3. CASE screens.screen = "CHAT"
    BY <1>4, <1>5, <1>7, <2>3, ChatFrame
  <2> QED
    BY <1>1, <2>1, <2>2, <2>3 DEF Screens
<1> HIDE DEF t
<1>9. screens' \in State
  BY <1>6, <1>8 DEF Framed, State
<1>10. /\ screens'.active = t.active /\ screens'.erased = t.erased
       /\ screens'.newChat = t.newChat /\ screens'.rooms = t.rooms /\ screens'.mode = t.mode
  BY <1>6, <1>8 DEF Framed, State
<1>11. Exclusive(screens')
  BY <1>8, <1>10 DEF Framed, Exclusive
<1>12. Len(screens'.erased) > 1 =>
          \/ screens'.erased = <<"signup_password", "signup_password">>
          \/ screens.newChat /\ screens.rooms
  BY <1>5, <1>8, <1>10 DEF Framed
<1> QED
  BY <1>9, <1>11, <1>12 DEF FieldsInv, Framed

LEMMA FieldsInductive == FieldsSpec => []FieldsInv
<1>1. FieldsInv /\ [FieldsNext]_screens => FieldsInv'
  <2> SUFFICES ASSUME FieldsInv, [FieldsNext]_screens PROVE FieldsInv'
    OBVIOUS
  <2>1. CASE FieldsNext
    BY <2>1, FrameFields DEF FieldsNext
  <2>2. CASE UNCHANGED screens
    BY <2>2 DEF FieldsInv
  <2> QED
    BY <2>1, <2>2
<1> QED
  BY InitFields, <1>1, PTL DEF FieldsSpec

\* OneFieldListens: with the fields of a screen no press, and no order of dialogs opened
\* and closed, makes two of them take the keys of one frame, unless both dialogs are open.
THEOREM OneFieldTakesKeys == FieldsSpec => []OneFieldListens
<1>1. FieldsInv => OneFieldListens
  <2> SUFFICES ASSUME FieldsInv, ~BothDialogs
               PROVE  ~(Cardinality({f \in Drawn : screens.active[f]}) > 1)
    BY DEF OneFieldListens
  <2> DEFINE S == {f \in Drawn : screens.active[f]}
  <2>1. \A f, g \in S : f = g
    <3>1. CASE screens.screen = "LOGIN"
      BY <3>1 DEF Drawn, FieldsInv, Exclusive
    <3>2. CASE screens.screen = "REGISTER"
      BY <3>2 DEF Drawn, FieldsInv, Exclusive
    <3>3. CASE screens.screen = "CHAT"
      BY <3>3 DEF Drawn, FieldsInv, Exclusive, BothDialogs
    <3> QED
      BY <3>1, <3>2, <3>3 DEF FieldsInv, State, Screens
  <2>2. S = {} \/ \E f : S = {f}
    BY <2>1
  <2> HIDE DEF S
  <2>3. Cardinality(S) = 0 \/ Cardinality(S) = 1
    BY <2>2, FS_EmptySet, FS_Singleton
  <2> DEFINE k == Cardinality(S)
  <2>4. k = 0 \/ k = 1
    BY <2>3
  <2> HIDE DEF k
  <2>5. ~(k > 1)
    BY <2>4
  <2> QED
    BY <2>5 DEF S, k
<1> QED
  BY <1>1, FieldsInductive, PTL

\* BackspaceErasesOne, for every queue of characters.
THEOREM OneBackspaceOneCharacter == FieldsSpec => BackspaceErasesOne
<1>1. FieldsInv /\ [FieldsNext]_screens =>
        [Len(screens'.erased) > 1 =>
            \/ screens'.erased = <<"signup_password", "signup_password">>
            \/ BothDialogs]_screens
  BY FrameFields DEF FieldsNext, Framed, BothDialogs
<1> QED
  BY <1>1, FieldsInductive, PTL DEF FieldsSpec, BackspaceErasesOne

=============================================================================
