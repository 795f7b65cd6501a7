--------------------------- MODULE ClientRequests ----------------------------
(***************************************************************************)
(* The two threads of the client and the connection they share.            *)
(*                                                                         *)
(* The UI thread makes one request at a time: it clears the response slot, *)
(* sends a command, and polls the slot until there is something in it or   *)
(* it has polled often enough.  Nothing ties a response to a request but   *)
(* the prefix of its text.                                                 *)
(*                                                                         *)
(* The listener thread receives.  A message pushed by the server goes to   *)
(* the handler of the chat screen, which runs on the listener thread and   *)
(* may itself make a request, for the name of an unknown sender; anything  *)
(* else overwrites the slot, and so does a push as long as no handler is   *)
(* set, that is, until the chat screen is first drawn after the login.     *)
(*                                                                         *)
(* The connection is a stream: one recv, on either side, takes one or more *)
(* messages as if they were a single one, of which only the first is seen, *)
(* and a history longer than the buffer of recv arrives in two parts.      *)
(***************************************************************************)
EXTENDS Naturals, Sequences

CONSTANTS Kinds,        \* the requests of the chat screen
          Polls,        \* how often a request polls (20 or 40 in the code)
          MaxRequests,  \* bound: how many requests the UI makes
          MaxPushes     \* bound: how many messages the server pushes

ASSUME ClientAssumption == /\ "login" \notin Kinds
                           /\ Polls \in Nat \ {0}
                           /\ MaxRequests \in Nat
                           /\ MaxPushes \in Nat

VARIABLES
    connected,   \* g_is_connected
    handler,     \* g_async_handler is set
    slot,        \* g_last_response
    ui,          \* the UI thread
    listener,    \* the listener thread
    requests,    \* the commands on their way to the server
    wire,        \* what the server wrote and the client has not received
    server,      \* "up" or, once the server is gone, "down"; "on" with a session
    shut,        \* the socket is shut down for reading
    alive,       \* FALSE once SIGPIPE has killed the client
    pushes,      \* how many messages were pushed
    timedOut,    \* history: some request has timed out
    results      \* history: the requests of the UI that have ended

vars == <<connected, handler, slot, ui, listener, requests, wire, server, shut,
          alive, pushes, timedOut, results>>

(***************************************************************************)
(* A text received from the server: the answer to request n of a thread,   *)
(* or its tail, or a push.  The answer to a request that failed starts     *)
(* with no prefix a request waits for.                                     *)
(***************************************************************************)
Text(what, by, n, kind, ok) == [what |-> what, by |-> by, n |-> n, kind |-> kind, ok |-> ok]
None == Text("none", "ui", 0, "none", FALSE)
Push == Text("push", "ui", 0, "none", FALSE)

Command(by, n, kind) == [by |-> by, n |-> n, kind |-> kind]

Init == /\ connected \in BOOLEAN
        /\ handler = FALSE
        /\ slot = None
        /\ ui = [pc |-> "idle", n |-> 0, kind |-> "none", polls |-> 0, loggedIn |-> FALSE,
                 \* history: of the current request
                 arrived |-> FALSE, asked |-> FALSE,
                 \* history: a push was about to be written to the slot, for want of
                 \* a handler, when the handler was set
                 stray |-> FALSE]
        /\ listener = [pc |-> IF connected THEN "recv" ELSE "done", n |-> 0, polls |-> 0,
                       text |-> None]   \* server_message
        /\ requests = <<>>
        /\ wire = <<>>
        /\ server = "up"
        /\ shut = FALSE
        /\ alive = TRUE
        /\ pushes = 0
        /\ timedOut = FALSE
        /\ results = <<>>

-----------------------------------------------------------------------------
(***************************************************************************)
(* Sending, by either thread                                               *)
(***************************************************************************)
\* Network_send succeeds.  A command for a server that is gone is lost, as
\* long as the client has not noticed.
Sends(command) ==
    /\ connected
    /\ requests' = IF server = "down" THEN requests ELSE Append(requests, command)

\* Network_send returns -1: the listener has seen the end of the connection, or
\* send itself does now.
CannotSend == ~connected \/ server = "down"

\* send raises SIGPIPE, which the client does not ignore.
Killed == connected /\ server = "down"

-----------------------------------------------------------------------------
(***************************************************************************)
(* The UI thread                                                           *)
(***************************************************************************)
\* The bookkeeping of a request that ends with this text in the slot, or without.
Ended(outcome, took) ==
    /\ ui' = [ui EXCEPT !.pc = "idle",
                        !.loggedIn = @ \/ (ui.kind = "login" /\ outcome = "success")]
    /\ results' = Append(results, [n |-> ui.n, kind |-> ui.kind, outcome |-> outcome,
                                   took |-> took, late |-> timedOut,
                                   arrived |-> ui.arrived, asked |-> ui.asked])

\* A variant with a bug: the slot left as it was.
StartWithoutClear(kind) ==
    /\ alive /\ ui.pc = "idle" /\ ui.n < MaxRequests
    /\ IF ui.loggedIn THEN kind \in Kinds /\ handler ELSE kind = "login"
    /\ ui' = [ui EXCEPT !.pc = "send", !.n = @ + 1, !.kind = kind, !.polls = 0,
                        !.arrived = FALSE, !.asked = FALSE]
    /\ UNCHANGED <<connected, handler, slot, listener, requests, wire, server, shut,
                   alive, pushes, timedOut, results>>

\* A button: Network_clear_response.  On the login screen the only requests
\* are those of an account, on the chat screen all the others.
Start(kind) ==
    /\ alive /\ ui.pc = "idle" /\ ui.n < MaxRequests
    /\ IF ui.loggedIn THEN kind \in Kinds /\ handler ELSE kind = "login"
    /\ slot' = None
    /\ ui' = [ui EXCEPT !.pc = "send", !.n = @ + 1, !.kind = kind, !.polls = 0,
                        !.arrived = FALSE, !.asked = FALSE]
    /\ UNCHANGED <<connected, handler, listener, requests, wire, server, shut,
                   alive, pushes, timedOut, results>>

Send ==
    /\ alive /\ ui.pc = "send"
    /\ \/ /\ Sends(Command("ui", ui.n, ui.kind))
          /\ ui' = [ui EXCEPT !.pc = "poll"]
          /\ UNCHANGED <<alive, results>>
       \/ /\ CannotSend
          /\ Ended("unsent", None)
          /\ UNCHANGED <<alive, requests>>
       \/ /\ Killed
          /\ alive' = FALSE
          /\ UNCHANGED <<ui, results, requests>>
    /\ UNCHANGED <<connected, handler, slot, listener, wire, server, shut, pushes, timedOut>>

\* strncmp(response, success_prefix, ...) = 0.
Matches(text, kind) == text.what = "answer" /\ text.ok /\ text.kind = kind

\* usleep, then a look at the slot: the first text found there decides.
PollFinds ==
    /\ alive /\ ui.pc = "poll" /\ slot # None
    /\ Ended(IF Matches(slot, ui.kind) THEN "success" ELSE "fail", slot)
    /\ UNCHANGED <<connected, handler, slot, listener, requests, wire, server, shut,
                   alive, pushes, timedOut>>

\* Three variants with a bug each: no limit to the polling; one look too many; a
\* last look that is not taken.
PollForever ==
    /\ alive /\ ui.pc = "poll" /\ slot = None
    /\ ui' = [ui EXCEPT !.polls = (@ + 1) % Polls]
    /\ UNCHANGED <<connected, handler, slot, listener, requests, wire, server, shut,
                   alive, pushes, timedOut, results>>

PollHasty ==
    /\ alive /\ ui.pc = "poll"
    /\ Ended("timeout", None)
    /\ timedOut' = TRUE
    /\ UNCHANGED <<connected, handler, slot, listener, requests, wire, server, shut,
                   alive, pushes>>

\* Nothing yet, for the last time or not.
PollEmpty ==
    /\ alive /\ ui.pc = "poll" /\ slot = None
    /\ IF ui.polls + 1 < Polls
       THEN /\ ui' = [ui EXCEPT !.polls = @ + 1]
            /\ UNCHANGED <<timedOut, results>>
       ELSE /\ Ended("timeout", None)
            /\ timedOut' = TRUE
    /\ UNCHANGED <<connected, handler, slot, listener, requests, wire, server, shut,
                   alive, pushes>>

\* The chat screen is drawn for the first time: Network_set_async_message_handler.
OpenChat ==
    /\ alive /\ ui.pc = "idle" /\ ui.loggedIn /\ ~handler
    /\ handler' = TRUE
    /\ ui' = [ui EXCEPT !.stray = listener.pc = "write" /\ listener.text.what = "push"]
    /\ UNCHANGED <<connected, slot, listener, requests, wire, server, shut,
                   alive, pushes, timedOut, results>>

\* The window is closed: Network_disconnect, which does nothing when the
\* connection has already ended.
Quit ==
    /\ alive /\ ui.pc = "idle"
    /\ connected' = FALSE
    /\ shut' = connected
    /\ ui' = [ui EXCEPT !.pc = IF connected THEN "join" ELSE "gone"]
    /\ UNCHANGED <<handler, slot, listener, requests, wire, server, alive,
                   pushes, timedOut, results>>

Join ==
    /\ alive /\ ui.pc = "join" /\ listener.pc = "done"
    /\ ui' = [ui EXCEPT !.pc = "gone"]
    /\ UNCHANGED <<connected, handler, slot, listener, requests, wire, server, shut,
                   alive, pushes, timedOut, results>>

-----------------------------------------------------------------------------
(***************************************************************************)
(* The listener thread                                                     *)
(***************************************************************************)
\* The process ends, and the listener with it, when main returns.
Running == alive /\ ui.pc # "gone"

Listening == Running /\ listener.pc = "recv" /\ wire # <<>>

\* Back to the test of g_is_connected in the loop of handleConnection.
Loop == [listener EXCEPT !.pc = IF connected THEN "recv" ELSE "done", !.text = None]

\* server_message: is_async depends on it alone, and g_async_handler is only looked at
\* for a push.
Received(text) ==
    listener' = [listener EXCEPT !.pc = IF text.what = "push" THEN "sort" ELSE "write",
                                 !.text = text]

\* One recv, which takes the next k messages for one.
Recv(k) ==
    /\ Listening /\ k \in 1..Len(wire)
    /\ wire' = SubSeq(wire, k + 1, Len(wire))
    /\ Received(wire[1])
    /\ UNCHANGED <<connected, handler, slot, ui, requests, server, shut, alive, pushes,
                   timedOut, results>>

\* A history that does not fit into the buffer of recv.
RecvPart ==
    /\ Listening
    /\ wire[1].what = "answer" /\ wire[1].kind = "history" /\ wire[1].ok
    /\ wire' = [wire EXCEPT ![1].what = "tail"]
    /\ Received(wire[1])
    /\ UNCHANGED <<connected, handler, slot, ui, requests, server, shut, alive, pushes,
                   timedOut, results>>

\* The handler of the chat screen: it may have to ask for the sender's name,
\* and clears the slot to do so.
Handle ==
    \/ /\ listener' = Loop
       /\ UNCHANGED <<slot, ui>>
    \/ /\ slot' = None
       /\ listener' = [listener EXCEPT !.pc = "ask", !.n = @ + 1, !.polls = 0, !.text = None]
       /\ ui' = [ui EXCEPT !.asked = TRUE]

\* A variant with a bug: a push that is not told from an answer.
SortNothing ==
    /\ Running /\ listener.pc = "sort"
    /\ listener' = [listener EXCEPT !.pc = "write"]
    /\ UNCHANGED <<connected, handler, slot, ui, requests, wire, server, shut, alive,
                   pushes, timedOut, results>>

\* The test of g_async_handler for a push.
Sort ==
    /\ Running /\ listener.pc = "sort"
    /\ IF handler
       THEN Handle
       ELSE /\ listener' = [listener EXCEPT !.pc = "write"]
            /\ UNCHANGED <<slot, ui>>
    /\ UNCHANGED <<connected, handler, requests, wire, server, shut, alive, pushes,
                   timedOut, results>>

\* The text goes to the slot, whoever has set the handler or cleared the slot since
\* the test.
Respond ==
    LET text == listener.text
    IN  /\ Running /\ listener.pc = "write"
        /\ slot' = text
        /\ listener' = Loop
        /\ ui' = [ui EXCEPT !.arrived = @ \/ (text.what = "answer" /\ text.by = "ui"
                                              /\ ui.pc = "poll" /\ text.n = ui.n)]
        /\ UNCHANGED <<connected, handler, requests, wire, server, shut, alive, pushes,
                       timedOut, results>>

\* recv returns 0 or -1.
RecvEnds ==
    /\ Running /\ listener.pc = "recv"
    /\ server = "down" \/ (shut /\ wire = <<>>)
    /\ connected' = FALSE
    /\ wire' = <<>>
    /\ listener' = [listener EXCEPT !.pc = "done"]
    /\ UNCHANGED <<handler, slot, ui, requests, server, shut, alive, pushes,
                   timedOut, results>>

\* MessageService_get_user_info on the listener thread.
AskSends ==
    /\ Running /\ listener.pc = "ask"
    /\ \/ /\ Sends(Command("listener", listener.n, "user_info"))
          /\ listener' = [listener EXCEPT !.pc = "poll"]
          /\ UNCHANGED alive
       \/ /\ CannotSend
          /\ listener' = Loop
          /\ UNCHANGED <<alive, requests>>
       \/ /\ Killed
          /\ alive' = FALSE
          /\ UNCHANGED <<listener, requests>>
    /\ UNCHANGED <<connected, handler, slot, ui, wire, server, shut, pushes,
                   timedOut, results>>

\* A variant with a bug: no limit to the polling.
AskForever ==
    /\ Running /\ listener.pc = "poll" /\ slot = None
    /\ listener' = [listener EXCEPT !.polls = (@ + 1) % Polls]
    /\ UNCHANGED <<connected, handler, slot, ui, requests, wire, server, shut,
                   alive, pushes, timedOut, results>>

\* Its polling; with a text or without, the contact is added in the end.
AskPoll ==
    /\ Running /\ listener.pc = "poll"
    /\ IF slot = None /\ listener.polls + 1 < Polls
       THEN /\ listener' = [listener EXCEPT !.polls = @ + 1]
            /\ UNCHANGED timedOut
       ELSE /\ listener' = Loop
            /\ timedOut' = (timedOut \/ slot = None)
    /\ UNCHANGED <<connected, handler, slot, ui, requests, wire, server, shut,
                   alive, pushes, results>>

-----------------------------------------------------------------------------
(***************************************************************************)
(* The server                                                              *)
(***************************************************************************)
\* One recv of client_handler, which takes the next k commands for one; the
\* rest of them becomes part of the last argument of the first, or makes it
\* unknown.
Serve(k) ==
    /\ server # "down" /\ k \in 1..Len(requests)
    /\ requests' = SubSeq(requests, k + 1, Len(requests))
    /\ \E ok \in BOOLEAN :
          LET c == requests[1]
          IN  /\ wire' = Append(wire, Text("answer", c.by, c.n, c.kind, ok))
              /\ server' = IF c.kind = "login" /\ ok THEN "on" ELSE server
    /\ UNCHANGED <<connected, handler, slot, ui, listener, shut, alive, pushes,
                   timedOut, results>>

\* RECEIVE_DM or RECEIVE_GROUP_MSG, written by the handler of another client.
PushMessage ==
    /\ server = "on" /\ pushes < MaxPushes
    /\ pushes' = pushes + 1
    /\ wire' = Append(wire, Push)
    /\ UNCHANGED <<connected, handler, slot, ui, listener, requests, server, shut,
                   alive, timedOut, results>>

ServerEnds ==
    /\ server # "down"
    /\ server' = "down"
    /\ requests' = <<>>
    /\ UNCHANGED <<connected, handler, slot, ui, listener, wire, shut, alive, pushes,
                   timedOut, results>>

-----------------------------------------------------------------------------
UIStep == Send \/ PollFinds \/ PollEmpty \/ Join

ListenerStep == \/ \E k \in 1..Len(wire) : Recv(k)
                \/ RecvPart \/ RecvEnds \/ Sort \/ Respond
                \/ AskSends \/ AskPoll

User == (\E kind \in Kinds \cup {"login"} : Start(kind)) \/ OpenChat \/ Quit

ServerStep == (\E k \in 1..Len(requests) : Serve(k)) \/ PushMessage \/ ServerEnds

Next == UIStep \/ ListenerStep \/ User \/ ServerStep

Spec == Init /\ [][Next]_vars

\* Both threads run; nothing is assumed of the user or of the server.
FairSpec == Spec /\ WF_vars(UIStep) /\ WF_vars(ListenerStep)

-----------------------------------------------------------------------------
(***************************************************************************)
(* Properties                                                              *)
(***************************************************************************)
Own(r) == r.took.by = "ui" /\ r.took.n = r.n

\* A request is answered with the answer to another one only when the exchange has
\* slipped: after a request of this client has timed out, on either thread, or after
\* one has taken for its answer a pushed message or the second part of a history.  A
\* request of the chat screen takes a push at most once, and only the one for which
\* the listener had found no handler before the handler was set.
WrongAnswerNeedsSlip ==
    \A i \in DOMAIN results :
       LET r == results[i]
       IN  /\ r.took.what = "answer" /\ ~Own(r) =>
                 \/ r.late
                 \/ \E j \in 1..i - 1 : results[j].took.what \in {"push", "tail"}
           /\ r.took.what = "push" /\ r.kind # "login" =>
                 /\ ui.stray
                 /\ \A j \in 1..i - 1 :
                       results[j].took.what = "push" => results[j].kind = "login"

\* No answer of the server makes two requests of the UI succeed: the screen
\* never shows more messages as sent than the server has acknowledged.
AnswersCountOnce ==
    \A i, j \in DOMAIN results :
       /\ results[i].took.what = "answer" /\ i # j
       => results[i].took # results[j].took

\* A request times out although its answer reached the slot in time only when
\* the listener has made a request of its own, which cleared it.
TimeoutDespiteAnswerNeedsAsk ==
    \A i \in DOMAIN results :
       results[i].outcome = "timeout" /\ results[i].arrived => results[i].asked

\* Every request comes to an end, and so does the end of the program.
RequestsEnd == ui.pc \in {"send", "poll", "join"} ~> ui.pc \in {"idle", "gone"} \/ ~alive

\* Whatever the server writes is received in the end, or the connection is over:
\* the handler always gives the thread back.
ListenerReturns == []<>(wire = <<>> \/ listener.pc = "done" \/ ~alive \/ ui.pc = "gone")

=============================================================================
