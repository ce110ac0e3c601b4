-------------------------- MODULE RealtimeSockets --------------------------
(***************************************************************************)
(* The socket server of the runtime indexer (indexer/src/websocket.ts):    *)
(* connections, the message limit of each, and the pings.                  *)
(*                                                                         *)
(* No handler of a pong sets a client alive again, so no answer to a ping  *)
(* is modelled.  A socket that is closing still receives: the ws library   *)
(* hands its messages on until the close is over.  A broadcast reads the   *)
(* open sockets and changes nothing here.                                  *)
(***************************************************************************)
EXTENDS Integers

CONSTANTS
    Clients,
    MaxMessages,   \* MAX_MESSAGES_PER_MINUTE
    Window         \* a minute, in ticks

VARIABLES
    socket,        \* readyState of each client; "none" is no connection
    marked,        \* isAlive === false
    state,         \* messagesInWindow, and the age of windowStart in ticks
    accepted       \* history, by n: messages accepted in the last n ticks

socketVars == <<socket, marked, state, accepted>>

-----------------------------------------------------------------------------

Fresh == [count |-> 0, age |-> 0]

\* The stretches of time, up to now, in which messages are counted.
Spans == 1..Window

NoMessages == [n \in Spans |-> 0]

Init ==
    /\ socket = [c \in Clients |-> "none"]
    /\ marked = [c \in Clients |-> FALSE]
    /\ state = [c \in Clients |-> Fresh]
    /\ accepted = [c \in Clients |-> NoMessages]

Connected == {c \in Clients : socket[c] # "none"}

\* on connection: a client is let in, or told to authenticate and closed.
Connect(c) ==
    /\ socket[c] = "none"
    /\ \E s \in {"open", "closing"} : socket' = [socket EXCEPT ![c] = s]
    /\ UNCHANGED <<marked, state, accepted>>

\* Mutant: the window starts anew with every message.
CountedAnew(st) == [count |-> 1, age |-> 0]

\* The record of a client with one more message counted.
Counted(st) ==
    IF st.age >= Window THEN [count |-> 1, age |-> 0]
    ELSE [st EXCEPT !.count = IF @ > MaxMessages THEN @ ELSE @ + 1]

\* on message: one too many closes the connection, as does an unknown type;
\* what is not an object with a type is answered and no more.
Message(c) ==
    /\ socket[c] \in {"open", "closing"}
    /\ state' = [state EXCEPT ![c] = Counted(@)]
    /\ \/ socket' = [socket EXCEPT ![c] = "closing"] /\ UNCHANGED accepted
       \/ /\ state'[c].count <= MaxMessages
          /\ \/ UNCHANGED accepted
             \/ accepted' = [accepted EXCEPT ![c] = [n \in Spans |-> @[n] + 1]]
          /\ UNCHANGED socket
    /\ UNCHANGED marked

\* setInterval ping: a client the last ping marked is terminated.
Ping ==
    /\ Connected # {}
    /\ socket' = [c \in Clients |->
          IF c \in Connected /\ marked[c] THEN "terminated" ELSE socket[c]]
    /\ marked' = [c \in Clients |-> c \in Connected]
    /\ UNCHANGED <<state, accepted>>

\* on close: the close handshake is over, the socket destroyed or its link lost
Close(c) ==
    /\ c \in Connected
    /\ socket' = [socket EXCEPT ![c] = "none"]
    /\ marked' = [marked EXCEPT ![c] = FALSE]
    /\ state' = [state EXCEPT ![c] = Fresh]
    /\ accepted' = [accepted EXCEPT ![c] = NoMessages]

Tick ==
    /\ state' = [c \in Clients |->
          IF c \in Connected THEN [state[c] EXCEPT !.age = IF @ < Window THEN @ + 1 ELSE @]
          ELSE Fresh]
    /\ accepted' = [c \in Clients |-> [n \in Spans |->
          IF n = 1 THEN 0 ELSE accepted[c][n - 1]]]
    /\ UNCHANGED <<socket, marked>>

Next == Ping \/ Tick \/ \E c \in Clients : Connect(c) \/ Message(c) \/ Close(c)

Spec == Init /\ [][Next]_socketVars

-----------------------------------------------------------------------------

TypeOK ==
    /\ socket \in [Clients -> {"none", "open", "closing", "terminated"}]
    /\ marked \in [Clients -> BOOLEAN]
    /\ state \in [Clients -> [count : 0..MaxMessages + 1, age : 0..Window]]
    /\ accepted \in [Clients -> [Spans -> Nat]]

\* The ticks the window of c lasts so far, the present one among them.
SinceStart(c) == IF state[c].age < Window THEN state[c].age + 1 ELSE Window

(***************************************************************************)
(* However messages, time, pings and closes interleave, and also while a   *)
(* connection that broke the limit is still closing: its window accepts no *)
(* more than the limit, and no stretch as long more than two.              *)
(***************************************************************************)
SocketBudget ==
    \A c \in Clients :
        /\ accepted[c][Window] <= 2 * MaxMessages
        /\ accepted[c][SinceStart(c)] <= MaxMessages

=============================================================================
