----------------------------- MODULE RpcClient -----------------------------
(***************************************************************************)
(* The extension's JSON-RPC client over a WebSocket                        *)
(* (zenith-extension/src/rpc_client.ts): connecting with retries, requests *)
(* numbered by a counter, timers, and the events of the sockets, of which  *)
(* an earlier one may still speak while a later one is in use.             *)
(*                                                                         *)
(* A step is one event of the extension's event loop.  The continuations   *)
(* of awaited promises run before the next event (Quiet).                  *)
(***************************************************************************)
EXTENDS Naturals, FiniteSets

CONSTANTS
  Calls,     \* bound: calls of RpcClient.call
  Retries,   \* attempts of one connect
  None       \* undefined, null

ASSUME RpcClientAssumption ==
  /\ Calls \in Nat
  /\ Retries \in Nat \ {0}
  /\ None \notin Nat

\* Calls are numbered in the order in which they are made; a call also names
\* the connect it starts.
Call   == 1..Calls
Socket == 1..(Calls * Retries)
Id     == 1..Calls

VARIABLES
  ws,                 \* RpcClient.ws
  idCounter,          \* RpcClient.idCounter
  pendingRequests,    \* RpcClient.pendingRequests: set of <<id, call>>
  isConnecting,       \* RpcClient.isConnecting
  connectionPromise,  \* RpcClient.connectionPromise: the connect it belongs to
  socket,             \* the WebSockets: state, listeners, attempt timer, and
                      \*   the requests the sidecar has not answered on them
  made,               \* number of sockets made
  connect,            \* the connects: phase, attempts made, current socket
  call,               \* the calls: phase, connect awaited, call answered
  disconnected        \* history: has disconnect been called?

client == <<ws, idCounter, pendingRequests, isConnecting, connectionPromise>>
vars   == <<client, socket, made, connect, call, disconnected>>

NoSocket  == [state |-> "none", listeners |-> "none", timer |-> FALSE,
              unanswered |-> {}]
NoConnect == [phase |-> "none", tries |-> 0, on |-> None]
NoCall    == [phase |-> "none", awaits |-> None, got |-> None]

Init ==
  /\ ws = None
  /\ idCounter = 1
  /\ pendingRequests = {}
  /\ isConnecting = FALSE
  /\ connectionPromise = None
  /\ socket = [s \in Socket |-> NoSocket]
  /\ made = 0
  /\ connect = [c \in Call |-> NoConnect]
  /\ call = [c \in Call |-> NoCall]
  /\ disconnected = FALSE

-----------------------------------------------------------------------------
(* Continuations and connects.                                             *)

IsOpen == ws # None /\ socket[ws].state = "open"

Ended(c) == connect[c].phase \in {"opened", "failed"}

\* The call c goes on after its await.
Ready(c) == call[c].phase = "waiting" /\ Ended(call[c].awaits)

\* No continuation is left to run, so the event loop may take an event.
Quiet == ~\E c \in Call : Ready(c)

\* terminate and close: a socket that is still connecting errs, an open one
\* closes.
GivenUp(sock) ==
  [sock EXCEPT !.state = CASE @ = "connecting" -> "aborted"
                           [] @ = "open"       -> "closing"
                           [] OTHER            -> @]

\* removeAllListeners and terminate: the program hears no more of the socket.
\* An attempt's timer is not a listener.  GivenUp is the mutant that keeps the
\* listeners.
Discarded(sock) ==
  [sock EXCEPT !.state = "closed", !.listeners = "none", !.unanswered = {}]

\* _attemptConnection on behalf of connect c, its tries-th.
Attempt(c, tries) ==
  LET s == made + 1
  IN  /\ made' = s
      /\ ws' = s
      /\ socket' =
           [t \in Socket |->
              IF t = s THEN [state |-> "connecting", listeners |-> "attempt",
                             timer |-> TRUE, unanswered |-> {}]
              ELSE IF t = ws THEN Discarded(socket[t])
              ELSE socket[t]]
      /\ connect' = [connect EXCEPT ![c] =
           [phase |-> "attempting", tries |-> tries, on |-> s]]

IsLast(c) == connect[c].tries = Retries

\* An attempt is rejected: the connects waiting for socket s try again in a
\* second, or give up and fail their callers.
RejectAttempt(s) ==
  LET of     == {c \in Call : connect[c].phase = "attempting" /\ connect[c].on = s}
      failed == {c \in of : IsLast(c)}
  IN  /\ connect' = [c \in Call |->
           IF c \in failed THEN [connect[c] EXCEPT !.phase = "failed"]
           ELSE IF c \in of THEN [connect[c] EXCEPT !.phase = "sleeping"]
           ELSE connect[c]]
      /\ isConnecting' = (isConnecting /\ failed = {})
      /\ connectionPromise' = IF failed = {} THEN connectionPromise ELSE None

-----------------------------------------------------------------------------
(* call.                                                                   *)

\* Mutant: a number that no pending request has, though an answer to it may
\* still be on its way.
SmallestFree == 1 + Cardinality(pendingRequests)

NextNumber == idCounter

\* The request leaves under the next number, with a timer of its own.
Send(c) ==
  /\ idCounter' = idCounter + 1
  /\ pendingRequests' =
       {r \in pendingRequests : r[1] # NextNumber} \cup {<<NextNumber, c>>}
  /\ socket' = [socket EXCEPT ![ws].unanswered = @ \cup {<<NextNumber, c>>}]
  /\ call' = [call EXCEPT ![c].phase = "pending"]

\* call is entered for the c-th time.
Begins(c) ==
  /\ Quiet
  /\ call[c].phase = "none"
  /\ \A d \in 1..(c - 1) : call[d].phase # "none"

CallNow(c) ==
  /\ Begins(c)
  /\ IsOpen
  /\ Send(c)
  /\ UNCHANGED <<ws, isConnecting, connectionPromise, made, connect, disconnected>>

\* The call joins the connect that is under way ...
CallJoins(c) ==
  /\ Begins(c)
  /\ ~IsOpen
  /\ isConnecting /\ connectionPromise # None
  /\ call' = [call EXCEPT ![c].phase = "waiting", ![c].awaits = connectionPromise]
  /\ UNCHANGED <<client, socket, made, connect, disconnected>>

\* ... or starts one.
CallConnects(c) ==
  /\ Begins(c)
  /\ ~IsOpen
  /\ ~(isConnecting /\ connectionPromise # None)
  /\ isConnecting' = TRUE
  /\ connectionPromise' = c
  /\ Attempt(c, 1)
  /\ call' = [call EXCEPT ![c].phase = "waiting", ![c].awaits = c]
  /\ UNCHANGED <<idCounter, pendingRequests, disconnected>>

\* The awaited connect has ended: the request is sent, or the call fails with
\* the connect or for want of an open socket.
Resume(c) ==
  /\ Ready(c)
  /\ IF connect[call[c].awaits].phase = "opened" /\ IsOpen
       THEN Send(c)
       ELSE /\ idCounter' = IF connect[call[c].awaits].phase = "opened"
                              THEN idCounter + 1 ELSE idCounter
            /\ call' = [call EXCEPT ![c].phase = "failed"]
            /\ UNCHANGED <<pendingRequests, socket>>
  /\ UNCHANGED <<ws, isConnecting, connectionPromise, made, connect, disconnected>>

-----------------------------------------------------------------------------
(* Events of the sockets.                                                  *)

\* The socket opens.  The new listeners go to the socket in use, if there is
\* one, and the connect ends.
Opens(s) ==
  /\ Quiet
  /\ socket[s].state = "connecting"
  /\ socket' = [socket EXCEPT
       ![s].state = "open",
       ![s].timer = FALSE,
       ![s].listeners = IF ws = s THEN "all" ELSE @]
  /\ LET of == {c \in Call : connect[c].phase = "attempting" /\ connect[c].on = s}
     IN  /\ connect' = [c \in Call |-> IF c \in of
              THEN [connect[c] EXCEPT !.phase = "opened"] ELSE connect[c]]
         /\ isConnecting' = (isConnecting /\ of = {})
  /\ UNCHANGED <<ws, idCounter, pendingRequests, connectionPromise, made, call,
                 disconnected>>

\* The connection is refused, or was given up while it was being made.
Errs(s) ==
  /\ Quiet
  /\ socket[s].state \in {"connecting", "aborted"}
  /\ socket' = [socket EXCEPT ![s].state = "closed", ![s].timer = FALSE]
  /\ RejectAttempt(s)
  /\ UNCHANGED <<ws, idCounter, pendingRequests, made, call, disconnected>>

\* The peer begins to close: the socket is no longer open, but its close event
\* is still to come.
PeerCloses(s) ==
  /\ Quiet
  /\ socket[s].state = "open"
  /\ socket' = [socket EXCEPT ![s].state = "closing"]
  /\ UNCHANGED <<client, made, connect, call, disconnected>>

IsPending(c) == \E r \in pendingRequests : r[2] = c

\* Mutant: the close event clears the map without rejecting its entries.
ForgottenByClose == call

RejectedByClose ==
  [c \in Call |-> IF IsPending(c) THEN [call[c] EXCEPT !.phase = "failed"]
                                 ELSE call[c]]

PendingAfterClose == {}

\* The close event of a socket, the one in use or an earlier one.
Closes(s) ==
  /\ Quiet
  /\ socket[s].state \in {"open", "closing"}
  /\ socket' = [socket EXCEPT ![s].state = "closed", ![s].unanswered = {}]
  /\ IF socket[s].listeners = "all"
       THEN /\ isConnecting' = FALSE
            /\ connectionPromise' = None
            /\ pendingRequests' = PendingAfterClose
            /\ call' = RejectedByClose
            /\ idCounter' = 1
       ELSE UNCHANGED <<isConnecting, connectionPromise, pendingRequests, call,
                        idCounter>>
  /\ UNCHANGED <<ws, made, connect, disconnected>>

\* The sidecar answers a request, in whatever order, and the answer goes to the
\* call that is pending under its number.
Answers(s) ==
  /\ Quiet
  /\ socket[s].state \in {"open", "closing"}
  /\ \E q \in socket[s].unanswered :
       LET to == IF socket[s].listeners = "all"
                   THEN {r \in pendingRequests : r[1] = q[1]} ELSE {}
       IN  /\ socket' = [socket EXCEPT ![s].unanswered = @ \ {q}]
           /\ pendingRequests' = pendingRequests \ to
           /\ call' = [c \in Call |-> IF \E r \in to : r[2] = c
                THEN [call[c] EXCEPT !.phase = "answered", !.got = q[2]]
                ELSE call[c]]
  /\ UNCHANGED <<ws, idCounter, isConnecting, connectionPromise, made, connect,
                 disconnected>>

-----------------------------------------------------------------------------
(* Timers, and disconnect.                                                 *)

\* Three seconds after the attempt: it is the socket in use by then that is
\* terminated.
AttemptTimeout(s) ==
  /\ Quiet
  /\ socket[s].timer
  /\ socket' = [t \in Socket |->
       LET sock == [socket[t] EXCEPT !.timer = @ /\ t # s]
       IN  IF t = ws THEN GivenUp(sock) ELSE sock]
  /\ RejectAttempt(s)
  /\ UNCHANGED <<ws, idCounter, pendingRequests, made, call, disconnected>>

Retry(c) ==
  /\ Quiet
  /\ connect[c].phase = "sleeping"
  /\ Attempt(c, connect[c].tries + 1)
  /\ UNCHANGED <<idCounter, pendingRequests, isConnecting, connectionPromise,
                 call, disconnected>>

RequestTimeout(c) ==
  /\ Quiet
  /\ IsPending(c)
  /\ pendingRequests' = {r \in pendingRequests : r[2] # c}
  /\ call' = [call EXCEPT ![c].phase = "failed"]
  /\ UNCHANGED <<ws, idCounter, isConnecting, connectionPromise, socket, made,
                 connect, disconnected>>

Disconnect ==
  /\ Quiet
  /\ ws # None
  /\ socket' = [socket EXCEPT ![ws] = GivenUp(@)]
  /\ ws' = None
  /\ disconnected' = TRUE
  /\ UNCHANGED <<idCounter, pendingRequests, isConnecting, connectionPromise,
                 made, connect, call>>

-----------------------------------------------------------------------------
Timer ==
  \/ \E s \in Socket : AttemptTimeout(s)
  \/ \E c \in Call : Retry(c) \/ RequestTimeout(c)

Continuation == \E c \in Call : Resume(c)

Next ==
  \/ \E c \in Call : CallNow(c) \/ CallJoins(c) \/ CallConnects(c)
  \/ \E s \in Socket : Opens(s) \/ Errs(s) \/ PeerCloses(s) \/ Closes(s) \/ Answers(s)
  \/ Continuation
  \/ Timer
  \/ Disconnect

\* Continuations run and timers go off; nothing obliges a sidecar to answer, a
\* socket to open or a caller to call.
Fairness == WF_vars(Timer) /\ WF_vars(Continuation)

Spec == Init /\ [][Next]_vars /\ Fairness

-----------------------------------------------------------------------------
(* Correctness.                                                            *)

TypeOK ==
  /\ ws \in Socket \cup {None}
  /\ idCounter \in 1..(Calls + 1)
  /\ pendingRequests \subseteq Id \X Call
  /\ isConnecting \in BOOLEAN
  /\ connectionPromise \in Call \cup {None}
  /\ socket \in [Socket ->
       [state : {"none", "connecting", "aborted", "open", "closing", "closed"},
        listeners : {"none", "attempt", "all"},
        timer : BOOLEAN,
        unanswered : SUBSET (Id \X Call)]]
  /\ made \in {0} \cup Socket
  /\ connect \in [Call ->
       [phase : {"none", "attempting", "sleeping", "opened", "failed"},
        tries : 0..Retries, on : Socket \cup {None}]]
  /\ call \in [Call ->
       [phase : {"none", "waiting", "pending", "answered", "failed"},
        awaits : Call \cup {None}, got : Call \cup {None}]]
  /\ disconnected \in BOOLEAN

\* Every pending request has a number below the next one, although the counter
\* goes back to 1 when a socket closes: a second entry under a number would take
\* the first one's place in the map, and its call would never settle.
NumbersFresh == \A r \in pendingRequests : r[1] < idCounter

\* A call settles with the answer to its own request, as long as the client is
\* not used again after disconnect (whose socket closes late and sets the
\* counter back under the next one's requests).
AnswersMatch ==
  ~disconnected => \A c \in Call : call[c].got \in {None, c}

\* One connect runs at a time, so that no two terminate each other's sockets,
\* unless the close of a disconnected socket clears the flag of a later one.
OneConnect ==
  ~disconnected =>
    \A c, d \in Call :
      {connect[c].phase, connect[d].phase} \subseteq {"attempting", "sleeping"}
        => c = d

\* Every call is answered or fails, whatever becomes of its sockets.
EveryCallSettles ==
  \A c \in Call :
    call[c].phase \in {"waiting", "pending"}
      ~> call[c].phase \in {"answered", "failed"}
=============================================================================
