----------------------------- MODULE CallProofs -----------------------------
(***************************************************************************)
(* Proofs about the calls of the extension: RpcClient, which makes them,   *)
(* for every number of calls and of attempts, and Session, whose handlers  *)
(* are sequences of calls, for every set of workspaces, edits, handlers    *)
(* and messages.                                                           *)
(*                                                                         *)
(* A socket speaks for the client only while it is the one in use: the     *)
(* next attempt discards it.  What follows from that holds until           *)
(* disconnect, which lets go of a socket without discarding it.            *)
(***************************************************************************)
EXTENDS RpcClient, Session, FiniteSetTheorems, TLAPS

\* The attempts that connects have made, and the calls that have taken a number
\* or will not.
Attempted == {a \in Call \X (1..Retries) : a[2] <= connect[a[1]].tries}
Numbered  == {c \in Call : call[c].phase \notin {"none", "waiting"}}

\* A socket is made for each attempt and a number taken for each call, so the
\* bounds suffice.
Counted ==
  /\ made = Cardinality(Attempted)
  /\ idCounter <= Cardinality(Numbered) + 1

\* A call that has not begun has no connect, one that waits has one to wait for,
\* and one that sleeps has an attempt left.
InOrder ==
  \A c \in Call :
    /\ call[c].phase = "none" => connect[c] = NoConnect
    /\ call[c].phase = "waiting" => call[c].awaits \in Call
    /\ connect[c].phase = "sleeping" => connect[c].tries < Retries

\* Until disconnect, only the socket in use can be heard, and the requests it
\* has not answered are numbered as those that are pending.
OnlyInUse ==
  ~disconnected =>
    \A s \in Socket :
      /\ socket[s].state \notin {"none", "closed"} \/ socket[s].listeners = "all"
            \/ socket[s].unanswered # {} => s = ws
      /\ \A q \in socket[s].unanswered :
           /\ q[1] < idCounter
           /\ \A r \in pendingRequests : r[1] = q[1] => r = q

\* Until disconnect, the connect under way is the one that calls join, its socket
\* is the one in use, and it has not opened.
UnderWay(c) == connect[c].phase \in {"attempting", "sleeping"}

OneUnderWay ==
  ~disconnected =>
    \A c \in Call : UnderWay(c) =>
      /\ isConnecting /\ connectionPromise = c
      /\ connect[c].on = ws /\ ws # None
      /\ socket[ws].listeners = "attempt"
      /\ connect[c].phase = "sleeping" => socket[ws].state # "connecting"

IInv ==
  /\ TypeOK /\ Counted /\ InOrder
  /\ NumbersFresh /\ OnlyInUse /\ AnswersMatch /\ OneUnderWay

-----------------------------------------------------------------------------
(* Counting.                                                               *)

LEMMA Finite ==
  /\ IsFiniteSet(Call) /\ Cardinality(Call) = Calls
  /\ IsFiniteSet(Call \X (1..Retries))
  /\ Cardinality(Call \X (1..Retries)) = Calls * Retries
<1>1. IsFiniteSet(1..Calls) /\ Cardinality(1..Calls) = Calls
  BY FS_Interval, RpcClientAssumption
<1>2. IsFiniteSet(1..Retries) /\ Cardinality(1..Retries) = Retries
  BY FS_Interval, RpcClientAssumption
<1>3. IsFiniteSet((1..Calls) \X (1..Retries))
      /\ Cardinality((1..Calls) \X (1..Retries)) = Cardinality(1..Calls) * Cardinality(1..Retries)
  BY <1>1, <1>2, FS_Product
<1>4. QED
  BY <1>1, <1>2, <1>3 DEF Call

\* An attempt more of a connect that has one left is one socket more, and the
\* bound on the sockets allows it.
LEMMA AttemptCounted ==
  ASSUME TypeOK, Counted, NEW c \in Call, NEW t \in 1..Retries,
         t = connect[c].tries + 1, Attempt(c, t)
  PROVE  made' = Cardinality(Attempted') /\ made + 1 \in Socket
<1>1. IsFiniteSet(Attempted) /\ Cardinality(Attempted) \in Nat
  BY Finite, FS_Subset, FS_CardinalityType DEF Attempted
<1>2. <<c, t>> \notin Attempted /\ <<c, t>> \in Call \X (1..Retries)
  BY DEF Attempted, TypeOK
<1>3. Cardinality(Attempted \cup {<<c, t>>}) = made + 1
  BY <1>1, <1>2, FS_AddElement DEF Counted
<1>4. connect'[c].tries = t /\ \A d \in Call \ {c} : connect'[d] = connect[d]
  BY DEF Attempt, TypeOK
<1>5. Attempted' = Attempted \cup {<<c, t>>}
  <2>1. \A a \in Call \X (1..Retries) :
          a[2] <= connect'[a[1]].tries <=> a[2] <= connect[a[1]].tries \/ a = <<c, t>>
    <3> SUFFICES ASSUME NEW d \in Call, NEW i \in 1..Retries
                 PROVE  i <= connect'[d].tries <=> i <= connect[d].tries \/ <<d, i>> = <<c, t>>
      OBVIOUS
    <3>1. connect[d].tries \in Nat
      BY RpcClientAssumption DEF TypeOK
    <3>2. CASE d = c
      BY <1>4, <3>1, <3>2
    <3>3. CASE d # c
      BY <1>4, <3>3
    <3>4. QED
      BY <3>2, <3>3
  <2>2. QED
    BY <1>2, <2>1 DEF Attempted
<1>6. made + 1 <= Calls * Retries
  <2>1. Attempted \cup {<<c, t>>} \in SUBSET (Call \X (1..Retries))
    BY <1>2 DEF Attempted
  <2>2. QED
    BY <1>3, <2>1, Finite, FS_Subset
<1>7. made \in Nat /\ Calls * Retries \in Nat
  BY RpcClientAssumption DEF TypeOK, Socket
<1>8. QED
  BY <1>3, <1>5, <1>6, <1>7 DEF Attempt, Socket

\* Tries that stay as they are leave the count.
LEMMA AttemptedSame ==
  ASSUME Counted, made' = made, \A c \in Call : connect'[c].tries = connect[c].tries
  PROVE  made' = Cardinality(Attempted')
<1>1. Attempted' = Attempted
  BY DEF Attempted
<1>2. QED
  BY <1>1 DEF Counted

\* A call that takes the next number leaves enough of them.
LEMMA NumberTaken ==
  ASSUME TypeOK, Counted, NEW c \in Call, c \notin Numbered,
         idCounter' = idCounter + 1, Numbered' = Numbered \cup {c}
  PROVE  idCounter' <= Cardinality(Numbered') + 1 /\ idCounter \in Id
<1>1. IsFiniteSet(Numbered) /\ Cardinality(Numbered) \in Nat
  BY Finite, FS_Subset, FS_CardinalityType DEF Numbered
<1>2. Cardinality(Numbered \cup {c}) = Cardinality(Numbered) + 1
  BY <1>1, FS_AddElement
<1>3. Numbered \cup {c} \in SUBSET Call
  BY DEF Numbered
<1>4. Cardinality(Numbered) + 1 <= Calls
  BY <1>2, <1>3, Finite, FS_Subset
<1>5. QED
  BY <1>1, <1>2, <1>4, RpcClientAssumption DEF Counted, TypeOK, Id

LEMMA NumberedGrows ==
  ASSUME TypeOK, Counted, Numbered \subseteq Numbered', idCounter' \in {1, idCounter}
  PROVE  idCounter' <= Cardinality(Numbered') + 1
<1>1. IsFiniteSet(Numbered') /\ Cardinality(Numbered') \in Nat
  BY Finite, FS_Subset, FS_CardinalityType DEF Numbered
<1>2. Cardinality(Numbered) <= Cardinality(Numbered') /\ Cardinality(Numbered) \in Nat
  BY <1>1, FS_Subset, FS_CardinalityType
<1>3. QED
  BY <1>1, <1>2 DEF Counted, TypeOK

-----------------------------------------------------------------------------
(* Types.                                                                  *)

SocketRecord ==
  [state : {"none", "connecting", "aborted", "open", "closing", "closed"},
   listeners : {"none", "attempt", "all"},
   timer : BOOLEAN,
   unanswered : SUBSET (Id \X Call)]
ConnectRecord ==
  [phase : {"none", "attempting", "sleeping", "opened", "failed"},
   tries : 0..Retries, on : Socket \cup {None}]
CallRecord ==
  [phase : {"none", "waiting", "pending", "answered", "failed"},
   awaits : Call \cup {None}, got : Call \cup {None}]

LEMMA Types ==
  TypeOK <=>
    /\ ws \in Socket \cup {None} /\ idCounter \in 1..(Calls + 1)
    /\ pendingRequests \subseteq Id \X Call /\ isConnecting \in BOOLEAN
    /\ connectionPromise \in Call \cup {None} /\ socket \in [Socket -> SocketRecord]
    /\ made \in {0} \cup Socket /\ connect \in [Call -> ConnectRecord]
    /\ call \in [Call -> CallRecord] /\ disconnected \in BOOLEAN
  BY DEF TypeOK, SocketRecord, ConnectRecord, CallRecord

LEMMA AttemptTypes ==
  ASSUME TypeOK, Counted, NEW c \in Call, NEW t \in 1..Retries,
         t = connect[c].tries + 1, Attempt(c, t)
  PROVE  /\ ws' \in Socket /\ made' \in Socket
         /\ socket' \in [Socket -> SocketRecord] /\ connect' \in [Call -> ConnectRecord]
<1>1. made + 1 \in Socket
  BY AttemptCounted
<1>2. \A s \in Socket : socket[s] \in SocketRecord /\ Discarded(socket[s]) \in SocketRecord
  BY ZenonT(30) DEF TypeOK, SocketRecord, Discarded
<1>3. [state |-> "connecting", listeners |-> "attempt", timer |-> TRUE, unanswered |-> {}]
        \in SocketRecord
  BY DEF SocketRecord
<1>4. socket' \in [Socket -> SocketRecord]
  BY <1>2, <1>3 DEF Attempt
<1>5. connect \in [Call -> ConnectRecord]
  BY Types
<1>6. [phase |-> "attempting", tries |-> t, on |-> made + 1] \in ConnectRecord
  BY <1>1, RpcClientAssumption DEF ConnectRecord
<1>7. connect' \in [Call -> ConnectRecord]
  BY <1>5, <1>6 DEF Attempt
<1>8. QED
  BY <1>1, <1>4, <1>7 DEF Attempt

LEMMA SendTypes ==
  ASSUME TypeOK, Counted, NEW c \in Call, c \notin Numbered, IsOpen, Send(c)
  PROVE  /\ idCounter' \in 1..(Calls + 1) /\ pendingRequests' \subseteq Id \X Call
         /\ socket' \in [Socket -> SocketRecord] /\ call' \in [Call -> CallRecord]
         /\ idCounter' <= Cardinality(Numbered') + 1
<1>1. call \in [Call -> CallRecord] /\ socket \in [Socket -> SocketRecord]
  BY Types
<1>2. call' \in [Call -> CallRecord]
  BY <1>1 DEF Send, CallRecord
<1>3. Numbered' = Numbered \cup {c}
  BY <1>1 DEF Send, Numbered, CallRecord
<1>4. idCounter' <= Cardinality(Numbered') + 1 /\ idCounter \in Id
  BY <1>3, NumberTaken DEF Send
<1>5. ws \in Socket
  BY DEF TypeOK, IsOpen
<1>6. socket' \in [Socket -> SocketRecord]
  BY <1>1, <1>4, <1>5 DEF Send, SocketRecord, NextNumber
<1>7. QED
  BY <1>2, <1>4, <1>6, RpcClientAssumption DEF Send, TypeOK, NextNumber, Id

LEMMA RejectTypes ==
  ASSUME TypeOK, NEW s \in Socket, RejectAttempt(s)
  PROVE  /\ connect' \in [Call -> ConnectRecord] /\ isConnecting' \in BOOLEAN
         /\ connectionPromise' \in Call \cup {None}
         /\ \A c \in Call : connect'[c].tries = connect[c].tries
<1>1. connect \in [Call -> ConnectRecord]
  BY Types
<1>2. \A c \in Call : connect'[c] \in {connect[c], [connect[c] EXCEPT !.phase = "failed"],
                                       [connect[c] EXCEPT !.phase = "sleeping"]}
  BY DEF RejectAttempt
<1>3. \A c \in Call : connect'[c] \in ConnectRecord /\ connect'[c].tries = connect[c].tries
  BY <1>1, <1>2 DEF ConnectRecord
<1>4. connect' \in [Call -> ConnectRecord]
  <2>1. connect' = [c \in Call |-> connect'[c]]
    BY DEF RejectAttempt
  <2>2. QED
    BY <1>3, <2>1
<1>5. isConnecting' \in BOOLEAN
  BY DEF RejectAttempt, TypeOK
<1>6. QED
  BY <1>3, <1>4, <1>5 DEF RejectAttempt, TypeOK

LEMMA TypeStep ==
  ASSUME TypeOK, Counted, InOrder, [Next]_vars
  PROVE  TypeOK' /\ Counted'
<1>0. /\ socket \in [Socket -> SocketRecord] /\ connect \in [Call -> ConnectRecord]
      /\ call \in [Call -> CallRecord]
  BY Types
<1>1. ASSUME NEW c \in Call, CallNow(c)
      PROVE  TypeOK' /\ Counted'
  <2>1. c \notin Numbered
    BY <1>1 DEF CallNow, Begins, Numbered
  <2>2. /\ idCounter' \in 1..(Calls + 1) /\ pendingRequests' \subseteq Id \X Call
        /\ socket' \in [Socket -> SocketRecord] /\ call' \in [Call -> CallRecord]
        /\ idCounter' <= Cardinality(Numbered') + 1
    BY <1>1, <2>1, SendTypes DEF CallNow
  <2>3. made' = Cardinality(Attempted')
    BY <1>1, AttemptedSame DEF CallNow
  <2>4. QED
    BY <1>1, <2>2, <2>3 DEF TypeOK, Counted, CallNow, SocketRecord, CallRecord
<1>2. ASSUME NEW c \in Call, CallJoins(c)
      PROVE  TypeOK' /\ Counted'
  <2>1. call' \in [Call -> CallRecord]
    BY <1>0, <1>2, ZenonT(30) DEF CallJoins, CallRecord, TypeOK
  <2>2. Numbered' = Numbered
    BY <1>0, <1>2 DEF CallJoins, Begins, Numbered, CallRecord
  <2>3. made' = Cardinality(Attempted')
    BY <1>2, AttemptedSame DEF CallJoins
  <2>4. QED
    BY <1>2, <2>1, <2>2, <2>3 DEF TypeOK, Counted, CallJoins, client, CallRecord
<1>3. ASSUME NEW c \in Call, CallConnects(c)
      PROVE  TypeOK' /\ Counted'
  <2>1. 1 \in 1..Retries /\ 1 = connect[c].tries + 1
    BY <1>3, RpcClientAssumption DEF CallConnects, Begins, InOrder, NoConnect
  <2>2. /\ ws' \in Socket /\ made' \in Socket
        /\ socket' \in [Socket -> SocketRecord] /\ connect' \in [Call -> ConnectRecord]
    BY <1>3, <2>1, AttemptTypes DEF CallConnects
  <2>3. made' = Cardinality(Attempted')
    BY <1>3, <2>1, AttemptCounted DEF CallConnects
  <2>4. call' \in [Call -> CallRecord]
    BY <1>0, <1>3 DEF CallConnects, CallRecord
  <2>5. Numbered' = Numbered
    BY <1>0, <1>3 DEF CallConnects, Begins, Numbered, CallRecord
  <2>6. QED
    BY <1>3, <2>2, <2>3, <2>4, <2>5
       DEF TypeOK, Counted, CallConnects, SocketRecord, ConnectRecord, CallRecord
<1>4. ASSUME NEW c \in Call, Resume(c)
      PROVE  TypeOK' /\ Counted'
  <2>1. c \notin Numbered
    BY <1>4 DEF Resume, Ready, Numbered
  <2>2. made' = Cardinality(Attempted')
    BY <1>4, AttemptedSame DEF Resume
  <2>3. CASE IsOpen /\ Send(c)
    <3>1. /\ idCounter' \in 1..(Calls + 1) /\ pendingRequests' \subseteq Id \X Call
          /\ socket' \in [Socket -> SocketRecord] /\ call' \in [Call -> CallRecord]
          /\ idCounter' <= Cardinality(Numbered') + 1
      BY <2>1, <2>3, SendTypes
    <3>2. QED
      BY <1>4, <2>2, <3>1 DEF TypeOK, Counted, Resume, SocketRecord, CallRecord
  <2>4. CASE /\ idCounter' \in {idCounter, idCounter + 1}
             /\ call' = [call EXCEPT ![c].phase = "failed"]
             /\ UNCHANGED <<pendingRequests, socket>>
    <3>1. call' \in [Call -> CallRecord]
      BY <1>0, <2>4 DEF CallRecord
    <3>2. Numbered' = Numbered \cup {c}
      BY <1>0, <2>4 DEF Numbered, CallRecord
    <3>3. idCounter' \in 1..(Calls + 1) /\ idCounter' <= Cardinality(Numbered') + 1
      <4>1. CASE idCounter' = idCounter
        BY <3>2, <4>1, NumberedGrows DEF TypeOK
      <4>2. CASE idCounter' = idCounter + 1
        BY <2>1, <3>2, <4>2, NumberTaken, RpcClientAssumption DEF Id
      <4>3. QED
        BY <2>4, <4>1, <4>2
    <3>4. QED
      BY <1>4, <2>2, <2>4, <3>1, <3>3 DEF TypeOK, Counted, Resume, CallRecord
  <2>5. QED
    BY <1>4, <2>3, <2>4 DEF Resume
<1>5. ASSUME NEW s \in Socket, Opens(s)
      PROVE  TypeOK' /\ Counted'
  <2>0. \A r \in SocketRecord : \A l \in {"all", r.listeners} :
          [r EXCEPT !.state = "open", !.timer = FALSE, !.listeners = l] \in SocketRecord
    BY DEF SocketRecord
  <2>1. socket' \in [Socket -> SocketRecord]
    <3>1. \E l \in {"all", socket[s].listeners} :
            socket' = [socket EXCEPT ![s] = [socket[s] EXCEPT
              !.state = "open", !.timer = FALSE, !.listeners = l]]
      BY <1>0, <1>5 DEF Opens
    <3>2. PICK l \in {"all", socket[s].listeners} :
            socket' = [socket EXCEPT ![s] = [socket[s] EXCEPT
              !.state = "open", !.timer = FALSE, !.listeners = l]]
      BY <3>1
    <3>3. socket[s] \in SocketRecord
      BY <1>0
    <3>4. [socket[s] EXCEPT !.state = "open", !.timer = FALSE, !.listeners = l] \in SocketRecord
      BY <2>0, <3>3
    <3>5. QED
      BY <1>0, <3>2, <3>4
  <2>2. \A c \in Call : connect'[c] \in {connect[c], [connect[c] EXCEPT !.phase = "opened"]}
    BY <1>5 DEF Opens
  <2>3. \A c \in Call : connect'[c] \in ConnectRecord /\ connect'[c].tries = connect[c].tries
    BY <1>0, <2>2 DEF ConnectRecord
  <2>4. connect' \in [Call -> ConnectRecord]
    BY <1>5, <2>3 DEF Opens
  <2>5. isConnecting' \in BOOLEAN
    BY <1>5 DEF Opens, TypeOK
  <2>6. made' = Cardinality(Attempted')
    BY <1>5, <2>3, AttemptedSame DEF Opens
  <2>7. Numbered' = Numbered
    BY <1>5 DEF Opens, Numbered
  <2>8. QED
    BY <1>5, <2>1, <2>4, <2>5, <2>6, <2>7
       DEF TypeOK, Counted, Opens, SocketRecord, ConnectRecord
<1>6. ASSUME NEW s \in Socket, Errs(s) \/ AttemptTimeout(s)
      PROVE  TypeOK' /\ Counted'
  <2>1. RejectAttempt(s)
    BY <1>6 DEF Errs, AttemptTimeout
  <2>2. \A t \in Socket : socket[t] \in SocketRecord
    BY <1>0
  <2>3. \A r \in SocketRecord : /\ [r EXCEPT !.state = "closed", !.timer = FALSE] \in SocketRecord
                                /\ [r EXCEPT !.timer = @ /\ FALSE] \in SocketRecord
                                /\ [r EXCEPT !.timer = @ /\ TRUE] \in SocketRecord
                                /\ GivenUp(r) \in SocketRecord
    BY DEF SocketRecord, GivenUp
  <2>4. ASSUME Errs(s)
        PROVE  socket' \in [Socket -> SocketRecord]
    BY <1>0, <2>2, <2>3, <2>4 DEF Errs
  <2>5. ASSUME AttemptTimeout(s)
        PROVE  socket' \in [Socket -> SocketRecord]
    <3>1. \A t \in Socket : [socket[t] EXCEPT !.timer = @ /\ t # s] \in SocketRecord
      BY <2>2 DEF SocketRecord
    <3>2. \A t \in Socket : socket'[t] \in SocketRecord
      BY <2>3, <2>5, <3>1 DEF AttemptTimeout
    <3>3. QED
      BY <2>5, <3>2 DEF AttemptTimeout
  <2>6. socket' \in [Socket -> SocketRecord]
    BY <1>6, <2>4, <2>5
  <2>7. /\ connect' \in [Call -> ConnectRecord] /\ isConnecting' \in BOOLEAN
        /\ connectionPromise' \in Call \cup {None}
        /\ \A c \in Call : connect'[c].tries = connect[c].tries
    BY <2>1, RejectTypes
  <2>8. UNCHANGED <<ws, idCounter, pendingRequests, made, call, disconnected>>
    BY <1>6 DEF Errs, AttemptTimeout
  <2>9. made' = Cardinality(Attempted')
    BY <2>7, <2>8, AttemptedSame
  <2>10. Numbered' = Numbered
    BY <2>8 DEF Numbered
  <2>11. QED
    BY <2>6, <2>7, <2>8, <2>9, <2>10 DEF TypeOK, Counted, SocketRecord, ConnectRecord
<1>7. ASSUME NEW s \in Socket, PeerCloses(s)
      PROVE  TypeOK' /\ Counted'
  <2>1. socket' \in [Socket -> SocketRecord]
    BY <1>0, <1>7 DEF PeerCloses, SocketRecord
  <2>2. Numbered' = Numbered /\ Attempted' = Attempted
    BY <1>7 DEF PeerCloses, Numbered, Attempted
  <2>3. QED
    BY <1>7, <2>1, <2>2 DEF TypeOK, Counted, PeerCloses, SocketRecord, client
<1>8. ASSUME NEW s \in Socket, Closes(s)
      PROVE  TypeOK' /\ Counted'
  <2>0. \A r \in SocketRecord : [r EXCEPT !.state = "closed", !.unanswered = {}] \in SocketRecord
    BY DEF SocketRecord
  <2>1. socket' \in [Socket -> SocketRecord]
    BY <1>0, <1>8, <2>0 DEF Closes
  <2>2. call' \in [Call -> CallRecord] /\ Numbered \subseteq Numbered'
    <3>1. \A c \in Call : [call[c] EXCEPT !.phase = "failed"] \in CallRecord
      BY <1>0 DEF CallRecord
    <3>2. CASE call' = RejectedByClose
      <4>1. \A c \in Call : call'[c] \in {call[c], [call[c] EXCEPT !.phase = "failed"]}
        BY <3>2 DEF RejectedByClose
      <4>2. call' \in [Call -> CallRecord]
        BY <1>0, <3>1, <3>2, <4>1 DEF RejectedByClose
      <4>3. Numbered \subseteq Numbered'
        BY <1>0, <4>1 DEF Numbered, CallRecord
      <4>4. QED
        BY <4>2, <4>3
    <3>3. CASE call' = call
      BY <1>0, <3>3 DEF Numbered
    <3>4. QED
      BY <1>8, <3>2, <3>3 DEF Closes
  <2>3. /\ pendingRequests' \subseteq Id \X Call /\ idCounter' \in {1, idCounter}
        /\ isConnecting' \in BOOLEAN /\ connectionPromise' \in Call \cup {None}
    BY <1>8 DEF Closes, TypeOK, PendingAfterClose
  <2>4. idCounter' <= Cardinality(Numbered') + 1
    BY <2>2, <2>3, NumberedGrows
  <2>5. Attempted' = Attempted
    BY <1>8 DEF Closes, Attempted
  <2>6. idCounter' \in 1..(Calls + 1)
    BY <2>3, RpcClientAssumption DEF TypeOK
  <2>7. QED
    BY <1>8, <2>1, <2>2, <2>3, <2>4, <2>5, <2>6
       DEF TypeOK, Counted, Closes, SocketRecord, CallRecord
<1>9. ASSUME NEW s \in Socket, Answers(s)
      PROVE  TypeOK' /\ Counted'
  <2>1. PICK q \in socket[s].unanswered :
          LET to == IF socket[s].listeners = "all"
                      THEN {r \in pendingRequests : r[1] = q[1]} ELSE {}
          IN  /\ socket' = [socket EXCEPT ![s].unanswered = @ \ {q}]
              /\ pendingRequests' = pendingRequests \ to
              /\ call' = [c \in Call |-> IF \E r \in to : r[2] = c
                   THEN [call[c] EXCEPT !.phase = "answered", !.got = q[2]]
                   ELSE call[c]]
    BY <1>9 DEF Answers
  <2>2. q \in Id \X Call
    BY <1>0 DEF SocketRecord
  <2>3. socket' \in [Socket -> SocketRecord]
    BY <1>0, <2>1, ZenonT(30) DEF SocketRecord
  <2>4. \A c \in Call : /\ call'[c] \in CallRecord
                        /\ call[c].phase \notin {"none", "waiting"}
                             => call'[c].phase \notin {"none", "waiting"}
    BY <1>0, <2>1, <2>2 DEF CallRecord
  <2>5. call' \in [Call -> CallRecord] /\ Numbered \subseteq Numbered'
    BY <2>1, <2>4 DEF Numbered
  <2>6. idCounter' <= Cardinality(Numbered') + 1 /\ Attempted' = Attempted
    BY <1>9, <2>5, NumberedGrows DEF Answers, Attempted
  <2>7. pendingRequests' \subseteq Id \X Call
    BY <2>1 DEF TypeOK
  <2>8. QED
    BY <1>9, <2>3, <2>5, <2>6, <2>7 DEF TypeOK, Counted, Answers, SocketRecord, CallRecord
<1>10. ASSUME NEW c \in Call, Retry(c)
       PROVE  TypeOK' /\ Counted'
  <2>1. connect[c].tries + 1 \in 1..Retries
    BY <1>0, <1>10, RpcClientAssumption DEF Retry, InOrder, ConnectRecord
  <2>2. /\ ws' \in Socket /\ made' \in Socket
        /\ socket' \in [Socket -> SocketRecord] /\ connect' \in [Call -> ConnectRecord]
    BY <1>10, <2>1, AttemptTypes DEF Retry
  <2>3. made' = Cardinality(Attempted')
    BY <1>10, <2>1, AttemptCounted DEF Retry
  <2>4. Numbered' = Numbered
    BY <1>10 DEF Retry, Numbered
  <2>5. QED
    BY <1>10, <2>2, <2>3, <2>4 DEF TypeOK, Counted, Retry, SocketRecord, ConnectRecord
<1>11. ASSUME NEW c \in Call, RequestTimeout(c)
       PROVE  TypeOK' /\ Counted'
  <2>1. call' \in [Call -> CallRecord] /\ Numbered \subseteq Numbered'
    BY <1>0, <1>11 DEF RequestTimeout, CallRecord, Numbered
  <2>2. idCounter' <= Cardinality(Numbered') + 1 /\ Attempted' = Attempted
    BY <1>11, <2>1, NumberedGrows DEF RequestTimeout, Attempted
  <2>3. QED
    BY <1>11, <2>1, <2>2 DEF TypeOK, Counted, RequestTimeout, CallRecord
<1>12. CASE Disconnect
  <2>1. \A r \in SocketRecord : GivenUp(r) \in SocketRecord
    BY DEF SocketRecord, GivenUp
  <2>2. socket' \in [Socket -> SocketRecord]
    BY <1>0, <1>12, <2>1 DEF Disconnect
  <2>3. Numbered' = Numbered /\ Attempted' = Attempted
    BY <1>12 DEF Disconnect, Numbered, Attempted
  <2>4. QED
    BY <1>12, <2>2, <2>3 DEF TypeOK, Counted, Disconnect, SocketRecord
<1>13. CASE UNCHANGED vars
  BY <1>13 DEF vars, client, TypeOK, Counted, Numbered, Attempted
<1>14. QED
  BY <1>1, <1>2, <1>3, <1>4, <1>5, <1>6, <1>7, <1>8, <1>9, <1>10, <1>11, <1>12, <1>13
     DEF Next, Continuation, Timer
-----------------------------------------------------------------------------
(* The order of a call's phases, and the numbers.                          *)

\* A rejected attempt sleeps only when it has another to make.
LEMMA Rejected ==
  ASSUME TypeOK, NEW s \in Socket, RejectAttempt(s), NEW c \in Call
  PROVE  \/ connect'[c] = connect[c]
         \/ /\ connect[c].phase = "attempting" /\ connect[c].on = s
            /\ \/ connect'[c] = [connect[c] EXCEPT !.phase = "failed"]
               \/ connect'[c] = [connect[c] EXCEPT !.phase = "sleeping"] /\ connect[c].tries < Retries
<1>1. connect[c].tries \in 0..Retries
  BY DEF TypeOK
<1>2. QED
  BY <1>1, RpcClientAssumption DEF RejectAttempt, IsLast

\* A call's phases change only as the events that touch it say.
LEMMA OrderStep ==
  ASSUME TypeOK, InOrder, [Next]_vars
  PROVE  InOrder'
<1> SUFFICES ASSUME NEW d \in Call
             PROVE  /\ call'[d].phase = "none" => connect'[d] = NoConnect
                    /\ call'[d].phase = "waiting" => call'[d].awaits \in Call
                    /\ connect'[d].phase = "sleeping" => connect'[d].tries < Retries
  BY DEF InOrder
<1>0. /\ connect[d] \in ConnectRecord /\ call[d] \in CallRecord
      /\ connect \in [Call -> ConnectRecord] /\ call \in [Call -> CallRecord]
      /\ call[d].phase = "none" => connect[d] = NoConnect
      /\ call[d].phase = "waiting" => call[d].awaits \in Call
      /\ connect[d].phase = "sleeping" => connect[d].tries < Retries
  BY Types DEF InOrder
<1>1. ASSUME NEW c \in Call, CallNow(c)
      PROVE  connect' = connect /\ call'[d] \in {call[d], [call[d] EXCEPT !.phase = "pending"]}
  BY <1>0, <1>1 DEF CallNow, Send
<1>2. ASSUME NEW c \in Call, CallJoins(c)
      PROVE  /\ connect' = connect
             /\ \/ call'[d] = call[d]
                \/ call'[d].phase = "waiting" /\ call'[d].awaits \in Call
  <2>1. connectionPromise \in Call
    BY <1>2 DEF CallJoins, TypeOK
  <2>2. /\ connect' = connect
        /\ call' = [call EXCEPT ![c].phase = "waiting", ![c].awaits = connectionPromise]
    BY <1>2 DEF CallJoins
  <2>3. CASE d = c
    BY <1>0, <2>1, <2>2, <2>3 DEF CallRecord
  <2>4. CASE d # c
    <3>1. call'[d] = call[d]
      BY <1>0, <2>2, <2>4
    <3>2. QED
      BY <2>2, <3>1
  <2>5. QED
    BY <2>2, <2>3, <2>4
<1>3. ASSUME NEW c \in Call, CallConnects(c)
      PROVE  \/ connect'[d] = connect[d] /\ call'[d] = call[d]
             \/ /\ connect'[d].phase = "attempting"
                /\ call'[d].phase = "waiting" /\ call'[d].awaits \in Call
  BY <1>0, <1>3 DEF CallConnects, Attempt, ConnectRecord, CallRecord
<1>4. ASSUME NEW c \in Call, Resume(c)
      PROVE  /\ connect' = connect
             /\ call'[d] \in {call[d], [call[d] EXCEPT !.phase = "pending"],
                              [call[d] EXCEPT !.phase = "failed"]}
  BY <1>0, <1>4 DEF Resume, Send
<1>5. ASSUME NEW s \in Socket, Opens(s)
      PROVE  /\ call' = call
             /\ \/ connect'[d] = connect[d]
                \/ connect[d].phase = "attempting" /\ connect'[d] = [connect[d] EXCEPT !.phase = "opened"]
  BY <1>5 DEF Opens
<1>6. ASSUME NEW s \in Socket, Errs(s) \/ AttemptTimeout(s)
      PROVE  /\ call' = call
             /\ \/ connect'[d] = connect[d]
                \/ /\ connect[d].phase = "attempting"
                   /\ connect'[d].phase = "sleeping" => connect'[d].tries < Retries
  <2>1. RejectAttempt(s) /\ call' = call
    BY <1>6 DEF Errs, AttemptTimeout
  <2>2. QED
    BY <1>0, <2>1, Rejected, ZenonT(30) DEF ConnectRecord
<1>7. ASSUME NEW s \in Socket, PeerCloses(s) \/ Closes(s) \/ Answers(s)
      PROVE  connect' = connect /\ (call'[d] = call[d] \/ call'[d].phase \in {"failed", "answered"})
  <2>1. ASSUME PeerCloses(s)
        PROVE  connect' = connect /\ call' = call
    BY <2>1 DEF PeerCloses
  <2>2. ASSUME Closes(s)
        PROVE  connect' = connect /\ (call'[d] = call[d] \/ call'[d].phase = "failed")
    BY <1>0, <2>2 DEF Closes, RejectedByClose, CallRecord
  <2>3. ASSUME Answers(s)
        PROVE  connect' = connect /\ (call'[d] = call[d] \/ call'[d].phase = "answered")
    <3>1. connect' = connect
      BY <2>3 DEF Answers
    <3>2. \E n : call'[d] = call[d] \/ call'[d] = [call[d] EXCEPT !.phase = "answered", !.got = n]
      BY <2>3 DEF Answers
    <3>3. QED
      BY <1>0, <3>1, <3>2 DEF CallRecord
  <2>4. QED
    BY <1>7, <2>1, <2>2, <2>3
<1>8. ASSUME NEW c \in Call, Retry(c)
      PROVE  /\ call' = call
             /\ \/ connect'[d] = connect[d]
                \/ connect[d].phase = "sleeping" /\ connect'[d].phase = "attempting"
  BY <1>0, <1>8 DEF Retry, Attempt
<1>9. ASSUME NEW c \in Call, RequestTimeout(c)
      PROVE  connect' = connect /\ call'[d] \in {call[d], [call[d] EXCEPT !.phase = "failed"]}
  BY <1>0, <1>9 DEF RequestTimeout
<1>10. CASE Disconnect \/ UNCHANGED vars
  BY <1>0, <1>10 DEF Disconnect, vars
<1>11. QED
  BY <1>0, <1>1, <1>2, <1>3, <1>4, <1>5, <1>6, <1>7, <1>8, <1>9, <1>10
     DEF Next, Continuation, Timer, NoConnect, ConnectRecord, CallRecord

\* The counter goes down only where the map is emptied.
LEMMA NumbersStep ==
  ASSUME TypeOK, NumbersFresh, [Next]_vars
  PROVE  NumbersFresh'
<1>0. idCounter \in Nat /\ \A r \in pendingRequests : r[1] \in Nat
  BY RpcClientAssumption DEF TypeOK, Id
<1>1. ASSUME pendingRequests' \subseteq pendingRequests, idCounter' \in {idCounter, idCounter + 1}
      PROVE  NumbersFresh'
  BY <1>0, <1>1 DEF NumbersFresh
<1>2. ASSUME NEW c \in Call, Send(c)
      PROVE  NumbersFresh'
  BY <1>0, <1>2 DEF NumbersFresh, Send, NextNumber
<1>3. ASSUME NEW c \in Call, CallNow(c) \/ Resume(c)
      PROVE  NumbersFresh'
  BY <1>1, <1>2, <1>3 DEF CallNow, Resume
<1>4. ASSUME NEW c \in Call, CallJoins(c) \/ CallConnects(c) \/ Retry(c) \/ RequestTimeout(c)
      PROVE  NumbersFresh'
  BY <1>1, <1>4 DEF CallJoins, CallConnects, Retry, RequestTimeout, client
<1>5. ASSUME NEW s \in Socket, Closes(s)
      PROVE  NumbersFresh'
  <2>1. CASE socket[s].listeners = "all"
    BY <1>5, <2>1 DEF Closes, NumbersFresh, PendingAfterClose
  <2>2. CASE socket[s].listeners # "all"
    BY <1>1, <1>5, <2>2 DEF Closes
  <2>3. QED
    BY <2>1, <2>2
<1>6. ASSUME NEW s \in Socket,
             Opens(s) \/ Errs(s) \/ PeerCloses(s) \/ Answers(s) \/ AttemptTimeout(s)
      PROVE  NumbersFresh'
  <2>1. pendingRequests' \subseteq pendingRequests /\ idCounter' = idCounter
    BY <1>6 DEF Opens, Errs, PeerCloses, Answers, AttemptTimeout, client
  <2>2. QED
    BY <1>1, <2>1
<1>7. CASE Disconnect \/ UNCHANGED vars
  BY <1>1, <1>7 DEF Disconnect, vars, client
<1>8. QED
  BY <1>3, <1>4, <1>5, <1>6, <1>7 DEF Next, Continuation, Timer
-----------------------------------------------------------------------------
(* The socket in use.                                                      *)

LEMMA OnlyInUseStep ==
  ASSUME TypeOK, OnlyInUse, [Next]_vars
  PROVE  OnlyInUse'
<1> SUFFICES ASSUME ~disconnected', NEW t \in Socket
             PROVE  /\ socket'[t].state \notin {"none", "closed"} \/ socket'[t].listeners = "all"
                          \/ socket'[t].unanswered # {} => t = ws'
                    /\ \A q \in socket'[t].unanswered :
                         /\ q[1] < idCounter'
                         /\ \A r \in pendingRequests' : r[1] = q[1] => r = q
  BY DEF OnlyInUse
<1> DEFINE Heard ==
      /\ socket'[t].state \notin {"none", "closed"} \/ socket'[t].listeners = "all"
            \/ socket'[t].unanswered # {} => t = ws'
      /\ \A q \in socket'[t].unanswered :
           /\ q[1] < idCounter'
           /\ \A r \in pendingRequests' : r[1] = q[1] => r = q
<1>0. /\ socket \in [Socket -> SocketRecord] /\ socket[t] \in SocketRecord
      /\ idCounter \in Nat /\ \A s \in Socket, q \in Id \X Call : q[1] \in Nat
      /\ \A q \in socket[t].unanswered : q \in Id \X Call
  BY Types, RpcClientAssumption DEF SocketRecord, Id
<1>a. ~disconnected
  BY DEF Next, Continuation, Timer, vars, CallNow, CallJoins, CallConnects, Resume, Opens, Errs,
         PeerCloses, Closes, Answers, AttemptTimeout, Retry, RequestTimeout, Disconnect
<1>b. /\ socket[t].state \notin {"none", "closed"} \/ socket[t].listeners = "all"
            \/ socket[t].unanswered # {} => t = ws
      /\ \A q \in socket[t].unanswered :
           /\ q[1] < idCounter
           /\ \A r \in pendingRequests : r[1] = q[1] => r = q
  BY <1>a DEF OnlyInUse
<1>c. \A s \in Socket : socket[s].state \notin {"none", "closed"} => s = ws
  BY <1>a DEF OnlyInUse
<1>1. ASSUME NEW c \in Call, CallNow(c) \/ (Resume(c) /\ IsOpen /\ Send(c))
      PROVE  Heard
  <2>1. Send(c) /\ ws' = ws /\ ws \in Socket
    BY <1>1 DEF CallNow, Resume, IsOpen, TypeOK
  <2>2. socket'[t] = IF t = ws
          THEN [socket[t] EXCEPT !.unanswered = @ \cup {<<idCounter, c>>}] ELSE socket[t]
    BY <1>0, <2>1 DEF Send, NextNumber
  <2>3. /\ socket'[t].state = socket[t].state /\ socket'[t].listeners = socket[t].listeners
        /\ socket'[t].unanswered \subseteq socket[t].unanswered \cup {<<idCounter, c>>}
        /\ t # ws => socket'[t] = socket[t]
    BY <1>0, <2>2 DEF SocketRecord
  <2>4. /\ idCounter' = idCounter + 1
        /\ pendingRequests' = {r \in pendingRequests : r[1] # idCounter} \cup {<<idCounter, c>>}
    BY <2>1 DEF Send, NextNumber
  <2>5. \A q \in socket[t].unanswered : q[1] < idCounter /\ q[1] \in Nat
    BY <1>0, <1>b
  <2>6. QED
    BY <1>0, <1>b, <2>1, <2>3, <2>4, <2>5
<1>2. ASSUME NEW c \in Call, NEW tries, Attempt(c, tries), UNCHANGED <<idCounter, pendingRequests>>
      PROVE  Heard
  <2>1. CASE t = made + 1
    BY <1>2, <2>1 DEF Attempt
  <2>2. CASE t # made + 1 /\ t = ws
    BY <1>0, <1>2, <2>2 DEF Attempt, Discarded, SocketRecord
  <2>3. CASE t # made + 1 /\ t # ws
    BY <1>2, <1>b, <2>3 DEF Attempt
  <2>4. QED
    BY <2>1, <2>2, <2>3
<1>3. ASSUME ws' = ws,
             \/ t = ws
             \/ socket'[t].state = socket[t].state /\ socket'[t].listeners = socket[t].listeners,
             socket'[t].unanswered \subseteq socket[t].unanswered,
             pendingRequests' \subseteq pendingRequests, idCounter' \in {idCounter, idCounter + 1}
      PROVE  Heard
  BY <1>0, <1>3, <1>b
<1>4. ASSUME NEW c \in Call, CallJoins(c) \/ RequestTimeout(c) \/ (Resume(c) /\ ~(IsOpen /\ Send(c)))
      PROVE  /\ socket' = socket /\ ws' = ws /\ pendingRequests' \subseteq pendingRequests
             /\ idCounter' \in {idCounter, idCounter + 1}
  BY <1>4 DEF CallJoins, RequestTimeout, Resume, client
<1>5. ASSUME NEW s \in Socket, Opens(s)
      PROVE  /\ ws' = ws /\ pendingRequests' = pendingRequests /\ idCounter' = idCounter
             /\ socket'[t].unanswered = socket[t].unanswered
             /\ t # ws => socket'[t] = socket[t]
  <2>1. s = ws
    BY <1>5, <1>c DEF Opens
  <2>2. QED
    BY <1>0, <1>5, <2>1 DEF Opens, SocketRecord
<1>6. ASSUME NEW s \in Socket, Errs(s) \/ PeerCloses(s)
      PROVE  /\ ws' = ws /\ pendingRequests' = pendingRequests /\ idCounter' = idCounter
             /\ socket'[t].unanswered = socket[t].unanswered
             /\ t # ws => socket'[t] = socket[t]
  <2>1. s = ws
    BY <1>6, <1>c DEF Errs, PeerCloses
  <2>2. CASE Errs(s)
    BY <1>0, <2>1, <2>2 DEF Errs, SocketRecord
  <2>3. CASE PeerCloses(s)
    BY <1>0, <2>1, <2>3 DEF PeerCloses, SocketRecord, client
  <2>4. QED
    BY <1>6, <2>2, <2>3
<1>7. ASSUME NEW s \in Socket, Closes(s)
      PROVE  ws' = ws /\ (t # ws => socket'[t] = socket[t]) /\ socket'[ws].unanswered = {}
             /\ ws \in Socket
  <2>1. s = ws
    BY <1>7, <1>c DEF Closes
  <2>2. QED
    BY <1>0, <1>7, <2>1, Types DEF Closes, SocketRecord
<1>8. ASSUME NEW s \in Socket, Answers(s)
      PROVE  /\ ws' = ws /\ pendingRequests' \subseteq pendingRequests /\ idCounter' = idCounter
             /\ socket'[t].unanswered \subseteq socket[t].unanswered
             /\ socket'[t].state = socket[t].state /\ socket'[t].listeners = socket[t].listeners
  <2>1. PICK q \in socket[s].unanswered : socket' = [socket EXCEPT ![s].unanswered = @ \ {q}]
    BY <1>8 DEF Answers
  <2>2. ws' = ws /\ pendingRequests' \subseteq pendingRequests /\ idCounter' = idCounter
    BY <1>8 DEF Answers
  <2>3. QED
    BY <1>0, <2>1, <2>2 DEF SocketRecord
<1>9. ASSUME NEW s \in Socket, AttemptTimeout(s)
      PROVE  /\ ws' = ws /\ pendingRequests' = pendingRequests /\ idCounter' = idCounter
             /\ socket'[t].unanswered = socket[t].unanswered
             /\ socket'[t].listeners = socket[t].listeners
             /\ t # ws => socket'[t].state = socket[t].state
  BY <1>0, <1>9 DEF AttemptTimeout, GivenUp, SocketRecord
<1>10. CASE UNCHANGED vars
  BY <1>10, <1>b DEF vars, client
<1>11. ASSUME NEW c \in Call, CallNow(c) \/ CallJoins(c) \/ Resume(c) \/ RequestTimeout(c)
       PROVE  Heard
  <2>1. CASE CallNow(c) \/ (Resume(c) /\ IsOpen /\ Send(c))
    BY <1>1, <2>1
  <2>2. CASE CallJoins(c) \/ RequestTimeout(c) \/ (Resume(c) /\ ~(IsOpen /\ Send(c)))
    BY <1>3, <1>4, <2>2
  <2>3. QED
    BY <1>11, <2>1, <2>2
<1>12. ASSUME NEW c \in Call, CallConnects(c) \/ Retry(c)
       PROVE  Heard
  <2>1. UNCHANGED <<idCounter, pendingRequests>> /\ \E tries : Attempt(c, tries)
    BY <1>12 DEF CallConnects, Retry
  <2>2. QED
    BY <1>2, <2>1
<1>13. ASSUME NEW s \in Socket, Opens(s) \/ Errs(s) \/ PeerCloses(s)
       PROVE  Heard
  <2>1. /\ ws' = ws /\ pendingRequests' = pendingRequests /\ idCounter' = idCounter
        /\ socket'[t].unanswered = socket[t].unanswered
        /\ t # ws => socket'[t] = socket[t]
    BY <1>5, <1>6, <1>13
  <2>2. QED
    BY <1>3, <2>1
<1>14. ASSUME NEW s \in Socket, Answers(s) \/ AttemptTimeout(s)
       PROVE  Heard
  <2>1. CASE Answers(s)
    BY <1>3, <1>8, <2>1
  <2>2. CASE AttemptTimeout(s)
    BY <1>3, <1>9, <2>2
  <2>3. QED
    BY <1>14, <2>1, <2>2
<1>15. ASSUME NEW s \in Socket, Closes(s)
       PROVE  Heard
  <2>1. CASE t = ws
    BY <1>7, <1>15, <2>1
  <2>2. CASE t # ws
    BY <1>7, <1>15, <1>b, <2>2
  <2>3. QED
    BY <2>1, <2>2
<1>16. QED
  BY <1>10, <1>11, <1>12, <1>13, <1>14, <1>15 DEF Next, Continuation, Timer, Disconnect
-----------------------------------------------------------------------------
(* The answers, and the connects.                                          *)

LEMMA StaysConnected ==
  ASSUME [Next]_vars, ~disconnected'
  PROVE  ~disconnected /\ ~Disconnect
<1>1. ~Disconnect
  BY DEF Disconnect
<1>2. disconnected' = disconnected
  BY <1>1 DEF Next, Continuation, Timer, vars, CallNow, CallJoins, CallConnects, Resume, Opens, Errs,
              PeerCloses, Closes, Answers, AttemptTimeout, Retry, RequestTimeout
<1>3. QED
  BY <1>1, <1>2

\* An answer that is heard has come from the socket in use, and under its number
\* the call that sent the request is the only one that can be pending.
LEMMA AnswersStep ==
  ASSUME TypeOK, OnlyInUse, AnswersMatch, [Next]_vars
  PROVE  AnswersMatch'
<1> SUFFICES ASSUME ~disconnected', NEW d \in Call
             PROVE  call'[d].got \in {None, d}
  BY DEF AnswersMatch
<1>0. /\ ~disconnected /\ ~Disconnect /\ call[d].got \in {None, d}
      /\ call \in [Call -> CallRecord] /\ call[d] \in CallRecord
  BY StaysConnected, Types DEF AnswersMatch
<1>1. ASSUME NEW c \in Call, CallNow(c) \/ CallJoins(c) \/ CallConnects(c) \/ Resume(c)
                                        \/ Retry(c) \/ RequestTimeout(c)
      PROVE  call'[d].got = call[d].got
  <2>1. \/ call' = call
        \/ \E p : call' = [call EXCEPT ![c].phase = p]
        \/ \E p, a : call' = [call EXCEPT ![c].phase = p, ![c].awaits = a]
    BY <1>1 DEF CallNow, CallJoins, CallConnects, Resume, Retry, RequestTimeout, Send
  <2>2. \A p, a : /\ [call EXCEPT ![c].phase = p][d].got = call[d].got
                  /\ [call EXCEPT ![c].phase = p, ![c].awaits = a][d].got = call[d].got
    BY <1>0 DEF CallRecord
  <2>3. CASE \E p : call' = [call EXCEPT ![c].phase = p]
    <3>1. PICK p : call' = [call EXCEPT ![c].phase = p]
      BY <2>3
    <3>2. QED
      BY <2>2, <3>1
  <2>4. CASE \E p, a : call' = [call EXCEPT ![c].phase = p, ![c].awaits = a]
    <3>1. PICK p, a : call' = [call EXCEPT ![c].phase = p, ![c].awaits = a]
      BY <2>4
    <3>2. QED
      BY <2>2, <3>1
  <2>5. QED
    BY <2>1, <2>3, <2>4
<1>2. ASSUME NEW s \in Socket, Opens(s) \/ Errs(s) \/ PeerCloses(s) \/ AttemptTimeout(s)
      PROVE  call'[d].got = call[d].got
  BY <1>2 DEF Opens, Errs, PeerCloses, AttemptTimeout
<1>3. ASSUME NEW s \in Socket, Closes(s)
      PROVE  call'[d].got = call[d].got
  BY <1>0, <1>3 DEF Closes, RejectedByClose, CallRecord
<1>4. ASSUME NEW s \in Socket, Answers(s)
      PROVE  call'[d].got \in {None, d}
  <2>1. PICK q \in socket[s].unanswered :
          LET to == IF socket[s].listeners = "all"
                      THEN {r \in pendingRequests : r[1] = q[1]} ELSE {}
          IN  call' = [c \in Call |-> IF \E r \in to : r[2] = c
                THEN [call[c] EXCEPT !.phase = "answered", !.got = q[2]]
                ELSE call[c]]
    BY <1>4 DEF Answers
  <2>2. \A r \in pendingRequests : r[1] = q[1] => r = q
    BY <1>0 DEF OnlyInUse
  <2>3. CASE call'[d] = call[d]
    BY <1>0, <2>3
  <2>4. CASE call'[d] # call[d]
    <3>1. \E r \in pendingRequests : r[1] = q[1] /\ r[2] = d
      BY <2>1, <2>4
    <3>2. q[2] = d
      BY <2>2, <3>1
    <3>3. QED
      BY <1>0, <2>1, <2>4, <3>2 DEF CallRecord
  <2>5. QED
    BY <2>3, <2>4
<1>5. CASE UNCHANGED vars
  BY <1>0, <1>5 DEF vars
<1>6. QED
  BY <1>0, <1>1, <1>2, <1>3, <1>4, <1>5 DEF Next, Continuation, Timer

\* At most one connect is under way.
LEMMA OnlyOne ==
  ASSUME OneUnderWay, ~disconnected, NEW c \in Call, NEW d \in Call, UnderWay(c), UnderWay(d)
  PROVE  c = d
BY DEF OneUnderWay

\* A rejected attempt that has not been the last leaves the connect under way.
LEMMA RejectedUnderWay ==
  ASSUME TypeOK, OneUnderWay, ~disconnected, NEW s \in Socket, RejectAttempt(s),
         NEW d \in Call, UnderWay(d)'
  PROVE  /\ UnderWay(d) /\ isConnecting' = isConnecting /\ connectionPromise' = connectionPromise
         /\ connect'[d].on = connect[d].on
<1>1. connect[d] \in ConnectRecord
  BY Types
<1>2. UnderWay(d) /\ connect'[d].on = connect[d].on /\ connect'[d].phase # "failed"
  BY <1>1, Rejected DEF UnderWay, ConnectRecord
<1>3. \A c \in Call : connect[c].phase = "attempting" => c = d
  BY <1>2, OnlyOne DEF UnderWay
<1>4. \A c \in Call : connect[c].phase = "attempting" /\ connect[c].on = s => ~IsLast(c)
  BY <1>1, <1>2, <1>3 DEF RejectAttempt, ConnectRecord
<1>5. {c \in {f \in Call : connect[f].phase = "attempting" /\ connect[f].on = s} : IsLast(c)} = {}
  BY <1>4
<1>6. isConnecting \in BOOLEAN
  BY DEF TypeOK
<1>7. QED
  BY <1>2, <1>5, <1>6 DEF RejectAttempt

LEMMA OneUnderWayStep ==
  ASSUME TypeOK, Counted, InOrder, OnlyInUse, OneUnderWay, [Next]_vars
  PROVE  OneUnderWay'
<1> SUFFICES ASSUME ~disconnected', NEW d \in Call, UnderWay(d)'
             PROVE  /\ isConnecting' /\ connectionPromise' = d
                    /\ connect'[d].on = ws' /\ ws' # None
                    /\ socket'[ws'].listeners = "attempt"
                    /\ connect'[d].phase = "sleeping" => socket'[ws'].state # "connecting"
  BY DEF OneUnderWay
<1> DEFINE Held == /\ isConnecting' /\ connectionPromise' = d
                   /\ connect'[d].on = ws' /\ ws' # None
                   /\ socket'[ws'].listeners = "attempt"
                   /\ connect'[d].phase = "sleeping" => socket'[ws'].state # "connecting"
<1>0. /\ ~disconnected /\ ~Disconnect
      /\ socket \in [Socket -> SocketRecord] /\ connect \in [Call -> ConnectRecord]
      /\ connect[d] \in ConnectRecord /\ None \notin Call
  BY StaysConnected, Types, RpcClientAssumption DEF Call
<1>a. UnderWay(d) =>
        /\ isConnecting /\ connectionPromise = d
        /\ connect[d].on = ws /\ ws # None
        /\ socket[ws].listeners = "attempt"
        /\ connect[d].phase = "sleeping" => socket[ws].state # "connecting"
        /\ ws \in Socket /\ socket[ws] \in SocketRecord
  BY <1>0 DEF OneUnderWay, TypeOK, SocketRecord
<1>b. \A s \in Socket : socket[s].state \notin {"none", "closed"} \/ socket[s].listeners = "all"
        => s = ws
  BY <1>0 DEF OnlyInUse
<1>1. ASSUME NEW c \in Call, CallNow(c) \/ CallJoins(c) \/ Resume(c) \/ RequestTimeout(c)
      PROVE  Held
  <2>1. UNCHANGED <<ws, isConnecting, connectionPromise, connect>>
    BY <1>1 DEF CallNow, CallJoins, Resume, RequestTimeout, client
  <2>2. socket' = socket \/ \E n : socket' = [socket EXCEPT ![ws].unanswered = @ \cup {n}]
    BY <1>1 DEF CallNow, CallJoins, Resume, RequestTimeout, Send
  <2>3. UnderWay(d)
    BY <2>1 DEF UnderWay
  <2>4. socket'[ws].state = socket[ws].state /\ socket'[ws].listeners = socket[ws].listeners
    BY <1>0, <1>a, <2>2, <2>3 DEF SocketRecord
  <2>5. QED
    BY <1>a, <2>1, <2>3, <2>4
<1>2. ASSUME NEW c \in Call, CallConnects(c)
      PROVE  Held
  <2>1. ~UnderWay(d)
    BY <1>0, <1>2, <1>a DEF CallConnects
  <2>2. 1 \in 1..Retries /\ 1 = connect[c].tries + 1 /\ Attempt(c, 1)
    BY <1>2, RpcClientAssumption DEF CallConnects, Begins, InOrder, NoConnect
  <2>3. made + 1 \in Socket
    BY <2>2, AttemptCounted
  <2>4. d = c
    BY <1>0, <2>1, <2>2 DEF Attempt, UnderWay
  <2>5. connect'[d] = [phase |-> "attempting", tries |-> 1, on |-> made + 1]
    BY <1>0, <2>2, <2>4 DEF Attempt
  <2>6. ws' = made + 1 /\ socket'[made + 1].listeners = "attempt" /\ made + 1 # None
    BY <2>2, <2>3, RpcClientAssumption DEF Attempt, Socket
  <2>7. isConnecting' /\ connectionPromise' = c
    BY <1>2 DEF CallConnects
  <2>8. QED
    BY <2>4, <2>5, <2>6, <2>7
<1>3. ASSUME NEW s \in Socket, Opens(s)
      PROVE  FALSE
  <2>1. s = ws /\ socket[ws].state = "connecting"
    BY <1>3, <1>b DEF Opens
  <2>2. \/ connect'[d] = connect[d] /\ ~(connect[d].phase = "attempting" /\ connect[d].on = s)
        \/ connect'[d] = [connect[d] EXCEPT !.phase = "opened"]
    BY <1>3 DEF Opens
  <2>3. QED
    BY <1>0, <1>a, <2>1, <2>2 DEF UnderWay, ConnectRecord
<1>4. ASSUME NEW s \in Socket, Errs(s)
      PROVE  Held
  <2>1. s = ws /\ ws' = ws
    BY <1>4, <1>b DEF Errs
  <2>2. /\ UnderWay(d) /\ isConnecting' = isConnecting /\ connectionPromise' = connectionPromise
        /\ connect'[d].on = connect[d].on
    BY <1>0, <1>4, RejectedUnderWay DEF Errs
  <2>3. socket'[ws].state = "closed" /\ socket'[ws].listeners = socket[ws].listeners
    BY <1>0, <1>4, <2>1 DEF Errs, SocketRecord
  <2>4. QED
    BY <1>a, <2>1, <2>2, <2>3
<1>5. ASSUME NEW s \in Socket, AttemptTimeout(s)
      PROVE  Held
  <2>1. ws' = ws
    BY <1>5 DEF AttemptTimeout
  <2>2. /\ UnderWay(d) /\ isConnecting' = isConnecting /\ connectionPromise' = connectionPromise
        /\ connect'[d].on = connect[d].on
    BY <1>0, <1>5, RejectedUnderWay DEF AttemptTimeout
  <2>3. socket'[ws].state # "connecting" /\ socket'[ws].listeners = socket[ws].listeners
    BY <1>a, <1>5, <2>2 DEF AttemptTimeout, GivenUp, SocketRecord
  <2>4. QED
    BY <1>a, <2>1, <2>2, <2>3
<1>6. ASSUME NEW s \in Socket, PeerCloses(s) \/ Answers(s)
      PROVE  Held
  <2>1. UNCHANGED <<ws, isConnecting, connectionPromise, connect>>
    BY <1>6 DEF PeerCloses, Answers, client
  <2>2. \/ socket' = [socket EXCEPT ![s].state = "closing"]
        \/ \E q : socket' = [socket EXCEPT ![s].unanswered = @ \ {q}]
    BY <1>6 DEF PeerCloses, Answers
  <2>3. UnderWay(d)
    BY <2>1 DEF UnderWay
  <2>4. socket'[ws].state \in {socket[ws].state, "closing"}
        /\ socket'[ws].listeners = socket[ws].listeners
    BY <1>0, <1>a, <2>2, <2>3 DEF SocketRecord
  <2>5. QED
    BY <1>a, <2>1, <2>3, <2>4
<1>7. ASSUME NEW s \in Socket, Closes(s)
      PROVE  Held
  <2>1. s = ws /\ ws' = ws /\ connect' = connect
    BY <1>7, <1>b DEF Closes
  <2>2. UnderWay(d)
    BY <2>1 DEF UnderWay
  <2>3. isConnecting' = isConnecting /\ connectionPromise' = connectionPromise
    BY <1>a, <1>7, <2>1, <2>2 DEF Closes
  <2>4. socket'[ws].state = "closed" /\ socket'[ws].listeners = socket[ws].listeners
    BY <1>0, <1>7, <2>1 DEF Closes, SocketRecord
  <2>5. QED
    BY <1>a, <2>1, <2>2, <2>3, <2>4
<1>8. ASSUME NEW c \in Call, Retry(c)
      PROVE  Held
  <2>1. UnderWay(c) /\ connect[c].tries + 1 \in 1..Retries /\ Attempt(c, connect[c].tries + 1)
    BY <1>0, <1>8, RpcClientAssumption DEF Retry, InOrder, UnderWay, ConnectRecord
  <2>2. made + 1 \in Socket
    BY <2>1, AttemptCounted
  <2>3. d = c
    <3>1. ASSUME d # c
          PROVE  UnderWay(d)
      BY <1>0, <2>1, <3>1 DEF Attempt, UnderWay
    <3>2. QED
      BY <1>0, <2>1, <3>1, OnlyOne
  <2>4. connect'[d].phase = "attempting" /\ connect'[d].on = made + 1
    BY <1>0, <2>1, <2>3 DEF Attempt
  <2>5. ws' = made + 1 /\ socket'[made + 1].listeners = "attempt" /\ made + 1 # None
    BY <2>1, <2>2, RpcClientAssumption DEF Attempt, Socket
  <2>6. isConnecting' = isConnecting /\ connectionPromise' = connectionPromise
    BY <1>8 DEF Retry
  <2>7. QED
    BY <1>a, <2>1, <2>3, <2>4, <2>5, <2>6
<1>9. CASE UNCHANGED vars
  BY <1>a, <1>9 DEF vars, client, UnderWay
<1>10. QED
  BY <1>0, <1>1, <1>2, <1>3, <1>4, <1>5, <1>6, <1>7, <1>8, <1>9 DEF Next, Continuation, Timer

-----------------------------------------------------------------------------
(* The theorems.                                                           *)

LEMMA InitIInv == Init => IInv
<1> SUFFICES ASSUME Init
             PROVE  IInv
  OBVIOUS
<1>1. TypeOK
  <2>1. NoSocket \in SocketRecord /\ NoConnect \in ConnectRecord /\ NoCall \in CallRecord
    BY RpcClientAssumption
       DEF NoSocket, NoConnect, NoCall, SocketRecord, ConnectRecord, CallRecord
  <2>2. 1 \in 1..(Calls + 1)
    BY RpcClientAssumption
  <2>3. QED
    BY <2>1, <2>2, Types DEF Init
<1>2. Attempted = {} /\ Numbered = {}
  <2>1. \A a \in Call \X (1..Retries) : ~(a[2] <= connect[a[1]].tries)
    BY RpcClientAssumption DEF Init, NoConnect
  <2>2. QED
    BY <2>1 DEF Attempted, Numbered, Init, NoCall
<1>3. Counted
  BY <1>2, FS_EmptySet DEF Counted, Init
<1>4. InOrder /\ NumbersFresh /\ OnlyInUse /\ AnswersMatch /\ OneUnderWay
  BY DEF Init, InOrder, NumbersFresh, OnlyInUse, AnswersMatch, OneUnderWay, UnderWay,
         NoSocket, NoConnect, NoCall
<1>5. QED
  BY <1>1, <1>3, <1>4 DEF IInv

LEMMA IInvStep == IInv /\ [Next]_vars => IInv'
BY TypeStep, OrderStep, NumbersStep, OnlyInUseStep, AnswersStep, OneUnderWayStep DEF IInv

\* Every step of RpcClient keeps its sockets, numbers and calls matched, until disconnect.
THEOREM Inductive == Spec => []IInv
BY InitIInv, IInvStep, PTL DEF Spec

\* The client's variables, its sockets and its calls keep their types: no number
\* and no socket is taken beyond the bounds, whatever the retries do.
THEOREM TypeCorrect == Spec => []TypeOK
BY Inductive, PTL DEF IInv

\* No pending request holds the number that the next request takes, though the
\* counter goes back to 1 when a socket closes (rpc_client.ts, call and the close
\* listener).
THEOREM NumbersAreFresh == Spec => []NumbersFresh
BY Inductive, PTL DEF IInv

\* Until disconnect, a call is settled by the answer to its own request, whatever
\* sockets were replaced and whatever numbers were used again.
THEOREM AnswersAreMatched == Spec => []AnswersMatch
BY Inductive, PTL DEF IInv

\* Until disconnect, two connects are never under way together.
THEOREM ConnectsAreOne == Spec => []OneConnect
<1>1. IInv => OneConnect
  BY OnlyOne DEF IInv, OneConnect, UnderWay
<1>2. QED
  BY <1>1, Inductive, PTL

-----------------------------------------------------------------------------
(* Session: what the programs are made of.                                 *)

\* The calls a handler makes, and what follows an answer.
CallName == {"stage", "wait", "sync", "persist", "heal", "settle", "unreadable", "sundry"}
Effect   == {"nothing", "show", "add", "addAndShow", "set", "less", "zero", "zeroAndShow"}
StepRecord == [call : CallName, on : {"own", "target"}, then : Effect]

\* The messages and commands that have a program.
LEMMA ProgramNames ==
  DOMAIN Program = {"stage", "duplicateNode", "moveNode", "structuralOperation",
    "universalStage", "patchStyle", "patchUniversal", "zenithBatchPatch",
    "batchUniversal", "zenithTextEdit", "commitOne", "commitAll", "healSession", "undo",
    "hardenWal", "poll"}
BY DEF Program

LEMMA StepIsRecord ==
  ASSUME NEW c \in CallName, NEW o \in {"own", "target"}, NEW t \in Effect
  PROVE  Step(c, o, t) \in StepRecord
BY DEF Step, StepRecord

\* The programs are sequences of steps, and the poll stages nothing.
LEMMA Programs ==
  /\ \A name \in DOMAIN Program : Program[name] \in Seq(StepRecord)
  /\ \A k \in DOMAIN Program["poll"] : Program["poll"][k].call = "sync"
<1>1. \A t \in Effect : Staging(t) \in Seq(StepRecord)
  BY StepIsRecord DEF CallName, Effect, Staging
<1>2. /\ CommittedOne \in Seq(StepRecord) /\ CommittedAll \in Seq(StepRecord)
      /\ Healed \in Seq(StepRecord) /\ Unreadable \in Seq(StepRecord)
      /\ Sundry \in Seq(StepRecord)
  BY StepIsRecord DEF CallName, Effect, CommittedOne, CommittedAll, Healed, Unreadable, Sundry
<1>3. /\ stage \in Seq(StepRecord) /\ duplicateNode \in Seq(StepRecord)
  BY <1>1 DEF Effect, stage, duplicateNode
<1>4. /\ patchStyle \in Seq(StepRecord) /\ textEdit \in Seq(StepRecord)
  <2>1. Step("sync", "own", "show") \in StepRecord
    BY StepIsRecord DEF CallName, Effect
  <2>2. <<Step("wait", "own", "set"), Step("persist", "own", "zeroAndShow")>>
          \in Seq(StepRecord)
    BY StepIsRecord DEF CallName, Effect
  <2>3. Staging("nothing") \in Seq(StepRecord)
    BY <1>1 DEF Effect
  <2>4. QED
    BY <2>1, <2>2, <2>3 DEF patchStyle, textEdit
<1>5. /\ patchUniversal \in Seq(StepRecord) /\ batchPatch \in Seq(StepRecord)
      /\ batchUniversal \in Seq(StepRecord)
  BY StepIsRecord DEF CallName, Effect, patchUniversal, batchPatch, batchUniversal
<1>6. <<Step("sync", "own", "nothing")>> \in Seq(StepRecord)
  BY StepIsRecord DEF CallName, Effect
<1>7. /\ Program["stage"] = stage /\ Program["duplicateNode"] = duplicateNode
      /\ Program["moveNode"] = Unreadable /\ Program["structuralOperation"] = Unreadable
      /\ Program["universalStage"] = Unreadable /\ Program["patchStyle"] = patchStyle
      /\ Program["patchUniversal"] = patchUniversal
      /\ Program["zenithBatchPatch"] = batchPatch
      /\ Program["batchUniversal"] = batchUniversal
      /\ Program["zenithTextEdit"] = textEdit /\ Program["commitOne"] = CommittedOne
      /\ Program["commitAll"] = CommittedAll /\ Program["healSession"] = Healed
      /\ Program["undo"] = Sundry /\ Program["hardenWal"] = Sundry
      /\ Program["poll"] = <<Step("sync", "own", "nothing")>>
  BY DEF Program, moveNode, structuralOperation, universalStage, commitOne, commitAll,
         healSession, undo, hardenWal
<1>8. \A name \in DOMAIN Program : Program[name] \in Seq(StepRecord)
  BY <1>2, <1>3, <1>4, <1>5, <1>6, <1>7, ProgramNames
<1>9. \A k \in DOMAIN Program["poll"] : Program["poll"][k].call = "sync"
  BY <1>7 DEF Step
<1>10. QED
  BY <1>8, <1>9

-----------------------------------------------------------------------------
(* A handler enters a step.                                                *)

\* A handler that is about to make a call: what Entering needs of it.
Known(h) == h \in Handler /\ (h.edit = Nil => h.name = "poll")

Count == [Root -> Nat]

LEMMA EditsCounted == Cardinality(Edit) \in Nat
  BY SessionAssumption, FS_CardinalityType

LEMMA CallGoesToARoot ==
  ASSUME NEW h \in Handler
  PROVE  On(h) \in Root
BY DEF On, Handler

LEMMA SomeAttempts ==
  ASSUME NEW h
  PROVE  AttemptsOf(h) \in Nat \ {0}
BY SessionAssumption DEF AttemptsOf

\* A call is sent, or a status call of a handle that is not ready is refused.
LEMMA CallMade ==
  ASSUME NEW h, Known(h), h.pc \in DOMAIN Program[h.name], h.polls \in 1..AttemptsOf(h)
  PROVE  /\ AtCall(h) \in Handler /\ InProgram(AtCall(h))
         /\ AtCall(h).name = h.name /\ AtCall(h).target = h.target
<1> DEFINE at == IF Asks(h) /\ On(h) \notin ready THEN "refused" ELSE "sent"
           g == AtCall(h)
<1>1. g = [h EXCEPT !.at = at, !.got = 0]
  BY DEF AtCall
<1>2. at \in {"sent", "refused"} /\ (at = "refused" => Asks(h))
  OBVIOUS
<1> HIDE DEF at, g
<1>3. /\ g \in Handler
      /\ g.name = h.name /\ g.own = h.own /\ g.target = h.target /\ g.edit = h.edit
      /\ g.pc = h.pc /\ g.at = at /\ g.polls = h.polls
  <2>1. h \in Handler /\ 0 \in 0..Cardinality(Edit)
        /\ at \in {"idle", "sent", "answered", "refused"}
    BY <1>2, EditsCounted DEF Known
  <2>2. [h EXCEPT !.at = at] \in Handler
    BY <2>1 DEF Handler
  <2>3. QED
    BY <1>1, <2>1 DEF Handler
<1>4. StepOf(g) = StepOf(h)
  BY <1>3 DEF StepOf
<1>5. InProgram(g)
  BY <1>2, <1>3, <1>4 DEF InProgram, Asks, AttemptsOf, Known
<1>6. QED
  BY <1>3, <1>5 DEF g

\* A handler goes over to step k of its program, for what it began, or ends.
LEMMA Enters ==
  ASSUME NEW h, Known(h), NEW k \in Nat \ {0}, NEW c \in Count
  PROVE  \/ Entering(h, k, c) = Idle
         \/ /\ Entering(h, k, c) \in Handler /\ InProgram(Entering(h, k, c))
            /\ Entering(h, k, c).name = h.name /\ Entering(h, k, c).target = h.target
<1> DEFINE g == [h EXCEPT !.pc = k, !.polls = 1]
           b == [g EXCEPT !.min = c[On(g)] + 1]
<1>1. CASE k > Len(Program[h.name])
  BY <1>1 DEF Entering
<1>2. CASE ~(k > Len(Program[h.name]))
  <2>1. Entering(h, k, c) = AtCall(b)
    BY <1>2 DEF Entering
  <2>2. Program[h.name] \in Seq(StepRecord)
    BY Programs DEF Known, Handler
  <2>3. k \in DOMAIN Program[h.name]
    BY <1>2, <2>2
  <2>4. /\ g \in Handler /\ g.pc = k /\ g.polls = 1 /\ g.edit = h.edit
        /\ g.name = h.name /\ g.target = h.target
    BY DEF Known, Handler
  <2>5. On(g) \in Root
    BY <2>4, CallGoesToARoot
  <2> HIDE DEF g
  <2>6. /\ b \in Handler /\ b.pc = k /\ b.polls = 1 /\ b.edit = h.edit
        /\ b.name = h.name /\ b.target = h.target
    BY <2>4, <2>5 DEF Handler, Count
  <2> HIDE DEF b
  <2>7. 1 \in 1..AttemptsOf(b)
    BY SomeAttempts
  <2>8. Known(b)
    BY <2>6 DEF Known
  <2>9. QED
    BY <2>1, <2>3, <2>6, <2>7, <2>8, CallMade
<1>3. QED
  BY <1>1, <1>2

-----------------------------------------------------------------------------
(* The counts.                                                             *)

LEMMA CountsStayCounts ==
  ASSUME NEW h, h \in Handler, NEW c \in Count
  PROVE  CountsAfter(h, c) \in Count
<1>1. On(h) \in Root /\ c[On(h)] \in Nat /\ h.got \in Nat
  BY CallGoesToARoot, EditsCounted DEF Count, Handler
<1>2. CountLess(c[On(h)]) \in Nat
  BY <1>1 DEF CountLess
<1>3. QED
  BY <1>1, <1>2 DEF CountsAfter, Count

LEMMA ShownStayCounts ==
  ASSUME NEW h, h \in Handler, NEW c \in Count, NEW old \in Count
  PROVE  ShownAfter(h, c, old) \in Count
<1>1. On(h) \in Root /\ h.own \in Root /\ h.got \in Nat
  BY CallGoesToARoot, EditsCounted DEF Handler
<1>2. Broadcast(c[On(h)]) \in Count
  BY <1>1 DEF Broadcast, Count
<1>3. [old EXCEPT ![h.own] = h.got] \in Count /\ [old EXCEPT ![h.own] = c[h.own]] \in Count
  BY <1>1 DEF Count
<1>4. QED
  BY <1>2, <1>3 DEF ShownAfter

-----------------------------------------------------------------------------
(* What a step does to a handler.                                          *)

\* The lock is taken while a heal of the workspace is under way.
HealHolds ==
  \A s \in Slot : handler[s].name = "healSession" => handler[s].target \in healing

SessionInv == SessionTypeOK /\ HealHolds /\ OneHealAtATime

Whoever == Slot \cup Root

\* x is handler h gone on with what it began, or over.
Successor(h, x) ==
  \/ x = Idle
  \/ x \in Handler /\ InProgram(x) /\ x.name = h.name /\ x.target = h.target

HandlersOK ==
  /\ handler \in [Whoever -> {Idle} \cup Handler]
  /\ \A s \in Whoever : handler[s] # Idle => InProgram(handler[s])

LEMMA IdleIsNoHandler == Idle \notin Handler /\ Idle.name # "healSession"
<1>1. Idle.name \notin DOMAIN Program
  BY ProgramAssumption DEF Idle
<1>2. "healSession" \in DOMAIN Program
  BY ProgramNames
<1>3. QED
  BY <1>1, <1>2 DEF Handler

\* The handlers keep their form and the lock its heals when one goes on.
LEMMA OneGoesOn ==
  ASSUME SessionInv, NEW s \in Whoever, handler[s] # Idle, NEW x, Successor(handler[s], x),
         handler' = [handler EXCEPT ![s] = x], healing' = healing
  PROVE  HandlersOK' /\ HealHolds' /\ OneHealAtATime'
<1>0. /\ handler \in [Whoever -> {Idle} \cup Handler]
      /\ \A u \in Whoever : handler[u] # Idle => InProgram(handler[u])
  BY DEF SessionInv, SessionTypeOK, Whoever
<1>1. x \in {Idle} \cup Handler /\ (x # Idle => InProgram(x))
  BY DEF Successor
<1>2. handler' \in [Whoever -> {Idle} \cup Handler]
  BY <1>0, <1>1
<1>3. handler'[s] = x /\ \A u \in Whoever \ {s} : handler'[u] = handler[u]
  BY <1>0
<1>4. HandlersOK'
  <2>1. \A u \in Whoever : handler'[u] # Idle => InProgram(handler'[u])
    BY <1>0, <1>1, <1>3
  <2>2. QED
    BY <1>2, <2>1 DEF HandlersOK, InProgram, Asks, StepOf, AttemptsOf
<1>5. \A u \in Slot : handler'[u].name = "healSession"
        => handler[u].name = "healSession" /\ handler'[u].target = handler[u].target
  BY <1>3, IdleIsNoHandler DEF Successor, Whoever
<1>6. HealHolds'
  BY <1>5 DEF HealHolds, SessionInv
<1>7. OneHealAtATime'
  BY <1>5 DEF OneHealAtATime, Underway, SessionInv
<1>8. QED
  BY <1>4, <1>6, <1>7

LEMMA CountsOfEdits ==
  ASSUME SessionTypeOK, NEW r \in Root
  PROVE  /\ Cardinality(Edit) \in Nat
         /\ Cardinality(staged[r]) \in 0..Cardinality(Edit)
<1>1. IsFiniteSet(Edit) /\ staged[r] \in SUBSET Edit
  BY SessionAssumption DEF SessionTypeOK
<1>2. Cardinality(Edit) \in Nat
  BY <1>1, FS_CardinalityType
<1>3. Cardinality(staged[r]) <= Cardinality(Edit) /\ Cardinality(staged[r]) \in Nat
  BY <1>1, FS_Subset, FS_CardinalityType
<1>4. QED
  BY <1>2, <1>3

\* A handler with a call under way, or answered.
LEMMA HasCall ==
  ASSUME SessionInv, NEW s \in Whoever, handler[s].at # "idle"
  PROVE  /\ handler[s] # Idle /\ handler[s] \in Handler
         /\ InProgram(handler[s]) /\ Known(handler[s])
<1>1. Idle.at = "idle"
  BY DEF Idle
<1>2. handler[s] # Idle
  BY <1>1
<1>3. QED
  BY <1>2 DEF SessionInv, SessionTypeOK, Whoever, Known, InProgram

\* The first step of a handler that a message or the timer starts.
Begun(name, r, t, e) ==
  [name |-> name, own |-> r, target |-> t, edit |-> e, pc |-> 0, at |-> "idle",
   min |-> 0, polls |-> 0, got |-> 0]
First(name, r, t, e) == Entering(Begun(name, r, t, e), 1, stagedCount)

LEMMA IdleExcept ==
  \A name, r, t, e :
    [Idle EXCEPT !.name = name, !.own = r, !.target = t, !.edit = e] = Begun(name, r, t, e)
<1>1. ASSUME NEW name, NEW r, NEW t, NEW e, NEW g,
             g = [Idle EXCEPT !.name = name, !.own = r, !.target = t, !.edit = e]
      PROVE  g = Begun(name, r, t, e)
  BY <1>1 DEF Begun, Idle
<1>2. QED
  BY <1>1

LEMMA IdleExceptPoll ==
  \A r : [Idle EXCEPT !.name = "poll", !.own = r, !.target = r] = Begun("poll", r, r, Nil)
<1>1. ASSUME NEW r, NEW g, g = [Idle EXCEPT !.name = "poll", !.own = r, !.target = r]
      PROVE  g = Begun("poll", r, r, Nil)
  BY <1>1 DEF Begun, Idle
<1>2. QED
  BY <1>1

LEMMA Starts ==
  ASSUME NEW name \in DOMAIN Program, NEW r \in Root, NEW t \in Root,
         NEW e \in Edit \cup {Nil}, e = Nil => name = "poll", stagedCount \in Count
  PROVE  \/ First(name, r, t, e) = Idle
         \/ /\ First(name, r, t, e) \in Handler /\ InProgram(First(name, r, t, e))
            /\ First(name, r, t, e).name = name /\ First(name, r, t, e).target = t
<1> DEFINE h == Begun(name, r, t, e)
<1>1. 0 \in 0..Cardinality(Edit)
  BY EditsCounted
<1>2. h \in Handler /\ h.name = name /\ h.target = t /\ h.edit = e
  BY <1>1 DEF Handler, Begun
<1> HIDE DEF h
<1>3. Known(h) /\ 1 \in Nat \ {0}
  BY <1>2 DEF Known
<1>4. \/ Entering(h, 1, stagedCount) = Idle
      \/ /\ Entering(h, 1, stagedCount) \in Handler
         /\ InProgram(Entering(h, 1, stagedCount))
         /\ Entering(h, 1, stagedCount).name = h.name
         /\ Entering(h, 1, stagedCount).target = h.target
  BY <1>3, Enters
<1>5. QED
  BY <1>2, <1>4 DEF First, h

-----------------------------------------------------------------------------
(* Every step keeps the invariant.                                         *)

TypesButHandlers ==
  /\ staged \in [Root -> SUBSET Edit]
  /\ written \in [Root -> SUBSET Edit]
  /\ used \in [Edit -> Root \cup {Nil}]
  /\ received \in 0..Received
  /\ ready \subseteq Root
  /\ stagedCount \in Count
  /\ shown \in Count
  /\ healing \subseteq Root

LEMMA TypesSplit ==
  /\ SessionTypeOK <=> TypesButHandlers /\ HandlersOK
  /\ TypesButHandlers' /\ HandlersOK' => SessionTypeOK'
BY DEF SessionTypeOK, TypesButHandlers, HandlersOK, Whoever, Count

\* A heal begins only where no heal holds the lock.
LEMMA ReceiveStep ==
  ASSUME SessionInv, NEW s \in Slot, NEW name \in Messages, NEW r \in Root, NEW t \in Root,
         NEW e \in Edit, Receive(s, name, r, t, e)
  PROVE  SessionInv'
<1> DEFINE x == First(name, r, t, e)
<1>0. /\ handler \in [Whoever -> {Idle} \cup Handler] /\ s \in Whoever
      /\ \A u \in Whoever : handler[u] # Idle => InProgram(handler[u])
      /\ TypesButHandlers /\ HealHolds /\ OneHealAtATime
      /\ name \in DOMAIN Program /\ name # "poll"
  BY TypesSplit, ProgramAssumption DEF SessionInv, HandlersOK, Whoever
<1>1. handler' = [handler EXCEPT ![s] = x] /\ handler[s] = Idle
  <2>1. /\ handler[s] = Idle
        /\ handler' = [handler EXCEPT ![s] = Entering(
             [Idle EXCEPT !.name = name, !.own = r, !.target = t, !.edit = e],
             1, stagedCount)]
    BY DEF Receive
  <2>2. [Idle EXCEPT !.name = name, !.own = r, !.target = t, !.edit = e]
          = Begun(name, r, t, e)
    BY IdleExcept
  <2>3. QED
    BY <2>1, <2>2 DEF First
<1>2. \/ x = Idle
      \/ x \in Handler /\ InProgram(x) /\ x.name = name /\ x.target = t
  <2>1. e = Nil => name = "poll"
    BY SessionAssumption
  <2>2. stagedCount \in Count /\ e \in Edit \cup {Nil} /\ name \in DOMAIN Program
    BY <1>0 DEF TypesButHandlers
  <2>3. QED
    BY <2>1, <2>2, Starts
<1> HIDE DEF x
<1>3. TypesButHandlers'
  <2>1. UNCHANGED <<staged, written, ready, stagedCount>>
    BY DEF Receive
  <2>2. used' \in [Edit -> Root \cup {Nil}] /\ received' \in 0..Received
    BY <1>0, SessionAssumption DEF Receive, TypesButHandlers
  <2>3. healing' \subseteq Root
    BY <1>0 DEF Receive, TypesButHandlers
  <2>4. shown' \in Count
    BY <1>0 DEF Receive, TypesButHandlers, Count
  <2>5. QED
    BY <1>0, <2>1, <2>2, <2>3, <2>4 DEF TypesButHandlers
<1>4. handler'[s] = x /\ \A u \in Whoever \ {s} : handler'[u] = handler[u]
  BY <1>0, <1>1
<1>5. HandlersOK'
  <2>1. handler' \in [Whoever -> {Idle} \cup Handler]
    BY <1>0, <1>1, <1>2
  <2>2. \A u \in Whoever : handler'[u] # Idle => InProgram(handler'[u])
    BY <1>0, <1>2, <1>4
  <2>3. QED
    BY <2>1, <2>2 DEF HandlersOK, InProgram, Asks, StepOf, AttemptsOf
<1>6. x.name = "healSession" =>
        x.target = t /\ name = "healSession" /\ t \notin healing /\ healing' = healing \cup {t}
  BY <1>2, IdleIsNoHandler DEF Receive, MayHeal
<1>7. healing \subseteq healing'
  BY DEF Receive
<1>8. HealHolds'
  BY <1>0, <1>4, <1>6, <1>7 DEF HealHolds, Whoever
<1>9. OneHealAtATime'
  <2>1. SUFFICES ASSUME NEW u \in Slot, NEW w \in Slot, u # w,
                        handler'[u].name = "healSession", handler'[w].name = "healSession",
                        handler'[u].target = handler'[w].target
                 PROVE  FALSE
    BY DEF OneHealAtATime, Underway
  <2>2. CASE u = s
    BY <1>0, <1>4, <1>6, <2>1, <2>2 DEF HealHolds, Whoever
  <2>3. CASE w = s
    BY <1>0, <1>4, <1>6, <2>1, <2>3 DEF HealHolds, Whoever
  <2>4. CASE u # s /\ w # s
    BY <1>0, <1>4, <2>1, <2>4 DEF OneHealAtATime, Underway, Whoever
  <2>5. QED
    BY <2>2, <2>3, <2>4
<1>10. QED
  BY <1>3, <1>5, <1>8, <1>9, TypesSplit DEF SessionInv

\* The poll is a handler of its root, of which there is one.
LEMMA PollStep ==
  ASSUME SessionInv, NEW r \in Root, Poll(r)
  PROVE  SessionInv'
<1> DEFINE x == First("poll", r, r, Nil)
<1>0. /\ handler \in [Whoever -> {Idle} \cup Handler] /\ r \in Whoever
      /\ \A u \in Whoever : handler[u] # Idle => InProgram(handler[u])
      /\ TypesButHandlers /\ HealHolds /\ OneHealAtATime
      /\ "poll" \in DOMAIN Program
  BY TypesSplit, ProgramNames DEF SessionInv, HandlersOK, Whoever
<1>1. /\ handler' = [handler EXCEPT ![r] = x] /\ handler[r] = Idle
      /\ UNCHANGED <<staged, written, used, received, ready, stagedCount, shown, healing>>
  BY IdleExceptPoll DEF Poll, First
<1>2. x = Idle \/ (x \in Handler /\ InProgram(x) /\ x.name = "poll")
  <2>1. stagedCount \in Count
    BY <1>0 DEF TypesButHandlers
  <2>2. QED
    BY <1>0, <2>1, Starts
<1> HIDE DEF x
<1>3. handler'[r] = x /\ \A u \in Whoever \ {r} : handler'[u] = handler[u]
  BY <1>0, <1>1
<1>4. HandlersOK'
  <2>1. handler' \in [Whoever -> {Idle} \cup Handler]
    BY <1>0, <1>1, <1>2
  <2>2. \A u \in Whoever : handler'[u] # Idle => InProgram(handler'[u])
    BY <1>0, <1>2, <1>3
  <2>3. QED
    BY <2>1, <2>2 DEF HandlersOK, InProgram, Asks, StepOf, AttemptsOf
<1>5. r \notin Slot
  BY SessionAssumption
<1>6. \A u \in Slot : handler'[u] = handler[u]
  BY <1>3, <1>5 DEF Whoever
<1>7. HealHolds' /\ OneHealAtATime'
  BY <1>0, <1>1, <1>6 DEF HealHolds, OneHealAtATime, Underway
<1>8. TypesButHandlers'
  BY <1>0, <1>1 DEF TypesButHandlers
<1>9. QED
  BY <1>4, <1>7, <1>8, TypesSplit DEF SessionInv

\* What a sidecar stages for a call are edits.
LEMMA ServeStep ==
  ASSUME SessionInv, NEW s \in Whoever, Serve(s)
  PROVE  SessionInv'
<1> DEFINE h == handler[s]
           r == On(h)
           c == StepOf(h).call
           n == IF Asks(h) THEN Cardinality(staged[r]) ELSE 0
           x == [[h EXCEPT !.at = "answered"] EXCEPT !.got = n]
<1>0. /\ handler \in [Whoever -> {Idle} \cup Handler]
      /\ TypesButHandlers /\ SessionTypeOK
  BY TypesSplit DEF SessionInv, HandlersOK
<1>1. h # Idle /\ h \in Handler /\ InProgram(h)
  BY HasCall DEF Serve
<1>2. r \in Root /\ n \in 0..Cardinality(Edit)
  BY <1>0, <1>1, CallGoesToARoot, CountsOfEdits
<1>3. /\ staged' \in StagedAfter(r, c, h.edit)
      /\ written' = IF c = "persist" THEN [written EXCEPT ![r] = @ \cup staged[r]] ELSE written
      /\ UNCHANGED <<used, received, ready, stagedCount, shown, healing>>
  BY DEF Serve
<1>4. handler' = [handler EXCEPT ![s] = x]
  BY <1>0 DEF Serve
<1>5. c = "stage" => h.edit \in Edit
  <2>1. SUFFICES ASSUME c = "stage", h.edit = Nil
                 PROVE  FALSE
    BY <1>1 DEF Handler
  <2>2. h.name = "poll" /\ h.pc \in DOMAIN Program["poll"]
    BY <1>1, <2>1 DEF InProgram
  <2>3. c = "sync"
    BY <2>2, Programs DEF StepOf
  <2>4. QED
    BY <2>1, <2>3
<1>6. Successor(h, x)
  <2> HIDE DEF h, n
  <2>1. /\ x \in Handler /\ x.name = h.name /\ x.target = h.target /\ x.at = "answered"
        /\ x.pc = h.pc /\ x.polls = h.polls /\ x.edit = h.edit
    BY <1>1, <1>2 DEF Handler
  <2> HIDE DEF x
  <2>2. InProgram(x)
    BY <1>1, <2>1 DEF InProgram, AttemptsOf, StepOf
  <2>3. QED
    BY <2>1, <2>2 DEF Successor
<1> HIDE DEF h, x, n, c, r
<1>7. HandlersOK' /\ HealHolds' /\ OneHealAtATime'
  BY <1>1, <1>3, <1>4, <1>6, OneGoesOn DEF h
<1>8. staged' \in [Root -> SUBSET Edit]
  BY <1>0, <1>2, <1>3, <1>5 DEF StagedAfter, TypesButHandlers
<1>9. written' \in [Root -> SUBSET Edit]
  BY <1>0, <1>2, <1>3 DEF TypesButHandlers
<1>10. TypesButHandlers'
  BY <1>0, <1>3, <1>8, <1>9 DEF TypesButHandlers
<1>11. QED
  BY <1>7, <1>10, TypesSplit DEF SessionInv

\* An answer to a status call, or the refusal of one, leaves counts, and the loop
\* around the call asks again only while attempts are left.
LEMMA GoOnAskingStep ==
  ASSUME SessionInv, NEW s \in Whoever, GoOnAsking(s)
  PROVE  SessionInv'
<1> DEFINE h == handler[s]
           c == IF h.at = "answered" THEN Synced(On(h), h.got) ELSE stagedCount
           w == IF h.at = "answered" THEN Broadcast(h.got) ELSE shown
           again == [h EXCEPT !.polls = NextAttempt(h)]
           x == IF LoopEnds(h) THEN Entering(h, h.pc + 1, CountsAfter(h, c))
                ELSE AtCall(again)
<1>0. /\ TypesButHandlers /\ handler \in [Whoever -> {Idle} \cup Handler]
      /\ stagedCount \in Count /\ shown \in Count
  BY TypesSplit DEF SessionInv, HandlersOK, TypesButHandlers
<1>1. h # Idle /\ h \in Handler /\ InProgram(h) /\ Known(h)
  BY HasCall DEF GoOnAsking
<1>2. On(h) \in Root /\ h.got \in Nat
  BY <1>1, CallGoesToARoot, EditsCounted DEF Handler
<1>3. c \in Count /\ w \in Count
  BY <1>0, <1>2 DEF Synced, Broadcast, Count
<1>4. /\ handler' = [handler EXCEPT ![s] = x]
      /\ stagedCount' = IF LoopEnds(h) THEN CountsAfter(h, c) ELSE c
      /\ shown' = IF LoopEnds(h) THEN ShownAfter(h, CountsAfter(h, c), w) ELSE w
      /\ UNCHANGED <<staged, written, used, received, ready, healing>>
  BY DEF GoOnAsking
<1> HIDE DEF h, c, w
<1>5. CountsAfter(h, c) \in Count
  BY <1>1, <1>3, CountsStayCounts
<1>6. ShownAfter(h, CountsAfter(h, c), w) \in Count
  BY <1>1, <1>3, <1>5, ShownStayCounts
<1>7. Successor(h, x)
  <2>1. CASE LoopEnds(h)
    <3>1. h.pc + 1 \in Nat \ {0}
      BY <1>1 DEF Handler
    <3>2. x = Entering(h, h.pc + 1, CountsAfter(h, c))
      BY <2>1
    <3>3. QED
      BY <1>1, <1>5, <3>1, <3>2, Enters DEF Successor
  <2>2. CASE ~LoopEnds(h)
    <3>1. h.polls # AttemptsOf(h) /\ h.polls \in 1..AttemptsOf(h) /\ AttemptsOf(h) \in Nat
      BY <1>1, <2>2, SomeAttempts DEF LoopEnds, PollsAreOver, InProgram
    <3>2. /\ again \in Handler /\ again.polls = h.polls + 1 /\ again.pc = h.pc
          /\ again.name = h.name /\ again.target = h.target /\ again.edit = h.edit
      BY <1>1, <3>1 DEF Handler, NextAttempt
    <3> HIDE DEF again
    <3>3. AttemptsOf(again) = AttemptsOf(h) /\ again.pc \in DOMAIN Program[again.name]
      BY <1>1, <3>2 DEF AttemptsOf, StepOf, InProgram
    <3>4. Known(again) /\ again.polls \in 1..AttemptsOf(again)
      BY <1>1, <3>1, <3>2, <3>3 DEF Known
    <3>5. x = AtCall(again)
      BY <2>2
    <3>6. QED
      BY <3>2, <3>3, <3>4, <3>5, CallMade DEF Successor
  <2>3. QED
    BY <2>1, <2>2
<1> HIDE DEF x
<1>8. HandlersOK' /\ HealHolds' /\ OneHealAtATime'
  BY <1>1, <1>4, <1>7, OneGoesOn DEF h
<1>9. TypesButHandlers'
  BY <1>0, <1>3, <1>4, <1>5, <1>6 DEF TypesButHandlers
<1>10. QED
  BY <1>8, <1>9, TypesSplit DEF SessionInv

LEMMA GoOnStep ==
  ASSUME SessionInv, NEW s \in Whoever, GoOn(s)
  PROVE  SessionInv'
<1> DEFINE h == handler[s]
           c == CountsAfter(h, stagedCount)
           x == Entering(h, h.pc + 1, c)
<1>0. /\ TypesButHandlers /\ stagedCount \in Count /\ shown \in Count
  BY TypesSplit DEF SessionInv, TypesButHandlers
<1>1. h # Idle /\ h \in Handler /\ InProgram(h) /\ Known(h)
  BY HasCall DEF GoOn
<1>2. /\ handler' = [handler EXCEPT ![s] = x]
      /\ stagedCount' = c /\ shown' = ShownAfter(h, c, shown)
      /\ UNCHANGED <<staged, written, used, received, ready, healing>>
  BY DEF GoOn
<1> HIDE DEF h
<1>3. c \in Count
  BY <1>0, <1>1, CountsStayCounts
<1> HIDE DEF c
<1>4. ShownAfter(h, c, shown) \in Count
  BY <1>0, <1>1, <1>3, ShownStayCounts
<1>5. Successor(h, x)
  <2>1. h.pc + 1 \in Nat \ {0}
    BY <1>1 DEF Handler
  <2>2. QED
    BY <1>1, <1>3, <2>1, Enters DEF Successor
<1> HIDE DEF x
<1>6. HandlersOK' /\ HealHolds' /\ OneHealAtATime'
  BY <1>1, <1>2, <1>5, OneGoesOn DEF h
<1>7. TypesButHandlers'
  BY <1>0, <1>2, <1>3, <1>4 DEF TypesButHandlers
<1>8. QED
  BY <1>6, <1>7, TypesSplit DEF SessionInv

\* A handler whose call fails goes on without the answer, or is over.
LEMMA FailsStep ==
  ASSUME SessionInv, NEW s \in Whoever, Fails(s)
  PROVE  SessionInv'
<1> DEFINE h == handler[s]
           g == [[h EXCEPT !.at = "refused"] EXCEPT !.got = 0]
           x == IF Asks(h) THEN g ELSE Idle
<1>0. /\ TypesButHandlers /\ handler \in [Whoever -> {Idle} \cup Handler]
  BY TypesSplit DEF SessionInv, HandlersOK
<1>1. h # Idle /\ h \in Handler /\ InProgram(h)
  BY HasCall DEF Fails
<1>2. /\ UNCHANGED <<staged, written, used, received, stagedCount, healing>>
      /\ ready' \subseteq ready
      /\ shown' = shown \/ shown' = Broadcast(0)
  BY DEF Fails
<1>3. handler' = [handler EXCEPT ![s] = x]
  BY <1>0 DEF Fails
<1>4. Successor(h, x)
  <2>1. CASE ~Asks(h)
    BY <2>1 DEF Successor
  <2>2. CASE Asks(h)
    <3> HIDE DEF h
    <3>1. 0 \in 0..Cardinality(Edit)
      BY EditsCounted
    <3>2. /\ g \in Handler /\ g.name = h.name /\ g.target = h.target /\ g.at = "refused"
          /\ g.pc = h.pc /\ g.polls = h.polls /\ g.edit = h.edit
      BY <1>1, <3>1 DEF Handler
    <3> HIDE DEF g
    <3>3. InProgram(g)
      BY <1>1, <2>2, <3>2 DEF InProgram, AttemptsOf, StepOf, Asks
    <3>4. QED
      BY <2>2, <3>2, <3>3 DEF Successor
  <2>3. QED
    BY <2>1, <2>2
<1> HIDE DEF x
<1>5. HandlersOK' /\ HealHolds' /\ OneHealAtATime'
  BY <1>1, <1>2, <1>3, <1>4, OneGoesOn DEF h
<1>6. shown' \in Count
  BY <1>0, <1>2 DEF TypesButHandlers, Broadcast, Count
<1>7. TypesButHandlers'
  BY <1>0, <1>2, <1>6 DEF TypesButHandlers
<1>8. QED
  BY <1>5, <1>7, TypesSplit DEF SessionInv

\* The lock goes when no heal of the workspace is under way.
LEMMA ReleaseStep ==
  ASSUME SessionInv, NEW r \in Root, Release(r)
  PROVE  SessionInv'
<1>1. /\ UNCHANGED <<staged, written, used, received, ready, stagedCount, shown, handler>>
      /\ healing' = healing \ {r}
      /\ \A s \in Slot : ~(handler[s].name = "healSession" /\ handler[s].target = r)
  BY DEF Release, HealUnderWay
<1>2. HealHolds' /\ OneHealAtATime'
  BY <1>1 DEF SessionInv, HealHolds, OneHealAtATime, Underway
<1>3. HandlersOK'
  BY <1>1, TypesSplit DEF SessionInv, HandlersOK, InProgram, Asks, StepOf, AttemptsOf
<1>4. TypesButHandlers'
  BY <1>1, TypesSplit DEF SessionInv, TypesButHandlers
<1>5. QED
  BY <1>2, <1>3, <1>4, TypesSplit DEF SessionInv

LEMMA StutterStep ==
  ASSUME SessionInv, UNCHANGED sessionVars
  PROVE  SessionInv'
<1>1. HealHolds' /\ OneHealAtATime'
  BY DEF sessionVars, SessionInv, HealHolds, OneHealAtATime, Underway
<1>2. HandlersOK'
  BY TypesSplit DEF sessionVars, SessionInv, HandlersOK, InProgram, Asks, StepOf, AttemptsOf
<1>3. TypesButHandlers'
  BY TypesSplit DEF sessionVars, SessionInv, TypesButHandlers
<1>4. QED
  BY <1>1, <1>2, <1>3, TypesSplit DEF SessionInv

LEMMA InitSessionInv == SessionInit => SessionInv
<1> SUFFICES ASSUME SessionInit
             PROVE  SessionInv
  OBVIOUS
<1>1. TypesButHandlers
  BY SessionAssumption DEF SessionInit, TypesButHandlers, Count
<1>2. HandlersOK
  BY DEF SessionInit, HandlersOK, Whoever
<1>3. HealHolds /\ OneHealAtATime
  BY IdleIsNoHandler DEF SessionInit, HealHolds, OneHealAtATime, Underway
<1>4. QED
  BY <1>1, <1>2, <1>3, TypesSplit DEF SessionInv

\* The invariant of Session: types, the lock of a heal, and one heal at a time.
THEOREM SessionInductive == SessionSpec => []SessionInv
<1>1. SessionInv /\ [SessionNext]_sessionVars => SessionInv'
  BY ReceiveStep, PollStep, ReleaseStep, ServeStep, GoOnAskingStep, GoOnStep, FailsStep,
     StutterStep
     DEF SessionNext, Answer, Whoever
<1>2. QED
  BY <1>1, InitSessionInv, PTL DEF SessionSpec

\* Whatever messages come in, and whatever fails, the counts stay numbers, what is
\* staged are edits that came in, and every handler (extension.ts) stands at a step of
\* its program and has not asked for the staged count more often than its loop may.
THEOREM SessionTypeCorrect == SessionSpec => []SessionTypeOK
<1>1. SessionInv => SessionTypeOK
  BY DEF SessionInv
<1>2. QED
  BY <1>1, SessionInductive, PTL

\* healingWorkspaces (extension.ts) keeps two heals of a workspace apart, for any number
\* of handlers, although the lock is let go by a timer.
THEOREM HealsTakeTurns == SessionSpec => []OneHealAtATime
<1>1. SessionInv => OneHealAtATime
  BY DEF SessionInv
<1>2. QED
  BY <1>1, SessionInductive, PTL
=============================================================================
