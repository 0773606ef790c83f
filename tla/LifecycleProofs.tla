-------------------------- MODULE LifecycleProofs --------------------------
(***************************************************************************)
(* Proofs about Lifecycle, for every set of folders, every number of       *)
(* handlers and of starts, and every set of faults.                        *)
(***************************************************************************)
EXTENDS Lifecycle, FiniteSetTheorems, WellFoundedInduction, TLAPS

\* What has not been started has no start-up, no process and no status call.
NotStarted ==
  \A h \in Start : h > made => start[h] = NotBegun /\ process[h] = "none" /\ h \notin polling

\* A handle is in state starting from its registration until its start-up
\* connects or fails: once it has been greeted, a poll may mark it failed, but
\* nothing makes it starting again.
StartingUntilConnected ==
  \A h \in Start :
    start[h].state = "starting" =>
      start[h].at \in {"clearing", "unlinking", "spawning", "connecting"}

IInv == TypeOK /\ NotStarted /\ OneStartPerPort /\ StartingUntilConnected

-----------------------------------------------------------------------------
(* A free port.                                                            *)

\* There is one more port to try than there can be processes.
LEMMA SomePortFree == \E p \in Port : ~Listening(p)
<1> SUFFICES ASSUME \A p \in Port : Listening(p)
             PROVE  FALSE
  OBVIOUS
<1> DEFINE f == [p \in Port |-> CHOOSE h \in Start : process[h] = "alive" /\ start[h].port = p]
<1>1. \A p \in Port : f[p] \in Start /\ start[f[p]].port = p
  BY DEF Listening
<1>2. IsFiniteSet(Start) /\ Cardinality(Start) = Starts
  BY FS_Interval, LifecycleAssumption DEF Start
<1>3. IsFiniteSet(Port) /\ Cardinality(Port) = Starts + 1
  BY FS_Interval, LifecycleAssumption DEF Port
<1>4. f \in [Port -> Start]
  BY <1>1
<1> HIDE DEF f
<1>5. Cardinality(Start) < Cardinality(Port)
  BY <1>2, <1>3, LifecycleAssumption
<1>6. \E p, q \in Port : p # q /\ f[p] = f[q]
  BY <1>2, <1>3, <1>4, <1>5, FS_PigeonHole
<1>7. QED
  BY <1>1, <1>6

LEMMA FreePort == getAvailablePort \in Port /\ ~Listening(getAvailablePort)
<1> DEFINE Free == {p \in Port : ~Listening(p)}
<1>1. Free \subseteq Nat /\ Free # {}
  BY SomePortFree, LifecycleAssumption DEF Port
<1>2. PICK p \in Free : \A q \in Free : ~(<<q, p>> \in OpToRel(<, Nat))
  BY <1>1, NatLessThanWellFounded, WFMin
<1>3. \A q \in Free : ~(q < p)
  BY <1>1, <1>2 DEF OpToRel
<1>4. \A q \in 1..(p - 1) : q \in Port /\ q < p
  BY LifecycleAssumption DEF Port
<1>5. ~Listening(p) /\ \A q \in 1..(p - 1) : Listening(q)
  BY <1>3, <1>4
<1>6. QED
  BY <1>5 DEF getAvailablePort

-----------------------------------------------------------------------------
(* Types.                                                                  *)

StartRecord ==
  [root : Root \cup {None}, port : Port \cup {None},
   at : {"none", "detecting", "clearing", "unlinking", "spawning",
         "connecting", "greeting", "over",
         "failed"},
   state : {"none", "starting", "ready", "error"}, killed : BOOLEAN]
ClientRecord ==
  [does : {"nothing", "verify", "probe", "stop", "restart"},
   root : Root \cup {None}, of : Start \cup {None}]

LEMMA Types ==
  TypeOK <=>
    /\ activeSidecars \in [Root -> Start \cup {None}] /\ ongoingStartups \subseteq Port
    /\ start \in [Start -> StartRecord] /\ made \in 0..Starts
    /\ process \in [Start -> {"none", "alive", "dead", "closed"}]
    /\ pidFile \in [Root -> Start \cup {None}] /\ polling \subseteq Start
    /\ client \in [Client -> ClientRecord]
BY DEF TypeOK, StartRecord, ClientRecord

\* What an event can do to a start-up: h goes on to at, its handle is put in a
\* state, or it is told to end.
LEMMA StartTypes ==
  ASSUME NEW r \in StartRecord
  PROVE  /\ \A a \in {"clearing", "unlinking", "spawning", "connecting", "greeting", "over", "failed"} :
              /\ [r EXCEPT !.at = a] \in StartRecord
              /\ \A s \in {"starting", "ready", "error"} :
                   [r EXCEPT !.at = a, !.state = s] \in StartRecord
         /\ [r EXCEPT !.state = "error"] \in StartRecord
         /\ \A b \in BOOLEAN : [r EXCEPT !.killed = b] \in StartRecord
BY DEF StartRecord

\* A launch begins the next start, on a port on which none is under way, or does
\* nothing.
Launches(r, p) ==
  /\ made + 1 \in Start
  /\ made' = made + 1
  /\ start' = [start EXCEPT ![made + 1] =
       [NotBegun EXCEPT !.root = r, !.port = p, !.at = "detecting"]]
  /\ p \in Port \ ongoingStartups
  /\ ongoingStartups' = ongoingStartups \cup {p}

LEMMA LaunchDoes ==
  ASSUME TypeOK, NEW c \in Client, NEW r, NEW p \in Port, Launch(c, r, p)
  PROVE  /\ client' = [client EXCEPT ![c] = Idle]
         /\ Launches(r, p) \/ UNCHANGED <<made, start, ongoingStartups>>
BY LifecycleAssumption DEF Launch, Launches, MayClaim, TypeOK, Start

LEMMA ProceedDoes ==
  ASSUME TypeOK, NEW c \in Client, NEW r \in Root \cup {None}, Proceed(c, r)
  PROVE  /\ client' \in [Client -> ClientRecord]
         /\ \/ \E p \in Port : Launches(r, p)
            \/ UNCHANGED <<made, start, ongoingStartups>>
<1>1. client \in [Client -> ClientRecord] /\ Idle \in ClientRecord
  BY Types DEF Idle, ClientRecord
<1>2. 1 \in Port
  BY LifecycleAssumption DEF Port
<1>3. CASE Launch(c, r, 1)
  BY <1>1, <1>2, <1>3, LaunchDoes
<1>4. CASE /\ client' = [client EXCEPT ![c] = [does |-> "probe", root |-> r, of |-> None]]
           /\ UNCHANGED <<made, start, ongoingStartups>>
  <2>1. [does |-> "probe", root |-> r, of |-> None] \in ClientRecord
    BY DEF ClientRecord
  <2>2. QED
    BY <1>1, <1>4, <2>1
<1>5. QED
  BY <1>3, <1>4 DEF Proceed

LEMMA LaunchesTypes ==
  ASSUME TypeOK, NEW r \in Root \cup {None}, NEW p \in Port, Launches(r, p)
  PROVE  made' \in 0..Starts /\ start' \in [Start -> StartRecord] /\ ongoingStartups' \subseteq Port
<1>1. [NotBegun EXCEPT !.root = r, !.port = p, !.at = "detecting"] \in StartRecord
  BY DEF NotBegun, StartRecord
<1>2. start \in [Start -> StartRecord]
  BY Types
<1>3. start' \in [Start -> StartRecord]
  BY <1>1, <1>2 DEF Launches
<1>4. QED
  BY <1>3, LifecycleAssumption DEF Launches, TypeOK, Start

LEMMA TypeStep ==
  ASSUME TypeOK, [Next]_vars
  PROVE  TypeOK'
<1>0. /\ activeSidecars \in [Root -> Start \cup {None}] /\ ongoingStartups \subseteq Port
      /\ start \in [Start -> StartRecord] /\ made \in 0..Starts
      /\ process \in [Start -> {"none", "alive", "dead", "closed"}]
      /\ pidFile \in [Root -> Start \cup {None}] /\ polling \subseteq Start
      /\ client \in [Client -> ClientRecord] /\ Idle \in ClientRecord
  BY Types DEF Idle, ClientRecord
<1>1. ASSUME NEW h \in Start, StartStep(h)
      PROVE  TypeOK'
  <2>1. UNCHANGED <<made, polling, client>> /\ ongoingStartups' \subseteq Port
    BY <1>0, <1>1 DEF StartStep, Detected, DetectFails, killOrphanSidecar, OrphanForgotten, Spawn, Connected,
                      StartFails, Greeted, PortReleased
  <2>2. \E r \in StartRecord : start' = [start EXCEPT ![h] = r]
    <3>1. start[h] \in StartRecord
      BY <1>0
    <3>2. \E a \in {"clearing", "unlinking", "spawning", "connecting", "greeting", "over", "failed"} :
            \/ start' = [start EXCEPT ![h] = [start[h] EXCEPT !.at = a]]
            \/ \E s \in {"starting", "ready", "error"} :
                 start' = [start EXCEPT ![h] = [start[h] EXCEPT !.at = a, !.state = s]]
      BY <1>0, <1>1 DEF StartStep, Detected, DetectFails, killOrphanSidecar, OrphanForgotten, Spawn, Connected,
                        StartFails, Greeted, MarkedFailed
    <3>3. QED
      BY <3>1, <3>2, StartTypes
  <2>3. activeSidecars' \in [Root -> Start \cup {None}]
    BY <1>0, <1>1 DEF StartStep, Detected, DetectFails, killOrphanSidecar, OrphanForgotten, Spawn, Connected,
                      StartFails, Greeted
  <2>4. process' \in [Start -> {"none", "alive", "dead", "closed"}]
    BY <1>0, <1>1 DEF StartStep, Detected, DetectFails, killOrphanSidecar, OrphanForgotten, Spawn, Connected,
                      StartFails, Greeted
  <2>5. pidFile' \in [Root -> Start \cup {None}]
    BY <1>0, <1>1 DEF StartStep, Detected, DetectFails, killOrphanSidecar, OrphanForgotten, Spawn, Connected,
                      StartFails, Greeted
  <2>6. start' \in [Start -> StartRecord]
    BY <1>0, <2>2
  <2>7. QED
    BY <1>0, <2>1, <2>3, <2>4, <2>5, <2>6 DEF TypeOK, StartRecord, ClientRecord
<1>2. ASSUME NEW c \in Client, NEW r \in Root \cup {None}, Proceed(c, r),
             activeSidecars' \in [Root -> Start \cup {None}], UNCHANGED <<process, pidFile, polling>>
      PROVE  TypeOK'
  BY <1>0, <1>2, ProceedDoes, LaunchesTypes DEF TypeOK, StartRecord, ClientRecord
<1>3. ASSUME NEW c \in Client, client' \in [Client -> ClientRecord],
             UNCHANGED <<made, start, ongoingStartups, process, pidFile, polling>>,
             activeSidecars' \in [Root -> Start \cup {None}]
      PROVE  TypeOK'
  BY <1>0, <1>3 DEF TypeOK, StartRecord, ClientRecord
<1>4. ASSUME NEW c \in Client, NEW r \in Root, Ensure(c, r)
      PROVE  TypeOK'
  <2>1. CASE Proceed(c, r)
    BY <1>0, <1>2, <1>4, <2>1 DEF Ensure
  <2>2. CASE ~Proceed(c, r)
    <3>1. activeSidecars[r] \in Start
      BY <1>0, <1>4, <2>2 DEF Ensure, IsReady
    <3>2. [does |-> "verify", root |-> r, of |-> activeSidecars[r]] \in ClientRecord
      BY <3>1 DEF ClientRecord
    <3>3. QED
      BY <1>0, <1>3, <1>4, <2>2, <3>2 DEF Ensure
  <2>3. QED
    BY <2>1, <2>2
<1>5. ASSUME NEW c \in Client, VerifyAnswered(c) \/ VerifyFails(c) \/ Stopped(c)
      PROVE  TypeOK'
  <2>1. client[c].root \in Root \cup {None}
    BY <1>0 DEF ClientRecord
  <2>2. \A r : [activeSidecars EXCEPT ![r] = None] \in [Root -> Start \cup {None}]
    BY <1>0
  <2>3. [client EXCEPT ![c] = Idle] \in [Client -> ClientRecord]
    BY <1>0
  <2>4. activeSidecars' \in [Root -> Start \cup {None}] /\ UNCHANGED <<process, pidFile, polling>>
    BY <1>0, <1>5, <2>2 DEF VerifyAnswered, VerifyFails, Stopped, StopEnds
  <2>5. \/ Proceed(c, client[c].root)
        \/ /\ client' = [client EXCEPT ![c] = Idle]
           /\ UNCHANGED <<made, start, ongoingStartups>>
    BY <1>5 DEF VerifyAnswered, VerifyFails, Stopped, StopEnds
  <2>6. QED
    BY <1>2, <1>3, <2>1, <2>3, <2>4, <2>5
<1>6. ASSUME NEW c \in Client, Probed(c)
      PROVE  TypeOK'
  <2>1. client[c].root \in Root \cup {None}
    BY <1>0 DEF ClientRecord
  <2>2. [client EXCEPT ![c] = Idle] \in [Client -> ClientRecord]
    BY <1>0
  <2>3. /\ client' = [client EXCEPT ![c] = Idle]
        /\ \/ Launches(client[c].root, getAvailablePort)
           \/ UNCHANGED <<made, start, ongoingStartups>>
    BY <1>6, FreePort, LaunchDoes DEF Probed
  <2>4. UNCHANGED <<activeSidecars, process, pidFile, polling>>
    BY <1>6 DEF Probed
  <2>5. QED
    BY <1>0, <2>1, <2>2, <2>3, <2>4, FreePort, LaunchesTypes DEF TypeOK, StartRecord, ClientRecord
<1>7. ASSUME NEW c \in Client, NEW r \in Root, NEW again \in BOOLEAN, StopAtOnce(c, r, again)
      PROVE  TypeOK'
  <2>1. activeSidecars' \in [Root -> Start \cup {None}] /\ UNCHANGED <<process, pidFile, polling>>
    BY <1>0, <1>7 DEF StopAtOnce, StopEnds
  <2>2. [client EXCEPT ![c] = Idle] \in [Client -> ClientRecord]
    BY <1>0
  <2>3. \/ Proceed(c, r)
        \/ /\ client' = [client EXCEPT ![c] = Idle]
           /\ UNCHANGED <<made, start, ongoingStartups>>
    BY <1>7 DEF StopAtOnce, StopEnds
  <2>4. QED
    BY <1>2, <1>3, <2>1, <2>2, <2>3
<1>8. ASSUME NEW c \in Client, NEW r \in Root, NEW again \in BOOLEAN, StopBegins(c, r, again)
      PROVE  TypeOK'
  <2> DEFINE h == activeSidecars[r]
  <2>1. h \in Start
    BY <1>0, <1>8 DEF StopBegins
  <2>2. process' \in [Start -> {"none", "alive", "dead", "closed"}]
    BY <1>0, <1>8 DEF StopBegins
  <2>3. start' \in [Start -> StartRecord]
    <3>1. start[h] \in StartRecord /\ (process[h] = "alive") \in BOOLEAN
      BY <1>0, <2>1
    <3>2. [start[h] EXCEPT !.killed = process[h] = "alive"] \in StartRecord
      BY <3>1, StartTypes
    <3>3. start' = [start EXCEPT ![h] = [start[h] EXCEPT !.killed = process[h] = "alive"]]
      BY <1>0, <1>8, <2>1 DEF StopBegins
    <3>4. QED
      BY <1>0, <3>2, <3>3
  <2>4. client' \in [Client -> ClientRecord]
    <3>1. \A d \in {"stop", "restart"} : [does |-> d, root |-> r, of |-> h] \in ClientRecord
      BY <2>1 DEF ClientRecord
    <3>2. QED
      BY <1>0, <1>8, <3>1 DEF StopBegins
  <2>5. QED
    BY <1>0, <1>8, <2>2, <2>3, <2>4 DEF StopBegins, TypeOK, StartRecord, ClientRecord
<1>9. ASSUME NEW h \in Start, Exits(h) \/ Closes(h)
      PROVE  TypeOK'
  <2>1. process' \in [Start -> {"none", "alive", "dead", "closed"}] /\ pidFile' \in [Root -> Start \cup {None}]
    BY <1>0, <1>9 DEF Exits, Closes
  <2>2. QED
    BY <1>0, <1>9, <2>1 DEF Exits, Closes, TypeOK, StartRecord, ClientRecord
<1>10. ASSUME NEW h \in Start, PollEnds(h)
       PROVE  TypeOK'
  <2>1. start' \in [Start -> StartRecord]
    <3>1. [start[h] EXCEPT !.state = "error"] \in StartRecord
      BY <1>0, StartTypes
    <3>2. start' = start \/ start' = [start EXCEPT ![h] = [start[h] EXCEPT !.state = "error"]]
      BY <1>0, <1>10 DEF PollEnds, Noticed
    <3>3. QED
      BY <1>0, <3>1, <3>2
  <2>2. QED
    BY <1>0, <1>10, <2>1 DEF PollEnds, TypeOK, StartRecord, ClientRecord
<1>11. ASSUME NEW r \in Root, Poll(r)
       PROVE  TypeOK'
  BY <1>0, <1>11 DEF Poll, IsReady, TypeOK
<1>12. CASE UNCHANGED vars
  BY <1>12 DEF vars, TypeOK
<1>13. QED
  BY <1>1, <1>4, <1>5, <1>6, <1>7, <1>8, <1>9, <1>10, <1>11, <1>12 DEF Next

-----------------------------------------------------------------------------
(* Start-ups and their ports.                                              *)

\* What a step does to the start-ups, for the properties below.
SameStarts == UNCHANGED <<made, start, ongoingStartups>>

\* An event of start-up h that leaves it under way ...
Moves(h) ==
  /\ Claims(h)
  /\ start' = [start EXCEPT ![h] = start'[h]]
  /\ start'[h].port = start[h].port /\ start'[h].at \notin {"none", "over"}
  /\ start'[h].state = "starting" =>
       start'[h].at \in {"clearing", "unlinking", "spawning", "connecting"}
  /\ ongoingStartups' = ongoingStartups

\* ... one that ends it ...
Finishes(h) ==
  /\ Claims(h)
  /\ start' = [start EXCEPT ![h] = start'[h]]
  /\ start'[h].port = start[h].port /\ start'[h].at = "over"
  /\ start'[h].state # "starting"
  /\ ongoingStartups' = ongoingStartups \ {start[h].port}

\* ... and one that only touches its handle or its process.
Marks(h) ==
  /\ start' = [start EXCEPT ![h] = start'[h]]
  /\ start'[h].port = start[h].port /\ start'[h].at = start[h].at
  /\ start'[h].state \in {start[h].state, "error"}
  /\ ongoingStartups' = ongoingStartups

LEMMA Steps ==
  ASSUME TypeOK, NotStarted, StartingUntilConnected, [Next]_vars
  PROVE  \/ SameStarts
         \/ \E h \in Start : h <= made /\ made' = made /\ (Moves(h) \/ Finishes(h) \/ Marks(h))
         \/ \E r \in Root \cup {None}, p \in Port : Launches(r, p)
<1> DEFINE Goal == \/ SameStarts
                   \/ \E h \in Start : h <= made /\ made' = made /\ (Moves(h) \/ Finishes(h) \/ Marks(h))
                   \/ \E r \in Root \cup {None}, p \in Port : Launches(r, p)
<1>0. /\ start \in [Start -> StartRecord] /\ made \in Nat /\ client \in [Client -> ClientRecord]
      /\ activeSidecars \in [Root -> Start \cup {None}] /\ polling \subseteq Start
      /\ \A h \in Start : h \in Nat
  BY Types, LifecycleAssumption DEF Start
<1>1. ASSUME NEW h \in Start, StartStep(h)
      PROVE  Goal
  <2>1. start[h] \in StartRecord /\ start[h].at \notin {"none", "over"} /\ made' = made
    BY <1>0, <1>1 DEF StartStep, Detected, DetectFails, killOrphanSidecar, OrphanForgotten, Spawn, Connected,
                      StartFails, NoBinary, Greeted
  <2>2. h <= made
    BY <1>0, <2>1 DEF NotStarted, NotBegun
  <2>3. CASE Detected(h)
    BY <1>0, <2>1, <2>2, <2>3 DEF Detected, Moves, Claims, StartRecord
  <2>11. CASE DetectFails(h)
    <3>1. /\ start' = [start EXCEPT ![h].at = "failed"]
          /\ start[h].at = "detecting" /\ ongoingStartups' = ongoingStartups
      BY <2>11 DEF DetectFails
    <3>2. start[h].state # "starting"
      BY <3>1 DEF StartingUntilConnected
    <3>3. Moves(h)
      BY <1>0, <2>1, <3>1, <3>2 DEF Moves, Claims, StartRecord
    <3>4. QED
      BY <2>1, <2>2, <3>3
  <2>4. CASE killOrphanSidecar(h)
    <3>1. \E a \in {"spawning", "unlinking"} : start' = [start EXCEPT ![h].at = a]
      BY <2>4 DEF killOrphanSidecar
    <3>2. PICK a \in {"spawning", "unlinking"} : start' = [start EXCEPT ![h].at = a]
      BY <3>1
    <3>3. ongoingStartups' = ongoingStartups
      BY <2>4 DEF killOrphanSidecar
    <3>4. Moves(h)
      BY <1>0, <2>1, <3>2, <3>3 DEF Moves, Claims, StartRecord
    <3>5. QED
      BY <2>1, <2>2, <3>4
  <2>5. CASE OrphanForgotten(h)
    BY <1>0, <2>1, <2>2, <2>5 DEF OrphanForgotten, Moves, Claims, StartRecord
  <2>6. CASE Spawn(h)
    BY <1>0, <2>1, <2>2, <2>6 DEF Spawn, Moves, Claims, StartRecord
  <2>7. CASE Connected(h)
    BY <1>0, <2>1, <2>2, <2>7 DEF Connected, Moves, Claims, StartRecord
  <2>8. CASE StartFails(h)
    BY <1>0, <2>1, <2>2, <2>8
       DEF StartFails, Finishes, Claims, StartRecord, MarkedFailed, PortReleased
  <2>9. CASE Greeted(h)
    BY <1>0, <2>1, <2>2, <2>9
       DEF Greeted, Finishes, Claims, StartRecord, PortReleased, StartingUntilConnected
  <2>10. QED
    BY <1>1, <2>3, <2>4, <2>5, <2>6, <2>7, <2>8, <2>9, <2>11 DEF StartStep
<1>2. ASSUME NEW c \in Client, NEW r \in Root \cup {None}, Proceed(c, r)
      PROVE  Goal
  BY <1>2, ProceedDoes DEF SameStarts
<1>3. ASSUME NEW c \in Client, NEW r \in Root,
             Ensure(c, r) \/ \E again \in BOOLEAN : StopAtOnce(c, r, again)
      PROVE  Goal
  <2>1. Proceed(c, r) \/ SameStarts
    BY <1>3 DEF Ensure, StopAtOnce, StopEnds, SameStarts
  <2>2. QED
    BY <1>2, <2>1
<1>4. ASSUME NEW c \in Client, VerifyAnswered(c) \/ VerifyFails(c) \/ Stopped(c)
      PROVE  Goal
  <2>1. Proceed(c, client[c].root) \/ SameStarts
    BY <1>4 DEF VerifyAnswered, VerifyFails, Stopped, StopEnds, SameStarts
  <2>2. client[c].root \in Root \cup {None}
    BY <1>0 DEF ClientRecord
  <2>3. QED
    BY <1>2, <2>1, <2>2
<1>5. ASSUME NEW c \in Client, Probed(c)
      PROVE  Goal
  <2>1. client[c].root \in Root \cup {None}
    BY <1>0 DEF ClientRecord
  <2>2. Launches(client[c].root, getAvailablePort) \/ SameStarts
    BY <1>5, FreePort, LaunchDoes DEF Probed, SameStarts
  <2>3. QED
    BY <2>1, <2>2, FreePort
<1>6. ASSUME NEW c \in Client, NEW r \in Root, NEW again \in BOOLEAN, StopBegins(c, r, again)
      PROVE  Goal
  <2> DEFINE h == activeSidecars[r]
  <2>1. h \in Start /\ h <= made /\ made' = made
    BY <1>0, <1>6 DEF StopBegins, NotStarted
  <2>2. Marks(h)
    BY <1>0, <1>6, <2>1 DEF StopBegins, Marks, StartRecord
  <2>3. QED
    BY <2>1, <2>2
<1>7. ASSUME NEW h \in Start, Exits(h) \/ Closes(h)
      PROVE  Goal
  BY <1>7 DEF Exits, Closes, SameStarts
<1>8. ASSUME NEW h \in Start, PollEnds(h)
      PROVE  Goal
  <2>1. h <= made /\ made' = made
    BY <1>0, <1>8 DEF PollEnds, NotStarted
  <2>2. Marks(h) \/ SameStarts
    BY <1>0, <1>8 DEF PollEnds, Marks, SameStarts, Noticed, StartRecord
  <2>3. QED
    BY <2>1, <2>2
<1>9. ASSUME NEW r \in Root, Poll(r)
      PROVE  Goal
  BY <1>9 DEF Poll, SameStarts
<1>10. CASE UNCHANGED vars
  BY <1>10 DEF vars, SameStarts
<1>11. QED
  BY <1>1, <1>3, <1>4, <1>5, <1>6, <1>7, <1>8, <1>9, <1>10 DEF Next

\* A port is claimed by the start-up that takes it and released with it, so the
\* ports that are taken stay those of the start-ups under way.
LEMMA PortsStep ==
  ASSUME TypeOK, NotStarted, StartingUntilConnected, OneStartPerPort, [Next]_vars
  PROVE  OneStartPerPort' /\ StartingUntilConnected'
<1>0. /\ start \in [Start -> StartRecord] /\ made \in Nat /\ \A h \in Start : h \in Nat
      /\ \A h \in Start : start[h] \in StartRecord
  BY Types, LifecycleAssumption DEF Start
<1>1. CASE SameStarts
  BY <1>1 DEF SameStarts, OneStartPerPort, StartingUntilConnected, Claims
<1>2. ASSUME NEW h \in Start, Moves(h) \/ Marks(h)
      PROVE  OneStartPerPort' /\ StartingUntilConnected'
  <2>1. \A g \in Start \ {h} : start'[g] = start[g]
    BY <1>0, <1>2 DEF Moves, Marks
  <2>2. \A g \in Start : start'[g].port = start[g].port /\ (Claims(g)' <=> Claims(g))
    BY <1>2, <2>1 DEF Moves, Marks, Claims
  <2>3. ongoingStartups' = ongoingStartups
    BY <1>2 DEF Moves, Marks
  <2>4. {g \in Start : Claims(g)}' = {g \in Start : Claims(g)}
    BY <2>2
  <2>5. OneStartPerPort'
    BY <2>2, <2>3, <2>4 DEF OneStartPerPort
  <2>6. StartingUntilConnected'
    BY <1>2, <2>1 DEF Moves, Marks, StartingUntilConnected
  <2>7. QED
    BY <2>5, <2>6
<1>3. ASSUME NEW h \in Start, Finishes(h)
      PROVE  OneStartPerPort' /\ StartingUntilConnected'
  <2>1. \A g \in Start \ {h} : start'[g] = start[g]
    BY <1>0, <1>3 DEF Finishes
  <2>2. \A g \in Start : Claims(g)' <=> Claims(g) /\ g # h
    BY <1>3, <2>1 DEF Finishes, Claims
  <2>3. \A g \in Start : Claims(g)' => start'[g].port = start[g].port /\ start[g].port # start[h].port
    BY <1>3, <2>1, <2>2 DEF Finishes, OneStartPerPort
  <2>4. ongoingStartups' = {start'[g].port : g \in {f \in Start : Claims(f)'}}
    BY <1>3, <2>2, <2>3 DEF Finishes, OneStartPerPort
  <2>5. OneStartPerPort'
    BY <2>2, <2>3, <2>4 DEF OneStartPerPort
  <2>6. StartingUntilConnected'
    BY <1>3, <2>1 DEF Finishes, StartingUntilConnected
  <2>7. QED
    BY <2>5, <2>6
<1>4. ASSUME NEW r \in Root \cup {None}, NEW p \in Port, Launches(r, p)
      PROVE  OneStartPerPort' /\ StartingUntilConnected'
  <2> DEFINE n == made + 1
  <2>1. n \in Start /\ start[n] = NotBegun
    BY <1>0, <1>4 DEF Launches, NotStarted
  <2>2. \A g \in Start \ {n} : start'[g] = start[g]
    BY <1>0, <1>4 DEF Launches
  <2>3. start'[n].port = p /\ start'[n].at = "detecting" /\ start'[n].state = "none"
    BY <1>0, <1>4, <2>1 DEF Launches, NotBegun
  <2>4. \A g \in Start : Claims(g)' <=> Claims(g) \/ g = n
    BY <2>1, <2>2, <2>3 DEF Claims, NotBegun
  <2>5. \A g \in Start : Claims(g) => start'[g] = start[g] /\ start[g].port # p
    BY <1>4, <2>1, <2>2 DEF Launches, Claims, NotBegun, OneStartPerPort
  <2>6. ongoingStartups' = {start'[g].port : g \in {f \in Start : Claims(f)'}}
    <3>1. {f \in Start : Claims(f)'} = {f \in Start : Claims(f)} \cup {n}
      BY <2>1, <2>4
    <3>2. {start'[g].port : g \in {f \in Start : Claims(f)'}}
            = {start[g].port : g \in {f \in Start : Claims(f)}} \cup {p}
      BY <2>3, <2>5, <3>1
    <3>3. QED
      BY <1>4, <3>2 DEF Launches, OneStartPerPort
  <2>7. OneStartPerPort'
    BY <2>3, <2>4, <2>5, <2>6 DEF OneStartPerPort
  <2>8. StartingUntilConnected'
    BY <2>2, <2>3 DEF StartingUntilConnected
  <2>9. QED
    BY <2>7, <2>8
<1>5. QED
  BY <1>1, <1>2, <1>3, <1>4, Steps

LEMMA NotStartedStep ==
  ASSUME TypeOK, NotStarted, StartingUntilConnected, [Next]_vars
  PROVE  NotStarted'
<1> SUFFICES ASSUME NEW h \in Start, h > made'
             PROVE  start'[h] = NotBegun /\ process'[h] = "none" /\ h \notin polling'
  BY DEF NotStarted
<1>0. /\ start \in [Start -> StartRecord] /\ made \in Nat /\ \A g \in Start : g \in Nat
      /\ process \in [Start -> {"none", "alive", "dead", "closed"}]
      /\ activeSidecars \in [Root -> Start \cup {None}]
  BY Types, LifecycleAssumption DEF Start
<1>1. h > made /\ start'[h] = NotBegun
  <2>1. CASE SameStarts
    BY <2>1 DEF SameStarts, NotStarted
  <2>2. ASSUME NEW g \in Start, g <= made, made' = made, Moves(g) \/ Finishes(g) \/ Marks(g)
        PROVE  h > made /\ start'[h] = NotBegun
    <3>1. h # g
      BY <1>0, <2>2
    <3>2. start'[h] = start[h]
      BY <1>0, <2>2, <3>1 DEF Moves, Finishes, Marks
    <3>3. QED
      BY <2>2, <3>2 DEF NotStarted
  <2>3. ASSUME NEW r \in Root \cup {None}, NEW p \in Port, Launches(r, p)
        PROVE  h > made /\ start'[h] = NotBegun
    BY <1>0, <2>3 DEF Launches, NotStarted
  <2>4. QED
    BY <2>1, <2>2, <2>3, Steps
<1>2. start[h] = NotBegun /\ process[h] = "none" /\ h \notin polling
  BY <1>1 DEF NotStarted
<1>3. process'[h] = "none"
  <2>1. ASSUME NEW g \in Start, StartStep(g)
        PROVE  process'[h] = "none"
    <3>1. start[g].at \notin {"none", "over"}
      BY <2>1 DEF StartStep, Detected, DetectFails, killOrphanSidecar, OrphanForgotten, Spawn, Connected,
                  StartFails, NoBinary, Greeted
    <3>2. g # h
      BY <1>2, <3>1 DEF NotBegun
    <3>3. QED
      BY <1>0, <1>2, <2>1, <3>2
         DEF StartStep, Detected, DetectFails, killOrphanSidecar, OrphanForgotten, Spawn, Connected, StartFails,
             Greeted
  <2>2. ASSUME NEW c \in Client, NEW r \in Root, NEW again \in BOOLEAN, StopBegins(c, r, again)
        PROVE  process'[h] = "none"
    BY <1>0, <1>2, <2>2 DEF StopBegins
  <2>3. ASSUME NEW g \in Start, Exits(g) \/ Closes(g)
        PROVE  process'[h] = "none"
    BY <1>0, <1>2, <2>3 DEF Exits, Closes
  <2>4. CASE UNCHANGED process
    BY <1>2, <2>4
  <2>5. QED
    BY <2>1, <2>2, <2>3, <2>4
       DEF Next, Ensure, VerifyAnswered, VerifyFails, Probed, StopAtOnce, Stopped, PollEnds, Poll, vars
<1>4. h \notin polling'
  <2>1. ASSUME NEW r \in Root, Poll(r)
        PROVE  h \notin polling'
    BY <1>0, <1>2, <2>1 DEF Poll, IsReady, NotBegun
  <2>2. CASE polling' \subseteq polling
    BY <1>2, <2>2
  <2>3. QED
    BY <2>1, <2>2
       DEF Next, StartStep, Detected, DetectFails, killOrphanSidecar, OrphanForgotten, Spawn, Connected, StartFails,
           Greeted, Ensure, VerifyAnswered, VerifyFails, Probed, StopAtOnce, StopBegins, Stopped, Exits,
           Closes, PollEnds, vars
<1>5. QED
  BY <1>1, <1>3, <1>4

-----------------------------------------------------------------------------
(* The theorems.                                                           *)

LEMMA InitIInv == Init => IInv
<1> SUFFICES ASSUME Init
             PROVE  IInv
  OBVIOUS
<1>1. NotBegun \in StartRecord /\ Idle \in ClientRecord
  BY DEF NotBegun, Idle, StartRecord, ClientRecord
<1>2. 0 \in 0..Starts
  BY LifecycleAssumption
<1>3. TypeOK
  BY <1>1, <1>2, Types DEF Init
<1>4. NotStarted /\ StartingUntilConnected
  BY DEF Init, NotStarted, StartingUntilConnected, NotBegun
<1>5. {g \in Start : Claims(g)} = {}
  BY DEF Init, Claims, NotBegun
<1>6. OneStartPerPort
  BY <1>5 DEF Init, OneStartPerPort
<1>7. QED
  BY <1>3, <1>4, <1>6 DEF IInv

LEMMA IInvStep == IInv /\ [Next]_vars => IInv'
BY TypeStep, NotStartedStep, PortsStep DEF IInv

\* Every step of Lifecycle keeps start-ups apart by their ports, and a handle starting
\* only until it connects.
THEOREM Inductive == Spec => []IInv
BY InitIInv, IInvStep, PTL DEF Spec

\* Entries, start-ups, handles and processes keep their types: whichever
\* sidecars are running, getAvailablePort finds a port (extension.ts).
THEOREM TypeCorrect == Spec => []TypeOK
BY Inductive, PTL DEF IInv

\* No two start-ups share a port, and ongoingStartups holds exactly the ports of
\* those that have not come to the end that gives it back: whichever directories
\* cannot be made, binaries are missing or processes end (extension.ts).
THEOREM StartsArePerPort == Spec => []OneStartPerPort
BY Inductive, PTL DEF IInv

\* A handle in state starting always has its start-up under way.
THEOREM StartingComesOut == Spec => []StartingIsUnderWay
<1>1. IInv => StartingIsUnderWay
  BY DEF IInv, StartingUntilConnected, StartingIsUnderWay, UnderWay, Claims
<1>2. QED
  BY <1>1, Inductive, PTL
=============================================================================
