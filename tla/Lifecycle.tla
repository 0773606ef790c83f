----------------------------- MODULE Lifecycle -----------------------------
(***************************************************************************)
(* How the extension starts, watches and stops sidecars                    *)
(* (zenith-extension/src/extension.ts, sidecar_manager.ts).                *)
(*                                                                         *)
(* The extension has one event loop; what is awaited ends in a step of its *)
(* own, and other handlers run in between.  A start of a sidecar is named  *)
(* by its number, and so are its handle, its manager and its process.      *)
(***************************************************************************)
EXTENDS Naturals, FiniteSets

CONSTANTS
  Root,       \* workspace folders
  Client,     \* bound: calls that ensure, stop or restart a sidecar at a time
  Starts,     \* bound: starts of a sidecar
  Faults,     \* subset of {"exit", "slow", "missing", "indices"}
  None

ASSUME LifecycleAssumption ==
  /\ Starts \in Nat
  /\ None \notin Nat /\ None \notin Root

Start == 1..Starts
\* The configured port, and those after it that getAvailablePort tries.
Port  == 1..(Starts + 1)

VARIABLES
  activeSidecars,   \* root -> the start whose handle it holds
  ongoingStartups,  \* ports a start-up has claimed
  start,            \* start -> root, port, where the start-up stands, the
                    \*   handle's state, and whether its process was told to end
  made,             \* number of starts so far
  process,          \* start -> its process
  pidFile,          \* root -> the start whose process .zenith/sidecar.pid names
  polling,          \* handles with a status call of the polling loop under way
  client            \* calls under way

vars == <<activeSidecars, ongoingStartups, start, made, process,
          pidFile, polling, client>>

Idle     == [does |-> "nothing", root |-> None, of |-> None]
NotBegun == [root |-> None, port |-> None, at |-> "none", state |-> "none",
             killed |-> FALSE]

Init ==
  /\ activeSidecars = [r \in Root |-> None]
  /\ ongoingStartups = {}
  /\ start = [h \in Start |-> NotBegun]
  /\ made = 0
  /\ process = [h \in Start |-> "none"]
  /\ pidFile = [r \in Root |-> None]
  /\ polling = {}
  /\ client = [c \in Client |-> Idle]

-----------------------------------------------------------------------------
\* A status call to a port is answered by whichever process listens there.
Listening(p) == \E h \in Start : process[h] = "alive" /\ start[h].port = p

\* The status call of handle h fails.
MayFail(h) == ~Listening(start[h].port) \/ "slow" \in Faults

IsReady(h) == h # None /\ start[h].state = "ready"

getAvailablePort ==
  CHOOSE p \in Port : ~Listening(p) /\ \A q \in 1..(p - 1) : Listening(q)

\* Mutant: start-ups on a port are not told apart.
MayClaimAny(p) == TRUE

MayClaim(p) == p \notin ongoingStartups

\* From the choice of the port on: the start-up begins and runs on its own,
\* unless one is under way on the port.
Launch(c, r, p) ==
  /\ client' = [client EXCEPT ![c] = Idle]
  /\ IF MayClaim(p)
       THEN /\ made < Starts
            /\ made' = made + 1
            /\ start' = [start EXCEPT ![made + 1] =
                 [NotBegun EXCEPT !.root = r, !.port = p, !.at = "detecting"]]
            /\ ongoingStartups' = ongoingStartups \cup {p}
       ELSE UNCHANGED <<made, start, ongoingStartups>>

\* What ensureSidecarForWorkspace does when it found no handle to keep: while
\* one folder is open it claims the configured port, while more are (the user
\* opens and closes them) it looks for a free one.
Proceed(c, r) ==
  \/ Launch(c, r, 1)
  \/ /\ client' = [client EXCEPT ![c] = [does |-> "probe", root |-> r, of |-> None]]
     /\ UNCHANGED <<made, start, ongoingStartups>>

-----------------------------------------------------------------------------
(* ensureSidecarForWorkspace, up to the start-up.                          *)

Ensure(c, r) ==
  LET h == activeSidecars[r]
  IN  /\ client[c] = Idle
      /\ IF IsReady(h)
           THEN /\ client' = [client EXCEPT ![c] =
                                [does |-> "verify", root |-> r, of |-> h]]
                /\ UNCHANGED <<made, start, ongoingStartups>>
           ELSE /\ h # None => start[h].state = "error"
                /\ Proceed(c, r)
      /\ UNCHANGED <<activeSidecars, process, pidFile, polling>>

VerifyAnswered(c) ==
  /\ client[c].does = "verify"
  /\ Listening(start[client[c].of].port)
  /\ client' = [client EXCEPT ![c] = Idle]
  /\ UNCHANGED <<activeSidecars, ongoingStartups, start, made, process, pidFile,
                 polling>>

\* The handle is stale: the entry goes, whichever handle it holds by now.
VerifyFails(c) ==
  /\ client[c].does = "verify"
  /\ MayFail(client[c].of)
  /\ activeSidecars' = [activeSidecars EXCEPT ![client[c].root] = None]
  /\ Proceed(c, client[c].root)
  /\ UNCHANGED <<process, pidFile, polling>>

Probed(c) ==
  /\ client[c].does = "probe"
  /\ Launch(c, client[c].root, getAvailablePort)
  /\ UNCHANGED <<activeSidecars, process, pidFile, polling>>

-----------------------------------------------------------------------------
(* The start-up, and SidecarManager.start.                                 *)

\* The target port and the framework are known: the handle is registered.
Detected(h) ==
  /\ start[h].at = "detecting"
  /\ start' = [start EXCEPT ![h].at = "clearing", ![h].state = "starting"]
  /\ activeSidecars' = [activeSidecars EXCEPT ![start[h].root] = h]
  /\ UNCHANGED <<ongoingStartups, made, process, pidFile, polling,
                 client>>

\* getGlobalIndexPath cannot create its directory.  Nothing catches the error, so
\* the start-up ends with its port claimed and no handle registered.
DetectFails(h) ==
  /\ "indices" \in Faults
  /\ start[h].at = "detecting"
  /\ start' = [start EXCEPT ![h].at = "failed"]
  /\ UNCHANGED <<activeSidecars, ongoingStartups, made, process, pidFile, polling,
                 client>>

\* killOrphanSidecar ends the process the pid file names; half a second later
\* it removes the file, whatever the file says by then.
killOrphanSidecar(h) ==
  LET q == pidFile[start[h].root]
  IN  /\ start[h].at = "clearing"
      /\ start' = [start EXCEPT ![h].at = IF q = None THEN "spawning" ELSE "unlinking"]
      /\ process' = [g \in Start |-> IF g = q /\ process[g] = "alive" THEN "dead"
                                     ELSE process[g]]
      /\ UNCHANGED <<activeSidecars, ongoingStartups, made, pidFile, polling, client>>

OrphanForgotten(h) ==
  /\ start[h].at = "unlinking"
  /\ start' = [start EXCEPT ![h].at = "spawning"]
  /\ pidFile' = [pidFile EXCEPT ![start[h].root] = None]
  /\ UNCHANGED <<activeSidecars, ongoingStartups, made, process, polling, client>>

\* A sidecar that finds another one serving its folder ends at once.
Spawn(h) ==
  /\ start[h].at = "spawning"
  /\ start' = [start EXCEPT ![h].at = "connecting"]
  /\ process' = [process EXCEPT ![h] =
       IF \E g \in Start : process[g] = "alive" /\ start[g].root = start[h].root
         THEN "dead" ELSE "alive"]
  /\ pidFile' = [pidFile EXCEPT ![start[h].root] = h]
  /\ UNCHANGED <<activeSidecars, ongoingStartups, made, polling, client>>

Connected(h) ==
  /\ start[h].at = "connecting"
  /\ Listening(start[h].port)
  /\ start' = [start EXCEPT ![h].at = "greeting", ![h].state = "ready"]
  /\ UNCHANGED <<activeSidecars, ongoingStartups, made, process, pidFile,
                 polling, client>>

\* Mutant: a start-up that fails leaves the handle as it is.
NotMarked(h) == start[h].state

MarkedFailed(h) == "error"

PortReleased(h) == ongoingStartups \ {start[h].port}

\* start() finds no binary at any of its candidate paths.
NoBinary(h) == start[h].at = "clearing" /\ "missing" \in Faults

\* There is no binary, or nobody answers on the port.
StartFails(h) ==
  /\ \/ NoBinary(h)
     \/ start[h].at = "connecting" /\ ~Listening(start[h].port)
  /\ start' = [start EXCEPT ![h].at = "over", ![h].state = MarkedFailed(h)]
  /\ ongoingStartups' = PortReleased(h)
  /\ UNCHANGED <<activeSidecars, made, process, pidFile, polling,
                 client>>

\* The session status was fetched, or could not be.
Greeted(h) ==
  /\ start[h].at = "greeting"
  /\ start' = [start EXCEPT ![h].at = "over"]
  /\ ongoingStartups' = PortReleased(h)
  /\ UNCHANGED <<activeSidecars, made, process, pidFile, polling,
                 client>>

-----------------------------------------------------------------------------
(* Processes, and the polling loop with syncSidecarStatus.                 *)

Exits(h) ==
  /\ "exit" \in Faults
  /\ process[h] = "alive"
  /\ process' = [process EXCEPT ![h] = "dead"]
  /\ UNCHANGED <<activeSidecars, ongoingStartups, start, made, pidFile,
                 polling, client>>

\* The close event of a process removes the pid file, whoever wrote it.
Closes(h) ==
  /\ process[h] = "dead"
  /\ process' = [process EXCEPT ![h] = "closed"]
  /\ pidFile' = [pidFile EXCEPT ![start[h].root] = None]
  /\ UNCHANGED <<activeSidecars, ongoingStartups, start, made, polling, client>>

Poll(r) ==
  /\ IsReady(activeSidecars[r])
  /\ activeSidecars[r] \notin polling
  /\ polling' = polling \cup {activeSidecars[r]}
  /\ UNCHANGED <<activeSidecars, ongoingStartups, start, made, process, pidFile,
                 client>>

\* Mutant: a poll that fails leaves the state as it is.
NotNoticed(h) == start[h].state

Noticed(h) == "error"

PollEnds(h) ==
  /\ h \in polling
  /\ polling' = polling \ {h}
  /\ \/ Listening(start[h].port) /\ start' = start
     \/ MayFail(h) /\ start' = [start EXCEPT ![h].state = Noticed(h)]
  /\ UNCHANGED <<activeSidecars, ongoingStartups, made, process, pidFile,
                 client>>

-----------------------------------------------------------------------------
(* shutdownSidecarForWorkspace, alone or as the first half of a restart.   *)

\* Once the entry is gone, a restart ensures a sidecar again.
StopEnds(c, r, again) ==
  /\ activeSidecars' = [activeSidecars EXCEPT ![r] = None]
  /\ IF again THEN Proceed(c, r)
     ELSE /\ client' = [client EXCEPT ![c] = Idle]
          /\ UNCHANGED <<made, start, ongoingStartups>>

\* A manager without a process has nothing to wait for.
StopAtOnce(c, r, again) ==
  LET h == activeSidecars[r]
  IN  /\ client[c] = Idle
      /\ h # None /\ (process[h] = "none" \/ start[h].killed)
      /\ StopEnds(c, r, again)
      /\ UNCHANGED <<process, pidFile, polling>>

\* SIGTERM ends the process; the manager waits three seconds all the same.
StopBegins(c, r, again) ==
  LET h == activeSidecars[r]
  IN  /\ client[c] = Idle
      /\ h # None /\ process[h] # "none" /\ ~start[h].killed
      /\ process' = [process EXCEPT ![h] = IF @ = "alive" THEN "dead" ELSE @]
      /\ start' = [start EXCEPT ![h].killed = process[h] = "alive"]
      /\ client' = [client EXCEPT ![c] =
           [does |-> IF again THEN "restart" ELSE "stop", root |-> r, of |-> h]]
      /\ UNCHANGED <<activeSidecars, ongoingStartups, made, pidFile, polling>>

Stopped(c) ==
  /\ client[c].does \in {"stop", "restart"}
  /\ StopEnds(c, client[c].root, client[c].does = "restart")
  /\ UNCHANGED <<process, pidFile, polling>>

-----------------------------------------------------------------------------
StartStep(h) ==
  \/ Detected(h) \/ DetectFails(h)
  \/ killOrphanSidecar(h) \/ OrphanForgotten(h) \/ Spawn(h)
  \/ Connected(h) \/ StartFails(h) \/ Greeted(h)

Next ==
  \/ \E h \in Start : StartStep(h)
  \/ \E c \in Client, r \in Root :
       \/ Ensure(c, r)
       \/ \E again \in BOOLEAN : StopAtOnce(c, r, again) \/ StopBegins(c, r, again)
  \/ \E c \in Client : VerifyAnswered(c) \/ VerifyFails(c) \/ Probed(c) \/ Stopped(c)
  \/ \E h \in Start : Exits(h) \/ Closes(h) \/ PollEnds(h)
  \/ \E r \in Root : Poll(r)

\* Promises of a start-up settle, the interval timer goes off and status calls
\* settle (RpcClient!EveryCallSettles).
Fairness ==
  /\ \A h \in Start : WF_vars(StartStep(h)) /\ WF_vars(PollEnds(h))
  /\ \A r \in Root : WF_vars(Poll(r))

Spec == Init /\ [][Next]_vars /\ Fairness

-----------------------------------------------------------------------------
(* Correctness.                                                            *)

TypeOK ==
  /\ activeSidecars \in [Root -> Start \cup {None}]
  /\ ongoingStartups \subseteq Port
  /\ start \in [Start ->
       [root : Root \cup {None}, port : Port \cup {None},
        at : {"none", "detecting", "clearing", "unlinking", "spawning",
              "connecting", "greeting", "over", "failed"},
        state : {"none", "starting", "ready", "error"}, killed : BOOLEAN]]
  /\ made \in 0..Starts
  /\ process \in [Start -> {"none", "alive", "dead", "closed"}]
  /\ pidFile \in [Root -> Start \cup {None}]
  /\ polling \subseteq Start
  /\ client \in [Client ->
       [does : {"nothing", "verify", "probe", "stop", "restart"},
        root : Root \cup {None}, of : Start \cup {None}]]

\* The start-up has not come to the end that gives its port back.
Claims(h) == start[h].at \notin {"none", "over"}

UnderWay(h) == Claims(h) /\ start[h].at # "failed"

\* A port is claimed by the one start-up that has not come to its end, and by
\* none once it has: neither a failed spawn or connect nor a stop, a restart or a
\* second call in between leaves a claim behind or lets two start-ups share a
\* port.
OneStartPerPort ==
  /\ ongoingStartups = {start[h].port : h \in {g \in Start : Claims(g)}}
  /\ \A g, h \in Start :
       Claims(g) /\ Claims(h) /\ start[g].port = start[h].port => g = h

\* A claimed port has a start-up under way.  A claim that stayed behind turns
\* every later start on its port into nothing, without an error.  It does not
\* hold: nothing gives the port back when getGlobalIndexPath fails
\* (LifecyclePort.cfg).
ClaimedIsUnderWay ==
  \A p \in ongoingStartups : \E h \in Start : UnderWay(h) /\ start[h].port = p

\* A handle in state starting has a start-up that will bring it out of it.
\* ensureSidecarForWorkspace returns at once when it meets such a handle, so one
\* left behind would keep its folder from ever being served again.
StartingIsUnderWay ==
  \A h \in Start : start[h].state = "starting" => UnderWay(h)

\* A registered sidecar that is gone does not stay ready: the polling loop
\* notices, whatever is started and stopped meanwhile.
DeadButReady(h) ==
  IsReady(h) /\ ~Listening(start[h].port) /\ \E r \in Root : activeSidecars[r] = h

DeadIsNoticed == \A h \in Start : DeadButReady(h) ~> ~DeadButReady(h)

\* The map has the entry of every sidecar that was started and not told to end:
\* otherwise it runs unseen, and every command of its folder does nothing.  It
\* does not hold: a stop or a failed verification takes out the entry of a
\* start that came in between (LifecycleOrphan.cfg).
StartedIsRegistered ==
  \A h \in Start :
    start[h].at = "over" /\ IsReady(h) /\ process[h] = "alive" /\ ~start[h].killed
      => activeSidecars[start[h].root] = h
=============================================================================
