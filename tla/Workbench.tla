----------------------------- MODULE Workbench -----------------------------
(***************************************************************************)
(* The panels of the extension and the projects they show                  *)
(* (zenith-extension/src/extension.ts): which workspace a command is for,  *)
(* ZenithPanel and its single currentPanel, the sidebar view, and the      *)
(* detection of development servers with its cache.                        *)
(*                                                                         *)
(* What awaits a detection is a job.  The servers are their ports.         *)
(***************************************************************************)
EXTENDS Integers, FiniteSets, Sequences, SequencesExt

CONSTANTS
  Root,     \* workspaces
  Own,      \* those whose path names Zenith's own source
  Demo,     \* those whose path names zenith-demo
  Config,   \* those with a zenith.config.ts, and the port it names
  ConfigPort,
  Vite,     \* those whose vite.config.ts names a port, and that port
  VitePort,
  Setting,  \* zenith.devServerPort, 0 when it is not set
  Separate, \* zenith.launchInSeparateWindow
  Port,     \* those of COMMON_DEV_PORTS that may have a server
  Sandbox,  \* the port of a sidecar's sandbox proxy
  Folders,  \* the workspace folders
  Asked,    \* bound: messages and commands
  Panel,    \* bound: panels open at a time
  Typed,    \* ports the user types in
  Sidebar,  \* the sidebar view
  Slot,     \* bound: jobs under way at a time
  TTL,      \* DEV_SERVER_CACHE_TTL_MS, in ticks; a probe takes one at most
  Asks,     \* the messages and commands that come in
  None

ASSUME WorkbenchAssumption ==
  /\ Folders \subseteq Root /\ Own \subseteq Root /\ Demo \subseteq Root
  /\ Config \subseteq Root /\ Vite \subseteq Root
  /\ ConfigPort \in Nat /\ VitePort \in Nat /\ Typed \subseteq Nat
  /\ Port \subseteq Nat \ {0, 8080, 8081, 8082} /\ Sandbox \in Nat
  /\ Asked \in Nat /\ Setting \in Nat /\ TTL \in Nat \ {0}
  /\ Sidebar \notin Panel /\ None \notin Panel
  /\ Separate \in BOOLEAN
  /\ None # "visualEdit" \* None is no kind of job

VARIABLES
  lastValid, \* lastValidWorkspaceRoot
  view,      \* panel -> "closed", "main" or "separate"
  root,      \* panel -> its workspace
  current,   \* ZenithPanel.currentPanel
  posted,    \* what the last step told a webview: [to, project, port]
  asked,     \* number of messages and commands so far
  up,        \* ports with a server
  ago,       \* port -> ticks since it last had one, TTL + 2 at most
  cache,     \* _devServerCache: the servers found and its age, TTL when too old
  job        \* slot -> a job

panels  == <<view, root, current>>
servers == <<up, ago, cache>>
vars    == <<lastValid, panels, posted, asked, servers, job>>

Webview == Panel \cup {Sidebar}
NoJob   == [kind |-> None, for |-> None, root |-> None, at |-> "idle",
            found |-> {}, typed |-> 0]

Open == {p \in Panel : view[p] # "closed"}

Init ==
  \* activate primes the demo project of a folder.
  /\ lastValid \in IF Demo \cap Folders = {} THEN {None} ELSE Demo \cap Folders
  /\ view = [p \in Panel |-> "closed"]
  /\ root = [p \in Panel |-> None]
  /\ current = None
  /\ posted = {} /\ asked = 0
  /\ up = {} /\ ago = [n \in Port |-> TTL + 2]
  /\ cache = [found |-> {}, age |-> TTL]
  /\ job = [s \in Slot |-> NoJob]

-----------------------------------------------------------------------------
(* The workspace a command is for.                                         *)

\* resolveTargetWorkspace: the workspace, and lastValidWorkspaceRoot after it.  With
\* several folders and no hint the user picks one of them or none.
Targets(editor) ==
  CASE Folders = {} -> {<<None, lastValid>>}
    [] Folders # {} /\ editor # None /\ editor \notin Own -> {<<editor, editor>>}
    [] Folders # {} /\ editor \in Own /\ lastValid # None -> {<<lastValid, lastValid>>}
    [] OTHER ->
         IF Cardinality(Folders) = 1
           THEN {<<r, IF r \in Own THEN lastValid ELSE r>> : r \in Folders}
           ELSE {<<r, lastValid>> : r \in Folders \cup {None}}

\* A command for workspace r; editor is the project of the active editor's file.
For(r) ==
  /\ asked < Asked /\ asked' = asked + 1
  /\ r # None
  /\ \E editor \in Root \cup {None} : \E t \in Targets(editor) : t[1] = r /\ lastValid' = t[2]

\* A message: for a panel's own workspace, or what is resolved for the sidebar.
From(w, r) ==
  \/ w = Sidebar /\ For(r)
  \/ /\ w \in Open /\ r = root[w]
     /\ asked < Asked /\ asked' = asked + 1
     /\ UNCHANGED lastValid

-----------------------------------------------------------------------------
(* Panels.                                                                 *)

\* dispose forgets the current panel, whichever of them goes.
CurrentAfter(p) == None

WithoutPanel(p) ==
  [s \in Slot |-> IF job[s].for = p THEN [job[s] EXCEPT !.for = None] ELSE job[s]]

\* onDidDispose: the user closes the panel.
Close(p) ==
  /\ p \in Open
  /\ view' = [view EXCEPT ![p] = "closed"]
  /\ root' = [root EXCEPT ![p] = None]
  /\ current' = CurrentAfter(p)
  /\ job' = WithoutPanel(p)
  /\ posted' = {}
  /\ UNCHANGED <<lastValid, asked, servers>>

\* Mutant: a window of its own takes the current panel's place like any other.
ReusesAlways(separate) == current # None

MayReuse(separate) == ~separate /\ current # None

\* createOrShow for workspace r; job s, if there is a new panel, tells it its project.
CreateOrShow(s, r, separate) ==
  IF MayReuse(separate) /\ root[current] = r
    THEN /\ job' = [job EXCEPT ![s] = NoJob]
         /\ UNCHANGED panels
    ELSE LET old == IF MayReuse(separate) THEN {current} ELSE {}
         IN  \E p \in (Panel \ Open) \cup old :
               /\ view' = [v \in Panel |->
                     IF v = p THEN (IF separate THEN "separate" ELSE "main")
                     ELSE IF v \in old THEN "closed" ELSE view[v]]
               /\ root' = [v \in Panel |->
                     IF v = p THEN r ELSE IF v \in old THEN None ELSE root[v]]
               /\ current' = IF separate THEN current ELSE p
               /\ job' = [t \in Slot |->
                     IF t = s THEN [NoJob EXCEPT !.kind = "update", !.for = p, !.root = r,
                                                 !.at = "begun"]
                     ELSE IF job[t].for \in old THEN [job[t] EXCEPT !.for = None]
                     ELSE job[t]]

-----------------------------------------------------------------------------
(* Messages and commands.                                                  *)

Begin(s, kind, w, r, n) ==
  /\ kind \in Asks
  /\ job[s] = NoJob
  /\ job' = [job EXCEPT ![s] = [kind |-> kind, for |-> w, root |-> r, at |-> "begun",
                                found |-> {}, typed |-> n]]
  /\ posted' = {}
  /\ UNCHANGED servers

Shows(s, kind, r, separate) ==
  /\ kind \in Asks
  /\ job[s] = NoJob
  /\ CreateOrShow(s, r, separate)
  /\ posted' = {}
  /\ UNCHANGED servers

\* zenith.visualEdit awaits the sidecar before it opens a panel; the start of any
\* sidecar asks resolveProjectPort.
VisualEdit(s, r) == For(r) /\ Begin(s, "visualEdit", None, r, 0) /\ UNCHANGED panels
StartSidecar(s, r) == For(r) /\ Begin(s, "port", None, r, 0) /\ UNCHANGED panels

OpenSeparateWindow(s, r) == For(r) /\ Shows(s, "openSeparateWindow", r, TRUE)

\* In the mode "editor" a panel beside; in the mode "window" a window for the sidebar,
\* while a panel is only moved, which changes nothing here.
PopOut(s, w, r, mode) ==
  /\ mode = "window" => w = Sidebar
  /\ From(w, r)
  /\ Shows(s, "popOut", r, mode = "window")

\* Another window, whoever asks.
OpenNewInstance(s, w, r) == From(w, r) /\ Shows(s, "openNewInstance", r, TRUE)

Ready(s, w, r) == From(w, r) /\ Begin(s, "ready", w, r, 0) /\ UNCHANGED panels
DetectDevServer(s, w, r) ==
  From(w, r) /\ Begin(s, "detectDevServer", w, r, 0) /\ UNCHANGED panels

\* To the demo project when its port is asked for, to the only folder, or to the
\* sender's project.
Targeted(r, n) ==
  IF n = 3009 /\ Folders \cap Demo # {} THEN Folders \cap Demo
  ELSE IF Cardinality(Folders) = 1 THEN Folders ELSE {r}

\* manualConnect moves the current panel, whoever asks.
ManualConnect(s, w, r, n) ==
  /\ From(w, r)
  /\ \E t \in Targeted(r, n) :
       /\ root' = IF current = None THEN root ELSE [root EXCEPT ![current] = t]
       /\ Begin(s, "manualConnect", w, t, n)
  /\ UNCHANGED <<view, current>>

-----------------------------------------------------------------------------
(* Jobs: what resolveProjectPort, resolveDevServerUrl and initializeProject *)
(* answer, and whom they tell.                                             *)

COMMON_DEV_PORTS == <<3009, 3000, 5173, 5174, 4173, 4321, 5500>>

\* The server listed first; the order of the list is that of the probes.
First(found) ==
  LET listed == {i \in DOMAIN COMMON_DEV_PORTS : COMMON_DEV_PORTS[i] \in found}
  IN  IF listed = {} THEN 0 ELSE COMMON_DEV_PORTS[Min(listed)]

\* initializeProject, with and without a zenith.config.ts.
ProjectServer(r, found) ==
  CASE r \in Config -> ConfigPort
    [] r \in Demo \ Config -> 3009
    [] OTHER -> IF found = {} THEN 3000 ELSE First(found)

\* resolveProjectPort, 0 for null.
ProjectPort(r, found) ==
  CASE r \in Demo -> 3009
    [] r \notin Demo /\ Setting # 0 -> IF Setting = 8080 THEN 0 ELSE Setting
    [] OTHER -> IF r \in Config THEN ConfigPort ELSE IF r \in Vite THEN VitePort
                ELSE First(found)

NeedsServers(j) ==
  CASE j.kind = "port" -> Setting = 0 /\ j.root \notin Demo \cup Config \cup Vite
    [] j.kind = "detectDevServer" -> Setting = 0
    [] OTHER -> j.root \notin Config

\* A webview that is ready is told the sandbox when there is a sidecar.
Answers(j, found) ==
  CASE j.kind = "port" -> {ProjectPort(j.root, found)}
    [] j.kind = "detectDevServer" -> {Setting}
    [] j.kind = "manualConnect" -> {j.typed}
    [] j.kind = "ready" -> {ProjectServer(j.root, found), Sandbox}
    [] OTHER -> {ProjectServer(j.root, found)}

\* The name comes with the server, for an update the panel's root of that moment.
Post(j, n) ==
  IF n = 0 \/ j.for = None THEN {}
  ELSE LET r == IF j.kind = "update" THEN root[j.for] ELSE j.root
       IN  {[to      |-> j.for,
             port    |-> IF j.kind = "update" /\ r \in Demo THEN 3009 ELSE n,
             project |-> IF j.kind = "detectDevServer" THEN None ELSE r]}

\* resolveDevServerUrl asks the user, unless a port is set.
AsksUser(j) == j.kind = "detectDevServer" /\ Setting = 0

\* The servers are known: the webview is told, or the user is asked first.
Finish(s, found) ==
  IF AsksUser(job[s])
    THEN /\ job' = [job EXCEPT ![s].at = "asking", ![s].found = found]
         /\ posted' = {}
    ELSE /\ job' = [job EXCEPT ![s] = NoJob]
         /\ \E n \in Answers(job[s], found) : posted' = Post(job[s], n)

\* The user picks or confirms a server, types another, or dismisses the dialogs
\* (0), however long they were open.
UserAnswers(s) ==
  /\ job[s].at = "asking"
  /\ job' = [job EXCEPT ![s] = NoJob]
  /\ \E n \in job[s].found \cup Typed \cup {0} : posted' = Post(job[s], n)
  /\ UNCHANGED <<lastValid, asked, panels, servers>>

\* Mutant: the age of the cache is not looked at.
AnyAge == cache.found # {}

CacheHolds == cache.age < TTL

\* visualEdit has its sidecar, or the start failed and there is no panel.
Started(s) ==
  /\ job[s].kind = "visualEdit"
  /\ \/ CreateOrShow(s, job[s].root, Separate)
     \/ job' = [job EXCEPT ![s] = NoJob] /\ UNCHANGED panels
  /\ posted' = {}
  /\ UNCHANGED <<lastValid, asked, servers>>

\* detectDevServers: an answer without servers, from the cache, or a probe.
Detect(s) ==
  /\ job[s].at = "begun" /\ job[s].kind # "visualEdit"
  /\ IF ~NeedsServers(job[s]) \/ CacheHolds
       THEN Finish(s, cache.found)
       ELSE /\ job' = [job EXCEPT ![s].at = "probing", ![s].found = up]
            /\ posted' = {}
  /\ UNCHANGED <<lastValid, asked, panels, servers>>

\* A server that came or went during the probe may or may not be found.
ProbeEnds(s) ==
  /\ job[s].at \in {"probing", "late"}
  /\ \E found \in SUBSET (job[s].found \cup up) :
       /\ job[s].found \cap up \subseteq found
       /\ cache' = [found |-> found, age |-> 0]
       /\ Finish(s, found)
  /\ UNCHANGED <<lastValid, asked, panels, up, ago>>

-----------------------------------------------------------------------------
(* The servers and time.                                                   *)

Toggle(n) ==
  /\ up' = IF n \in up THEN up \ {n} ELSE up \cup {n}
  /\ ago' = [ago EXCEPT ![n] = 0]
  /\ posted' = {}
  /\ UNCHANGED <<lastValid, asked, panels, cache, job>>

\* A probe gives up after a second.
Tick ==
  /\ \A s \in Slot : job[s].at # "late"
  /\ ago' = [n \in Port |-> IF n \in up \/ ago[n] > TTL + 1 THEN ago[n] ELSE ago[n] + 1]
  /\ cache' = [cache EXCEPT !.age = IF @ < TTL THEN @ + 1 ELSE @]
  /\ job' = [s \in Slot |-> IF job[s].at = "probing" THEN [job[s] EXCEPT !.at = "late"]
                            ELSE job[s]]
  /\ posted' = {}
  /\ UNCHANGED <<lastValid, asked, panels, up>>

Next ==
  \/ \E s \in Slot, r \in Root :
       \/ VisualEdit(s, r) \/ StartSidecar(s, r) \/ OpenSeparateWindow(s, r)
       \/ \E w \in Webview :
            \/ PopOut(s, w, r, "window") \/ PopOut(s, w, r, "editor")
            \/ OpenNewInstance(s, w, r)
            \/ Ready(s, w, r) \/ DetectDevServer(s, w, r)
            \/ \E n \in Typed : ManualConnect(s, w, r, n)
  \/ \E s \in Slot : Started(s) \/ Detect(s) \/ ProbeEnds(s) \/ UserAnswers(s)
  \/ \E p \in Panel : Close(p)
  \/ \E n \in Port : Toggle(n)
  \/ Tick

Spec == Init /\ [][Next]_vars

-----------------------------------------------------------------------------
(* Correctness.                                                            *)

TypeOK ==
  /\ lastValid \in Root \cup {None}
  /\ asked \in 0..Asked
  /\ view \in [Panel -> {"closed", "main", "separate"}]
  /\ \A p \in Panel : root[p] \in (IF p \in Open THEN Root ELSE {None})
  /\ current \in Panel \cup {None}
  /\ posted \subseteq [to : Webview, project : Root \cup {None}, port : Nat]
  /\ up \subseteq Port /\ ago \in [Port -> 0..(TTL + 2)]
  /\ cache \in [found : SUBSET Port, age : 0..TTL]
  /\ \A s \in Slot : /\ job[s].for \in Open \cup {Sidebar, None}
                     /\ job[s].root \in Root \cup {None}
                     /\ job[s].at \in {"idle", "begun", "probing", "late", "asking"}
                     /\ job[s].found \subseteq Port
                     /\ job[s].typed \in Typed \cup {0}

\* The panel that createOrShow reveals, and that manualConnect moves, is an open
\* main panel, whatever was closed, replaced or opened in the meantime.
CurrentIsOpen == current # None => view[current] = "main"

\* There is one main panel.  It does not hold: whichever panel goes, dispose
\* forgets the current one, and the next command opens another beside it
\* (WorkbenchMain.cfg).
OneMainPanel ==
  \A p, q \in Panel : view[p] = "main" /\ view[q] = "main" => p = q

\* A panel the user does not close only goes when another main panel takes its
\* place: windows of their own (popOut, openNewInstance) come in addition.
PanelStays ==
  [][\A p \in Open :
       view'[p] = "closed" =>
         \/ Close(p)
         \/ /\ p = current
            /\ current' # None
            /\ view'[current'] = "main"]_vars

\* What is neither configured, typed nor a fallback.
Detected == Port \ ({Setting, ConfigPort, VitePort, 3000, 3009, Sandbox} \cup Typed)

Fresh(n) == n \in up \/ ago[n] <= TTL

\* A server a webview is told of without a question was there when the cached list
\* was made, which is at most TTL and a probe ago, whatever probes overlap and
\* overwrite the cache; and so was every server the user is offered when the
\* dialogs open.
ServersAreFresh ==
  [][/\ \A m \in posted' :
          m.port \in Detected => Fresh(m.port) \/ \E s \in Slot : UserAnswers(s)
     /\ \A s \in Slot : job[s].at # "asking" /\ job'[s].at = "asking" =>
          \A n \in job'[s].found \cap Detected : Fresh(n)]_vars

\* A server a webview is told of is there or was at most TTL and a probe ago.  It
\* does not hold: the list is not looked at again when the user answers
\* (WorkbenchDialog.cfg).
ToldIsFresh == [][\A m \in posted' : m.port \in Detected => Fresh(m.port)]_vars

\* A webview that was told it is switched to a project shows that project: what it
\* asks for next is done there.  It does not hold: manualConnect moves the
\* current panel, which need not be the one that asked (WorkbenchSwitch.cfg).
SwitchedIsMoved ==
  [][\A s \in Slot, m \in posted' :
       job[s].kind = "manualConnect" /\ job'[s] = NoJob /\ m.to \in Open
         => root[m.to] = m.project]_vars
=============================================================================
