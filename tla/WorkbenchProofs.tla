-------------------------- MODULE WorkbenchProofs --------------------------
(***************************************************************************)
(* Proofs about Workbench, for every set of workspaces, whatever they      *)
(* configure, of panels, of jobs and of servers, and for every TTL.        *)
(***************************************************************************)
EXTENDS Workbench, TLAPS, WellFoundedInduction

Kinds == {None, "update", "visualEdit", "port", "ready", "detectDevServer", "manualConnect"}

JobRecord ==
  [kind : Kinds, for : Webview \cup {None}, root : Root \cup {None},
   at : {"idle", "begun", "probing", "late", "asking"},
   found : SUBSET Port, typed : Typed \cup {0}]
Message == [to : Webview, project : Root \cup {None}, port : Nat]

\* An open panel has a workspace, and the current panel is an open main panel:
\* that is what manualConnect moves.
Panels ==
  /\ view \in [Panel -> {"closed", "main", "separate"}]
  /\ root \in [Panel -> Root \cup {None}]
  /\ \A p \in Panel : root[p] \in (IF p \in Open THEN Root ELSE {None})
  /\ current \in Panel \cup {None}
  /\ CurrentIsOpen

\* A job tells an open panel or the sidebar, an update a panel that is still open,
\* and a panel is opened for a workspace.
Jobs ==
  /\ job \in [Slot -> JobRecord]
  /\ \A s \in Slot :
       /\ job[s].for \in Open \cup {Sidebar, None}
       /\ job[s].kind = "update" => job[s].for \in Open \cup {None}
       /\ job[s].kind = "visualEdit" => job[s].root \in Root

\* A list of servers is at most one tick older than its cache entry, because no
\* probe takes more.
Servers ==
  /\ up \subseteq Port /\ ago \in [Port -> 0..(TTL + 2)]
  /\ cache \in [found : SUBSET Port, age : 0..TTL]
  /\ cache.age < TTL => \A n \in cache.found : n \in up \/ ago[n] <= cache.age + 1

Probes ==
  \A s \in Slot :
    /\ job[s].at = "probing" => \A n \in job[s].found : n \in up \/ ago[n] = 0
    /\ job[s].at = "late" => \A n \in job[s].found : n \in up \/ ago[n] <= 1

Rest ==
  /\ lastValid \in Root \cup {None} /\ asked \in 0..Asked
  /\ posted \subseteq Message

IInv == Panels /\ Jobs /\ Servers /\ Probes /\ Rest

-----------------------------------------------------------------------------
(* The workspace a command is for.                                         *)

LEMMA ForTypes ==
  ASSUME Rest, NEW r, For(r)
  PROVE  lastValid' \in Root \cup {None} /\ asked' \in 0..Asked
<1>1. PICK editor \in Root \cup {None} : \E t \in Targets(editor) : t[1] = r /\ lastValid' = t[2]
  BY DEF For
<1>2. \A t \in Targets(editor) : t[2] \in Root \cup {None}
  <2>1. Folders \subseteq Root /\ lastValid \in Root \cup {None} /\ editor \in Root \cup {None}
    BY WorkbenchAssumption DEF Rest
  <2>2. QED
    BY <2>1 DEF Targets
<1>3. asked' \in 0..Asked
  BY WorkbenchAssumption DEF For, Rest
<1>4. QED
  BY <1>1, <1>2, <1>3

LEMMA FromTypes ==
  ASSUME Panels, Rest, NEW w \in Webview, NEW r \in Root, From(w, r)
  PROVE  /\ lastValid' \in Root \cup {None} /\ asked' \in 0..Asked
         /\ w \in Open \cup {Sidebar}
<1>1. CASE w = Sidebar /\ For(r)
  BY <1>1, ForTypes
<1>2. CASE w \in Open /\ asked < Asked /\ asked' = asked + 1 /\ UNCHANGED lastValid
  BY <1>2, WorkbenchAssumption DEF Rest
<1>3. QED
  BY <1>1, <1>2 DEF From

-----------------------------------------------------------------------------
(* Panels.                                                                 *)

\* What a panel that stays needs: one that is not closed by the user only goes
\* for another main panel.
Replaced == \A p \in Open : view'[p] = "closed" => p = current /\ current' # None /\ view'[current'] = "main"

\* The panels and the jobs after createOrShow.
LEMMA CreateOrShowStep ==
  ASSUME Panels, Jobs, NEW s \in Slot, NEW r \in Root, NEW separate \in BOOLEAN,
         CreateOrShow(s, r, separate)
  PROVE  /\ Panels' /\ Jobs' /\ Replaced
         /\ \A t \in Slot : \/ job'[t].at = job[t].at /\ job'[t].found = job[t].found
                            \/ job'[t].at \in {"idle", "begun"}
<1>0. /\ view \in [Panel -> {"closed", "main", "separate"}] /\ root \in [Panel -> Root \cup {None}]
      /\ current \in Panel \cup {None} /\ job \in [Slot -> JobRecord] /\ Open \subseteq Panel
      /\ None \notin Panel /\ NoJob \in JobRecord
  BY WorkbenchAssumption DEF Panels, Jobs, Open, NoJob, JobRecord, Kinds
<1>1. CASE /\ job' = [job EXCEPT ![s] = NoJob]
           /\ UNCHANGED panels
  <2>1. Panels' /\ Replaced
    BY <1>1 DEF panels, Panels, Open, CurrentIsOpen, Replaced
  <2>2. \A t \in Slot : job'[t] = IF t = s THEN NoJob ELSE job[t]
    BY <1>0, <1>1
  <2>3. Jobs'
    BY <1>0, <1>1, <2>2, WorkbenchAssumption DEF Jobs, panels, Open, NoJob
  <2>4. QED
    BY <2>1, <2>2, <2>3 DEF NoJob
<1>2. CASE ~(MayReuse(separate) /\ root[current] = r)
  <2> DEFINE old == IF MayReuse(separate) THEN {current} ELSE {}
  <2>1. PICK p \in (Panel \ Open) \cup old :
          /\ view' = [v \in Panel |->
                IF v = p THEN (IF separate THEN "separate" ELSE "main")
                ELSE IF v \in old THEN "closed" ELSE view[v]]
          /\ root' = [v \in Panel |->
                IF v = p THEN r ELSE IF v \in old THEN None ELSE root[v]]
          /\ current' = IF separate THEN current ELSE p
          /\ job' = [t \in Slot |->
                IF t = s THEN [NoJob EXCEPT !.kind = "update", !.for = p, !.root = r,
                                            !.at = "begun"]
                ELSE IF job[t].for \in old THEN [job[t] EXCEPT !.for = None]
                ELSE job[t]]
    BY <1>2 DEF CreateOrShow
  <2>2. old \subseteq {current} /\ (old # {} => current # None /\ ~separate) /\ p \in Panel
    BY <1>0 DEF MayReuse
  <2>3. old \subseteq Open
    BY <1>0, <2>2 DEF Panels, CurrentIsOpen, Open
  <2> HIDE DEF old
  <2>4. Open' = (Open \ old) \cup {p}
    BY <1>0, <2>1, <2>2, <2>3 DEF Open
  <2>5. /\ view' \in [Panel -> {"closed", "main", "separate"}] /\ root' \in [Panel -> Root \cup {None}]
        /\ current' \in Panel \cup {None}
    BY <1>0, <2>1, <2>2
  <2>6. \A v \in Panel : root'[v] \in (IF v \in Open' THEN Root ELSE {None})
    BY <1>0, <2>1, <2>2, <2>3, <2>4 DEF Panels
  <2>7. CurrentIsOpen'
    <3>1. CASE separate
      <4>1. p \notin Open /\ old = {} /\ current' = current
        BY <2>1, <2>2, <3>1
      <4>2. current # None => current \in Open /\ view[current] = "main"
        BY <1>0 DEF Panels, CurrentIsOpen, Open
      <4>3. QED
        BY <1>0, <2>1, <4>1, <4>2 DEF CurrentIsOpen
    <3>2. CASE ~separate
      BY <2>1, <2>2, <3>2 DEF CurrentIsOpen
    <3>3. QED
      BY <3>1, <3>2
  <2>8. Replaced
    <3>1. ASSUME NEW q \in Open, view'[q] = "closed"
          PROVE  q = current /\ current' # None /\ view'[current'] = "main"
      <4>1. q # p /\ q \in old
        BY <1>0, <2>1, <3>1 DEF Open
      <4>2. q = current /\ ~separate
        BY <2>2, <4>1
      <4>3. QED
        BY <1>0, <2>1, <2>2, <4>2
    <3>2. QED
      BY <3>1 DEF Replaced
  <2>9. ASSUME NEW t \in Slot
        PROVE  /\ job'[t] \in JobRecord
               /\ job'[t].for \in Open' \cup {Sidebar, None}
               /\ job'[t].kind = "update" => job'[t].for \in Open' \cup {None}
               /\ job'[t].kind = "visualEdit" => job'[t].root \in Root
               /\ \/ job'[t].at = job[t].at /\ job'[t].found = job[t].found
                  \/ job'[t].at \in {"idle", "begun"}
    <3>1. CASE t = s
      BY <1>0, <2>1, <2>2, <2>4, <3>1 DEF JobRecord, NoJob, Kinds, Webview
    <3>2. CASE t # s /\ job[t].for \in old
      <4>1. job'[t] = [job[t] EXCEPT !.for = None] /\ job[t] \in JobRecord
        BY <1>0, <2>1, <3>2
      <4>2. QED
        BY <4>1 DEF JobRecord, Jobs
    <3>3. CASE t # s /\ job[t].for \notin old
      BY <1>0, <2>1, <2>4, <3>3 DEF Jobs
    <3>4. QED
      BY <3>1, <3>2, <3>3
  <2>10. Jobs'
    <3>1. job' \in [Slot -> JobRecord]
      BY <2>1, <2>9
    <3>2. QED
      BY <2>9, <3>1 DEF Jobs
  <2>11. QED
    BY <2>5, <2>6, <2>7, <2>8, <2>9, <2>10 DEF Panels
<1>3. QED
  BY <1>1, <1>2 DEF CreateOrShow

\* The user closes a panel.
LEMMA CloseStep ==
  ASSUME Panels, Jobs, NEW p \in Panel, Close(p)
  PROVE  /\ Panels' /\ Jobs'
         /\ \A q \in Open : view'[q] = "closed" => q = p
         /\ \A t \in Slot : job'[t].at = job[t].at /\ job'[t].found = job[t].found
<1>0. /\ view \in [Panel -> {"closed", "main", "separate"}] /\ root \in [Panel -> Root \cup {None}]
      /\ job \in [Slot -> JobRecord] /\ Open \subseteq Panel
  BY DEF Panels, Jobs, Open
<1>1. /\ view' = [view EXCEPT ![p] = "closed"] /\ root' = [root EXCEPT ![p] = None]
      /\ current' = None /\ job' = WithoutPanel(p)
  BY DEF Close, CurrentAfter
<1>2. Open' = Open \ {p}
  BY <1>0, <1>1 DEF Open
<1>3. Panels'
  BY <1>0, <1>1, <1>2 DEF Panels, CurrentIsOpen
<1>4. ASSUME NEW t \in Slot
      PROVE  /\ job'[t] \in JobRecord
             /\ job'[t].for \in Open' \cup {Sidebar, None}
             /\ job'[t].kind = "update" => job'[t].for \in Open' \cup {None}
             /\ job'[t].kind = "visualEdit" => job'[t].root \in Root
             /\ job'[t].at = job[t].at /\ job'[t].found = job[t].found
  <2>1. job[t] \in JobRecord /\ job'[t] = IF job[t].for = p THEN [job[t] EXCEPT !.for = None] ELSE job[t]
    BY <1>0, <1>1 DEF WithoutPanel
  <2>2. CASE job[t].for = p
    BY <2>1, <2>2 DEF JobRecord, Jobs
  <2>3. CASE job[t].for # p
    BY <1>2, <2>1, <2>3 DEF Jobs
  <2>4. QED
    BY <2>2, <2>3
<1>5. Jobs'
  <2>1. job' \in [Slot -> JobRecord]
    BY <1>1, <1>4 DEF WithoutPanel
  <2>2. QED
    BY <1>4, <2>1 DEF Jobs
<1>6. \A q \in Open : view'[q] = "closed" => q = p
  BY <1>0, <1>1 DEF Open
<1>7. QED
  BY <1>3, <1>4, <1>5, <1>6

-----------------------------------------------------------------------------
(* Messages and commands.                                                  *)

\* Jobs that go on as they were, or begin, keep what is known of their probes.
LEMMA ProbesKept ==
  ASSUME Probes, UNCHANGED <<up, ago>>,
         \A t \in Slot : \/ job'[t].at = job[t].at /\ job'[t].found = job[t].found
                         \/ job'[t].at \in {"idle", "begun", "asking"}
  PROVE  Probes'
BY DEF Probes

LEMMA BeginStep ==
  ASSUME Jobs, NEW s \in Slot, NEW kind \in Kinds \ {"update"}, NEW w \in Open \cup {Sidebar, None},
         NEW r \in Root, NEW n \in Typed \cup {0}, Begin(s, kind, w, r, n), Open' = Open
  PROVE  /\ Jobs'
         /\ \A t \in Slot : \/ job'[t].at = job[t].at /\ job'[t].found = job[t].found
                            \/ job'[t].at \in {"idle", "begun"}
<1> DEFINE new == [kind |-> kind, for |-> w, root |-> r, at |-> "begun", found |-> {}, typed |-> n]
<1>1. new \in JobRecord /\ new.for = w /\ new.root = r /\ new.kind # "update" /\ new.at = "begun"
  BY DEF JobRecord, Webview, Open
<1>2. job' = [job EXCEPT ![s] = new] /\ job \in [Slot -> JobRecord]
  BY DEF Begin, Jobs
<1> HIDE DEF new
<1>3. job' \in [Slot -> JobRecord] /\ \A t \in Slot : job'[t] = IF t = s THEN new ELSE job[t]
  BY <1>1, <1>2
<1>4. QED
  BY <1>1, <1>3 DEF Jobs

\* What the messages and commands that open a panel or begin a job leave true.
Kept ==
  /\ Panels' /\ Jobs' /\ Servers' /\ Probes' /\ Rest' /\ Replaced /\ posted' = {}
  /\ \A t \in Slot : job'[t].at = job[t].at \/ job'[t].at # "asking"

LEMMA ShowsStep ==
  ASSUME IInv, NEW s \in Slot, NEW kind, NEW r \in Root, NEW separate \in BOOLEAN,
         Shows(s, kind, r, separate), lastValid' \in Root \cup {None}, asked' \in 0..Asked
  PROVE  Kept
<1>1. /\ Panels' /\ Jobs' /\ Replaced
      /\ \A t \in Slot : \/ job'[t].at = job[t].at /\ job'[t].found = job[t].found
                         \/ job'[t].at \in {"idle", "begun"}
  BY CreateOrShowStep DEF Shows, IInv
<1>2. UNCHANGED servers /\ posted' = {}
  BY DEF Shows
<1>3. Servers' /\ Probes'
  BY <1>1, <1>2, ProbesKept DEF IInv, Servers, servers
<1>4. QED
  BY <1>1, <1>2, <1>3 DEF Kept, Rest

LEMMA BeginsStep ==
  ASSUME IInv, NEW s \in Slot, NEW kind \in Kinds \ {"update"}, NEW w \in Open \cup {Sidebar, None},
         NEW r \in Root, NEW n \in Typed \cup {0}, Begin(s, kind, w, r, n),
         lastValid' \in Root \cup {None}, asked' \in 0..Asked,
         UNCHANGED <<view, current>>, Panels'
  PROVE  Kept
<1>1. Open' = Open
  BY DEF Open
<1>2. /\ Jobs'
      /\ \A t \in Slot : \/ job'[t].at = job[t].at /\ job'[t].found = job[t].found
                         \/ job'[t].at \in {"idle", "begun"}
  BY <1>1, BeginStep DEF IInv
<1>3. UNCHANGED servers /\ posted' = {}
  BY DEF Begin
<1>4. Servers' /\ Probes'
  BY <1>2, <1>3, ProbesKept DEF IInv, Servers, servers
<1>5. Replaced
  BY DEF Replaced, Open
<1>6. QED
  BY <1>2, <1>3, <1>4, <1>5 DEF Kept, Rest

\* manualConnect moves a panel that is open, to a workspace.
LEMMA ManualConnectStep ==
  ASSUME IInv, NEW s \in Slot, NEW w \in Webview, NEW r \in Root, NEW n \in Typed,
         ManualConnect(s, w, r, n)
  PROVE  Kept
<1>1. Targeted(r, n) \subseteq Root
  BY WorkbenchAssumption DEF Targeted
<1>2. PICK t \in Targeted(r, n) :
        /\ root' = IF current = None THEN root ELSE [root EXCEPT ![current] = t]
        /\ Begin(s, "manualConnect", w, t, n)
  BY DEF ManualConnect
<1>3. UNCHANGED <<view, current>> /\ Open' = Open
  BY DEF ManualConnect, Open
<1>4. Panels'
  <2>1. /\ view \in [Panel -> {"closed", "main", "separate"}] /\ root \in [Panel -> Root \cup {None}]
        /\ current # None => current \in Open
    BY DEF IInv, Panels, CurrentIsOpen, Open
  <2>2. root' \in [Panel -> Root \cup {None}]
    BY <1>1, <1>2, <2>1
  <2>3. \A p \in Panel : root'[p] \in (IF p \in Open THEN Root ELSE {None})
    BY <1>1, <1>2, <2>1 DEF IInv, Panels
  <2>4. QED
    BY <1>3, <2>2, <2>3 DEF IInv, Panels, CurrentIsOpen
<1>5. /\ lastValid' \in Root \cup {None} /\ asked' \in 0..Asked
      /\ w \in Open \cup {Sidebar}
  BY FromTypes DEF ManualConnect, IInv
<1>6. QED
  <2>1. "manualConnect" \in Kinds \ {"update"} /\ w \in Open \cup {Sidebar, None} /\ t \in Root
        /\ n \in Typed \cup {0}
    BY <1>1, <1>2, <1>5 DEF Kinds
  <2>2. QED
    BY <1>2, <1>3, <1>4, <1>5, <2>1, BeginsStep

LEMMA AskedStep ==
  ASSUME IInv, NEW s \in Slot, NEW r \in Root,
         \/ VisualEdit(s, r) \/ StartSidecar(s, r) \/ OpenSeparateWindow(s, r)
         \/ \E w \in Webview :
              \/ PopOut(s, w, r, "window") \/ PopOut(s, w, r, "editor")
              \/ OpenNewInstance(s, w, r)
              \/ Ready(s, w, r) \/ DetectDevServer(s, w, r)
  PROVE  Kept
<1>1. UNCHANGED panels => UNCHANGED <<view, current>> /\ Panels'
  BY DEF IInv, Panels, panels, CurrentIsOpen, Open
<1>2. CASE VisualEdit(s, r) \/ StartSidecar(s, r)
  <2>1. lastValid' \in Root \cup {None} /\ asked' \in 0..Asked
    BY <1>2, ForTypes DEF VisualEdit, StartSidecar, IInv
  <2>2. UNCHANGED panels /\ \E kind \in {"visualEdit", "port"} : Begin(s, kind, None, r, 0)
    BY <1>2 DEF VisualEdit, StartSidecar
  <2>3. PICK kind \in {"visualEdit", "port"} : Begin(s, kind, None, r, 0)
    BY <2>2
  <2>4. /\ kind \in Kinds \ {"update"} /\ None \in Open \cup {Sidebar, None} /\ 0 \in Typed \cup {0}
    BY <2>3 DEF Kinds
  <2>5. QED
    BY <1>1, <2>1, <2>2, <2>3, <2>4, BeginsStep
<1>3. CASE OpenSeparateWindow(s, r)
  <2>1. lastValid' \in Root \cup {None} /\ asked' \in 0..Asked
    BY <1>3, ForTypes DEF OpenSeparateWindow, IInv
  <2>2. QED
    BY <1>3, <2>1, ShowsStep DEF OpenSeparateWindow
<1>4. ASSUME NEW w \in Webview,
             PopOut(s, w, r, "window") \/ PopOut(s, w, r, "editor") \/ OpenNewInstance(s, w, r)
      PROVE  Kept
  <2>1. lastValid' \in Root \cup {None} /\ asked' \in 0..Asked
    BY <1>4, FromTypes DEF PopOut, OpenNewInstance, IInv
  <2>2. \E kind \in {"popOut", "openNewInstance"}, separate \in BOOLEAN : Shows(s, kind, r, separate)
    BY <1>4 DEF PopOut, OpenNewInstance
  <2>3. QED
    BY <2>1, <2>2, ShowsStep
<1>5. ASSUME NEW w \in Webview, Ready(s, w, r) \/ DetectDevServer(s, w, r)
      PROVE  Kept
  <2>1. /\ lastValid' \in Root \cup {None} /\ asked' \in 0..Asked
        /\ w \in Open \cup {Sidebar}
    BY <1>5, FromTypes DEF Ready, DetectDevServer, IInv
  <2>2. UNCHANGED panels /\ \E kind \in {"ready", "detectDevServer"} : Begin(s, kind, w, r, 0)
    BY <1>5 DEF Ready, DetectDevServer
  <2>3. PICK kind \in {"ready", "detectDevServer"} : Begin(s, kind, w, r, 0)
    BY <2>2
  <2>4. /\ kind \in Kinds \ {"update"} /\ w \in Open \cup {Sidebar, None} /\ 0 \in Typed \cup {0}
    BY <2>1, <2>3 DEF Kinds
  <2>5. QED
    BY <1>1, <2>1, <2>2, <2>3, <2>4, BeginsStep
<1>6. QED
  BY <1>2, <1>3, <1>4, <1>5

-----------------------------------------------------------------------------
(* Answers.                                                                *)

\* The server listed first is one of those found.
LEMMA FirstIsFound ==
  ASSUME NEW found
  PROVE  First(found) \in found \cup {0}
<1> DEFINE listed == {i \in DOMAIN COMMON_DEV_PORTS : COMMON_DEV_PORTS[i] \in found}
<1>1. listed \subseteq Nat
  BY DEF COMMON_DEV_PORTS
<1>2. ASSUME listed # {}
      PROVE  Min(listed) \in listed
  <2>1. PICK i \in listed : \A j \in listed : ~(<<j, i>> \in OpToRel(<, Nat))
    BY <1>1, <1>2, NatLessThanWellFounded, WFMin
  <2>2. \A j \in listed : ~(j < i)
    BY <1>1, <2>1 DEF OpToRel
  <2>3. \A j \in listed : i <= j
    BY <1>1, <2>2
  <2>4. QED
    BY <2>3 DEF Min
<1>3. QED
  BY <1>2 DEF First

\* What is posted is a message of a webview that is there, and a server that is
\* neither configured, typed nor a fallback comes from the list.
LEMMA PostStep ==
  ASSUME Panels, Jobs, NEW s \in Slot, NEW found \in SUBSET Port, NEW n \in Answers(job[s], found)
  PROVE  /\ Post(job[s], n) \subseteq Message
         /\ \A m \in Post(job[s], n) :
              m.port \in Detected => m.port \in found /\ NeedsServers(job[s])
<1> DEFINE j == job[s]
           Given == {0, Setting, ConfigPort, VitePort, 3000, 3009, Sandbox} \cup Typed
<1>1. j \in JobRecord /\ j.for \in Open \cup {Sidebar, None}
      /\ (j.kind = "update" => j.for \in Open \cup {None})
  BY DEF Jobs
<1>2. /\ First(found) \in found \cup {0} /\ found \subseteq Nat /\ 0 \notin found
      /\ Given \subseteq Nat
  BY FirstIsFound, WorkbenchAssumption
<1> HIDE DEF j
<1>3. \/ n \in Given
      \/ n \in found /\ NeedsServers(j)
  <2>1. n \in Answers(j, found)
    BY DEF j
  <2>2. CASE j.kind = "port"
    <3>1. n = ProjectPort(j.root, found)
      BY <2>1, <2>2 DEF Answers
    <3>2. QED
      BY <1>2, <2>2, <3>1 DEF ProjectPort, NeedsServers
  <2>3. CASE j.kind = "detectDevServer"
    BY <2>1, <2>3 DEF Answers, NeedsServers
  <2>4. CASE j.kind = "manualConnect"
    BY <1>1, <2>1, <2>4 DEF Answers, JobRecord
  <2>5. CASE j.kind \notin {"port", "detectDevServer", "manualConnect"}
    <3>1. n \in {ProjectServer(j.root, found), Sandbox}
      BY <2>1, <2>5 DEF Answers
    <3>2. QED
      BY <1>2, <2>5, <3>1 DEF ProjectServer, NeedsServers
  <2>6. QED
    BY <2>2, <2>3, <2>4, <2>5
<1>4. 3009 \in Given /\ Detected \cap Given = {}
  BY WorkbenchAssumption DEF Detected
<1> HIDE DEF Given
<1>5. ASSUME NEW m \in Post(j, n)
      PROVE  /\ m \in Message
             /\ m.port \in Detected => m.port \in found /\ NeedsServers(j)
  <2> DEFINE r == IF j.kind = "update" THEN root[j.for] ELSE j.root
  <2>1. /\ j.for # None
        /\ m = [to      |-> j.for,
                port    |-> IF j.kind = "update" /\ r \in Demo THEN 3009 ELSE n,
                project |-> IF j.kind = "detectDevServer" THEN None ELSE r]
    BY <1>5 DEF Post
  <2>2. r \in Root \cup {None}
    BY <1>1, <2>1 DEF Panels, JobRecord, Open
  <2> HIDE DEF r
  <2>3. j.for \in Webview
    BY <1>1, <2>1 DEF Open, Webview
  <2>4. m.port = 3009 \/ m.port = n
    BY <2>1
  <2>5. m.port \in Nat
    <3>1. n \in Given \cup found
      BY <1>3
    <3>2. Given \cup found \subseteq Nat
      BY <1>2
    <3>3. QED
      BY <1>4, <2>4, <3>1, <3>2
  <2>6. m \in Message
    BY <2>1, <2>2, <2>3, <2>5 DEF Message
  <2>7. m.port \in Given \/ (m.port \in found /\ NeedsServers(j))
    BY <1>3, <1>4, <2>4
  <2>8. QED
    BY <1>4, <2>6, <2>7
<1>6. QED
  BY <1>5 DEF j

-----------------------------------------------------------------------------
(* Jobs.                                                                   *)

\* What this step tells, and offers the user, is as ServersAreFresh has it.
TellsFresh ==
  /\ \A m \in posted' :
       m.port \in Detected => Fresh(m.port) \/ \E s \in Slot : UserAnswers(s)
  /\ \A s \in Slot : job[s].at # "asking" /\ job'[s].at = "asking" =>
       \A n \in job'[s].found \cap Detected : Fresh(n)

LEMMA StartedStep ==
  ASSUME IInv, NEW s \in Slot, Started(s)
  PROVE  Kept
<1>1. /\ job[s] \in JobRecord /\ UNCHANGED <<lastValid, asked, servers>> /\ posted' = {}
  BY DEF Started, IInv, Jobs
<1>2. Servers' /\ Rest'
  BY <1>1 DEF IInv, Servers, servers, Rest
<1>3. CASE job' = [job EXCEPT ![s] = NoJob] /\ UNCHANGED panels
  <2>1. \A t \in Slot : job'[t] = IF t = s THEN NoJob ELSE job[t]
    BY <1>3 DEF IInv, Jobs
  <2>2. Panels' /\ Replaced /\ Open' = Open
    BY <1>3 DEF IInv, Panels, panels, Open, CurrentIsOpen, Replaced
  <2>3. Jobs'
    <3>1. NoJob \in JobRecord
      BY DEF NoJob, JobRecord, Kinds
    <3>2. QED
      BY <1>3, <2>1, <2>2, <3>1, WorkbenchAssumption DEF IInv, Jobs, NoJob
  <2>4. Probes'
    BY <1>1, <2>1, ProbesKept DEF IInv, NoJob, servers
  <2>5. QED
    BY <1>1, <1>2, <2>1, <2>2, <2>3, <2>4 DEF Kept, NoJob
<1>4. CASE CreateOrShow(s, job[s].root, Separate)
  <2>1. job[s].root \in Root /\ Separate \in BOOLEAN
    BY WorkbenchAssumption DEF Started, IInv, Jobs
  <2>2. /\ Panels' /\ Jobs' /\ Replaced
        /\ \A t \in Slot : \/ job'[t].at = job[t].at /\ job'[t].found = job[t].found
                           \/ job'[t].at \in {"idle", "begun"}
    BY <1>4, <2>1, CreateOrShowStep DEF IInv
  <2>3. Probes'
    BY <1>1, <2>2, ProbesKept DEF IInv, servers
  <2>4. QED
    BY <1>1, <1>2, <2>2, <2>3 DEF Kept
<1>5. QED
  BY <1>3, <1>4 DEF Started

\* A job that is over leaves the others as they were.
LEMMA OverStep ==
  ASSUME Jobs, NEW s \in Slot, job' = [job EXCEPT ![s] = NoJob], Open' = Open
  PROVE  /\ Jobs'
         /\ \A t \in Slot : (job'[t].at = job[t].at /\ job'[t].found = job[t].found) \/ job'[t].at = "idle"
<1>1. NoJob \in JobRecord
  BY DEF NoJob, JobRecord, Kinds
<1>2. /\ job' \in [Slot -> JobRecord] /\ \A t \in Slot : job'[t] = IF t = s THEN NoJob ELSE job[t]
  BY <1>1 DEF Jobs
<1>3. Jobs'
  BY <1>2, WorkbenchAssumption DEF Jobs, NoJob
<1>4. QED
  BY <1>2, <1>3 DEF NoJob

\* A job that has its answer tells it and is over, or asks the user first.
LEMMA FinishStep ==
  ASSUME Panels, Jobs, NEW s \in Slot, NEW found \in SUBSET Port, Finish(s, found), UNCHANGED panels
  PROVE  /\ Jobs' /\ posted' \subseteq Message
         /\ \A m \in posted' : m.port \in Detected => m.port \in found /\ NeedsServers(job[s])
         /\ \A t \in Slot : \/ job'[t].at = job[t].at /\ job'[t].found = job[t].found
                            \/ job'[t].at \in {"idle", "begun", "asking"}
         /\ \A t \in Slot :
              job[t].at # "asking" /\ job'[t].at = "asking" => job'[t].found = found /\ NeedsServers(job[s])
<1>1. Open' = Open
  BY DEF panels, Open
<1>2. CASE AsksUser(job[s])
  <2>1. /\ job' = [job EXCEPT ![s].at = "asking", ![s].found = found] /\ posted' = {}
        /\ job \in [Slot -> JobRecord] /\ NeedsServers(job[s])
    BY <1>2 DEF Finish, Jobs, AsksUser, NeedsServers
  <2>2. \A r \in JobRecord : [r EXCEPT !.at = "asking", !.found = found] \in JobRecord
    BY DEF JobRecord
  <2>3. \A t \in Slot :
          job'[t] = IF t = s THEN [job[t] EXCEPT !.at = "asking", !.found = found] ELSE job[t]
    BY <2>1
  <2>4. ASSUME NEW t \in Slot
        PROVE  /\ job'[t] \in JobRecord /\ job'[t].for = job[t].for /\ job'[t].kind = job[t].kind
               /\ job'[t].root = job[t].root
               /\ \/ job'[t] = job[t]
                  \/ job'[t].at = "asking" /\ job'[t].found = found
    BY <2>1, <2>2, <2>3 DEF JobRecord
  <2>5. Jobs'
    <3>1. job' \in [Slot -> JobRecord]
      BY <2>1, <2>4
    <3>2. QED
      BY <1>1, <2>4, <3>1 DEF Jobs
  <2>6. QED
    BY <2>1, <2>4, <2>5
<1>3. CASE ~AsksUser(job[s])
  <2>1. PICK n \in Answers(job[s], found) : posted' = Post(job[s], n)
    BY <1>3 DEF Finish
  <2>2. job' = [job EXCEPT ![s] = NoJob]
    BY <1>3 DEF Finish
  <2>3. /\ Jobs'
        /\ \A t \in Slot : (job'[t].at = job[t].at /\ job'[t].found = job[t].found) \/ job'[t].at = "idle"
    BY <1>1, <2>2, OverStep
  <2>4. /\ Post(job[s], n) \subseteq Message
        /\ \A m \in Post(job[s], n) :
             m.port \in Detected => m.port \in found /\ NeedsServers(job[s])
    BY PostStep
  <2>5. \A t \in Slot : job[t].at # "asking" => job'[t].at # "asking"
    BY <2>3
  <2>6. QED
    BY <2>1, <2>3, <2>4, <2>5
<1>4. QED
  BY <1>2, <1>3

LEMMA DetectStep ==
  ASSUME IInv, NEW s \in Slot, Detect(s)
  PROVE  IInv' /\ TellsFresh /\ Replaced
<1>1. UNCHANGED <<lastValid, asked, panels, servers>>
  BY DEF Detect
<1>2. Panels' /\ Servers' /\ Replaced /\ Open' = Open
  BY <1>1 DEF IInv, Panels, panels, Open, CurrentIsOpen, Replaced, Servers, servers
<1>3. CASE /\ ~NeedsServers(job[s]) \/ CacheHolds
           /\ Finish(s, cache.found)
  <2>1. cache.found \in SUBSET Port
    BY DEF IInv, Servers
  <2>2. /\ Jobs' /\ posted' \subseteq Message
        /\ \A m \in posted' : m.port \in Detected => m.port \in cache.found /\ NeedsServers(job[s])
        /\ \A t \in Slot : \/ job'[t].at = job[t].at /\ job'[t].found = job[t].found
                           \/ job'[t].at \in {"idle", "begun", "asking"}
        /\ \A t \in Slot :
             job[t].at # "asking" /\ job'[t].at = "asking" =>
               job'[t].found = cache.found /\ NeedsServers(job[s])
    BY <1>1, <1>3, <2>1, FinishStep DEF IInv
  <2>3. Probes'
    BY <1>1, <2>2, ProbesKept DEF IInv, servers
  <2>4. CacheHolds => \A n \in cache.found : Fresh(n)
    <3>1. /\ cache.age \in Nat /\ \A n \in Port : ago[n] \in Nat
          /\ cache.found \subseteq Port
      BY WorkbenchAssumption DEF IInv, Servers
    <3>2. QED
      BY <3>1, WorkbenchAssumption DEF IInv, Servers, CacheHolds, Fresh
  <2>5. TellsFresh
    BY <1>3, <2>2, <2>4 DEF TellsFresh
  <2>6. QED
    BY <1>1, <1>2, <2>2, <2>3, <2>5 DEF IInv, Rest
<1>4. CASE /\ job' = [job EXCEPT ![s].at = "probing", ![s].found = up]
           /\ posted' = {}
  <2>1. /\ job[s] \in JobRecord /\ up \in SUBSET Port
        /\ \A t \in Slot : job'[t] = IF t = s THEN [job[t] EXCEPT !.at = "probing", !.found = up] ELSE job[t]
    BY <1>4 DEF IInv, Jobs, Servers
  <2>2. \A r \in JobRecord : [r EXCEPT !.at = "probing", !.found = up] \in JobRecord
    BY <2>1 DEF JobRecord
  <2>3. Jobs'
    <3>1. job' \in [Slot -> JobRecord]
      BY <1>4, <2>1, <2>2 DEF IInv, Jobs
    <3>2. \A t \in Slot : /\ job'[t].for = job[t].for /\ job'[t].kind = job[t].kind
                         /\ job'[t].root = job[t].root
      BY <2>1 DEF IInv, Jobs, JobRecord
    <3>3. QED
      BY <1>2, <3>1, <3>2 DEF IInv, Jobs
  <2>4. Probes'
    BY <1>1, <2>1 DEF IInv, Probes, servers, JobRecord
  <2>5. TellsFresh
    <3>1. \A t \in Slot : job'[t].at = "asking" => job[t].at = "asking"
      BY <2>1 DEF JobRecord
    <3>2. QED
      BY <1>4, <3>1 DEF TellsFresh
  <2>6. QED
    BY <1>1, <1>2, <1>4, <2>3, <2>4, <2>5 DEF IInv, Rest
<1>5. QED
  BY <1>3, <1>4 DEF Detect

LEMMA ProbeEndsStep ==
  ASSUME IInv, NEW s \in Slot, ProbeEnds(s)
  PROVE  IInv' /\ TellsFresh /\ Replaced
<1>1. UNCHANGED <<lastValid, asked, panels, up, ago>> /\ job[s].at \in {"probing", "late"}
  BY DEF ProbeEnds
<1>2. PICK found \in SUBSET (job[s].found \cup up) :
        cache' = [found |-> found, age |-> 0] /\ Finish(s, found)
  BY DEF ProbeEnds
<1>3. found \in SUBSET Port /\ \A n \in found : n \in up \/ ago[n] <= 1
  BY <1>1, <1>2 DEF IInv, Jobs, JobRecord, Servers, Probes
<1>4. Panels' /\ Replaced
  BY <1>1 DEF IInv, Panels, panels, Open, CurrentIsOpen, Replaced
<1>5. Servers'
  BY <1>1, <1>2, <1>3, WorkbenchAssumption DEF IInv, Servers
<1>6. /\ Jobs' /\ posted' \subseteq Message
      /\ \A m \in posted' : m.port \in Detected => m.port \in found
      /\ \A t \in Slot : \/ job'[t].at = job[t].at /\ job'[t].found = job[t].found
                         \/ job'[t].at \in {"idle", "begun", "asking"}
      /\ \A t \in Slot : job[t].at # "asking" /\ job'[t].at = "asking" => job'[t].found = found
  BY <1>1, <1>2, <1>3, FinishStep DEF IInv
<1>7. Probes'
  BY <1>1, <1>6, ProbesKept DEF IInv
<1>8. TellsFresh
  <2>1. \A n \in Port : ago[n] <= 1 => ago[n] <= TTL
    <3>1. TTL \in Nat \ {0}
      BY WorkbenchAssumption
    <3>2. ago \in [Port -> 0..(TTL + 2)]
      BY Zenon DEF IInv, Servers
    <3>3. \A n \in Port : ago[n] \in 0..(TTL + 2)
      BY <3>2
    <3>4. QED
      BY <3>1, <3>3
  <2>2. \A n \in found : Fresh(n)
    BY <1>3, <2>1 DEF Fresh
  <2>3. QED
    BY <1>6, <2>2 DEF TellsFresh
<1>9. QED
  BY <1>1, <1>4, <1>5, <1>6, <1>7, <1>8 DEF IInv, Rest

\* The user's answer is told, whatever became of the servers meanwhile.
LEMMA UserAnswersStep ==
  ASSUME IInv, NEW s \in Slot, UserAnswers(s)
  PROVE  IInv' /\ TellsFresh /\ Replaced
<1>1. /\ UNCHANGED <<lastValid, asked, panels, servers>> /\ job' = [job EXCEPT ![s] = NoJob]
  BY DEF UserAnswers
<1>2. PICK n \in job[s].found \cup Typed \cup {0} : posted' = Post(job[s], n)
  BY DEF UserAnswers
<1>3. Panels' /\ Servers' /\ Replaced /\ Open' = Open
  BY <1>1 DEF IInv, Panels, panels, Open, CurrentIsOpen, Replaced, Servers, servers
<1>4. /\ Jobs'
      /\ \A t \in Slot : (job'[t].at = job[t].at /\ job'[t].found = job[t].found) \/ job'[t].at = "idle"
  BY <1>1, <1>3, OverStep DEF IInv
<1>5. Probes'
  BY <1>1, <1>4, ProbesKept DEF IInv, servers
<1>6. posted' \subseteq Message
  <2>1. /\ job[s] \in JobRecord /\ job[s].for \in Open \cup {Sidebar, None}
        /\ job[s].kind = "update" => job[s].for \in Open
             \/ job[s].for = None
    BY DEF IInv, Jobs
  <2>2. n \in Nat
    <3>1. job[s].found \subseteq Port
      BY <2>1 DEF JobRecord
    <3>2. Port \subseteq Nat /\ Typed \subseteq Nat
      BY WorkbenchAssumption
    <3>3. n \in job[s].found \/ n \in Typed \/ n = 0
      OBVIOUS
    <3>4. CASE n \in job[s].found
      BY <3>1, <3>2, <3>4
    <3>5. CASE n \in Typed
      BY <3>2, <3>5
    <3>6. CASE n = 0
      BY <3>6
    <3>7. QED
      BY <3>3, <3>4, <3>5, <3>6
  <2> DEFINE r == IF job[s].kind = "update" THEN root[job[s].for] ELSE job[s].root
  <2>3. ASSUME job[s].for # None
        PROVE  r \in Root \cup {None} /\ job[s].for \in Webview
    BY <2>1, <2>3 DEF IInv, Panels, JobRecord, Open, Webview
  <2> HIDE DEF r
  <2>4. ASSUME NEW m \in posted'
        PROVE  m \in Message
    <3>1. /\ job[s].for # None
          /\ m = [to      |-> job[s].for,
                  port    |-> IF job[s].kind = "update" /\ r \in Demo THEN 3009 ELSE n,
                  project |-> IF job[s].kind = "detectDevServer" THEN None ELSE r]
      BY <1>2, <2>4 DEF Post, r
    <3>2. m.port \in Nat
      BY <2>2, <3>1
    <3>3. QED
      BY <2>3, <3>1, <3>2 DEF Message
  <2>5. QED
    BY <2>4
<1>7. TellsFresh
  <2>1. \A t \in Slot : job[t].at # "asking" => job'[t].at # "asking"
    BY <1>4
  <2>2. QED
    BY <2>1 DEF TellsFresh
<1>8. QED
  BY <1>1, <1>3, <1>4, <1>5, <1>6, <1>7 DEF IInv, Rest

-----------------------------------------------------------------------------
(* The servers and time.                                                   *)

LEMMA ToggleStep ==
  ASSUME IInv, NEW n \in Port, Toggle(n)
  PROVE  IInv' /\ TellsFresh /\ Replaced
<1>1. /\ UNCHANGED <<lastValid, asked, panels, cache, job>> /\ posted' = {}
      /\ ago' = [ago EXCEPT ![n] = 0] /\ \A m \in Port : m # n => (m \in up' <=> m \in up)
      /\ up' \subseteq Port /\ ago \in [Port -> 0..(TTL + 2)]
  BY DEF Toggle, IInv, Servers
<1>2. ago' \in [Port -> 0..(TTL + 2)] /\ \A m \in Port : ago'[m] = IF m = n THEN 0 ELSE ago[m]
  BY <1>1, WorkbenchAssumption
<1>3. Servers'
  BY <1>1, <1>2, WorkbenchAssumption DEF IInv, Servers
<1>4. Panels' /\ Replaced /\ Jobs'
  BY <1>1 DEF IInv, Panels, panels, Open, CurrentIsOpen, Replaced, Jobs
<1>5. Probes'
  BY <1>1, <1>2 DEF IInv, Probes, Jobs, JobRecord
<1>6. QED
  BY <1>1, <1>3, <1>4, <1>5 DEF IInv, Rest, TellsFresh

LEMMA TickStep ==
  ASSUME IInv, Tick
  PROVE  IInv' /\ TellsFresh /\ Replaced
<1>1. /\ \A s \in Slot : job[s].at # "late"
      /\ ago' = [n \in Port |-> IF n \in up \/ ago[n] > TTL + 1 THEN ago[n] ELSE ago[n] + 1]
      /\ cache' = [cache EXCEPT !.age = IF @ < TTL THEN @ + 1 ELSE @]
      /\ job' = [s \in Slot |-> IF job[s].at = "probing" THEN [job[s] EXCEPT !.at = "late"]
                                ELSE job[s]]
      /\ posted' = {} /\ UNCHANGED <<lastValid, asked, panels, up>>
  BY DEF Tick
<1>2. /\ ago' \in [Port -> 0..(TTL + 2)] /\ \A n \in Port : ago[n] \in Nat /\ ago'[n] <= ago[n] + 1
  BY <1>1, WorkbenchAssumption DEF IInv, Servers
<1>3. Servers'
  <2>1. /\ cache' \in [found : SUBSET Port, age : 0..TTL] /\ cache'.found = cache.found
        /\ cache'.age < TTL => cache.age < TTL /\ cache'.age = cache.age + 1
    BY <1>1, WorkbenchAssumption DEF IInv, Servers
  <2>2. \A n \in cache.found : n \in Port
    BY DEF IInv, Servers
  <2>3. cache'.age < TTL => \A n \in cache'.found : n \in up' \/ ago'[n] <= cache'.age + 1
    BY <1>1, <1>2, <2>1, <2>2 DEF IInv, Servers
  <2>4. QED
    BY <1>1, <1>2, <2>1, <2>3 DEF IInv, Servers
<1>4. Panels' /\ Replaced /\ Open' = Open
  BY <1>1 DEF IInv, Panels, panels, Open, CurrentIsOpen, Replaced
<1>5. ASSUME NEW s \in Slot
      PROVE  /\ job'[s] \in JobRecord /\ job'[s].for = job[s].for /\ job'[s].kind = job[s].kind
             /\ job'[s].root = job[s].root
             /\ job'[s].at # "probing"
             /\ job'[s].at = "late" => job[s].at = "probing" /\ job'[s].found = job[s].found
             /\ job'[s].at = "asking" => job[s].at = "asking"
  BY <1>1 DEF IInv, Jobs, JobRecord
<1>6. Jobs'
  <2>1. job' \in [Slot -> JobRecord]
    BY <1>1, <1>5
  <2>2. QED
    BY <1>4, <1>5, <2>1 DEF IInv, Jobs
<1>7. Probes'
  <2>1. ASSUME NEW s \in Slot, job'[s].at = "late", NEW n \in job'[s].found
        PROVE  n \in up' \/ ago'[n] <= 1
    <3>1. n \in Port /\ (n \in up \/ ago[n] = 0)
      BY <1>5, <2>1 DEF IInv, Probes, Jobs, JobRecord
    <3>2. QED
      BY <1>1, <1>2, <3>1
  <2>2. QED
    BY <1>5, <2>1 DEF Probes
<1>8. TellsFresh
  BY <1>1, <1>5 DEF TellsFresh
<1>9. QED
  BY <1>1, <1>3, <1>4, <1>6, <1>7, <1>8 DEF IInv, Rest

-----------------------------------------------------------------------------
(* The theorems.                                                           *)

LEMMA InitHolds == Init => IInv
<1> SUFFICES ASSUME Init
             PROVE  IInv
  OBVIOUS
<1>1. Panels /\ Open = {}
  BY DEF Init, Panels, Open, CurrentIsOpen
<1>2. Jobs /\ Probes
  <2>1. NoJob \in JobRecord
    BY DEF NoJob, JobRecord, Kinds
  <2>2. QED
    BY <2>1, WorkbenchAssumption DEF Init, Jobs, Probes, NoJob
<1>3. Servers
  BY WorkbenchAssumption DEF Init, Servers
<1>4. Rest
  <2>1. lastValid \in Folders \cup {None}
    BY DEF Init
  <2>2. QED
    BY <2>1, WorkbenchAssumption DEF Init, Rest
<1>5. QED
  BY <1>1, <1>2, <1>3, <1>4 DEF IInv

\* What each step leaves true and what it may tell and close.
LEMMA Step ==
  ASSUME IInv, Next
  PROVE  /\ IInv' /\ TellsFresh
         /\ Replaced \/ \E p \in Panel : Close(p) /\ \A q \in Open : view'[q] = "closed" => q = p
<1>1. Kept => IInv' /\ TellsFresh /\ Replaced
  BY DEF Kept, IInv, TellsFresh
<1>2. ASSUME NEW s \in Slot, NEW r \in Root,
             \/ VisualEdit(s, r) \/ StartSidecar(s, r) \/ OpenSeparateWindow(s, r)
             \/ \E w \in Webview :
                  \/ PopOut(s, w, r, "window") \/ PopOut(s, w, r, "editor")
                  \/ OpenNewInstance(s, w, r)
                  \/ Ready(s, w, r) \/ DetectDevServer(s, w, r)
      PROVE  Kept
  BY <1>2, AskedStep
<1>3. ASSUME NEW s \in Slot, NEW r \in Root, NEW w \in Webview, NEW n \in Typed,
             ManualConnect(s, w, r, n)
      PROVE  Kept
  BY <1>3, ManualConnectStep
<1>4. ASSUME NEW s \in Slot, Started(s) \/ Detect(s) \/ ProbeEnds(s) \/ UserAnswers(s)
      PROVE  IInv' /\ TellsFresh /\ Replaced
  BY <1>1, <1>4, StartedStep, DetectStep, ProbeEndsStep, UserAnswersStep
<1>5. ASSUME NEW p \in Panel, Close(p)
      PROVE  /\ IInv' /\ TellsFresh
             /\ \A q \in Open : view'[q] = "closed" => q = p
  <2>1. UNCHANGED <<lastValid, asked, servers>> /\ posted' = {}
    BY <1>5 DEF Close
  <2>2. /\ Panels' /\ Jobs' /\ \A q \in Open : view'[q] = "closed" => q = p
        /\ \A t \in Slot : job'[t].at = job[t].at /\ job'[t].found = job[t].found
    BY <1>5, CloseStep DEF IInv
  <2>3. Servers' /\ Probes' /\ Rest' /\ TellsFresh
    BY <2>1, <2>2, ProbesKept DEF IInv, Servers, servers, Rest, TellsFresh
  <2>4. QED
    BY <2>2, <2>3 DEF IInv
<1>6. ASSUME (\E n \in Port : Toggle(n)) \/ Tick
      PROVE  IInv' /\ TellsFresh /\ Replaced
  BY <1>6, ToggleStep, TickStep
<1>7. QED
  BY <1>1, <1>2, <1>3, <1>4, <1>5, <1>6 DEF Next

LEMMA Stutter ==
  ASSUME IInv, UNCHANGED vars
  PROVE  IInv'
BY DEF vars, panels, servers, IInv, Panels, Open, CurrentIsOpen, Jobs, Servers, Probes, Rest

\* In every state the panels, the jobs, the list of servers and the probes agree.
THEOREM Inductive == Spec => []IInv
<1>1. IInv /\ [Next]_vars => IInv'
  BY Step, Stutter
<1>2. QED
  BY InitHolds, <1>1, PTL DEF Spec

\* Every variable has its type.
THEOREM TypeCorrect == Spec => []TypeOK
<1>1. IInv => TypeOK
  BY DEF IInv, Panels, Jobs, JobRecord, Servers, Rest, Message, TypeOK
<1>2. QED
  BY Inductive, <1>1, PTL

\* The panel that createOrShow reveals and manualConnect moves is an open main panel,
\* whichever panels were closed or opened since it became the current one.
THEOREM CurrentPanelIsOpen == Spec => []CurrentIsOpen
<1>1. IInv => CurrentIsOpen
  BY DEF IInv, Panels
<1>2. QED
  BY Inductive, <1>1, PTL

\* A panel goes when the user closes it, or when createOrShow puts another main
\* panel in the place of the current one; a window of its own takes no panel's place.
THEOREM PanelsStay == Spec => PanelStays
<1> DEFINE Stays ==
      \A p \in Open :
        view'[p] = "closed" =>
          \/ Close(p)
          \/ /\ p = current
             /\ current' # None
             /\ view'[current'] = "main"
<1>1. ASSUME IInv, Next
      PROVE  Stays
  BY <1>1, Step DEF Replaced
<1>2. IInv /\ [Next]_vars => [Stays]_vars
  BY <1>1
<1>3. QED
  BY Inductive, <1>2, PTL DEF Spec, PanelStays

\* A webview is told a detected server without a question, and the user is offered
\* one, only if it is there or was, at most TTL ago.  A probe that ends puts its
\* list in the cache even after a later one, so it takes both that no probe lasts
\* more than a tick and that the age starts at the end.
THEOREM ListedServersAreFresh == Spec => ServersAreFresh
<1>1. IInv /\ [Next]_vars => [TellsFresh]_vars
  BY Step
<1>2. QED
  BY Inductive, <1>1, PTL DEF Spec, ServersAreFresh, TellsFresh
=============================================================================
