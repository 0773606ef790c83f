----------------------------- MODULE Transform -----------------------------
(***************************************************************************)
(* How the development server gets the text of a file: the transform of    *)
(* zenith-vite-plugin/src/index.ts with its cache, its question to the     *)
(* ghost proxy and its connection to the sidecar, and, when the project is *)
(* a Next.js one, the loader of zenith-next-plugin.                        *)
(*                                                                         *)
(* There is one JSX file.  Its texts are numbered in the order they are    *)
(* made, so a text stands for its hash and for the ghost ids made from it. *)
(***************************************************************************)
EXTENDS Integers, FiniteSets

CONSTANTS
  Slot,     \* bound: transforms under way at a time
  Texts,    \* bound: texts of the file
  Attempts, \* of fetchFromGhostProxy
  Tries,    \* failed attempts after which the loader stops asking
  Ports     \* how many ports connectRpc goes through

ASSUME TransformAssumption ==
  /\ IsFiniteSet(Slot)
  /\ Texts \in Nat \ {0} /\ Attempts \in Nat \ {0} /\ Tries \in Nat /\ Ports \in Nat \ {0}

VARIABLES
  plugin,   \* "vite" or "next"
  disk,     \* the text on disk
  virtual,  \* the text the sidecar has, 0 when it has not loaded the file
  made,     \* texts made so far
  home,     \* index of the port the sidecar listens on, Ports when there is none
  job,      \* slot -> a transform
  cache,    \* _transformCache: [hash, text], hash 0 when there is no entry
  link,     \* rpcWs: "connecting", "open", "waiting" for the reconnection timer
  port,     \* portIndex
  warmup,   \* the timer of warmupRegistry is set
  registry, \* the texts whose ids the sidecar has registered
  ready,    \* sidecarReady and failedAttempts of the loader
  failed

sidecar == <<virtual, home, registry>>
rpc     == <<link, port, warmup>>
loader  == <<ready, failed>>
vars    == <<plugin, disk, made, sidecar, job, cache, rpc, loader>>

Text == 1 .. Texts
Idle == [at |-> "idle", code |-> 0, attempt |-> 0]

Init ==
  /\ plugin \in {"vite", "next"}
  /\ disk = 1 /\ virtual = 0 /\ made = 1 /\ home = Ports
  /\ job = [s \in Slot |-> Idle] /\ cache = [hash |-> 0, text |-> 0]
  /\ link = "connecting" /\ port = 0 /\ warmup = TRUE /\ registry = {}
  /\ ready = FALSE /\ failed = 0

(***************************************************************************)
(* The developer and the sidecar.                                          *)
(***************************************************************************)
Up == home # Ports

\* Another text is written to disk, or an earlier one again.
Save(t) ==
  /\ t \in 1 .. made + 1 /\ t <= Texts /\ t # disk
  /\ disk' = t /\ made' = IF t > made THEN t ELSE made
  /\ UNCHANGED <<plugin, sidecar, job, cache, rpc, loader>>

\* The sidecar loads the file, stages an edit of it, or undoes its edits.
Holds(t) ==
  /\ Up /\ t # virtual
  /\ virtual' = t /\ made' = IF t > made THEN t ELSE made
  /\ UNCHANGED <<plugin, disk, home, registry, job, cache, rpc, loader>>
Load     == virtual = 0 /\ Holds(disk)
Stage    == made < Texts /\ Holds(made + 1)
Rollback == virtual # 0 /\ Holds(disk)
Persist ==
  /\ Up /\ virtual \notin {0, disk}
  /\ disk' = virtual
  /\ UNCHANGED <<plugin, made, sidecar, job, cache, rpc, loader>>

Start(p) ==
  /\ ~Up /\ home' = p
  /\ UNCHANGED <<plugin, disk, virtual, made, registry, job, cache, rpc, loader>>
Die ==
  /\ Up /\ home' = Ports /\ virtual' = 0 /\ registry' = {}
  /\ UNCHANGED <<plugin, disk, made, job, cache, rpc, loader>>

(***************************************************************************)
(* connectRpc.                                                             *)
(***************************************************************************)
SamePort == port
NextPort == (port + 1) % Ports

ConnectRpc ==
  /\ plugin = "vite" /\ link = "connecting"
  /\ IF home = port THEN link' = "open" /\ port' = port
     ELSE link' = "waiting" /\ port' = NextPort
  /\ UNCHANGED <<plugin, disk, made, sidecar, job, cache, warmup, loader>>

\* "close"
Close ==
  /\ link = "open" /\ home # port
  /\ link' = "waiting" /\ port' = NextPort
  /\ UNCHANGED <<plugin, disk, made, sidecar, job, cache, warmup, loader>>

Reconnect ==
  /\ link = "waiting" /\ link' = "connecting"
  /\ UNCHANGED <<plugin, disk, made, sidecar, job, cache, port, warmup, loader>>

Connected == link = "open" /\ home = port

\* warmupRegistry: the ids of the text on disk are registered, nothing is
\* cleared, and without a connection there is no second time.
WarmupRegistry ==
  /\ plugin = "vite" /\ warmup /\ warmup' = FALSE
  /\ registry' = IF Connected THEN registry \cup {disk} ELSE registry
  /\ UNCHANGED <<plugin, disk, made, virtual, home, job, cache, link, port, loader>>

(***************************************************************************)
(* transform.                                                              *)
(***************************************************************************)
CacheHolds(code) == cache.hash = code

Transform(s) ==
  /\ plugin = "vite" /\ job[s] = Idle
  /\ job' = IF CacheHolds(disk) THEN job \* served from the cache
            ELSE [job EXCEPT ![s] = [at |-> "asking", code |-> disk, attempt |-> 1]]
  /\ UNCHANGED <<plugin, disk, made, sidecar, cache, rpc, loader>>

\* After fetchFromGhostProxy: the virtual text, or the code when there is none,
\* is injected, cached under the hash of the code, and registered.
Inject(s, content) ==
  LET text == IF content # 0 THEN content ELSE job[s].code
  IN  /\ job' = [job EXCEPT ![s] = Idle]
      /\ cache' = [hash |-> job[s].code, text |-> text]
      /\ registry' = IF Connected THEN {text} ELSE registry \* clear_file, register

Answered(s) ==
  /\ plugin = "vite" /\ job[s].at = "asking" /\ Up
  /\ Inject(s, virtual)
  /\ UNCHANGED <<plugin, disk, made, virtual, home, rpc, loader>>

\* Refused, or timed out; after the last attempt null is returned.
NotCounted(s)  == job[s].attempt
NextAttempt(s) == job[s].attempt + 1
Unanswered(s) ==
  /\ plugin = "vite" /\ job[s].at = "asking"
  /\ IF NextAttempt(s) <= Attempts
     THEN /\ job' = [job EXCEPT ![s].attempt = NextAttempt(s)]
          /\ UNCHANGED <<cache, registry>>
     ELSE Inject(s, 0)
  /\ UNCHANGED <<plugin, disk, made, virtual, home, rpc, loader>>

\* The connection ends without a whole answer in one piece: neither "error" nor
\* "timeout" comes, the promise stays pending and so does the transform.
CutOff(s) ==
  /\ plugin = "vite" /\ job[s].at = "asking"
  /\ job' = [job EXCEPT ![s].at = "hung"]
  /\ UNCHANGED <<plugin, disk, made, sidecar, cache, rpc, loader>>

(***************************************************************************)
(* zenithLoader.                                                           *)
(***************************************************************************)
GivesUp      == failed > Tries

LoaderCalled(s) ==
  /\ plugin = "next" /\ job[s] = Idle
  /\ job' = IF GivesUp THEN job \* the text on disk is served
            ELSE [job EXCEPT ![s] = [at |-> "asking", code |-> disk, attempt |-> 1]]
  /\ UNCHANGED <<plugin, disk, made, sidecar, cache, rpc, loader>>

Given(s) ==
  /\ plugin = "next" /\ job[s].at = "asking" /\ Up
  /\ job' = [job EXCEPT ![s] = Idle]
  /\ IF virtual # 0 THEN ready' = TRUE /\ failed' = 0 ELSE UNCHANGED loader
  /\ UNCHANGED <<plugin, disk, made, sidecar, cache, rpc>>

AlwaysCounts == TRUE
Counts       == ~ready
Failed(s) ==
  /\ plugin = "next" /\ job[s].at = "asking"
  /\ job' = [job EXCEPT ![s] = Idle]
  /\ failed' = IF Counts THEN failed + 1 ELSE failed
  /\ UNCHANGED <<plugin, disk, made, sidecar, cache, rpc, ready>>

-----------------------------------------------------------------------------

Finish(s) == Answered(s) \/ Unanswered(s) \/ Given(s) \/ Failed(s)

Next ==
  \/ \E t \in Text : Save(t)
  \/ Load \/ Stage \/ Rollback \/ Persist \/ Die
  \/ \E p \in 0 .. Ports - 1 : Start(p)
  \/ ConnectRpc \/ Close \/ Reconnect \/ WarmupRegistry
  \/ \E s \in Slot : Transform(s) \/ CutOff(s) \/ LoaderCalled(s) \/ Finish(s)

\* Sockets report, timers fire, and a question is answered, refused or cut off.
Fairness ==
  /\ WF_vars(ConnectRpc) /\ WF_vars(Close) /\ WF_vars(Reconnect) /\ WF_vars(WarmupRegistry)
  /\ \A s \in Slot : WF_vars(Finish(s))

Spec == Init /\ [][Next]_vars /\ Fairness

-----------------------------------------------------------------------------
(***************************************************************************)
(* Properties                                                              *)
(***************************************************************************)
\* The variables keep their types, and the loader counts no further than the
\* transforms that were under way when it gave up.
TypeOK ==
  /\ disk \in Text /\ virtual \in 0 .. Texts /\ made \in Text
  /\ home \in 0 .. Ports /\ port \in 0 .. Ports - 1
  /\ job \in [Slot -> [at : {"idle", "asking", "hung"}, code : 0 .. Texts, attempt : 0 .. Attempts]]
  /\ cache \in [hash : 0 .. Texts, text : 0 .. Texts]
  /\ link \in {"connecting", "open", "waiting"} /\ warmup \in BOOLEAN
  /\ registry \subseteq Text
  /\ failed \in 0 .. Tries + Cardinality(Slot)

\* The cache serves what a question would be answered: the sidecar's text, or the
\* one on disk when the sidecar has none.  It does not hold: the cache is keyed by
\* the text on disk, so what is staged or rolled back later is not asked for
\* (TransformStale.cfg).
CachedIsCurrent ==
  CacheHolds(disk) => cache.text = IF virtual # 0 THEN virtual ELSE disk

\* A loader that has reached the sidecar once never stops asking it.
KeepsAsking == ready => failed <= Tries

\* A transform ends or was cut off (fetchFromGhostProxy's attempts).
EveryTransformEnds == \A s \in Slot : (job[s].at = "asking") ~> (job[s].at # "asking")

\* A sidecar that stays on one of the ports is connected to in the end.
Reconnects ==
  \A p \in 0 .. Ports - 1 :
    <>[](plugin = "vite" /\ home = p) => <>[](link = "open" /\ port = p)
=============================================================================
