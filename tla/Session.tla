------------------------------ MODULE Session ------------------------------
(***************************************************************************)
(* How the extension handles the edits of a session: the messages of the   *)
(* webviews (handleWebviewMessage), the commands they run, the polling     *)
(* loop and the staged counts (zenith-extension/src/extension.ts).         *)
(*                                                                         *)
(* A handler is a sequence of calls to a sidecar, each of them awaited; it *)
(* has the event loop from the answer to a call until its next one.  What  *)
(* the sidecars do with a call is what Vfs shows in full, here the set of  *)
(* the edits staged, one to a transaction.                                 *)
(***************************************************************************)
EXTENDS Integers, Sequences, FiniteSets

CONSTANTS
  Root,       \* workspaces, each with a sidecar and a panel
  Edit,       \* edits
  Alike,      \* edits of one property of one element, which squash each other
  Slot,       \* bound: handlers under way beside the polls
  Received,   \* bound: messages that come in
  Messages,   \* the messages and commands that come in
  MaxPolls,   \* maxAttempts of waitForStagedCount
  HealPolls,  \* and the attempts of zenith.engine.heal
  Faults,     \* subset of {"timeout", "reject"}
  Nil

ASSUME SessionAssumption ==
  /\ Alike \subseteq Edit
  /\ IsFiniteSet(Edit)
  /\ Root \cap Slot = {} /\ Nil \notin Root \cup Edit
  /\ Received \in Nat
  /\ MaxPolls \in Nat \ {0} /\ HealPolls \in Nat \ {0}

VARIABLES
  staged,      \* root -> edits the sidecar has staged
  written,     \* root -> edits it has written to the project's files
  used,        \* edits sent so far, and the root of the panel each came from
  received,    \* number of messages so far
  ready,       \* roots whose handle is in state ready, not error
  stagedCount, \* root -> the handle's count
  shown,       \* root -> the count the panel shows
  healing,     \* healingWorkspaces
  handler      \* slot, or root for its poll -> a handler under way

sessionVars == <<staged, written, used, received, ready, stagedCount, shown, healing, handler>>

-----------------------------------------------------------------------------
(* The handlers.  A call goes to the sidecar of the panel ("own") or of    *)
(* the workspace a command resolves ("target"); "then" names what follows. *)

Step(c, o, t) == [call |-> c, on |-> o, then |-> t]

\* The commands zenith.engine.stage, commit and heal.
Staging(t)   == <<Step("stage", "target", "nothing"), Step("wait", "target", t)>>
CommittedOne == <<Step("persist", "target", "less")>>
CommittedAll == <<Step("persist", "target", "zero")>>
Healed       == <<Step("heal", "target", "nothing"), Step("settle", "target", "zero")>>

\* Intents that the sidecar cannot read, or parameters too few for it.
Unreadable == <<Step("unreadable", "target", "nothing")>>

\* Calls that change neither a count nor what is staged.
Sundry == <<Step("sundry", "own", "nothing")>>

stage               == Staging("show")
duplicateNode       == Staging("nothing")   \* and deleteNode
moveNode            == Unreadable           \* and groupNodes
structuralOperation == Unreadable
universalStage      == Unreadable
patchStyle          == Append(Staging("nothing"), Step("sync", "own", "show"))
patchUniversal      == <<Step("stage", "own", "nothing"), Step("sync", "own", "show")>>
batchPatch          == <<Step("stage", "own", "addAndShow")>>
batchUniversal      == <<Step("stage", "own", "add"), Step("stage", "own", "addAndShow")>>
textEdit            ==
  Staging("nothing") \o
    <<Step("wait", "own", "set"), Step("persist", "own", "zeroAndShow")>>
commitOne           == CommittedOne
commitAll           == CommittedAll
healSession         == Healed
undo                == Sundry               \* and redo
hardenWal           == Sundry

Program == [
  stage |-> stage, duplicateNode |-> duplicateNode, moveNode |-> moveNode,
  structuralOperation |-> structuralOperation, universalStage |-> universalStage,
  patchStyle |-> patchStyle, patchUniversal |-> patchUniversal,
  zenithBatchPatch |-> batchPatch, batchUniversal |-> batchUniversal,
  zenithTextEdit |-> textEdit, commitOne |-> commitOne, commitAll |-> commitAll,
  healSession |-> healSession, undo |-> undo, hardenWal |-> hardenWal,
  poll |-> <<Step("sync", "own", "nothing")>>
]

ASSUME ProgramAssumption ==
  Messages \subseteq DOMAIN Program \ {"poll"} /\ Nil \notin DOMAIN Program

Edits(name) == \E k \in DOMAIN Program[name] : Program[name][k].call = "stage"

Idle == [name |-> Nil, own |-> Nil, target |-> Nil, edit |-> Nil, pc |-> 0,
         at |-> "idle", min |-> 0, polls |-> 0, got |-> 0]

SessionInit ==
  /\ staged = [r \in Root |-> {}]
  /\ written = [r \in Root |-> {}]
  /\ used = [e \in Edit |-> Nil]
  /\ received = 0
  /\ ready = Root
  /\ stagedCount = [r \in Root |-> 0]
  /\ shown = [r \in Root |-> 0]
  /\ healing = {}
  /\ handler = [s \in Slot \cup Root |-> Idle]

-----------------------------------------------------------------------------
StepOf(h) == Program[h.name][h.pc]
On(h)     == IF StepOf(h).on = "own" THEN h.own ELSE h.target
Asks(h)   == StepOf(h).call \in {"wait", "sync", "settle"}

\* A status call of a handle that is not ready is not made, and yields 0.
AtCall(h) ==
  [h EXCEPT !.at = IF Asks(h) /\ On(h) \notin ready THEN "refused" ELSE "sent",
            !.got = 0]

\* Handler h at its step k, or over; the handles have the counts c.
Entering(h, k, c) ==
  IF k > Len(Program[h.name]) THEN Idle
  ELSE LET g == [h EXCEPT !.pc = k, !.polls = 1]
       IN  AtCall([g EXCEPT !.min = c[On(g)] + 1])

MayHeal(r) == r \notin healing

\* A message from the panel of r, or a command; t is the workspace that
\* resolveTargetWorkspace answers (Workbench), e the edit the message carries.
Receive(s, name, r, t, e) ==
  /\ handler[s] = Idle
  /\ received < Received
  /\ received' = received + 1
  /\ IF Edits(name)
       THEN used[e] = Nil /\ used' = [used EXCEPT ![e] = r]
       ELSE UNCHANGED used
  /\ IF name = "healSession"
       THEN MayHeal(t) /\ healing' = healing \cup {t}
       ELSE UNCHANGED healing
  /\ handler' = [handler EXCEPT ![s] =
       Entering([Idle EXCEPT !.name = name, !.own = r, !.target = t, !.edit = e],
                1, stagedCount)]
  \* patchStyle and patchBatch of the webview's store count at once.
  /\ shown' = IF name \in {"patchStyle", "zenithBatchPatch"}
                THEN [shown EXCEPT ![r] = @ + 1] ELSE shown
  /\ UNCHANGED <<staged, written, ready, stagedCount>>

Poll(r) ==
  /\ handler[r] = Idle
  /\ r \in ready
  /\ handler' = [handler EXCEPT ![r] =
       Entering([Idle EXCEPT !.name = "poll", !.own = r, !.target = r], 1, stagedCount)]
  /\ UNCHANGED <<staged, written, used, received, ready, stagedCount, shown, healing>>

-----------------------------------------------------------------------------
(* The sidecar of r does what a handler asks.                              *)

\* Whatever comes of it: a conflict and an error are answers like a success.
\* persist keeps the transactions it has written.
StagedAfter(r, c, e) ==
  CASE c = "stage" ->
         {[staged EXCEPT ![r] = {e} \cup (IF e \in Alike THEN @ \ Alike ELSE @)]}
           \cup (IF "reject" \in Faults THEN {staged} ELSE {})
    [] c = "heal"  -> {[staged EXCEPT ![r] = {}]}
    [] OTHER       -> {staged}

Serve(s) ==
  LET h == handler[s]
      r == On(h)
      c == StepOf(h).call
  IN  /\ h.at = "sent"
      /\ c # "unreadable"
      /\ staged' \in StagedAfter(r, c, h.edit)
      /\ written' = IF c = "persist" THEN [written EXCEPT ![r] = @ \cup staged[r]]
                    ELSE written
      /\ handler' = [handler EXCEPT ![s].at = "answered",
                       ![s].got = IF Asks(h) THEN Cardinality(staged[r]) ELSE 0]
      /\ UNCHANGED <<used, received, ready, stagedCount, shown, healing>>

-----------------------------------------------------------------------------
(* A handler goes on when its call is answered.                            *)

\* Mutant: the attempts are not counted.
NotCounted(h) == h.polls

NextAttempt(h) == h.polls + 1

AttemptsOf(h) == IF StepOf(h).call = "settle" THEN HealPolls ELSE MaxPolls

PollsAreOver(h) == h.polls = AttemptsOf(h)

\* Is the loop around a status call over?
LoopEnds(h) ==
  \/ StepOf(h).call = "sync"
  \/ StepOf(h).call = "wait" /\ h.got >= h.min
  \/ StepOf(h).call = "settle" /\ h.got = 0
  \/ PollsAreOver(h)

CountLess(n) == IF n = 0 THEN 0 ELSE n - 1

\* The counts once a step is done, and what the panels show of them.
CountsAfter(h, c) ==
  CASE StepOf(h).then \in {"zero", "zeroAndShow"} -> [c EXCEPT ![On(h)] = 0]
    [] StepOf(h).then \in {"add", "addAndShow"}   -> [c EXCEPT ![On(h)] = @ + 1]
    [] StepOf(h).then = "less" -> [c EXCEPT ![On(h)] = CountLess(@)]
    [] StepOf(h).then = "set"  -> [c EXCEPT ![On(h)] = h.got]
    [] OTHER -> c

Broadcast(n) == [r \in Root |-> n]

ShownAfter(h, c, old) ==
  CASE StepOf(h).then = "show" /\ StepOf(h).call = "sync" ->
         [old EXCEPT ![h.own] = h.got]
    [] StepOf(h).then \in {"show", "addAndShow", "zeroAndShow"} ->
         [old EXCEPT ![h.own] = c[h.own]]
    [] StepOf(h).then \in {"zero", "less"} /\ StepOf(h).call = "persist" ->
         Broadcast(c[On(h)])
    [] OTHER -> old

\* Mutant: the answer to a status call is not kept.
Ignored(r, n) == stagedCount

Synced(r, n) == [stagedCount EXCEPT ![r] = n]

\* syncSidecarStatus, and the loops of waitForStagedCount and of the heal.
GoOnAsking(s) ==
  LET h == handler[s]
      c == IF h.at = "answered" THEN Synced(On(h), h.got) ELSE stagedCount
      w == IF h.at = "answered" THEN Broadcast(h.got) ELSE shown
  IN  /\ h.at \in {"answered", "refused"}
      /\ Asks(h)
      /\ IF LoopEnds(h)
           THEN /\ stagedCount' = CountsAfter(h, c)
                /\ shown' = ShownAfter(h, CountsAfter(h, c), w)
                /\ handler' = [handler EXCEPT ![s] =
                                 Entering(h, h.pc + 1, CountsAfter(h, c))]
           ELSE /\ stagedCount' = c
                /\ shown' = w
                /\ handler' = [handler EXCEPT ![s] = AtCall([h EXCEPT !.polls = NextAttempt(h)])]
      /\ UNCHANGED <<staged, written, used, received, ready, healing>>

GoOn(s) ==
  LET h == handler[s]
  IN  /\ h.at = "answered"
      /\ ~Asks(h)
      /\ stagedCount' = CountsAfter(h, stagedCount)
      /\ shown' = ShownAfter(h, CountsAfter(h, stagedCount), shown)
      /\ handler' = [handler EXCEPT ![s] =
                       Entering(h, h.pc + 1, CountsAfter(h, stagedCount))]
      /\ UNCHANGED <<staged, written, used, received, ready, healing>>

\* A call fails or times out, served or not: a status call makes an error of the
\* handle and yields 0, any other ends the handler.
Fails(s) ==
  LET h == handler[s]
  IN  /\ h.at \in {"sent", "answered"}
      /\ "timeout" \in Faults \/ StepOf(h).call = "unreadable"
      /\ IF Asks(h)
           THEN /\ ready' = ready \ {On(h)}
                /\ shown' = Broadcast(0)
                /\ handler' = [handler EXCEPT ![s].at = "refused", ![s].got = 0]
           ELSE /\ handler' = [handler EXCEPT ![s] = Idle]
                /\ UNCHANGED <<ready, shown>>
      /\ UNCHANGED <<staged, written, used, received, stagedCount, healing>>

HealUnderWay(r) ==
  \E s \in Slot : handler[s].name = "healSession" /\ handler[s].target = r

\* The lock goes a second after the heal ended, however it ended.
Release(r) ==
  /\ r \in healing
  /\ ~HealUnderWay(r)
  /\ healing' = healing \ {r}
  /\ UNCHANGED <<staged, written, used, received, ready, stagedCount, shown, handler>>

-----------------------------------------------------------------------------
Answer(s) == GoOnAsking(s) \/ GoOn(s)

SessionNext ==
  \/ \E s \in Slot, name \in Messages, r, t \in Root, e \in Edit : Receive(s, name, r, t, e)
  \/ \E r \in Root : Poll(r) \/ Release(r)
  \/ \E s \in Slot \cup Root : Serve(s) \/ Answer(s) \/ Fails(s)

\* Every call is answered or fails (RpcClient!EveryCallSettles), and what awaits
\* it goes on; the interval timer and the timer of the lock go off.
SessionFairness ==
  /\ \A s \in Slot \cup Root : /\ WF_sessionVars(Serve(s) \/ Fails(s))
                               /\ WF_sessionVars(Answer(s))
  /\ \A r \in Root : WF_sessionVars(Poll(r)) /\ WF_sessionVars(Release(r))

SessionSpec == SessionInit /\ [][SessionNext]_sessionVars /\ SessionFairness

-----------------------------------------------------------------------------
(* Correctness.                                                            *)

Handler ==
  [name : DOMAIN Program, own : Root, target : Root, edit : Edit \cup {Nil}, pc : Nat,
   at : {"idle", "sent", "answered", "refused"}, min : Nat, polls : Nat,
   got : 0..Cardinality(Edit)]

\* A handler stands at a step of its program, and has not asked more often than
\* the loop of that step may.
InProgram(h) ==
  /\ h.pc \in DOMAIN Program[h.name]
  /\ h.at # "idle"
  /\ h.at = "refused" => Asks(h)
  /\ h.polls \in 1..AttemptsOf(h)
  /\ h.edit = Nil => h.name = "poll"

\* The counts are numbers, what is staged are edits, and a handler is idle or stands at a
\* step of its program.
SessionTypeOK ==
  /\ staged \in [Root -> SUBSET Edit]
  /\ written \in [Root -> SUBSET Edit]
  /\ used \in [Edit -> Root \cup {Nil}]
  /\ received \in 0..Received
  /\ ready \subseteq Root
  /\ stagedCount \in [Root -> Nat]
  /\ shown \in [Root -> Nat]
  /\ healing \subseteq Root
  /\ handler \in [Slot \cup Root -> {Idle} \cup Handler]
  /\ \A s \in Slot \cup Root : handler[s] # Idle => InProgram(handler[s])

Underway(name) == {s \in Slot : handler[s].name = name}

\* Two heals of a workspace are never under way at once: each resets the count
\* and tells the webviews to reload, and would do so to the other's edits.
OneHealAtATime ==
  \A s, u \in Underway("healSession") :
    handler[s].target = handler[u].target => s = u

AllEnded == \A s \in Slot : handler[s] = Idle

\* Every handler ends, whatever is staged, squashed, healed or lost meanwhile
\* (the loops over the staged count may never see the number they wait for),
\* and a workspace that was healed can be healed again.
EveryHandlerEnds == <>[](AllEnded /\ healing = {})

\* Once no more messages come in, the count of a handle that is ready becomes
\* the number of edits staged, in whatever order answers, forced zeros and
\* increments set it before, and the panel of a session of one workspace comes
\* to show it.
CountSettles ==
  \A r \in Root :
    <>[](r \in ready => /\ stagedCount[r] = Cardinality(staged[r])
                        /\ shown[r] = Cardinality(staged[r]))

\* When a commit has written all that is staged, and no handler is under way,
\* the count is 0.  It does not hold: persist keeps the transactions, and the
\* next poll counts them again (SessionCommit.cfg).
CommittedIsNotCounted ==
  \A r \in Root : AllEnded /\ staged[r] \subseteq written[r] => stagedCount[r] = 0

\* An edit made in the panel of a workspace is staged in that workspace.  It does
\* not hold: commands resolve a workspace of their own (SessionRoots.cfg).
StagedWhereItWasMade == \A r \in Root : \A e \in staged[r] : used[e] = r
=============================================================================
