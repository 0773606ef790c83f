# Verification of Zenith

TLA+ models of Zenith, the visual editor made of a VS Code extension, a Rust
sidecar, bundler plugins and a webview, with TLC configurations that check them
on small instances and TLAPS proofs of what matters most. Paths are relative to
the repository; in lists the prefix `zenith-sidecar/src/` is written `sc/`,
`zenith-extension/src/` is `ext/`, `zenith-extension/webview-ui/src/` is `ui/`
and `zenith-vite-plugin/src/` is `vite/`.

- [Inventory](#inventory): the system's parts, their state and what makes them correct
- [Modules](#modules): what is modelled, and how it corresponds to the code
- [Runs](#runs): what each check asks, its bounds, its answer
- [Findings](#findings) and [conditions under which properties fail](#conditions-under-which-properties-fail)
- [Fairness](#fairness) and [refinement](#refinement)
- [Proofs](#proofs)
- [What is not modelled](#what-is-not-modelled)
- [Plan](#plan)

## Inventory

### How the parts work together

The page under edit runs in a frame of the webview. The plugin gives every JSX
element of it an id; a click on one reaches the webview, whose edits go to the
extension as messages. Slider movements go through a memory-mapped ring to the
sidecar, which answers with CSS overrides for preview; everything else becomes a
JSON-RPC request over one WebSocket. The sidecar keeps the staged edits as an
overlay over the project's files, journals them, serves the overlaid texts to
the plugin, and writes them to the disk when the user commits. The extension
starts, polls, heals and stops the sidecar, one per workspace.

    page <--- messages ---> webview --- messages ---> extension --- ring ---> hot-path thread
     ^   (Canvas, Geometry)  (Designer)               (Session,              (HotPath)
     |                                                 Workbench,               | overrides
     | ids, texts                                      Lifecycle)               v
    plugin <---- texts ---- sidecar <--- JSON-RPC (RpcClient) --- extension   webview
    (Transform, GhostIds)   (Vfs) ---> stage.wal, files

### Components

Each entry gives state, operations, what is hard, and what correct means.

**Staging layer** (`sc/vfs/mod.rs`, `wal.rs`, `storage.rs`, `engine.rs`; handlers
in `sc/rpc.rs`). State: `base` (texts loaded from the disk), `transactions` and
`transaction_order`, `merged_cache`, `file_locks`, `draft_transactions`,
`staged_intents`, the log `.zenith/stage.wal`, the files. Operations: stage,
stage_batch, stage_universal, rollback, heal, commit (persist), the two-phase
prepare/commit of the library, harden_wal, recovery and crawl at start-up.
Handlers are serialised by one `RwLock`. Hard: crashes between file writes, torn
and unsynced log lines, failed truncation, requests between recovery and crawl,
snapshot and restore around a failing patcher, files saved in the editor
meanwhile, edits that are whole files made of earlier edits. Correct: merged texts
are made of their base and of what is staged, and show all that is staged; the
indexes agree; the user's own saves survive. One would add that no acknowledged
edit disappears, that a discarded one is seen no more and a draft never written;
the code keeps [none of these](#findings).

**SAB hot path** (`ext/hot_path.ts`, `sc/hot_path/ring_buffer.rs`, `sc/main.rs`).
State: 512 slots with payload and sequence number, producer's `sequence`,
consumer's `read_pos`, a channel of capacity 256. Hard: no lock; slots rewritten
under the reader; laps; full channel; restarts of either side over the same
file. Correct: an override belongs to one event, the consumer catches up, and
the last event of a scrub is the last shown.

**RPC client** (`ext/rpc_client.ts`). State: the socket in use, the request
counter, pending requests, the connect under way. Hard: events of earlier
sockets, several timers, a close in the middle of a connect, numbers that start
again. Correct: every call settles, an answer reaches the call that asked.

**Sidecar lifecycle in the extension** (`ext/extension.ts`, `sidecar_manager.ts`).
State: `activeSidecars`, `ongoingStartups`, process, pid file, polls under way.
Operations: ensure, verify, probe for a port, detect, kill the orphan, spawn,
connect, poll, stop, restart. Hard: every `await` lets other handlers run, and
entries are looked up before one and deleted after it. Correct: one start-up per
port, nothing stays in state starting, a dead sidecar is noticed.

**Sessions** (`ext/extension.ts`: `handleWebviewMessage`, the engine commands, the
polling loop). State: the staged count of each handle and of each panel, the heal
lock, handlers under way. Hard: a count is set by polls, forced to zero by
commits and heals, and incremented by handlers, in any order; loops wait for a
number that may never come. Correct: handlers end, and counts become true.

**Panels and projects** (`ext/extension.ts`: `ZenithPanel`, the sidebar,
`resolveTargetWorkspace`, `detectDevServers`). State: the panels, the current
one, the workspace each shows, `lastValidWorkspaceRoot`, a cache of detected
servers. Hard: detections overlap, panels close and move while one is awaited.
Correct: a panel goes only when the user closes it or another takes its place;
nobody is told of a server that has long been gone.

**Inspector and stores of the webview** (`ui/stores`, `ui/bridge.ts`,
`ui/components`). State: selection and signature, style history, two throttles,
the badge. Hard: throttled edits against a changing selection, counts of its own
against the host's. Correct: an edit goes to its element, the newest edit is
posted, the badge becomes true.

**Canvas** (`ui/hooks/useArtboardInteraction.ts`, `useStructuralDND.ts`,
`ui/components/Canvas.tsx`, `vite/runtime-bridge.ts`). State: the gesture, drag
state, animation frame, the frame's lock; in the page the live styles and those
kept to restore, the editable texts. Hard: effects are set up again under a
gesture, messages are under way both ways, the frame reloads. Correct: nothing
of a gesture outlasts it, live styles are taken back, a text is posted once.

**Canvas geometry of the webview** (`useArtboardInteraction.ts`,
`ui/utils/snapUtils.ts`): resizing, snapping and drop targets, without state.

**Ghost ids** (`vite/injector.ts`, `vite/surgical.ts`). Ids from the path to an
element, a lookup by a second traversal, edits of the syntax tree. Hard: two
algorithms in two files must agree on fragments, expressions and returns; ids may
be older than the text. Correct: the lookup inverts the ids; edits keep out of
dynamic blocks; texts replace no sibling.

**Transform** (`vite/index.ts`, `zenith-next-plugin/src/zenith-loader.ts`). State:
a cache by hash, attempts, the connection to the sidecar and its port, the
loader's failures. Hard: a sidecar that comes late, moves to another port, or
cuts an answer off. Correct: transforms end, the port is found again, the loader
does not give up on a sidecar it has reached.

**RPC server and idempotency** (`sc/rpc.rs`, `sc/lib.rs`): `rpc_history`, sandbox
table, registries. **Undo history** (`sc/vfs/history.rs`). **Text edits**
(`engine.rs` apply_edits). **Intent patchers** (`sc/patcher/*`, `sc/vfs/worker.rs`).
**Operational-transform engine** (`sc/conflict/ot_engine.rs`), **LWW resolver**
(`lww.rs`), **soft locks** (`soft_lock.rs`), **agent stream** (`sc/stream/*`).
**Change ledger** (`sc/ledger/*`). **Ghost registry** (`sc/vfs/ghost_registry.rs`).
**Mock overlay** (`mock_engine.rs`). **Predictive pre-patcher**, **smart guides**,
**gap scrubber**, **token snapper** (`sc/hot_path/*`). **Rebase engine**
(`sc/rebase`), **design auditor** (`sc/auditor`), **framework detector**
(`sc/project`). **Proxies** (`sc/proxy`), **HMR notifier** (`sc/hmr`). **Next and
legacy plugins**, **demos and website**. What of these is modelled, and why the
rest is not, is in PROJECT.json for each and summed up
[below](#what-is-not-modelled).

## Modules

| module | models | written as |
|---|---|---|
| `Vfs` | staging layer, log, disk writer and its RPC handlers | one action per handler; persist in steps |
| `MCVfs` | constants of the runs of `Vfs` | instance for TLC |
| `VfsHistory` | what users gave up, over the instances of `MCVfs` | history variable, and the claims the code does not keep |
| `VfsProofs` | inductive invariant and theorems of `Vfs` | TLAPS |
| `HotPath` | ring, producer, consumer, override channel | one action per shared load or store |
| `HotPathProofs` | inductive invariant and theorems of `HotPath` | TLAPS |
| `RpcClient` | RPC client and its sockets | one action per event of the event loop |
| `Lifecycle` | start, watch and stop of sidecars | one action per stretch between two awaits |
| `LifecycleProofs` | inductive invariant and theorems of `Lifecycle` | TLAPS |
| `Session` | handlers that stage, commit and heal, the poll, the counts | handlers as sequences of calls |
| `CallProofs` | inductive invariants and theorems of `RpcClient` and `Session` | TLAPS |
| `Workbench` | panels, target workspaces, detection of servers | messages, and jobs that await a detection |
| `MCWorkbench` | symmetry of the run of `Workbench` | instance for TLC |
| `WorkbenchProofs` | inductive invariant and theorems of `Workbench` | TLAPS |
| `Designer` | selection, history, throttles, menus, badge | one action per field, key or menu |
| `Latest` | a channel that keeps only the newest value | abstract; `Designer` implements it twice, `HotPath` where it is proved |
| `DesignerProofs` | inductive invariant and theorems of `Designer` | TLAPS |
| `Canvas` | gestures, text editing, and the page's side of them | two event loops that exchange messages |
| `Geometry` | resizing, snapping, drop targets | functions; `Canvas` extends it |
| `CanvasProofs` | inductive invariant and theorems of `Canvas`, resizing and snapping of any size | TLAPS |
| `GhostIds` | ids, their lookup and the edits of a file | one action per node written, transform and edit |
| `Transform` | the transform of the Vite plugin and the Next loader | one action per socket event, timer, answer |
| `PluginProofs` | inductive invariants and theorems of `Transform` and `GhostIds` | TLAPS |

### Vfs

**A text is the set of the changes found in it.** `intent_to_edit` patches the text
that readers see (the merged one, or the base when a client has chosen that view with
`toggle_view`) and stages the whole patched file, `new_text`, as an edit at 1:0. What
is staged with one transaction thus carries what others had staged before it.
`apply_edits` inserts that file before the first line and replaces nothing, so
a merged text is its base and the texts of all its edits one after the other: the
union of their changes. How often a change occurs and where is left out (a second
edit, and any edit after a commit, doubles what it carries), and with it the order of
edits, so `transaction_order` is a set: what the code can get wrong about it is
whether an id is there.

The change `Original` stands for the file's own first line, `Below` for its further
lines, `IdeEdit` for a save in the editor, which may leave the file with one line. An
edit whose line a text does not have is skipped without a word while it stays staged:
one of `intent_to_edit` (`at` is `Original`) in an empty text, one of the crate's
callers (`at` is `Below`) in a text of one line too.

**Handlers.** A handler holds the write lock from beginning to end, so it is one
action, including the journal line, the reload, the squashing and the rebuild of
merged texts it ends with. `persist` awaits file writes while it holds the lock:
nothing else is served, but a crash or a failed write may fall between two steps,
so it is `RpcCommit` or `RpcPersist`, then `PersistOpen`, `PersistWrite` (or
`PersistFails`) per file, then `PersistFinish`, which advances the base and
truncates the log.

| action | code |
|---|---|
| `RecoverFromWal`, `ScanProject` | `recover_from_wal`, `scan_project` (mod.rs), called in order by main.rs |
| `StagePatch`, `StageDraft` | `stage`, `stage_draft` |
| `RpcStage`, `RpcStageFails` | rpc `stage` and `stage_batch` around `stage_mutation`, with snapshot and restore |
| `StageUniversal`, `...Reviewed`, `...Fails` | rpc `stage_universal`, which has no snapshot and drops the verdict |
| `Rollback`, `Heal`, `HardenWal`, `RegisterGhosts` | the handlers of these names and the reloads they do |
| `Prepare`, `Commit`, `ClearStaging` | the library's two-phase commit (its caller writes the returned texts; that write is part of the step) and `clear_staging` |
| `Crash`, `IdeSave` | the environment |

`AppendResults` and `TruncateResults` are the outcomes of the two calls of the log. A
truncation blocked by a lock renames the file away or opens it again as it is; when
that open fails as well, the writer is left without a file (`wal_open`, wal.rs:195 and
:200), every later append fails, and edits are acknowledged all the same.

A request refused for a conflict changes nothing, so it has no action. The intents
of a client, the file of each and the verdicts between them are constants:
`fileOf`, `Squash` (which staged intent a new one replaces) and `Review` (which
pairs the transform sends to a human).

**Switches.** `Ops` adds operations: `"universal"`, `"harden"`, `"ide"` (saves in the
editor), `"library"` (calls open to the crate's callers) and `"toggle_view"`. `Faults`
adds failures: `"crash"`, `"tear"` (dying inside an append), `"power"` (losing unsynced
lines), `"wipe"` (dying or failing between the truncating open of a file and its
write), `"append"`, `"truncate"`, `"surgical"` (the patcher fails), `"io"`.
`ServeBeforeCrawl` is TRUE in the code; the configurations in which it is FALSE
show that a property fails without that help too.

**Reading the code.** At this commit `vfs/mod.rs` uses a field
`transaction_order` that its struct does not declare, and a test function is not
closed; the model takes their evident meaning: a list of ids in staging order.

### HotPath

The producer's payload and sequence number, and the consumer's loads of them, are
separate steps, since the two processes share only the mapped file. A payload is
two fields that hold the number of the event they belong to, which is all that is
needed to tell a mixed message from a whole one. `ReadValue` includes
`dispatch`: the position moves on and the override is sent without waiting.
`ConsumerRestarts` is the sidecar starting again over the file, `NewSession` the
extension starting it with a new producer; `SidecarManager.start` keeps a file
with a valid header, so the old sequence numbers stay.

`RingBufferProducer` is created by `sidecar_handler.ts`, the refactored copy of
the start-up; the model is of producer and consumer as they are written.

### RpcClient

An action is one event: a call, an event of a socket, a timer. Continuations of
awaited promises run before the next event, which `Quiet` says; `Resume` is what
follows the `await` in `call`. Sockets are numbered as they are made, and an old
one may still speak: its listeners say whether anybody hears it.
`removeAllListeners` and `terminate` in `_attemptConnection` leave a socket with no
listener; `disconnect` leaves the listeners on. The `ws` package and the peer are
external: a terminated or closed socket that was still connecting errs, an open
one closes later; answers come in any order or never. Not modelled: the error
that `ws` raises when a connecting socket is terminated without listeners, and
answers that are not JSON (the handler logs them and goes on).

### Lifecycle

A start of a sidecar is numbered, and its handle, manager and process go by that
number. `start[h].at` says at which `await` the start-up stands; each action is
what runs from one `await` to the next, with the assignments the code makes
there. `ensureSidecarForWorkspace` is `Ensure`, then `VerifyAnswered` or
`VerifyFails` after the status call, `Probed` after `getAvailablePort`, and
`Launch` where the port is claimed. The start-up it leaves behind is `Detected`,
`killOrphanSidecar`, `OrphanForgotten`, `Spawn`, `Connected`, `StartFails`,
`Greeted`. `StopBegins` and `Stopped` are the two ends of the three seconds that
`SidecarManager.stop` waits. A sidecar that finds another one serving its folder
ends at once (main.rs), which `Spawn` says. `Detected` may fail: `getGlobalIndexPath`
makes a directory after the port was claimed and before the `try` whose `finally`
gives it back, and when that throws the claim stays (`at` is then `"failed"`). Faults:
`"exit"` (a process dies), `"slow"` (a status call times out although somebody
listens), `"missing"` (no binary), `"indices"` (that directory cannot be made).

### Session

A handler is a sequence of calls to a sidecar, `Program[name]`, in the order in
which the `case` of `handleWebviewMessage` and the commands it runs make them,
with what each does to the counts when it returns. `Receive` starts one, `Serve`
is the sidecar, `GoOn` and `GoOnAsking` continue after an answer (the latter in
the loops over `staged_count`), `Fails` is a call that fails or times out, served
or not. `moveNode`, `groupNodes`, `structuralOperation` and `universalStage` send
what the sidecar cannot read: they end in `Fails`. The sidecar is reduced to the
set of its staged edits and of those it has written; `Alike` edits squash each
other. The second `case 'commit'` of the switch is never reached and is left out.

### Workbench

A message or command is an action; what awaits `detectDevServers` is a job that
comes out of `Detect` (no detection needed, or cached) or `ProbeEnds`. It then tells
its webview, or first asks the user, as `resolveDevServerUrl` does: the job is
`"asking"` until `UserAnswers`, which may be any number of ticks later. `Targets` is
`resolveTargetWorkspace`, `CreateOrShow` the static method with `dispose`,
`CurrentAfter` what `dispose` leaves as the current panel. Time is `Tick`: it ages
the cache and what is known of a server, and a probe lasts one tick at most.
`posted` is what the last step told a webview. Reads of configuration files that are
awaited beside a detection are taken to end first. The folders do not change.

### Designer and Latest

Edits are numbered; styles are left out, and of the history its length and the
place in it are kept. `Throttled` is `throttle` of bridge.ts: at once when cool,
else remembered in place of the call before; `Timer` posts what was remembered.
Every field that commits is an action of its own (`Pick`, `Colour`, `Text`,
`Slide`, `Scrub`, `Number`, `SpacingDone`, `LinkedDone`, `Drop`), all of which
commit through `Patch`, which counts a batch once for each of its styles and a linked
field once for each side, as the stores do; menus and keys post one message each. The host counts
(`CountAfter`), fails on what names no element, and sends its count. `Latest` says
what a throttle promises: it may drop all but the newest value.

### Canvas and Geometry

Two event loops, the webview's and the page's, with a queue each way. The effect
that holds a gesture's listeners is set up again when the selection, the zoom or
`isDragging` changes: its cleanup (`Resubscribe`) acts as if the gesture ended,
with the element selected before. `Frame` is the animation frame, `PointerUp` the
end with the effect's cleanup after it. In the page, `LiveResize`,
`LiveDragTransform` and `LiveInteractionCleanup` change and restore the inline styles
of an element, in three groups that are kept together: transition, size and
transform. A group is the element's own, absent, live or computed: what a drag
keeps to restore of a transform that is not inline is the computed one
(`OrComputed`), and the cleanup writes that back inline. `Inline` are the elements
with a transform of their own. `SetEditable`
adds a pair of listeners each time it is asked. `Reload` is a new page in the
frame.

`Geometry` takes a rectangle one axis at a time. `Resized` is the whole of
`onPointerMove` in a resize: the sizes pulled by the pointer (`Stretched`, and with
Shift `Locked`, for rectangles of any proportions, where the size that follows may
fall below 1), the place that leaves the edge across where it is (`Placed`), and the
snap of the result, which moves it and leaves its size. Lengths are in half pixels
and sizes even, so that halves are exact; what follows in proportion is rounded.
Only elements that are not rotated are covered, since trigonometry needs reals.

### GhostIds

A file is the preorder sequence of its JSX nodes with the parent of each. `IndexOf`
and `GhostId` are `getJSXElementIndex` and the id of injector.ts; `Lookup`,
`Match`, `Roots` are the traversal of surgical.ts with its fallbacks; `Edited` its
edits of children, by splices that renumber what follows. `Write` builds every
file up to the bound, `InjectGhostIds` is a transform, and `Patch` an edit by an id
that may be older than the text. The branches for a fingerprint and an expected tag
are left out, since the sidecar sends neither.

### Transform

There is one file; its texts are numbered, and a text stands for its hash.
`ConnectRpc`, `Close` and `Reconnect` are the connection with its port index,
`Transform`, `Answered`, `Unanswered` and `CutOff` a transform with its question
to the ghost proxy, `LoaderCalled`, `Given` and `Failed` the Next loader. `plugin`
chooses between the two at the start. `CutOff` is a connection that ends without
`error` or `timeout`: the promise stays pending in the code, and here.

## Runs

Twelve runs; the two marked V are expected to find their property violated, and the
findings below quote what the repository says. Deadlock is checked in the runs of
`Vfs` and `Transform`, where something is always possible; elsewhere the bounded
number of events, calls, gestures or nodes runs out, so it is off. The largest are
`vfs_faults` (1.6 million distinct states, two minutes), `canvas` (1.6 million, three
minutes) and `lifecycle` (0.9 million).

| run | instance | shows |
|---|---|---|
| `vfs_faults` | 1 file, 2 transactions, 2 edits, 2 conflicting intents; all operations, all failures but `"power"` and `"append"`, requests before the crawl | `TypeOK`, `MergedFromStaged`, `StagedIsOrdered`, `IntentsBackedByPatches`, `StagedIsVisible`, `LoadedSavesSurvive`, `LockNeverStolen` |
| `vfs_discarded` V | two intents on one file, no failure | `DiscardedNotShown` fails |
| `vfs_drafts` V | drafts beside ordinary transactions | `DraftsNeverWritten` fails |
| `hot_path_ring` | 3 slots, channel of 1, 7 events, one restart of either side | `TypeOK`, `InStep`, `TornOnlyWhenLapped`, `CatchesUp`, `LastEventShown` |
| `rpc_client` | 3 calls, 2 attempts per connect | `AnswersMatch`, `OneConnect`, `EveryCallSettles` |
| `lifecycle` | 2 folders, 2 calls at a time, 2 starts, all faults | `OneStartPerPort`, `StartingIsUnderWay`, `DeadIsNoticed` |
| `session` | 1 workspace, 2 edits that squash each other, 2 handlers at a time, timeouts and refusals | `EveryHandlerEnds`, `CountSettles` |
| `workbench` | 2 folders (one the demo), 2 panels and the sidebar, 2 jobs, 1 server, 3 messages | `PanelStays`, `ServersAreFresh` |
| `ghost_ids` | every file of up to 4 nodes over two tags and a dotted one, every edit, current and older ids | `PlainRoundTrip`, `LockHolds`, `SiblingsKept` |
| `transform` | 2 transforms at a time, 2 texts, 2 attempts, 3 ports | `KeepsAsking`, `EveryTransformEnds`, `Reconnects` |
| `designer` | 2 elements, 3 edits, 2 other requests (4 together), history of 2 | `SentForItsElement`, `NewestIsSent`, `BadgeSettles` |
| `canvas` | 2 elements, one with a transform of its own, 4 acts of the user beside moving and releasing the pointer; resizes and snaps of small rectangles | `GestureOwnsState`, `LiveIsOwned`, `TextOnce`, `SettledBetween`, `Restored`, `ResizeHoldsOrSnaps`, `SnapsToNearest` |

### What the properties say

*Staging.* `MergedFromStaged`: a merged text has a base and is made of it and of
the edits still staged for the file, after rollbacks, squashes, heals, restores and
restarts; what is discarded no longer adds to it by itself. It may still be there
within a later edit, which is the whole file as it then looked: see `DiscardedNotShown`.
`StagedIsVisible`: once the crawl is over, an edit staged by an intent on a file that
is not empty is in what readers see, also one that recovery replayed, or whose file a
failed request loaded. `StagedIsOrdered` and `IntentsBackedByPatches`: the
three indexes agree after squashes, restores and rollbacks. `LoadedSavesSurvive`:
a save that the sidecar has loaded is in what persist writes, unless a write is cut
off. `LockNeverStolen`: prepare cannot take a lock over. `DiscardedNotShown` and
`DraftsNeverWritten` are what documents say and the code does not do.

*Hot path.* `TornOnlyWhenLapped`: in the first session, a mixed message takes a
producer a full ring ahead. `InStep`: after any jump the consumer reads a slot
under a number that belongs to it. `CatchesUp`: every published number is
reached or passed. `LastEventShown`: the webview ends up with the last event,
unless its send was refused for want of room.

*RPC client.* `OneConnect` and `AnswersMatch` hold until `disconnect` is called,
and `EveryCallSettles` always.

*Lifecycle.* `OneStartPerPort`: the ports claimed are those of the start-ups that
have not come to their end, and no two share one, whatever fails, stops or is called
twice; a claim left behind turns every later start on its port into nothing,
without an error. One path does leave it, the failing directory above
(`ClaimedIsUnderWay`), and the run includes it. `StartingIsUnderWay`: a handle
in state starting has a start-up that will bring it out of it, and
`ensureSidecarForWorkspace` relies on that when it returns at once.
`DeadIsNoticed`: a registered sidecar that is gone does not stay ready.

*Session.* `EveryHandlerEnds`: whatever is squashed, healed, refused or lost while
a handler waits for a number. `CountSettles`: once messages stop, the count of a
ready handle, and what its panel shows, become the number of staged edits.

*Panels.* `PanelStays`: an open panel closes only when the user closes it or
another main panel takes its place. `ServersAreFresh`: a detected server that a
webview is told of, or that the user is offered when the dialogs open, was up at most
one TTL and a probe ago, although probes overlap and the one that ends last sets the
cache. What the user answers is not looked at again (`ToldIsFresh`).

*Webview.* `SentForItsElement`: an edit is posted for the element it was made on.
`NewestIsSent`: each throttle implements `Latest`. `BadgeSettles`: the badge comes
to show the host's count. `GestureOwnsState`: without a gesture the frame takes
pointer events, nothing is dragged, and no animation frame is pending or in the
way of the next one. `LiveIsOwned`: every live style, on the page or in a message,
has a cleanup behind it or a gesture that will send one. `SettledBetween`: an
element without live styles has each of its styles as the page gave them, or the
computed transform where it had none inline: never a half of them, or what one gesture
kept while another's were live. `Restored`: it comes to that in the end. `TextOnce`: a text is posted at most once for each time it was
edited. `ResizeHoldsOrSnaps`: along each axis a resize leaves the edge across from the
handle (with Alt the centre) where it is, or moves it by a snap of less than the
threshold that puts what the handle holds on an edge of another element; and a
size that is pulled is at least 1, or one of the two is with Shift.
`SnapsToNearest`: snapping goes to the nearest edge within the threshold and shows
a guide there.

*Plugin.* `PlainRoundTrip`: in a file without expressions, dotted names, returned
fragments or bare returns, an element's id leads back to it. `LockHolds`: no edit
but a structural one goes into a dynamic block of a component whose one return is
braced and of one element, when no element of a `{...}` could be taken for that
one. `SiblingsKept`: a text edit keeps the elements beside
the text. `KeepsAsking`: a loader that has reached the sidecar once never stops asking.
`EveryTransformEnds`: a transform ends unless its answer was cut off.
`Reconnects`: a sidecar that stays on one of the ports is connected to.

The type invariants of the other modules (of `GhostIds` it is `FileTypeOK`, that an
edited file is still the preorder of a forest), and `NumbersFresh` (`RpcClient`),
`OneHealAtATime` (`Session`) and `CurrentIsOpen` (`Workbench`), are stated in the
modules and hold on the same instances; no run lists them. All are proved below.

### Bounds, and why they are enough

- `Vfs`: two transactions are what squashing, conflicts and lock stealing take. One
  file and two edits, each staged once, let an edit carry another, be squashed or
  rolled back, and be committed and followed by one more. `"power"` and `"append"` make
  logs of every length and change nothing that the run's properties speak of; the
  theorems cover them, and any number of files. Edits and transactions are
  interchangeable and no constant singles one out, so TLC uses their permutations as
  symmetry (these runs check no liveness).
- `HotPath`: seven events over three slots are two laps and one event; one slot
  of channel makes it full at once. The proofs cover every ring size.
- `RpcClient`: three calls are the least that violate `OneConnect` when listeners
  are kept on a replaced socket (one to open it, one to replace it, one to start
  the second connect). Two attempts give a first and a last one. Calls are
  numbered in the order they are made, which loses nothing.
- `Lifecycle`: two starts are a sidecar and its successor, on one folder or two;
  two calls race; ports are one more than starts, so a free one is always found.
- `Session`: one workspace, since counts of two interact only in what panels show
  (`SessionRoots.cfg` has two); two handlers race each other and the poll; two
  attempts are a first and a last; two messages, because a third only repeats a
  race of two. Messages are the ones with different programs: `stage`,
  `duplicateNode` and `patchStyle` differ only in where they set the panel.
- `Workbench`: two panels and the sidebar give a current panel, another one and a
  webview without a workspace; two jobs overlap; a TTL of one tick tells fresh
  from stale. Panels and jobs are interchangeable, so TLC uses their
  permutations as symmetry. `Config`, `Vite`, `Setting` and `Own` are empty, which leaves the
  detection as the source of servers.
- `Designer`: three edits are one that goes out, one that is dropped and one that
  is kept; a history of two overflows.
- `Canvas`: four acts select, start a gesture, disturb it and start another.
  `Pending` bounds the messages under way when the user adds one.
- `Geometry`: pointer movements reach past the opposite edge on both sides, of
  squares and of rectangles four times as wide as high or the other way round; the
  threshold of three lets two edges be within it at different and at equal
  distances. The theorems are about every size, movement and number of elements.
- `GhostIds`: four nodes are an element with a fragment or an expression between
  it and two children, the smallest file in which the traversals can disagree. The
  theorems speak of files of every size, and their proof found what four nodes do
  not show: the lookup in a six-node file that `GhostIdsLock.cfg` runs into.
- `Transform`: two texts are what a cache can mix up; three ports make the index
  wrap; two transforms under way let failures be counted past the limit.

## Findings

**Discarded edits stay in later ones** (`vfs_discarded`). Two edits of a file are
staged, and the first is rolled back. The second is the whole file as readers saw it
with the first in it, so the merged text still shows the first, and a commit writes
it. A squash does the same where something was staged in between.

**Drafts reach the disk** (`vfs_drafts`). Commit refuses only when all transactions
are drafts. With an ordinary one beside them, the merged text that persist writes
contains the draft's patch, which documents of the repository exclude.
PROJECT.json has the lines.

### Conditions under which properties fail

These are reproduced with `tlc -config X.cfg M` or by changing one constant; no
run lists them, since no document says otherwise, or since the document that does
is about another level.

| configuration | property that fails | why |
|---|---|---|
| `VfsRollback.cfg` (`VfsHistory`) | `DiscardedStaysOut` | rollback clears memory, not the log: what was rolled back is staged again after a restart |
| `VfsCold.cfg` (`VfsHistory`) | `NothingStagedIsLost` | a commit served before the crawl merges nothing that recovery replayed and truncates the log |
| `VfsClosed.cfg` (`VfsHistory`) | `NothingStagedIsLost` | a truncation that fails twice leaves the log without a file; edits are acknowledged in memory only |
| `VfsUniversal.cfg` (`VfsHistory`) | `NothingStagedIsLost` | stage_universal acknowledges what it did not stage |
| `HotPathTorn.cfg` (`HotPath`) | `NoTornMessage` | a slot is not checked again after it is decoded, and a lap in between mixes two events |
| `HotPathSession.cfg` (`HotPath`) | `LastEventOfAnySessionShown` | the ring keeps old numbers and the new producer counts from 1 |
| `LifecycleOrphan.cfg` (`Lifecycle`) | `StartedIsRegistered` | a stop or a failed verification deletes the entry of a start that came in between |
| `LifecyclePort.cfg` (`Lifecycle`) | `ClaimedIsUnderWay` | getGlobalIndexPath may throw between the claim of a port and the `try` that gives it back |
| `SessionCommit.cfg` (`Session`) | `CommittedIsNotCounted` | persist keeps the transactions, so the next poll counts them again |
| `SessionRoots.cfg` (`Session`) | `StagedWhereItWasMade` | commands resolve a workspace of their own, which need not be the panel's |
| `WorkbenchSwitch.cfg` (`Workbench`) | `SwitchedIsMoved` | manualConnect moves the current panel and tells the sender, which may be another one |
| `WorkbenchDialog.cfg` (`Workbench`) | `ToldIsFresh` | the server picked in a dialog is not looked at again, however long that was open |
| `WorkbenchMain.cfg` (`Workbench`) | `OneMainPanel` | dispose forgets the current panel whichever one closes, and the next command opens a second main one |
| `GhostIdsUnique.cfg` (`GhostIds`) | `UniqueIds` | what an expression holds has index 0, as its plain sibling may |
| `GhostIdsLock.cfg` (`GhostIds`) | `BlocksPatching` | when the path from the root leads nowhere the lookup starts again from an element of a block that could be a root, and goes down from it without a lock |
| `TransformStale.cfg` (`Transform`) | `CachedIsCurrent` | the cache is keyed by the text on disk: what is staged or rolled back later is not asked for |
| `CanvasResize.cfg` (`Canvas`) | `ResizeHolds` | the snap that ends a resize moves the element and leaves its size, so the edge across moves with it |
| `CanvasStyle.cfg` (`Canvas`) | `NothingLeft` | what is kept of a transform that is not inline is the computed one, and it is written back inline |

- `NothingStagedIsLost` holds on the instance of `VfsCold.cfg` when requests wait for
  the crawl and `Faults` has `"crash"`, `"surgical"` and `"io"`. Beside the three
  configurations it then fails with `"tear"` (the reader stops at the first line that
  does not parse, and the writer appends after it), `"power"` (no caller syncs the
  log), `"append"` (a failed append is logged and the request answered Success) and
  `"wipe"` (a crash in a second commit empties a file whose edits the first took from
  the log), and with `"library"` (`commit` of one transaction truncates the lines of
  all) or `"harden"` in `Ops`.
- `StagedIsVisible` speaks of the time after the crawl, since recovery stages patches
  of files that are not loaded; of files that are not empty, in which an edit has no
  line to land on; and of edits made by `intent_to_edit`, since one of the crate's
  callers may name a line that a save has removed.
- `LoadedSavesSurvive` excepts a file that is empty: a write that fails or is cut off
  after the truncating open leaves it so, and the file's own text is then nowhere.
  The log has only the edits.
- `AnswersMatch` and `OneConnect` fail without their condition on `disconnected`:
  the socket that `disconnect` closes keeps its listeners, and its late close
  event resets the counter and the connect flag of a connection made since. In
  the extension this needs a call between `disconnect` and the end of
  `manager.stop()`, up to three seconds, in which the status poll may call.
- `CountSettles` speaks of handles that stay ready: after one status call that
  times out a handle is in error, only ready ones are polled, and it does not
  come back by itself.
- `EveryTransformEnds` excepts a question whose connection ends without a whole
  answer; `KeepsAsking` a loader that has not reached the sidecar within its
  first failures.
- `BlocksPatching` is `LockHolds` without its condition on what a `{...}` holds, as
  `tests/surgical_audit.test.ts:94` of the plugin has it ("blocks patching inside
  logic/dynamic blocks (Logic-Lock)"). The file is
  `<a><a/>{c && <a><a><a/></a></a>}</a>`: the innermost element has the id of a path
  that ends at the second node, so the first root fails; `isComponentRoot` accepts
  the element of the expression too, and what the lookup makes below it has no
  path in which `isInDynamicBlock` could see the block.
- `LockHolds` and `PlainRoundTrip` except components that return fragments or
  whose return is the unbraced body of an if, where the injector counts the
  return from 0 and the lookup counts it among the function's.

Hazards beyond the list in PROJECT.json, at their lines, with the reason that no
property covers them:

- `sc/vfs/wal.rs:183`, `sc/vfs/mod.rs:1117`: blocked truncation and unsynced lines
  are faults of `Vfs`.
- `sc/vfs/mod.rs:716`: squashing one's own transaction takes its id out of the
  order and must bring it back; `StagedIsOrdered` covers it with the rest.
- `sc/rpc.rs:213`, `:240`, `sc/lib.rs:72`: the idempotency map is read before the
  wait for the lock and written after, keeps errors, and prunes in map order. The
  extension draws a new transaction for each edit and never retries a stage.
- `sc/rpc.rs:428`: two sandbox starts for a port; `sc/rpc.rs:162`: `select_element`
  reads a registry that registration never updates.
- `ext/hot_path.ts:144`: the sequence number wraps at 2^32, months of scrubbing.
- `ext/sidecar_manager.ts:327`, `:341`, `:361`: the close handler removes a pid file
  that a later process wrote; `purgeStagedLayer` removes `staged.wal` where the
  log is `stage.wal`; a process that ignores SIGTERM is never killed.
- `ext/extension.ts:2241`, `:1109`: a panel moved during a detection is told its new
  name with the old server; the last valid root may name a folder closed since.
- `vite/surgical.ts:383`: the search by fingerprint finds no element;
  `vite/injector.ts:153`: bare returns are counted in two ways.
- `vite/index.ts:265`, `:171`: a late transform registers ids of an older text; the
  registry is warmed once. `vite/shadow.ts:53`: the manifest keeps old ids.
- `ui/stores/useSelectionStore.ts:226`: undo posts to the element selected now, and
  before a pending throttled edit; `:144`: a drop patches the element selected
  when the pointer comes up.
- `ui/hooks/useStructuralDND.ts:30`: rectangles from the page have `x` and `y`, not
  `left` and `top`, so no drop target is ever found; `DropTarget` does the same.
- `ui/components/Canvas.tsx:171`: `isEditingText` stays set when a reload loses the
  message that ends it. `SurgicalDoctor.tsx:132` waits for an answer nobody sends.
- `sc/ledger/mod.rs:172`, `:274`, `sc/conflict/lww.rs:233`: not modelled.

## Fairness

- `Vfs`, `Workbench`, `GhostIds`: none; their properties are about single states
  and steps.
- `HotPath`: weak fairness of the consumer's steps (a thread that polls without
  end) and of the forwarder (an async task that is always ready when the channel
  is not empty). None of the producer, which depends on the user, nor of
  restarts.
- `RpcClient`: weak fairness of timers and of continuations, which the event loop
  runs. None of sockets, the sidecar or callers: every call settles even if no
  socket ever opens, errs, closes or answers.
- `Lifecycle`: the steps of a start-up (its promises settle), the interval timer of
  the poll, and the end of a status call, which `EveryCallSettles` justifies. None
  of calls, of stops or of processes.
- `Session`: a call is served or fails (`EveryCallSettles` again), a handler whose
  call was answered goes on, the poll and the timer of the heal lock go off.
- `Transform`: sockets report, the reconnection timer and the warm-up timer fire,
  and a question is answered, refused or cut off. None of the sidecar.
- `Designer`: throttle timers, the host's handling of messages, its poll and the
  delivery of its counts. None of the user.
- `Canvas`: messages are delivered and handled, and a pointer that is down comes
  up or the window loses the focus. None of anything else the user does.

## Refinement

`Designer` implements `Latest` twice, once for each throttle of bridge.ts:
`StyleChannel` and `BatchChannel` substitute the last edit made and the last one
posted of a kind, and `NewestIsSent` checks both as properties. Every step maps to
a value put in, one that comes out, one that passes in one step, or a stutter;
the weak fairness of `Send` in `Latest` follows from that of `Timer`. The steps are
also proved ([below](#designer)), for any number of elements and edits; the fairness
is only checked.

`HotPath` implements `Latest` while nothing restarts and the reader is not lapped
(`Overrides`); that is proved ([below](#hotpath-1)) and no run lists it.

## Proofs

TLAPS checks the theorems for every value of the constants: any number of files,
edits, calls, panels or messages where a run has two or three. They use only the
assumption that each module names on its constants, which TLC evaluates in its
runs: bounds are naturals, sets of which one is part of another are so, model
values are none of the things they must be told from. The ones that carry an
argument: `Slot` of `Transform` is finite (transforms under way are counted),
`Starts` of `Lifecycle` is a number (there are more ports than processes; the code
tries 101), `Edit` of `Session` is finite (what a sidecar answers is a number), the
messages that come in have a handler, and a ring, a TTL, a number of attempts are not zero. Two
theorems about `HotPath` are about the steps of `CalmSpec`; the others have no further
hypothesis. In each module the theorem `Inductive` (in `VfsProofs` also `Kept`) gives
the invariant that the others follow from, and what is not listed in a table below
is a lemma.

### Vfs

| theorem | statement |
|---|---|
| `TypeCorrect` | `Spec => []TypeOK` |
| `StagedOrdered` | `Spec => []StagedIsOrdered` |
| `IntentsBacked` | `Spec => []IntentsBackedByPatches` |
| `MergedAreStaged` | `Spec => []MergedFromStaged` |
| `StagedVisible` | `Spec => []StagedIsVisible` |
| `SavesSurvive` | `Spec => []LoadedSavesSurvive` |
| `LocksKept` | `Spec => LockNeverStolen` |

The inductive invariant is

    IInv == TypeOK /\ IdleIsClean /\ StagedIsOrdered
            /\ IntentsBackedByPatches /\ CacheIsAccounted

Types are not inductive alone: that a file waiting to be written has a merged
text must survive operations that drop merged texts, and `IdleIsClean` (outside
persist no file is waiting or open) keeps the two apart. `CacheIsAccounted` is
`MergedFromStaged` in the form `Accounted(cache, base, patches, order, file)` that the
lemmas state of any cache, since a handler may rebuild several files from texts it has
just loaded. `RebuiltType`, `RebuiltAccounted` and `AccountedMonotone` state once what
`rebuild_merged_cache` returns and keeps; below them there is one lemma per group
of the next-state relation and per conjunct. `LocksKept` needs no invariant: every
action that changes a lock releases it or found it free. All of these theorems hold
with every operation and every failure switched on, the ones of the failing
configurations included, and with requests before the crawl.

`SavesSurvive` and `StagedVisible` rest on `BaseIsKept` (`Kept`): a merged text
contains its base, and is empty when that is. With it, `LoadedSavesSurvive` needs only
`PersistKeepsSaves`: what persist is done with has the save where the merged text has
it, for it wrote that text or left a file whose merged text is its base.
`StagedVisible` follows the merged text of every loaded file: it shows the edits
pending on it (`Shows`), because each edit of `intent_to_edit` lands on the first
line, which a text has unless it is empty (`AllBegun`). That fails where a file is
loaded and not merged, which after the crawl cannot happen, since nothing is left
to load (`CrawledIsLoaded`) and the crawl itself builds every text (`ScanShows`).

### HotPath

| theorem | statement |
|---|---|
| `HotPathTypeCorrect` | `Spec => []TypeOK` |
| `ConsumerInStep` | `Spec => []InStep` |
| `TornNeedsLap` | `Spec => []TornOnlyWhenLapped` |
| `DecodesItsEvent` | `Spec => []Undisturbed` |
| `OverridesWholeAndOrdered` | `CalmSpec => []QueueInOrder` |
| `ShownInOrder` | every step of `CalmSpec` is a step of `Overrides` (`Latest`), or a stutter |

    IInv == TypeOK /\ SlotsNumbered /\ InStep /\ PayloadsWhole /\ TornOnlyWhenLapped

`SlotsNumbered`: a slot's number, when there is one, belongs to the slot;
`PayloadsWhole`: in the first session every slot but the one being written holds
one event. The arithmetic is in `LapsApart` (two numbers of one slot are a
multiple of the ring apart) and `LappedAtTarget`: a write to the slot being read
is by a producer a ring ahead.

`Undisturbed` says more than `TornOnlyWhenLapped`: what is decoded under number n is
event n, both halves of it, until the producer is a lap ahead. It needs
`PayloadsNumbered`, that in the first session a published slot holds the event of its
number. What is shown is then in order if no message is completed from a slot the
producer came round to, and nothing restarts: those are the steps of `CalmSpec`. They
may jump over events, lap slots that nobody is reading, and find the channel full.
Both conditions are needed. A slot rewritten while it is read yields a newer event
under the older number, and the slots after it, events older than that one; a
consumer that restarts reads the ring from its first slot. Under them the hot path is a
`Latest`, with the last event begun and the value last shown; the fair half is
`LastEventShown`.

### RpcClient

| theorem | statement |
|---|---|
| `TypeCorrect` | `Spec => []TypeOK` |
| `NumbersAreFresh` | `Spec => []NumbersFresh` |
| `AnswersAreMatched` | `Spec => []AnswersMatch` |
| `ConnectsAreOne` | `Spec => []OneConnect` |

    IInv == TypeOK /\ Counted /\ InOrder
            /\ NumbersFresh /\ OnlyInUse /\ AnswersMatch /\ OneUnderWay

An answer finds its call by a number, and numbers start again at every opened
socket. So the invariant must say why no answer of an earlier socket can arrive:
`OnlyInUse`, only the socket in use has listeners (until `disconnect`), and what it
has not answered is numbered as the pending requests are. `OneUnderWay` ties
`isConnecting` and the promise that calls join to the one connect under way, whose
socket is the one in use and has not opened. `Counted` (a socket per
attempt, a number per call) is what the bounds in `TypeOK` need.

### Session

| theorem | statement |
|---|---|
| `SessionTypeCorrect` | `SessionSpec => []SessionTypeOK` |
| `HealsTakeTurns` | `SessionSpec => []OneHealAtATime` |

    SessionInv == SessionTypeOK /\ HealHolds /\ OneHealAtATime

`SessionTypeOK` has every handler stand at a step of its program (`InProgram`), with
attempts left or just used up: that the loops over the staged count stop is the safety
half of `EveryHandlerEnds`. `HealHolds`: a heal under way has the lock of its
workspace, which is why `Receive` starts no second one. Every step but the first of a
handler keeps its name and workspace or ends it (`Successor`), and `OneGoesOn` states
once what follows from that.

### Lifecycle

| theorem | statement |
|---|---|
| `TypeCorrect` | `Spec => []TypeOK` |
| `StartsArePerPort` | `Spec => []OneStartPerPort` |
| `StartingComesOut` | `Spec => []StartingIsUnderWay` |

    IInv == TypeOK /\ NotStarted /\ OneStartPerPort /\ StartingUntilConnected

`OneStartPerPort` is inductive with the types: the port is looked for and claimed
in one stretch, and `SomePortFree` (a pigeonhole argument) says that there is one.
`Claims` counts the start-up that ended before its `try` among those that hold a port,
as the code does.
`StartingIsUnderWay` alone is not: a start-up is still under way when it
has been greeted, and could be starting still; `StartingUntilConnected` says that it
is not, and that nothing makes it so again.

### Transform

| theorem | statement |
|---|---|
| `TypeCorrect` | `Spec => []TypeOK` |
| `LoaderKeepsAsking` | `Spec => []KeepsAsking` |

    IInv == TypeOK /\ Counted /\ KeepsAsking

`Counted`: the failures the loader has counted, with those that transforms under way
may still add, exceed its limit by at most their number. Without it `failed` has
no bound, since the loader looks at the limit before it asks and counts after.

### GhostIds

| theorem | statement |
|---|---|
| `FileTypeCorrect` | `FileSpec => []FileTypeOK` |
| `IdsRoundTrip` | `FileSpec => []PlainRoundTrip` |
| `LogicLocked` | `FileSpec => []LockHolds` |
| `TextKeepsSiblings` | `FileSpec => []SiblingsKept` |

    FileInv == FileTypeOK /\ Tree(page)

The text the ids were made from is the preorder of a forest as well (`Tree`), since
it was the source once; nothing else relates it to the source. `SpliceTree`
says when a splice keeps the preorder: what stays hangs where it hung, and
everything between a node and what is new below it hangs below that node.

The lookup is a recursive function over the number of parts left, and no
induction theorem of the library applies to it. `MatchDef`, that it satisfies
its own equation, is proved by hand: for every number of parts there is a function
that satisfies it so far (`SomeUpTo`, by the least number for which there is none),
any two agree (`UpToUnique`). From it, `MatchKeeps` carries any set of hits that one
step keeps (`Closed`) through the whole lookup: `Hits` itself, and for `LogicLocked`
the `Guarded` ones, locked if in a block. `RoundTripBelow` goes the path of a
plain file up from its end: from the hit of an element above n, the parts that
remain lead to n, since the two counts of the elements that fragments separate from
it agree (`PathStep`), and without expressions the lookup tries one element for
each part. `InOrderOf` and `PathOf` say what stands where when a set of
nodes is put in the order of the text.

### Designer

| theorem | statement |
|---|---|
| `TypeCorrect` | `Spec => []TypeOK` |
| `PostedForItsElement` | `Spec => []SentForItsElement` |
| `StyleIsInOrder` | every step of `Designer` is a step of `StyleChannel`, or a stutter |
| `BatchIsInOrder` | the same of `BatchChannel` |

    IInv == Typed /\ InTurn

`Typed` has every message under way, waiting in a throttle, or with the host made
for the element it names. `InTurn`: what a throttle remembers is newer than what it
has posted, and it remembers only while it is hot. The last two theorems
are initial states and steps of the refinement; with fairness they would
be `NewestIsSent`.

### Workbench

| theorem | statement |
|---|---|
| `TypeCorrect` | `Spec => []TypeOK` |
| `CurrentPanelIsOpen` | `Spec => []CurrentIsOpen` |
| `PanelsStay` | `Spec => PanelStays` |
| `ListedServersAreFresh` | `Spec => ServersAreFresh` |

    IInv == Panels /\ Jobs /\ Servers /\ Probes /\ Rest

`ServersAreFresh` is about what a job found ticks ago. `Probes` bounds how long ago
(a probe lasts one tick, so what it found is gone for one at most), and `Servers`
how old the cached list is: at most one tick more than its age. `Jobs` has every job
answer an open panel, which `dispose` must uphold for the jobs of the panel it closes.
`FirstIsFound` says that the first folder that matches is one.

### Canvas

| theorem | statement |
|---|---|
| `TypeCorrect` | `Spec => []TypeOK` |
| `GesturesOwnTheirState` | `Spec => []GestureOwnsState` |
| `LiveStylesAreOwned` | `Spec => []LiveIsOwned` |
| `TextIsPostedOnce` | `Spec => []TextOnce` |
| `LeavesSettled` | `Spec => []SettledBetween` |
| `AnyResizeHoldsOrSnaps` | a resize of any element by any movement, with any keys, beside any number of others, holds its anchor or snaps |
| `ResizesHoldOrSnap` | `Spec => []ResizeHoldsOrSnaps` |
| `AnySnappingIsNearest` | snapping to any number of elements goes to the nearest edge, or nowhere |
| `SnapsAreNearest` | `Spec => []SnapsToNearest` |

    IInv == Typed /\ GestureOwnsState /\ Counted /\ AllOwned /\ OfOneKind

`LiveIsOwned` is not inductive. A cleanup restores what the page kept, and the page
keeps the style of an element once, of the kind that came first; were a resize and
a drag of one element to meet there, the second would stay. `OfOneKind` says they do
not: between live messages of two kinds to one element there is a cleanup, and
so between what is on the page and a message. `AllOwned` is `LiveIsOwned` by
kind. `Typed` has an element either at rest (`AtRest`: its own styles, or the computed
transform) or styled by one kind of gesture, with all it had kept (`Styled`), from
which `SettledBetween` follows. `Counted` (an element that is editable was counted
once) carries `TextOnce`.

The two loops of snapping are recursive functions over the rounds done. That such
functions exist is proved for each (`RoundsExist`, `TurnsExist`), and `Fits` is the
loops' invariant: the nearest so far is nothing, or the movement that puts an active
edge on the first guide, at a distance that no edge compared so far undercuts.

### Only model-checked

- Liveness, which is beyond the prover: `CatchesUp`, `LastEventShown`,
  `EveryCallSettles`, `DeadIsNoticed`, `EveryHandlerEnds`, `CountSettles`,
  `EveryTransformEnds`, `Reconnects`, `BadgeSettles`, `Restored`, and the fairness
  half of `NewestIsSent`. All that the run of `Session` asks is here.

## What is not modelled

- In the staging layer: the position and order of edits in a text and how often one
  is applied, `active_snapshot` (live only inside a handler), the worker process and the
  patchers' output. Undo and redo are unreachable: the handlers of `vfs.undo` and
  `vfs.redo` answer false without calling the history.
- In the hot path: handshake polling, resolution of element and property ids, the
  predict channel, message types, velocity, wrap of the 32-bit sequence.
- In the extension: messages that only open files or read settings; the restart
  after `ZENITH_ALREADY_RUNNING`, which the extension looks for on stderr and the
  sidecar logs on stdout; the refactored
  copies `sidecar_handler.ts`, `message_router.ts`, `webview_panel.ts` and
  `project_manager.ts`, which `extension.ts`, the entry point, does not import;
  branches for Windows.
- In the webview: rendering, rotation and multi-selection, logs, the explorer,
  zoom and view settings, and the ghost slice, which nothing writes.
- In the plugins: edits of attributes, fingerprints, the shadow directory, the HMR
  client, the configuration wrapper of the Next plugin and the legacy Babel plugin.
- In the sidecar, not called by anything that stages, writes or serves texts: the
  ledger, the LWW resolver with the agent stream, the rebase engine, the
  pre-patcher and the geometry beside it (floating point; the webview has its
  own). The idempotency map and the sandbox table are read by requests that the
  extension does not repeat. The rule table of the transform engine enters `Vfs`
  as the constant `Review`. Scans of source text (patchers, soft locks, mock
  scanner, auditor, framework detector) have no state; proxies and notifications
  are I/O.

## Plan

The modules of the core and of its clients are written, every safety property that a
passing run checks is proved, and so are the steps of every refinement. What is left:

1. `HotPath`: later sessions of a ring, where `Undisturbed` and `CalmSpec` say nothing;
   the numbers of the old producer would have to be told from those of the new.
2. `Session`: that `stagedCount` differs from what is staged only while a handler or a
   poll is under way is false (a squash or a commit leaves a wrong count to the next
   poll), so the safety half of `CountSettles` needs a statement of its own.
