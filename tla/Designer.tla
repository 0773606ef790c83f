------------------------------ MODULE Designer ------------------------------
(***************************************************************************)
(* How the webview edits styles: the selection store with its history      *)
(* (stores/useSelectionStore.ts), the two throttles of bridge.ts, the      *)
(* fields of the inspector, the menus that post structural operations, and *)
(* the answers of the page and of the extension host (App.tsx).            *)
(*                                                                         *)
(* Edits are numbered as they are made.  The styles themselves are left    *)
(* out, and of the history its length and the place in it are kept.        *)
(***************************************************************************)
EXTENDS Integers, Sequences, FiniteSetsExt

CONSTANTS
  Element,    \* elements of the page
  Sides,      \* that a linked spacing field sets
  Dropped,    \* how many styles a drop sets, from 2 to 5
  MaxHistory, \* MAX_HISTORY_LENGTH
  Edits,      \* bound: edits
  Requests,   \* bound: what else the user asks of the host
  Gestures,   \* bound: both together
  Pending,    \* bound: status messages under way, one when the host polls
  None

ASSUME DesignerAssumption ==
  /\ Sides \in Nat \ {0} /\ Dropped \subseteq 2 .. 5 /\ MaxHistory \in Nat \ {0}
  /\ Edits \in Nat /\ Requests \in Nat /\ Gestures \in Nat /\ Pending \in Nat \ {0} /\ None \notin Element

Kind == {"style", "batch"}  \* patchStyleThrottled and patchBatchThrottled

VARIABLES
  selected,     \* selectedId
  signature,    \* elementSignature, which outlives the selection
  history,      \* the length of the history
  historyIndex, \* with 0 for -1 and 1 for 0
  stagedCount,  \* the count the webview shows
  throttle,     \* kind -> [hot, last], inThrottle and lastArgs
  toHost,       \* messages posted to the extension
  toView,       \* counts in the status messages it posts
  count,        \* the count of the extension's handle
  made,         \* edits so far
  requests,     \* and what else was asked of the host
  newest, sent  \* kind -> the last edit made, and the last one posted

selection == <<selected, signature>>
past      == <<history, historyIndex>>
edits     == <<made, newest, requests>>
out       == <<throttle, toHost, sent>>
vars      == <<selection, past, stagedCount, out, toView, count, edits>>

Calm == [hot |-> FALSE, last |-> None]

\* What is posted: an edit to an element (zenithId or the signature) and the
\* one it was made on, and what else the host distinguishes: "stage" and
\* "reset", what it cannot do for want of an element, and "undo".
Edit(to, of) == [type |-> "edit", to |-> to, of |-> of]
Other(type)  == [type |-> type, to |-> None, of |-> None]

Init ==
  /\ selected = None /\ signature = None
  /\ history = 0 /\ historyIndex = 0 /\ stagedCount = 0
  /\ throttle = [k \in Kind |-> Calm] /\ toHost = <<>> /\ toView = <<>> /\ count = 0
  /\ made = 0 /\ requests = 0 /\ newest = [k \in Kind |-> 0] /\ sent = [k \in Kind |-> 0]

Target == IF selected # None THEN selected ELSE signature

(***************************************************************************)
(* The selection: an answer of the page, the Escape key.                   *)
(***************************************************************************)
\* The page has been asked for the element, by a click on it or on its row
\* of the layers panel.  It answers some time later, when anything may have
\* happened, so the answer is all that counts.
Answer(e) ==
  /\ <<selected, signature>> # <<e, e>>
  /\ selected' = e /\ signature' = e
  /\ UNCHANGED <<past, stagedCount, out, toView, count, edits>>

Escape ==
  /\ selected # None /\ selected' = None
  /\ UNCHANGED <<signature, past, stagedCount, out, toView, count, edits>>

(***************************************************************************)
(* patchStyle and patchBatch.                                              *)
(***************************************************************************)
\* The call goes out at once, or is remembered in place of the one before.
Forgets(t, call)   == t
Remembers(t, call) == [t EXCEPT !.last = call]

\* Calls for edits first to last, one after the other.
Throttled(k, first, last) ==
  LET t    == throttle[k]
      Call(n) == [n |-> n, msg |-> Edit(Target, Target)]
  IN IF t.hot
     THEN /\ throttle' = [throttle EXCEPT ![k] = Remembers(t, Call(last))]
          /\ UNCHANGED <<toHost, sent>>
     ELSE /\ throttle' = [throttle EXCEPT ![k] =
               [hot |-> TRUE, last |-> IF first = last THEN t.last ELSE Call(last)]]
          /\ toHost' = Append(toHost, Call(first).msg) /\ sent' = [sent EXCEPT ![k] = first]

\* c calls, one after the other, which the badge counts as n edits.
Patch(k, c, n) ==
  /\ Target # None /\ made + c <= Edits /\ made + c + requests <= Gestures
  /\ made' = made + c /\ newest' = [newest EXCEPT ![k] = made + c]
  /\ history' = Min({historyIndex + c, MaxHistory}) /\ historyIndex' = history'
  /\ stagedCount' = stagedCount + n
  /\ Throttled(k, made + 1, made + c)
  /\ UNCHANGED <<selection, toView, count, requests>>

\* The end of the interval.
Rests(t)       == Calm
NowSelected(m) == Target
Addressee(m)   == m.to

Timer(k) ==
  /\ throttle[k].hot
  /\ throttle' = [throttle EXCEPT ![k] = Rests(throttle[k])]
  /\ LET call == throttle[k].last
     IN IF call = None THEN UNCHANGED <<toHost, sent>>
        ELSE /\ toHost' = Append(toHost, [call.msg EXCEPT !.to = Addressee(call.msg)])
             /\ sent' = [sent EXCEPT ![k] = call.n]
  /\ UNCHANGED <<selection, past, stagedCount, toView, count, edits>>

(***************************************************************************)
(* The fields of the inspector, there while something is selected.  A      *)
(* field previews what is typed or dragged, which is not staged, and       *)
(* commits it for what is selected then; it may commit it twice.           *)
(***************************************************************************)
Commit == Patch("style", 1, 1)

Pick        == Commit  \* a button of a radio field, an option of a select field
Colour      == Commit  \* Enter, and leaving the field
Text        == Commit
Slide       == Commit  \* the mouse button comes up
Scrub       == Commit
Number      == Commit
SpacingDone == Commit
LinkedDone  == Patch("style", Sides, Sides)

\* The end of a drag or a resize on the canvas.  The badge counts each of its
\* styles: the place, the size after a resize, and the position where it is not
\* absolute.
Drop == \E n \in Dropped : Patch("batch", 1, n)

(***************************************************************************)
(* What else the webview posts.                                            *)
(***************************************************************************)
Posts(msgs) ==
  /\ requests < Requests /\ made + requests < Gestures
  /\ requests' = requests + 1 /\ toHost' = toHost \o msgs

Jumps(i) ==
  /\ historyIndex' = i
  /\ UNCHANGED <<selection, history, stagedCount, throttle, sent, toView, count, made, newest>>
Undone == <<Other("undo"), Other("stage")>>
Undo ==
  /\ historyIndex > 1
  /\ Posts(Undone) /\ Jumps(historyIndex - 1)
Redo ==
  /\ historyIndex < history
  /\ Posts(Undone) /\ Jumps(historyIndex + 1)

Only(msg) ==
  /\ Posts(<<msg>>)
  /\ UNCHANGED <<selection, past, stagedCount, throttle, sent, toView, count, made, newest>>

\* Ctrl+Z and Shift+Ctrl+Z: the page's own history stays as it is.
UndoKey == Only(Other("undo"))

Structural(e)       == Only(Other(IF e = None THEN "nameless" ELSE "stage"))
LayersMenu(e)       == Structural(e)
DeleteKey           == selected # None /\ Structural(selected)
SelectionActions    == Target # None /\ Structural(selected)
CanvasContextMenu   == Target # None /\ Structural(selected)
InsertElement       == selected # None /\ Structural(selected)
Clear               == Only(Other("reset"))

\* onPublish and commitAll
Baseline == IF selected = None THEN 0 ELSE 1
Publish ==
  /\ Posts(<<Other("reset"), Other("reset")>>)
  /\ stagedCount' = 0 /\ history' = Baseline /\ historyIndex' = Baseline
  /\ UNCHANGED <<selection, throttle, sent, toView, count, made, newest>>

(***************************************************************************)
(* The host, and its status messages.                                      *)
(***************************************************************************)
\* vfs.undo and vfs.redo answer that there is nothing to do.
CountAfter(m) ==
  CASE m.type \in {"edit", "stage"} -> count + 1
    [] m.type = "reset"             -> 0
    [] OTHER                        -> count

Handle ==
  /\ toHost # <<>> /\ Len(toView) < Pending /\ toHost' = Tail(toHost)
  /\ \/ /\ Head(toHost).type # "nameless"
        /\ count' = CountAfter(Head(toHost)) /\ toView' = Append(toView, count')
     \/ UNCHANGED <<count, toView>>  \* it fails, and is only logged
  /\ UNCHANGED <<selection, past, stagedCount, throttle, sent, edits>>

Poll ==
  /\ toView = <<>> /\ toView' = <<count>>
  /\ UNCHANGED <<selection, past, stagedCount, out, count, edits>>

UnlessZero(c) == IF c = 0 THEN stagedCount ELSE c
CountShown(c) == c
Status ==
  /\ toView # <<>> /\ toView' = Tail(toView) /\ stagedCount' = CountShown(Head(toView))
  /\ UNCHANGED <<selection, past, out, count, edits>>

-----------------------------------------------------------------------------
Selecting == (\E e \in Element : Answer(e)) \/ Escape
Editing ==
  \/ Pick \/ Colour \/ Text \/ Slide \/ Scrub \/ Number \/ SpacingDone \/ LinkedDone \/ Drop
Asking ==
  \/ Undo \/ Redo \/ UndoKey \/ (\E e \in Element : LayersMenu(e)) \/ DeleteKey
  \/ SelectionActions \/ CanvasContextMenu \/ InsertElement \/ Clear \/ Publish
Next == Selecting \/ Editing \/ Asking \/ (\E k \in Kind : Timer(k)) \/ Handle \/ Poll \/ Status

\* Timers run out, the host handles what is posted and polls, and messages
\* arrive; the user need not do anything.
Spec ==
  /\ Init /\ [][Next]_vars
  /\ \A k \in Kind : WF_vars(Timer(k))
  /\ WF_vars(Handle) /\ WF_vars(Poll) /\ WF_vars(Status)

-----------------------------------------------------------------------------
Whose  == Element \cup {None}
Posted == {Edit(e, f) : e \in Element, f \in Element}
            \cup {Other(type) : type \in {"stage", "reset", "nameless", "undo"}}

\* The values of the variables.  The history never outgrows its bound, the
\* index is on an entry whenever there is one, and only while the interval
\* lasts does a throttle remember a call.
TypeOK ==
  /\ selected \in Whose /\ signature \in Whose
  /\ history \in 0 .. MaxHistory /\ historyIndex \in 0 .. history
  /\ history # 0 => historyIndex # 0
  /\ \A k \in Kind : LET t == throttle[k]
                     IN t.last # None => t.hot /\ t.last.msg \in Posted /\ t.last.n \in 1 .. made
  /\ toHost \in Seq(Posted) /\ toView \in Seq(Nat) /\ count \in Nat /\ stagedCount \in Nat
  /\ made \in 0 .. Edits /\ requests \in 0 .. Requests
  /\ newest \in [Kind -> 0 .. made] /\ sent \in [Kind -> 0 .. made]

\* An edit is posted for the element it was made on, however long a throttle
\* held it and whatever is selected by then.
SentForItsElement ==
  \A i \in DOMAIN toHost : toHost[i].type = "edit" => toHost[i].to = toHost[i].of

\* A throttle may drop edits, but not the last one, and never posts an older
\* edit after a newer one.
StyleChannel == INSTANCE Latest WITH newest <- newest["style"], sent <- sent["style"]
BatchChannel == INSTANCE Latest WITH newest <- newest["batch"], sent <- sent["batch"]
NewestIsSent == StyleChannel!Spec /\ BatchChannel!Spec

\* The badge of the toolbar comes to show what the host has staged, although
\* the webview counts by itself, the throttles drop edits it has counted, and
\* edits fail without an answer.
BadgeSettles == <>[](stagedCount = count)
=============================================================================
