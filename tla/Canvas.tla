------------------------------- MODULE Canvas -------------------------------
(***************************************************************************)
(* Dragging, resizing and editing text on the canvas: the gesture of       *)
(* hooks/useArtboardInteraction.ts and hooks/useStructuralDND.ts, the      *)
(* artboard and the keys of components/Canvas.tsx, and the page in its     *)
(* frame, where runtime-bridge.ts selects elements, gives them live styles *)
(* and takes these back.                                                   *)
(*                                                                         *)
(* The two sides exchange messages, in order.  What a gesture computes is  *)
(* in Geometry; here it has moved its element or it has not.               *)
(***************************************************************************)
EXTENDS Geometry

CONSTANTS
  Element,  \* elements of the page
  Inline,   \* those whose source gives them a transform of their own
  Acts,     \* bound: what the user does but move and release the pointer
  Pending,  \* bound: messages under way to the page before the user adds one
  None

ASSUME CanvasAssumption ==
  /\ Acts \in Nat /\ Pending \in Nat \ {0} /\ Inline \subseteq Element
  /\ None \notin Element /\ None \notin [type : {"drag", "resize"}, moved : BOOLEAN]

VARIABLES
  selectedId, previewMode,
  isEditingText,      \* what the page last said of it
  interaction,        \* None or [type, moved]
  isDragging, draggedIdentifier, dropTargetId,
  reparents,          \* how often reparentNodes was called
  raf,                \* "none", "pending", or "stale": cancelled, not forgotten
  locked,             \* the frame takes no pointer events
  toFrame, fromFrame, \* messages under way
  page,               \* element -> its inline styles, and those kept to restore
  editable,           \* the elements whose text can be edited
  handlers,           \* element -> pairs of commit and handleKey it listens with
  unposted,           \* how often text became editable less how often it was posted
  acts

dnd     == <<isDragging, draggedIdentifier, dropTargetId, reparents>>
gesture == <<interaction, dnd, raf, locked>>
text    == <<editable, handlers, unposted>>
store   == <<selectedId, previewMode, isEditingText>>
vars    == <<store, gesture, toFrame, fromFrame, page, text, acts>>

To(type, id)           == [type |-> type, id |-> id]
Editing(on)            == [type |-> "editing", on |-> on]
Select(e)              == [type |-> "select", id |-> e]
TextUpdate(e)          == [type |-> "text", id |-> e]

\* The inline styles of an element in three groups, each with its own value,
\* with none, with a gesture's or with a computed one: the transform, rotate,
\* scale and translate of a drag; the width, height and place of a resize; and
\* the transition and will-change of both, where having none is a value too.
Group   == {"transition", "size", "transform"}
Value   == {"own", "none", "live", "computed"}
Unsaved == [g \in Group |-> "unsaved"]
Fresh(e) ==
  [style |-> [g \in Group |-> IF g = "transform" /\ e \notin Inline THEN "none" ELSE "own"],
   saved |-> Unsaved]

Init ==
  /\ selectedId = None /\ previewMode = FALSE /\ isEditingText = FALSE
  /\ interaction = None /\ isDragging = FALSE /\ draggedIdentifier = None
  /\ dropTargetId = None /\ reparents = 0 /\ raf = "none" /\ locked = FALSE
  /\ toFrame = <<>> /\ fromFrame = <<>> /\ page = [e \in Element |-> Fresh(e)]
  /\ editable = {} /\ handlers = [e \in Element |-> 0] /\ unposted = 0 /\ acts = 0

Act     == acts < Acts /\ acts' = acts + 1
Room    == Len(toFrame) < Pending

StaysSo(was) == was
Unlocks(was) == FALSE

\* exitGhostMode, for one id and then another: unlock the frame, and tell the page
\* when there is an id.
Cleanup(id) == IF id = None THEN <<>> ELSE <<To("cleanup", id)>>

ExitGhostMode(id, id2) ==
  /\ locked' = Unlocks(locked)
  /\ toFrame' = toFrame \o (Cleanup(id) \o Cleanup(id2))

(***************************************************************************)
(* The effect that holds the listeners of a gesture is set up again when   *)
(* the selection, the zoom or isDragging changes under it.  Its cleanup    *)
(* takes this for the end of the gesture and cancels the animation frame,  *)
(* whose number it keeps.  By clearing isDragging it makes itself run once *)
(* more, with the new selection.                                           *)
(***************************************************************************)
NewOne(old, new) == new
OldOne(old, new) == old

\* The cancelled frame's number stands in the way of others till the
\* pointer comes up.
Cancelled(r) == IF r = "pending" THEN "stale" ELSE r

Resubscribe(was, new) ==
  /\ ExitGhostMode(OldOne(was, new), IF isDragging THEN new ELSE None)
  /\ isDragging' = FALSE /\ raf' = Cancelled(raf)
  /\ UNCHANGED <<interaction, draggedIdentifier, dropTargetId, reparents>>

\* The selection becomes new.
Selects(new) ==
  /\ selectedId' = new
  /\ IF interaction # None /\ new # selectedId
     THEN Resubscribe(selectedId, new)
     ELSE UNCHANGED <<gesture, toFrame>>

(***************************************************************************)
(* Selecting.                                                              *)
(***************************************************************************)
\* A press of the pointer inside the page, which tells of it.
MouseDown(e) ==
  /\ Act /\ interaction = None /\ ~locked
  /\ fromFrame' = Append(fromFrame, Select(e))
  /\ UNCHANGED <<store, gesture, toFrame, page, text>>

\* A row of the layers panel: the page is asked.
SelectRow(e) ==
  /\ Act /\ Room /\ toFrame' = Append(toFrame, To("select", e))
  /\ UNCHANGED <<store, gesture, fromFrame, page, text>>

\* App.tsx selects in every mode, Canvas.tsx once more unless in preview.
Answer ==
  /\ fromFrame # <<>> /\ Head(fromFrame).type = "select" /\ fromFrame' = Tail(fromFrame)
  /\ Selects(Head(fromFrame).id)
  /\ UNCHANGED <<previewMode, isEditingText, page, text, acts>>

\* The canvas deselects, unlocks the frame and has a cleanup named nobody
\* sent, which does nothing there.
Escape ==
  /\ Act /\ Room /\ selectedId # None /\ selectedId' = None
  /\ isDragging' = FALSE /\ locked' = FALSE
  /\ toFrame' = Append(toFrame, To("cleanup", None))
                  \o (IF interaction = None THEN <<>> ELSE Cleanup(OldOne(selectedId, None)))
  /\ raf' = IF interaction = None THEN raf ELSE Cancelled(raf)
  /\ UNCHANGED <<previewMode, isEditingText, interaction, draggedIdentifier, dropTargetId,
                 reparents, fromFrame, page, text>>

\* The wheel with Ctrl, or Ctrl and a key.
Zoom ==
  /\ Act /\ Room /\ interaction # None /\ Resubscribe(selectedId, selectedId)
  /\ UNCHANGED <<store, fromFrame, page, text>>

PreviewToggle ==
  /\ Act /\ previewMode' = ~previewMode
  /\ UNCHANGED <<selectedId, isEditingText, gesture, toFrame, fromFrame, page, text>>

(***************************************************************************)
(* The gesture.                                                            *)
(***************************************************************************)
\* The overlay of the selected element takes the pointer.
MayStart ==
  /\ Act /\ selectedId # None /\ ~isEditingText /\ ~previewMode /\ interaction = None

\* enterGhostMode, setDragging and setInteraction.
Starts(type) ==
  /\ MayStart /\ interaction' = [type |-> type, moved |-> FALSE]
  /\ locked' = TRUE /\ isDragging' = TRUE
  /\ UNCHANGED <<store, reparents, raf, toFrame, fromFrame, page, text>>

DragStart == Starts("drag") /\ draggedIdentifier' = selectedId /\ dropTargetId' = None

ResizeStart == Starts("resize") /\ UNCHANGED <<draggedIdentifier, dropTargetId>>

\* A second press soon after the first.  It starts no drag and goes on to the
\* artboard, whose handler asks again; the overlay's double click asks a third
\* time if it is still there.
DoubleClick ==
  /\ MayStart
  /\ Room /\ \E n \in 2 .. 3 : toFrame' = toFrame \o [i \in 1 .. n |-> To("editable", selectedId)]
  /\ UNCHANGED <<store, gesture, fromFrame, page, text>>

PointerMove ==
  /\ interaction # None /\ raf = "none" /\ raf' = "pending"
  /\ UNCHANGED <<store, interaction, dnd, locked, toFrame, fromFrame, page, text, acts>>

\* The rectangles that the page reports, and the viewport's.
SceneBounds == [e \in Element |-> [x |-> 0, y |-> 0, width |-> 2, height |-> 2]]

HandleDragMove ==
  IF interaction.type = "drag" /\ isDragging /\ draggedIdentifier # None
  THEN dropTargetId' = DropTarget(draggedIdentifier, SceneBounds, 1, 1, None)
  ELSE UNCHANGED dropTargetId

\* syncLivePosition tells the page where the selected element goes.
SyncLivePosition ==
  IF selectedId # None /\ Room
  THEN toFrame' = Append(toFrame, To(interaction.type, selectedId))
  ELSE selectedId = None /\ UNCHANGED toFrame

\* The animation frame.  Until the pointer has left the dead zone nothing
\* happens.
Frame ==
  /\ raf = "pending" /\ raf' = "none"
  /\ \/ ~interaction.moved /\ UNCHANGED <<interaction, dropTargetId, toFrame>>
     \/ /\ interaction' = [interaction EXCEPT !.moved = TRUE]
        /\ HandleDragMove /\ SyncLivePosition
  /\ UNCHANGED <<store, isDragging, draggedIdentifier, reparents, locked, fromFrame, page, text, acts>>

\* handleDragEnd: reparentNodes when there is somewhere to drop, and
\* stopDragging.
HandleDragEnd ==
  /\ reparents' = reparents + (IF isDragging /\ draggedIdentifier # None /\ dropTargetId # None
                               THEN 1 ELSE 0)
  /\ isDragging' = FALSE /\ draggedIdentifier' = None /\ dropTargetId' = None

\* The pointer comes up: onPointerUp, and the cleanup of the effect, which
\* does the same again.  What was moved is patched (patchBatch), which goes
\* to the extension and not to the page.
PointerUp ==
  /\ interaction # None /\ interaction' = None /\ raf' = "none"
  /\ HandleDragEnd /\ ExitGhostMode(selectedId, selectedId)
  /\ UNCHANGED <<store, fromFrame, page, text, acts>>

\* The window loses the focus.
OnBlur == PointerUp

(***************************************************************************)
(* The page.                                                               *)
(***************************************************************************)
Takes(type) == toFrame # <<>> /\ Head(toFrame).type = type /\ toFrame' = Tail(toFrame)

FrameSelect ==
  /\ Takes("select") /\ fromFrame' = Append(fromFrame, Select(Head(toFrame).id))
  /\ UNCHANGED <<store, gesture, page, text, acts>>

\* Before it changes styles the page keeps those there were, all at once: a
\* resize when the transition is not kept yet, a drag when the transform is
\* not.  A resize sets its own again with every message, and the transition.
LiveResized(p) ==
  [style |-> [p.style EXCEPT !["transition"] = "live", !["size"] = "live"],
   saved |-> IF p.saved["transition"] # "unsaved" THEN p.saved
             ELSE [p.saved EXCEPT !["transition"] = p.style["transition"], !["size"] = p.style["size"]]]

\* For a transform that is not inline the computed one is kept.
AlwaysComputed(value) == "computed"
OrComputed(value) == IF value = "none" THEN "computed" ELSE value

LiveDragged(p) ==
  IF p.saved["transform"] # "unsaved"
  THEN [p EXCEPT !.style = [@ EXCEPT !["transform"] = "live"]]
  ELSE [style |-> [p.style EXCEPT !["transition"] = "live", !["transform"] = "live"],
        saved |-> [p.saved EXCEPT !["transition"] = p.style["transition"],
                                  !["transform"] = OrComputed(p.style["transform"])]]

LiveResize ==
  /\ Takes("resize") /\ page' = [page EXCEPT ![Head(toFrame).id] = LiveResized(@)]
  /\ UNCHANGED <<store, gesture, fromFrame, text, acts>>
LiveDragTransform ==
  /\ Takes("drag") /\ page' = [page EXCEPT ![Head(toFrame).id] = LiveDragged(@)]
  /\ UNCHANGED <<store, gesture, fromFrame, text, acts>>

\* It writes back inline what it kept, of whatever kind.
OnlyTransform(p) ==
  [style |-> [p.style EXCEPT !["transform"] = IF p.saved["transform"] = "unsaved" THEN @ ELSE p.saved["transform"]],
   saved |-> Unsaved]
PutBack(p) ==
  [style |-> [g \in Group |-> IF p.saved[g] = "unsaved" THEN p.style[g] ELSE p.saved[g]],
   saved |-> Unsaved]

LiveInteractionCleanup ==
  /\ Takes("cleanup")
  /\ LET e == Head(toFrame).id
     IN page' = IF e = None THEN page ELSE [page EXCEPT ![e] = PutBack(@)]
  /\ UNCHANGED <<store, gesture, fromFrame, text, acts>>

\* Text becomes editable, and the element listens for its end, once for each
\* time it is asked.
SetEditable ==
  /\ Takes("editable")
  /\ LET e == Head(toFrame).id
     IN /\ editable' = editable \cup {e} /\ handlers' = [handlers EXCEPT ![e] = @ + 1]
        /\ unposted' = IF e \in editable THEN unposted ELSE unposted + 1
  /\ fromFrame' = Append(fromFrame, Editing(TRUE))
  /\ UNCHANGED <<store, gesture, page, acts>>

\* Enter, or leaving the element: every pair runs.  The first to find the
\* element editable posts its text and is removed; the others stay.
EveryOne(n)  == n
FirstOnly(n) == 1
Posts(e, n)  == [i \in 1 .. 2 * n |-> IF i % 2 = 1 THEN Editing(FALSE) ELSE TextUpdate(e)]

Commit(e) ==
  /\ e \in editable /\ editable' = editable \ {e}
  /\ LET n == FirstOnly(handlers[e])
     IN /\ fromFrame' = fromFrame \o Posts(e, n)
        /\ unposted' = unposted - n /\ handlers' = [handlers EXCEPT ![e] = @ - n]
  /\ UNCHANGED <<store, gesture, toFrame, page, acts>>

\* Escape in the text: every pair says that the edit has ended, and is
\* removed.
Cancel(e) ==
  /\ e \in editable /\ editable' = editable \ {e}
  /\ fromFrame' = fromFrame \o [i \in 1 .. handlers[e] |-> Editing(FALSE)]
  /\ handlers' = [handlers EXCEPT ![e] = 0]
  /\ UNCHANGED <<store, gesture, toFrame, page, unposted, acts>>

\* What the page says of it is not heard in preview.
EditingState ==
  /\ fromFrame # <<>> /\ Head(fromFrame).type = "editing" /\ fromFrame' = Tail(fromFrame)
  /\ isEditingText' = IF previewMode THEN isEditingText ELSE Head(fromFrame).on
  /\ UNCHANGED <<selectedId, previewMode, gesture, toFrame, page, text, acts>>

\* updateText posts it to the extension, unless in preview.
TextUpdated ==
  /\ fromFrame # <<>> /\ Head(fromFrame).type = "text" /\ fromFrame' = Tail(fromFrame)
  /\ UNCHANGED <<store, gesture, toFrame, page, text, acts>>

\* The address of the sandbox changes: another page comes up in the frame.
Reload ==
  /\ Act /\ toFrame' = <<>> /\ page' = [e \in Element |-> Fresh(e)]
  /\ editable' = {} /\ handlers' = [e \in Element |-> 0]
  /\ UNCHANGED <<store, gesture, fromFrame, unposted>>

-----------------------------------------------------------------------------
Selecting == (\E e \in Element : MouseDown(e) \/ SelectRow(e)) \/ Escape \/ Answer
Gesturing ==
  DragStart \/ ResizeStart \/ DoubleClick \/ PointerMove \/ Frame \/ PointerUp \/ OnBlur \/ Zoom
OnPage ==
  \/ FrameSelect \/ LiveResize \/ LiveDragTransform \/ LiveInteractionCleanup \/ SetEditable
  \/ \E e \in Element : Commit(e) \/ Cancel(e)
Next ==
  Selecting \/ Gesturing \/ OnPage \/ EditingState \/ TextUpdated \/ PreviewToggle \/ Reload

\* Messages arrive and the page handles them; a pointer that is down comes up
\* or the window loses the focus.
Handling ==
  \/ Answer \/ EditingState \/ TextUpdated
  \/ FrameSelect \/ LiveResize \/ LiveDragTransform \/ LiveInteractionCleanup \/ SetEditable
Spec == Init /\ [][Next]_vars /\ WF_vars(Handling) /\ WF_vars(PointerUp)

-----------------------------------------------------------------------------
ToFrame ==
  {To(t, e) : t \in {"select", "drag", "resize", "editable", "cleanup"}, e \in Element}
    \cup {To("cleanup", None)}
FromFrame ==
  {Select(e) : e \in Element} \cup {TextUpdate(e) : e \in Element} \cup {Editing(b) : b \in BOOLEAN}

\* The values of the variables.  A message names an element, but for the
\* cleanup that Escape sends, and an element whose text can be edited listens
\* for the end of it.
TypeOK ==
  /\ selectedId \in Element \cup {None} /\ previewMode \in BOOLEAN /\ isEditingText \in BOOLEAN
  /\ interaction \in [type : {"drag", "resize"}, moved : BOOLEAN] \cup {None}
  /\ isDragging \in BOOLEAN /\ draggedIdentifier \in Element \cup {None}
  /\ dropTargetId \in Element \cup {None} /\ reparents \in Nat
  /\ raf \in {"none", "pending", "stale"} /\ locked \in BOOLEAN
  /\ toFrame \in Seq(ToFrame) /\ fromFrame \in Seq(FromFrame)
  /\ \A e \in Element : /\ page[e].style \in [Group -> Value]
                          /\ page[e].saved \in [Group -> Value \cup {"unsaved"}]
  /\ editable \subseteq Element /\ handlers \in [Element -> Nat] /\ \A e \in editable : handlers[e] > 0
  /\ unposted \in Int /\ acts \in 0 .. Acts

\* Nothing of a gesture outlasts it: when there is none, the frame takes
\* pointer events, nothing is dragged, and no animation frame is pending or
\* in the way of the next gesture, whatever was selected, zoomed or escaped
\* from under it.
GestureOwnsState ==
  locked \/ isDragging \/ draggedIdentifier # None \/ raf # "none" => interaction # None

HasLive(e) == \E g \in Group : page[e].style[g] = "live"

\* Every element with live styles, on the page or in a message, will be
\* cleaned up: by a message behind it or at the end of the gesture, which
\* cleans up what is selected then.
LiveIsOwned ==
  LET Live(i)  == toFrame[i].type \in {"drag", "resize"}
      Clean(e, i) == \E j \in i + 1 .. Len(toFrame) : toFrame[j] = To("cleanup", e)
      Owned(e, i) == Clean(e, i) \/ (interaction # None /\ selectedId = e)
  IN /\ \A e \in Element : HasLive(e) => Owned(e, 0)
     /\ \A i \in DOMAIN toFrame : Live(i) => Owned(toFrame[i].id, i)

\* Text is posted at most once for each time it was edited, although a
\* double click has the page listen two or three times.
TextOnce == unposted >= 0

\* The arithmetic of a gesture does not depend on the state, so what Geometry
\* says of it is evaluated once, before the user acts.  What a resize should
\* leave where it is moves by nothing but the snap that follows, and then what
\* the handle holds is on an edge of another element (onPointerMove of
\* useArtboardInteraction.ts).
ResizeHoldsOrSnaps == acts = 0 => ResizingHoldsOrSnaps

\* It does not stay where it is: the snap moves the element and leaves its size.
ResizeHolds == acts = 0 => ResizingHolds

\* Snapping goes to the nearest edge of another element within the threshold
\* and shows a guide there (getSnapping of snapUtils.ts).
SnapsToNearest == acts = 0 => SnappingIsNearest

\* What a gesture leaves of an element: each style is what it was on the page,
\* but that an element without a transform of its own may be left with the
\* computed one (runtime-bridge.ts:295-298).
Settled(e) ==
  \A g \in Group : \/ page[e].style[g] = Fresh(e).style[g]
                   \/ g = "transform" /\ e \notin Inline /\ page[e].style[g] = "computed"

\* No element is ever left half restored, or with a style that one gesture kept
\* while another's were live, however the messages of gestures, of Escape and of
\* the cleanups follow each other.
SettledBetween == \A e \in Element : HasLive(e) \/ Settled(e)

\* The styles a gesture gives an element for its time are taken back in the
\* end, whatever happens to the selection, the zoom or the frame meanwhile.
Restored == \A e \in Element : HasLive(e) ~> Settled(e)

\* An element is not left exactly as it was.
NothingLeft == \A e \in Element : HasLive(e) \/ page[e] = Fresh(e)
=============================================================================
