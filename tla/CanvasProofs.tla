---------------------------- MODULE CanvasProofs ----------------------------
(***************************************************************************)
(* Proofs about Canvas, for every set of elements and any number of        *)
(* gestures and messages, and about the resizing and snapping of Geometry, *)
(* for every pointer movement, size and number of elements to snap to.     *)
(***************************************************************************)
EXTENDS Canvas, FiniteSetTheorems, SequenceTheorems, TLAPS

Kind == {"drag", "resize"}

\* The styles of an element whose inline transform is, or before the live ones
\* was, x: at rest, and those that live messages of one kind give it.
Resting(x) ==
  [style |-> [g \in Group |-> IF g = "transform" THEN x ELSE "own"], saved |-> Unsaved]
Sized(x) ==
  [style |-> [g \in Group |-> IF g = "transform" THEN x ELSE "live"],
   saved |-> [g \in Group |-> IF g = "transform" THEN "unsaved" ELSE "own"]]
Dragged(x) ==
  [style |-> [g \in Group |-> IF g = "size" THEN "own" ELSE "live"],
   saved |-> [g \in Group |-> IF g = "transform" THEN OrComputed(x)
                              ELSE IF g = "size" THEN "unsaved" ELSE "own"]]

RestValue(e) == IF e \in Inline THEN {"own"} ELSE {"none", "computed"}
AtRest(e)    == {Resting(x) : x \in RestValue(e)}
Styled(t, e) == IF t = "resize" THEN {Sized(x) : x \in RestValue(e)} ELSE {Dragged(x) : x \in RestValue(e)}
PageOf(e)    == AtRest(e) \cup Styled("drag", e) \cup Styled("resize", e)

\* The values of the variables.
StoreOK ==
  selectedId \in Element \cup {None} /\ previewMode \in BOOLEAN /\ isEditingText \in BOOLEAN
GestureOK ==
  /\ interaction \in [type : Kind, moved : BOOLEAN] \cup {None}
  /\ isDragging \in BOOLEAN /\ draggedIdentifier \in Element \cup {None}
  /\ dropTargetId \in Element \cup {None} /\ reparents \in Nat
  /\ raf \in {"none", "pending", "stale"} /\ locked \in BOOLEAN
QueuesOK == toFrame \in Seq(ToFrame) /\ fromFrame \in Seq(FromFrame)
TextOK ==
  /\ editable \subseteq Element /\ handlers \in [Element -> Nat]
  /\ \A e \in editable : handlers[e] > 0
  /\ unposted \in Int
ActsOK == acts \in 0 .. Acts
\* What the page keeps to restore is all it has changed: an element never has styles
\* of both kinds, of which only those of the first would be kept.
PageOK == DOMAIN page = Element /\ \A e \in Element : page[e] \in PageOf(e)

Typed == StoreOK /\ GestureOK /\ QueuesOK /\ TextOK /\ ActsOK /\ PageOK

\* Each element that is still editable was counted once.
Counted == IsFiniteSet(editable) /\ Cardinality(editable) <= unposted

IsLive(m)      == m.type \in Kind
Cleaned(e, i)  == \E j \in i + 1 .. Len(toFrame) : toFrame[j] = To("cleanup", e)
\* A live style of kind t is cleaned up by a message behind it or by the gesture.
Owned(e, t, i) == Cleaned(e, i) \/ (interaction # None /\ selectedId = e /\ interaction.type = t)
Between(e, i, j) == \E k \in i + 1 .. j - 1 : toFrame[k] = To("cleanup", e)

AllOwned ==
  /\ \A e \in Element, t \in Kind : page[e] \in Styled(t, e) => Owned(e, t, 0)
  /\ \A i \in 1 .. Len(toFrame) : IsLive(toFrame[i]) => Owned(toFrame[i].id, toFrame[i].type, i)

\* Between two live messages of different kinds for an element there is a cleanup.
OfOneKind ==
  /\ \A e \in Element, t \in Kind, j \in 1 .. Len(toFrame) :
       page[e] \in Styled(t, e) /\ IsLive(toFrame[j]) /\ toFrame[j].id = e
         => toFrame[j].type = t \/ Between(e, 0, j)
  /\ \A i, j \in 1 .. Len(toFrame) :
       i < j /\ IsLive(toFrame[i]) /\ IsLive(toFrame[j]) /\ toFrame[i].id = toFrame[j].id
         => toFrame[j].type = toFrame[i].type \/ Between(toFrame[i].id, i, j)

IInv == Typed /\ GestureOwnsState /\ Counted /\ AllOwned /\ OfOneKind

-----------------------------------------------------------------------------
(* Messages.                                                               *)

LEMMA Messages ==
  /\ \A e \in Element : /\ \A t \in {"select", "drag", "resize", "editable", "cleanup"} : To(t, e) \in ToFrame
                        /\ Select(e) \in FromFrame /\ TextUpdate(e) \in FromFrame
  /\ To("cleanup", None) \in ToFrame
  /\ \A b \in BOOLEAN : Editing(b) \in FromFrame
BY DEF ToFrame, FromFrame

LEMMA Repeated ==
  ASSUME NEW S, NEW m \in S, NEW n \in Nat
  PROVE  [i \in 1 .. n |-> m] \in Seq(S)
BY SeqDef

LEMMA MessageSequences ==
  /\ \A id \in Element \cup {None} : Cleanup(id) \in Seq(ToFrame)
  /\ \A e \in Element : Posts(e, 1) \in Seq(FromFrame)
  /\ \A n \in Nat : [i \in 1 .. n |-> Editing(FALSE)] \in Seq(FromFrame)
  /\ \A n \in Nat, e \in Element : [i \in 1 .. n |-> To("editable", e)] \in Seq(ToFrame)
<1>1. ASSUME NEW id \in Element \cup {None}
      PROVE  Cleanup(id) \in Seq(ToFrame)
  BY Messages DEF Cleanup
<1>2. ASSUME NEW e \in Element
      PROVE  Posts(e, 1) \in Seq(FromFrame)
  <2>1. Editing(FALSE) \in FromFrame /\ TextUpdate(e) \in FromFrame
    BY Messages
  <2> DEFINE post(i) == IF i % 2 = 1 THEN Editing(FALSE) ELSE TextUpdate(e)
  <2>2. \A i : post(i) \in FromFrame
    BY <2>1
  <2>3. Posts(e, 1) = [i \in 1 .. 2 |-> post(i)]
    BY DEF Posts
  <2> HIDE DEF post
  <2>4. Posts(e, 1) \in [1 .. 2 -> FromFrame]
    BY <2>2, <2>3
  <2>5. QED
    BY <2>4, SeqDef
<1>3. ASSUME NEW n \in Nat
      PROVE  [i \in 1 .. n |-> Editing(FALSE)] \in Seq(FromFrame)
  <2>1. Editing(FALSE) \in FromFrame
    BY Messages
  <2>2. QED
    BY <2>1, Repeated
<1>4. ASSUME NEW n \in Nat, NEW e \in Element
      PROVE  [i \in 1 .. n |-> To("editable", e)] \in Seq(ToFrame)
  BY Messages, Repeated
<1>5. QED
  BY <1>1, <1>2, <1>3, <1>4

\* What comes from the page names an element; what goes to it names one, but for
\* the cleanup that Escape sends.
LEMMA HeadTypes ==
  ASSUME QueuesOK
  PROVE  /\ fromFrame # <<>> /\ Head(fromFrame).type = "select" => Head(fromFrame).id \in Element
         /\ fromFrame # <<>> /\ Head(fromFrame).type = "editing" => Head(fromFrame).on \in BOOLEAN
         /\ fromFrame # <<>> => Tail(fromFrame) \in Seq(FromFrame)
         /\ toFrame # <<>> => /\ Tail(toFrame) \in Seq(ToFrame)
                              /\ Head(toFrame).id \in Element \cup {None}
                              /\ Head(toFrame).type # "cleanup" => Head(toFrame).id \in Element
<1>1. \A m \in FromFrame : /\ m.type = "select" => m.id \in Element
                           /\ m.type = "editing" => m.on \in BOOLEAN
  BY DEF FromFrame, Select, TextUpdate, Editing
<1>2. \A m \in ToFrame : m.id \in Element \cup {None} /\ (m.type # "cleanup" => m.id \in Element)
  BY DEF ToFrame, To
<1>3. fromFrame # <<>> => Head(fromFrame) \in FromFrame /\ Tail(fromFrame) \in Seq(FromFrame)
  BY DEF QueuesOK
<1>4. toFrame # <<>> => Head(toFrame) \in ToFrame /\ Tail(toFrame) \in Seq(ToFrame)
  BY DEF QueuesOK
<1>5. QED
  BY <1>1, <1>2, <1>3, <1>4

LEMMA RestValues == \A e : RestValue(e) \subseteq {"own", "none", "computed"}
BY DEF RestValue

\* What the page does with the styles of an element.
LEMMA Styling ==
  ASSUME NEW x \in {"own", "none", "computed"}
  PROVE  /\ LiveResized(Resting(x)) = Sized(x) /\ LiveResized(Sized(x)) = Sized(x)
         /\ LiveDragged(Resting(x)) = Dragged(x) /\ LiveDragged(Dragged(x)) = Dragged(x)
         /\ PutBack(Resting(x)) = Resting(x) /\ PutBack(Sized(x)) = Resting(x)
         /\ PutBack(Dragged(x)) = Resting(OrComputed(x))
<1>0. OrComputed(x) \in {"own", "computed"}
  BY DEF OrComputed
<1>1. \A g : g \in Group <=> g = "transition" \/ g = "size" \/ g = "transform"
  BY DEF Group
<1>2. LiveResized(Resting(x)) = Sized(x)
  BY <1>1 DEF LiveResized, Resting, Sized, Unsaved
<1>3. LiveResized(Sized(x)) = Sized(x)
  BY <1>1 DEF LiveResized, Sized
<1>4. LiveDragged(Resting(x)) = Dragged(x)
  BY <1>1 DEF LiveDragged, Resting, Dragged, Unsaved
<1>5. LiveDragged(Dragged(x)) = Dragged(x)
  BY <1>0, <1>1 DEF LiveDragged, Dragged
<1>6. PutBack(Resting(x)) = Resting(x)
  BY <1>1 DEF PutBack, Resting, Unsaved
<1>7. PutBack(Sized(x)) = Resting(x)
  BY <1>1 DEF PutBack, Resting, Sized, Unsaved
<1>8. PutBack(Dragged(x)) = Resting(OrComputed(x))
  BY <1>0, <1>1 DEF PutBack, Resting, Dragged, Unsaved
<1>9. QED
  BY <1>2, <1>3, <1>4, <1>5, <1>6, <1>7, <1>8

\* The page gives an element the styles of one kind, and takes them all back.
LEMMA Styles ==
  ASSUME NEW e
  PROVE  /\ \A t \in Kind, p \in AtRest(e) : p \notin Styled(t, e)
         /\ \A p \in Styled("drag", e) : p \notin Styled("resize", e)
         /\ \A p \in AtRest(e) \cup Styled("resize", e) : LiveResized(p) \in Styled("resize", e)
         /\ \A p \in AtRest(e) \cup Styled("drag", e) : LiveDragged(p) \in Styled("drag", e)
         /\ \A p \in PageOf(e) : PutBack(p) \in AtRest(e)
<1>1. "size" \in Group
  BY DEF Group
<1>2. \A x : Resting(x).style["size"] = "own" /\ Resting(x).saved["transition"] = "unsaved"
  BY DEF Resting, Unsaved, Group
<1>3. \A x : Sized(x).style["size"] = "live"
  BY <1>1 DEF Sized
<1>4. \A x : Dragged(x).style["size"] = "own" /\ Dragged(x).saved["transition"] = "own"
  BY DEF Dragged, Group
<1>5. \A p \in AtRest(e) : \E x \in RestValue(e) : p = Resting(x)
  BY DEF AtRest
<1>6. \A p \in Styled("resize", e) : \E x \in RestValue(e) : p = Sized(x)
  BY DEF Styled
<1>7. \A p \in Styled("drag", e) : \E x \in RestValue(e) : p = Dragged(x)
  BY DEF Styled
<1>8. /\ \A x \in RestValue(e) : Resting(x) \in AtRest(e)
      /\ \A x \in RestValue(e) : Sized(x) \in Styled("resize", e)
      /\ \A x \in RestValue(e) : Dragged(x) \in Styled("drag", e)
  BY DEF AtRest, Styled
<1>9. \A x \in RestValue(e) : x \in {"own", "none", "computed"} /\ OrComputed(x) \in RestValue(e)
  BY RestValues DEF RestValue, OrComputed
<1>10. \A t \in Kind, p \in AtRest(e) : p \notin Styled(t, e)
  BY <1>2, <1>3, <1>4, <1>5, <1>6, <1>7 DEF Kind
<1>11. \A p \in Styled("drag", e) : p \notin Styled("resize", e)
  BY <1>3, <1>4, <1>6, <1>7
<1>12. \A p \in AtRest(e) \cup Styled("resize", e) : LiveResized(p) \in Styled("resize", e)
  BY <1>5, <1>6, <1>8, <1>9, Styling
<1>13. \A p \in AtRest(e) \cup Styled("drag", e) : LiveDragged(p) \in Styled("drag", e)
  BY <1>5, <1>7, <1>8, <1>9, Styling
<1>14. ASSUME NEW p \in PageOf(e)
       PROVE  PutBack(p) \in AtRest(e)
  <2>1. PICK x \in RestValue(e) : p = Resting(x) \/ p = Sized(x) \/ p = Dragged(x)
    BY <1>5, <1>6, <1>7 DEF PageOf
  <2>2. PutBack(p) = Resting(x) \/ PutBack(p) = Resting(OrComputed(x))
    BY <1>9, <2>1, Styling
  <2>3. QED
    BY <1>8, <1>9, <2>2
<1>15. QED
  BY <1>10, <1>11, <1>12, <1>13, <1>14

LEMMA FreshIsAtRest == \A e : Fresh(e) \in AtRest(e)
<1> TAKE e
<1>1. Fresh(e) = Resting(IF e \in Inline THEN "own" ELSE "none")
  BY DEF Fresh, Resting
<1>2. (IF e \in Inline THEN "own" ELSE "none") \in RestValue(e)
  BY DEF RestValue
<1>3. QED
  BY <1>1, <1>2 DEF AtRest

\* Styles of one kind have a live one, those at rest have none and are settled.
LEMMA LiveOrAtRest ==
  ASSUME PageOK, NEW e \in Element
  PROVE  /\ HasLive(e) => \E t \in Kind : page[e] \in Styled(t, e)
         /\ ~HasLive(e) => Settled(e)
         /\ page[e].style \in [Group -> Value] /\ page[e].saved \in [Group -> Value \cup {"unsaved"}]
<1>1. PICK x \in RestValue(e) : page[e] = Resting(x) \/ page[e] = Sized(x) \/ page[e] = Dragged(x)
  BY DEF PageOK, PageOf, AtRest, Styled
<1>2. x \in {"own", "none", "computed"} /\ OrComputed(x) \in {"own", "computed"}
  BY RestValues DEF OrComputed
<1>3. CASE page[e] = Resting(x)
  <2>1. ~HasLive(e)
    BY <1>2, <1>3 DEF HasLive, Resting
  <2>2. Settled(e)
    BY <1>1, <1>3 DEF Settled, Fresh, Resting, RestValue, Group
  <2>3. page[e].style \in [Group -> Value] /\ page[e].saved \in [Group -> Value \cup {"unsaved"}]
    BY <1>2, <1>3 DEF Resting, Unsaved, Value
  <2>4. QED
    BY <2>1, <2>2, <2>3
<1>4. CASE page[e] = Sized(x)
  <2>1. page[e].style["transition"] = "live" /\ "transition" \in Group /\ page[e] \in Styled("resize", e)
    BY <1>1, <1>4 DEF Sized, Group, Styled
  <2>2. page[e].style \in [Group -> Value] /\ page[e].saved \in [Group -> Value \cup {"unsaved"}]
    BY <1>2, <1>4 DEF Sized, Value
  <2>3. QED
    BY <2>1, <2>2 DEF HasLive, Kind
<1>5. CASE page[e] = Dragged(x)
  <2>1. page[e].style["transition"] = "live" /\ "transition" \in Group /\ page[e] \in Styled("drag", e)
    BY <1>1, <1>5 DEF Dragged, Group, Styled
  <2>2. page[e].style \in [Group -> Value] /\ page[e].saved \in [Group -> Value \cup {"unsaved"}]
    BY <1>2, <1>5 DEF Dragged, Value
  <2>3. QED
    BY <2>1, <2>2 DEF HasLive, Kind
<1>6. QED
  BY <1>1, <1>3, <1>4, <1>5

-----------------------------------------------------------------------------
(* Types.                                                                  *)

\* The rectangles that the page reports have no sides, so nothing is under the
\* pointer.
LEMMA NothingUnder == DropTarget(draggedIdentifier, SceneBounds, 1, 1, None) = None
<1>1. \A e \in DOMAIN SceneBounds : ~Under(SceneBounds[e], 1, 1)
  BY DEF SceneBounds, Under
<1>2. QED
  BY <1>1 DEF DropTarget

LEMMA ResubscribeTypes ==
  ASSUME StoreOK, GestureOK, QueuesOK, NEW new \in Element \cup {None}, Resubscribe(selectedId, new)
  PROVE  GestureOK' /\ toFrame' \in Seq(ToFrame)
<1>1. GestureOK'
  BY DEF Resubscribe, ExitGhostMode, Unlocks, Cancelled, GestureOK
<1>2. /\ Cleanup(selectedId) \in Seq(ToFrame)
      /\ Cleanup(IF isDragging THEN new ELSE None) \in Seq(ToFrame)
  BY MessageSequences DEF StoreOK
<1>3. toFrame' = toFrame \o (Cleanup(selectedId) \o Cleanup(IF isDragging THEN new ELSE None))
  BY DEF Resubscribe, ExitGhostMode, OldOne
<1>4. QED
  BY <1>1, <1>2, <1>3 DEF QueuesOK

LEMMA SelectingTypes ==
  ASSUME Typed, Selecting
  PROVE  Typed'
<1> USE DEF Typed
<1>1. ASSUME NEW e \in Element, MouseDown(e) \/ SelectRow(e)
      PROVE  Typed'
  <2>1. UNCHANGED <<store, gesture, page, text>> /\ ActsOK'
    BY <1>1, CanvasAssumption DEF MouseDown, SelectRow, Act, ActsOK
  <2>2. QueuesOK'
    <3>1. CASE MouseDown(e)
      <4>1. fromFrame' = Append(fromFrame, Select(e)) /\ Select(e) \in FromFrame /\ UNCHANGED toFrame
        BY <3>1, Messages DEF MouseDown
      <4>2. QED
        BY <4>1 DEF QueuesOK
    <3>2. CASE SelectRow(e)
      <4>1. toFrame' = Append(toFrame, To("select", e)) /\ To("select", e) \in ToFrame
            /\ UNCHANGED fromFrame
        BY <3>2, Messages DEF SelectRow
      <4>2. QED
        BY <4>1 DEF QueuesOK
    <3>3. QED
      BY <1>1, <3>1, <3>2
  <2>3. QED
    BY <2>1, <2>2 DEF store, gesture, dnd, text, StoreOK, GestureOK, TextOK, PageOK
<1>2. CASE Escape
  <2>1. UNCHANGED <<page, text>> /\ ActsOK' /\ StoreOK' /\ GestureOK'
    <3>1. UNCHANGED <<page, text>> /\ ActsOK' /\ StoreOK'
      BY <1>2, CanvasAssumption DEF Escape, Act, ActsOK, StoreOK
    <3>2. GestureOK'
      BY <1>2 DEF Escape, GestureOK, Cancelled
    <3>3. QED
      BY <3>1, <3>2
  <2>2. toFrame' = Append(toFrame, To("cleanup", None))
                     \o (IF interaction = None THEN <<>> ELSE Cleanup(selectedId))
        /\ UNCHANGED fromFrame
    BY <1>2 DEF Escape, OldOne
  <2>3. Cleanup(selectedId) \in Seq(ToFrame) /\ Append(toFrame, To("cleanup", None)) \in Seq(ToFrame)
    BY Messages, MessageSequences DEF StoreOK, QueuesOK
  <2>4. QueuesOK'
    BY <2>2, <2>3 DEF QueuesOK
  <2>5. QED
    BY <2>1, <2>4 DEF text, TextOK, PageOK
<1>3. CASE Answer
  <2>1. /\ Head(fromFrame).id \in Element /\ fromFrame' \in Seq(FromFrame)
        /\ selectedId' = Head(fromFrame).id
        /\ UNCHANGED <<previewMode, isEditingText, page, text, acts>>
    BY <1>3, HeadTypes DEF Answer, Selects
  <2>2. GestureOK' /\ toFrame' \in Seq(ToFrame)
    <3>1. CASE Resubscribe(selectedId, Head(fromFrame).id)
      BY <2>1, <3>1, ResubscribeTypes
    <3>2. CASE UNCHANGED <<gesture, toFrame>>
      BY <3>2 DEF gesture, dnd, GestureOK, QueuesOK
    <3>3. QED
      BY <1>3, <3>1, <3>2 DEF Answer, Selects
  <2>3. QED
    BY <2>1, <2>2 DEF StoreOK, QueuesOK, text, TextOK, PageOK, ActsOK
<1>4. QED
  BY <1>1, <1>2, <1>3 DEF Selecting

LEMMA GesturingTypes ==
  ASSUME Typed, GestureOwnsState, Gesturing
  PROVE  Typed'
<1> USE DEF Typed
<1>1. CASE DragStart \/ ResizeStart
  <2>1. GestureOK'
    <3>1. PICK t \in Kind : interaction' = [type |-> t, moved |-> FALSE]
      BY <1>1 DEF DragStart, ResizeStart, Starts, Kind
    <3>2. interaction' \in [type : Kind, moved : BOOLEAN]
      BY <3>1
    <3>3. /\ locked' = TRUE /\ isDragging' = TRUE /\ UNCHANGED <<reparents, raf>>
          /\ draggedIdentifier' \in {draggedIdentifier, selectedId}
          /\ dropTargetId' \in {dropTargetId, None}
      BY <1>1 DEF DragStart, ResizeStart, Starts
    <3>4. QED
      BY <3>2, <3>3 DEF GestureOK, StoreOK
  <2>2. ActsOK' /\ UNCHANGED <<store, toFrame, fromFrame, page, text>>
    BY <1>1, CanvasAssumption DEF DragStart, ResizeStart, Starts, MayStart, Act, ActsOK
  <2>3. QED
    BY <2>1, <2>2 DEF store, text, StoreOK, QueuesOK, TextOK, PageOK
<1>2. CASE DoubleClick
  <2>1. PICK n \in 2 .. 3 : toFrame' = toFrame \o [i \in 1 .. n |-> To("editable", selectedId)]
    BY <1>2 DEF DoubleClick
  <2>2. selectedId \in Element /\ n \in Nat
    BY <1>2 DEF DoubleClick, MayStart, StoreOK
  <2>3. [i \in 1 .. n |-> To("editable", selectedId)] \in Seq(ToFrame)
    BY <2>2, MessageSequences
  <2>4. toFrame' \in Seq(ToFrame)
    BY <2>1, <2>3 DEF QueuesOK
  <2>5. ActsOK' /\ UNCHANGED <<store, gesture, fromFrame, page, text>>
    BY <1>2, CanvasAssumption DEF DoubleClick, MayStart, Act, ActsOK
  <2>6. QED
    BY <2>4, <2>5 DEF store, gesture, dnd, text, StoreOK, GestureOK, QueuesOK, TextOK, PageOK
<1>3. CASE PointerMove
  BY <1>3 DEF PointerMove, store, dnd, text, StoreOK, GestureOK, QueuesOK, TextOK, PageOK, ActsOK
<1>4. CASE Frame
  <2>1. /\ UNCHANGED <<store, isDragging, draggedIdentifier, reparents, locked, fromFrame, page, text, acts>>
        /\ raf' = "none"
    BY <1>4 DEF Frame
  <2>2. /\ interaction' \in [type : Kind, moved : BOOLEAN] \cup {None}
        /\ dropTargetId' \in Element \cup {None} /\ toFrame' \in Seq(ToFrame)
    <3>1. CASE UNCHANGED <<interaction, dropTargetId, toFrame>>
      BY <3>1 DEF GestureOK, QueuesOK
    <3>2. CASE /\ interaction' = [interaction EXCEPT !.moved = TRUE]
               /\ HandleDragMove /\ SyncLivePosition
      <4>1. interaction \in [type : Kind, moved : BOOLEAN]
        BY <1>4 DEF Frame, GestureOwnsState, GestureOK
      <4>2. interaction' \in [type : Kind, moved : BOOLEAN] \cup {None}
        BY <3>2, <4>1
      <4>3. dropTargetId' \in Element \cup {None}
        BY <3>2, NothingUnder DEF HandleDragMove, GestureOK
      <4>4. toFrame' \in Seq(ToFrame)
        <5>1. CASE toFrame' = Append(toFrame, To(interaction.type, selectedId)) /\ selectedId # None
          <6>1. To(interaction.type, selectedId) \in ToFrame
            BY <4>1, <5>1, Messages DEF StoreOK, Kind
          <6>2. QED
            BY <5>1, <6>1 DEF QueuesOK
        <5>2. CASE UNCHANGED toFrame
          BY <5>2 DEF QueuesOK
        <5>3. QED
          BY <3>2, <5>1, <5>2 DEF SyncLivePosition
      <4>5. QED
        BY <4>2, <4>3, <4>4
    <3>3. QED
      BY <1>4, <3>1, <3>2 DEF Frame
  <2>3. QED
    BY <2>1, <2>2 DEF store, text, StoreOK, GestureOK, QueuesOK, TextOK, PageOK, ActsOK
<1>5. CASE PointerUp \/ OnBlur
  <2>1. /\ UNCHANGED <<store, fromFrame, page, text, acts>>
        /\ toFrame' = toFrame \o (Cleanup(selectedId) \o Cleanup(selectedId))
    BY <1>5 DEF PointerUp, OnBlur, ExitGhostMode
  <2>2. GestureOK'
    <3>1. /\ interaction' = None /\ raf' = "none" /\ locked' = FALSE
          /\ isDragging' = FALSE /\ draggedIdentifier' = None /\ dropTargetId' = None
      BY <1>5 DEF PointerUp, OnBlur, ExitGhostMode, HandleDragEnd, Unlocks
    <3>2. reparents' \in Nat
      BY <1>5 DEF PointerUp, OnBlur, HandleDragEnd, GestureOK
    <3>3. QED
      BY <3>1, <3>2 DEF GestureOK
  <2>3. toFrame' \in Seq(ToFrame)
    BY <2>1, MessageSequences DEF StoreOK, QueuesOK
  <2>4. QED
    BY <2>1, <2>2, <2>3 DEF store, text, StoreOK, QueuesOK, TextOK, PageOK, ActsOK
<1>6. CASE Zoom
  <2>1. ActsOK' /\ UNCHANGED <<store, fromFrame, page, text>>
    BY <1>6, CanvasAssumption DEF Zoom, Act, ActsOK
  <2>2. GestureOK' /\ toFrame' \in Seq(ToFrame)
    BY <1>6, ResubscribeTypes DEF Zoom, StoreOK
  <2>3. QED
    BY <2>1, <2>2 DEF store, text, StoreOK, QueuesOK, TextOK, PageOK
<1>7. QED
  BY <1>1, <1>2, <1>3, <1>4, <1>5, <1>6 DEF Gesturing

LEMMA PageTypes ==
  ASSUME Typed, FrameSelect \/ LiveResize \/ LiveDragTransform \/ LiveInteractionCleanup,
         \* A live message finds no styles of the other kind (OfOneKind).
         toFrame # <<>> /\ Head(toFrame).type \in Kind
           => page[Head(toFrame).id] \in AtRest(Head(toFrame).id) \cup Styled(Head(toFrame).type, Head(toFrame).id)
  PROVE  Typed'
<1> USE DEF Typed
<1> DEFINE id == Head(toFrame).id
<1>1. /\ UNCHANGED <<store, gesture, text, acts>> /\ toFrame # <<>> /\ toFrame' = Tail(toFrame)
      /\ UNCHANGED fromFrame \/ FrameSelect
  BY DEF FrameSelect, LiveResize, LiveDragTransform, LiveInteractionCleanup, Takes
<1>2. QueuesOK'
  <2>1. toFrame' \in Seq(ToFrame)
    BY <1>1, HeadTypes
  <2>2. CASE FrameSelect
    <3>1. fromFrame' = Append(fromFrame, Select(id)) /\ Select(id) \in FromFrame
      BY <1>1, <2>2, HeadTypes, Messages DEF FrameSelect, Takes
    <3>2. QED
      BY <2>1, <3>1 DEF QueuesOK
  <2>3. QED
    BY <1>1, <2>1, <2>2 DEF QueuesOK
<1>3. PageOK'
  <2>1. CASE FrameSelect
    BY <2>1 DEF FrameSelect, PageOK
  <2>2. ASSUME NEW p \in PageOf(id), page' = [page EXCEPT ![id] = p]
        PROVE  PageOK'
    BY <2>2 DEF PageOK
  <2>3. CASE LiveResize
    <3>1. /\ Head(toFrame).type = "resize" /\ page' = [page EXCEPT ![id] = LiveResized(page[id])]
          /\ page[id] \in AtRest(id) \cup Styled("resize", id)
      BY <1>1, <2>3 DEF LiveResize, Takes, Kind
    <3>2. LiveResized(page[id]) \in PageOf(id)
      BY <3>1, Styles DEF PageOf
    <3>3. QED
      BY <2>2, <3>1, <3>2
  <2>4. CASE LiveDragTransform
    <3>1. /\ Head(toFrame).type = "drag" /\ page' = [page EXCEPT ![id] = LiveDragged(page[id])]
          /\ page[id] \in AtRest(id) \cup Styled("drag", id)
      BY <1>1, <2>4 DEF LiveDragTransform, Takes, Kind
    <3>2. LiveDragged(page[id]) \in PageOf(id)
      BY <3>1, Styles DEF PageOf
    <3>3. QED
      BY <2>2, <3>1, <3>2
  <2>5. CASE LiveInteractionCleanup
    <3>1. page' = IF id = None THEN page ELSE [page EXCEPT ![id] = PutBack(page[id])]
      BY <2>5 DEF LiveInteractionCleanup
    <3>2. CASE id = None
      BY <3>1, <3>2 DEF PageOK
    <3>3. CASE id # None
      <4>1. id \in Element
        BY <1>1, <3>3, HeadTypes
      <4>2. PutBack(page[id]) \in PageOf(id)
        BY <4>1, Styles DEF PageOK, PageOf
      <4>3. QED
        BY <2>2, <3>1, <3>3, <4>2
    <3>4. QED
      BY <3>2, <3>3
  <2>6. QED
    BY <2>1, <2>3, <2>4, <2>5
<1>4. QED
  BY <1>1, <1>2, <1>3 DEF store, gesture, dnd, text, StoreOK, GestureOK, TextOK, ActsOK

\* The text of an element, and how often it was counted.
LEMMA TextTypes ==
  ASSUME Typed, Counted, SetEditable \/ \E e \in Element : Commit(e) \/ Cancel(e)
  PROVE  Typed' /\ Counted'
<1> USE DEF Typed
<1>1. UNCHANGED <<store, gesture, page, acts>>
  BY DEF SetEditable, Commit, Cancel
<1>2. CASE SetEditable
  <2> DEFINE e == Head(toFrame).id
  <2>1. /\ e \in Element /\ toFrame' \in Seq(ToFrame)
        /\ editable' = editable \cup {e} /\ handlers' = [handlers EXCEPT ![e] = @ + 1]
        /\ unposted' = IF e \in editable THEN unposted ELSE unposted + 1
    BY <1>2, HeadTypes DEF SetEditable, Takes
  <2>2. fromFrame' \in Seq(FromFrame)
    <3>1. fromFrame' = Append(fromFrame, Editing(TRUE)) /\ Editing(TRUE) \in FromFrame
      BY <1>2, Messages DEF SetEditable
    <3>2. PICK m \in FromFrame : fromFrame' = Append(fromFrame, m)
      BY <3>1
    <3>3. QED
      BY <3>2 DEF QueuesOK
  <2> HIDE DEF e
  <2>3. TextOK'
    BY <2>1 DEF TextOK
  <2>4. Counted'
    <3>1. CASE e \in editable
      <4>1. UNCHANGED <<editable, unposted>>
        BY <2>1, <3>1
      <4>2. QED
        BY <4>1 DEF Counted
    <3>2. CASE e \notin editable
      <4>1. IsFiniteSet(editable') /\ Cardinality(editable') = Cardinality(editable) + 1
        BY <2>1, <3>2, FS_AddElement DEF Counted
      <4>2. Cardinality(editable) \in Nat
        BY FS_CardinalityType DEF Counted
      <4>3. QED
        BY <2>1, <3>2, <4>1, <4>2 DEF Counted, TextOK
    <3>3. QED
      BY <3>1, <3>2
  <2>5. QED
    BY <1>1, <2>1, <2>2, <2>3, <2>4 DEF store, gesture, dnd, StoreOK, GestureOK, QueuesOK, PageOK, ActsOK
<1>3. ASSUME NEW e \in Element, Commit(e)
      PROVE  Typed' /\ Counted'
  <2>1. /\ e \in editable /\ editable' = editable \ {e} /\ fromFrame' = fromFrame \o Posts(e, 1)
        /\ unposted' = unposted - 1 /\ handlers' = [handlers EXCEPT ![e] = @ - 1] /\ UNCHANGED toFrame
    BY <1>3 DEF Commit, FirstOnly
  <2>2. QueuesOK'
    <3>1. Posts(e, 1) \in Seq(FromFrame)
      BY MessageSequences
    <3>2. QED
      BY <2>1, <3>1 DEF QueuesOK
  <2>3. TextOK'
    BY <2>1 DEF TextOK
  <2>4. Counted'
    <3>1. /\ IsFiniteSet(editable') /\ Cardinality(editable') = Cardinality(editable) - 1
          /\ Cardinality(editable) \in Nat
      BY <2>1, FS_RemoveElement, FS_CardinalityType DEF Counted
    <3>2. QED
      BY <2>1, <3>1 DEF Counted, TextOK
  <2>5. QED
    BY <1>1, <2>2, <2>3, <2>4 DEF store, gesture, dnd, StoreOK, GestureOK, PageOK, ActsOK
<1>4. ASSUME NEW e \in Element, Cancel(e)
      PROVE  Typed' /\ Counted'
  <2>1. /\ e \in editable /\ editable' = editable \ {e}
        /\ fromFrame' = fromFrame \o [i \in 1 .. handlers[e] |-> Editing(FALSE)]
        /\ handlers' = [handlers EXCEPT ![e] = 0] /\ UNCHANGED <<toFrame, unposted>>
    BY <1>4 DEF Cancel
  <2>2. QueuesOK'
    <3>1. handlers[e] \in Nat
      BY DEF TextOK
    <3>2. [i \in 1 .. handlers[e] |-> Editing(FALSE)] \in Seq(FromFrame)
      BY <3>1, MessageSequences
    <3>3. fromFrame \o [i \in 1 .. handlers[e] |-> Editing(FALSE)] \in Seq(FromFrame)
      BY <3>2, ConcatProperties DEF QueuesOK
    <3>4. QED
      BY <2>1, <3>3 DEF QueuesOK
  <2>3. TextOK'
    BY <2>1 DEF TextOK
  <2>4. Counted'
    <3>1. /\ IsFiniteSet(editable') /\ Cardinality(editable') = Cardinality(editable) - 1
          /\ Cardinality(editable) \in Nat
      BY <2>1, FS_RemoveElement, FS_CardinalityType DEF Counted
    <3>2. QED
      BY <2>1, <3>1 DEF Counted, TextOK
  <2>5. QED
    BY <1>1, <2>2, <2>3, <2>4 DEF store, gesture, dnd, StoreOK, GestureOK, PageOK, ActsOK
<1>5. QED
  BY <1>2, <1>3, <1>4

LEMMA OtherTypes ==
  ASSUME Typed, EditingState \/ TextUpdated \/ PreviewToggle \/ Reload
  PROVE  Typed'
<1> USE DEF Typed
<1>1. CASE EditingState \/ TextUpdated
  <2>1. UNCHANGED <<selectedId, previewMode, gesture, toFrame, page, text, acts>>
    BY <1>1 DEF EditingState, TextUpdated, store
  <2>2. isEditingText' \in BOOLEAN /\ fromFrame' \in Seq(FromFrame)
    BY <1>1, HeadTypes DEF EditingState, TextUpdated, store, StoreOK
  <2>3. QED
    BY <2>1, <2>2 DEF gesture, dnd, text, StoreOK, GestureOK, QueuesOK, TextOK, ActsOK, PageOK
<1>2. CASE PreviewToggle
  <2>1. /\ UNCHANGED <<selectedId, isEditingText, gesture, toFrame, fromFrame, page, text>>
        /\ previewMode' \in BOOLEAN /\ ActsOK'
    BY <1>2, CanvasAssumption DEF PreviewToggle, Act, ActsOK, StoreOK
  <2>2. QED
    BY <2>1 DEF gesture, dnd, text, StoreOK, GestureOK, QueuesOK, TextOK, PageOK
<1>3. CASE Reload
  <2>1. UNCHANGED <<store, gesture, fromFrame, unposted>> /\ ActsOK'
    BY <1>3, CanvasAssumption DEF Reload, Act, ActsOK
  <2>2. toFrame' = <<>> /\ PageOK' /\ TextOK'
    BY <1>3, FreshIsAtRest DEF Reload, PageOK, PageOf, TextOK
  <2>3. QED
    BY <2>1, <2>2 DEF store, gesture, dnd, StoreOK, GestureOK, QueuesOK
<1>4. QED
  BY <1>1, <1>2, <1>3

\* All other steps leave the texts alone, but for a new page.
LEMMA CountedStep ==
  ASSUME Counted, TextOK,
         Selecting \/ Gesturing \/ EditingState \/ TextUpdated \/ PreviewToggle \/ Reload
           \/ FrameSelect \/ LiveResize \/ LiveDragTransform \/ LiveInteractionCleanup
  PROVE  Counted'
<1>1. CASE UNCHANGED text
  BY <1>1 DEF text, Counted
<1>2. CASE Reload
  <2>1. Cardinality(editable) \in Nat
    BY FS_CardinalityType DEF Counted
  <2>2. editable' = {} /\ unposted' = unposted
    BY <1>2 DEF Reload
  <2>3. QED
    BY <2>1, <2>2, FS_EmptySet DEF Counted, TextOK
<1>3. QED
  BY <1>1, <1>2 DEF Selecting, MouseDown, SelectRow, Escape, Answer, Gesturing, DragStart, ResizeStart,
       Starts, DoubleClick, PointerMove, Frame, PointerUp, OnBlur, Zoom, EditingState, TextUpdated,
       PreviewToggle, FrameSelect, LiveResize, LiveDragTransform, LiveInteractionCleanup

-----------------------------------------------------------------------------
(* The gesture.                                                            *)

LEMMA OnPageLeavesGesture ==
  ASSUME OnPage \/ EditingState \/ TextUpdated \/ PreviewToggle \/ Reload
  PROVE  UNCHANGED <<gesture, selectedId>>
BY DEF OnPage, FrameSelect, LiveResize, LiveDragTransform, LiveInteractionCleanup, SetEditable,
       Commit, Cancel, EditingState, TextUpdated, PreviewToggle, Reload, store

\* No step locks the frame, drags or leaves an animation frame behind but under a
\* gesture, and the end of the gesture undoes all of them.
LEMMA GestureStep ==
  ASSUME GestureOK, GestureOwnsState, Next
  PROVE  GestureOwnsState'
<1>1. CASE UNCHANGED gesture
  BY <1>1 DEF gesture, dnd, GestureOwnsState
<1>2. ASSUME NEW new, Resubscribe(selectedId, new)
      PROVE  GestureOwnsState'
  BY <1>2 DEF Resubscribe, ExitGhostMode, Unlocks, Cancelled, GestureOwnsState
<1>3. CASE Selecting
  <2>1. ASSUME NEW e \in Element, MouseDown(e) \/ SelectRow(e)
        PROVE  UNCHANGED gesture
    BY <2>1 DEF MouseDown, SelectRow
  <2>2. CASE Escape
    BY <2>2 DEF Escape, Cancelled, GestureOwnsState
  <2>3. CASE Answer
    BY <1>1, <1>2, <2>3 DEF Answer, Selects
  <2>4. QED
    BY <1>1, <1>3, <2>1, <2>2, <2>3 DEF Selecting
<1>4. CASE DragStart \/ ResizeStart
  <2>1. PICK t \in Kind : interaction' = [type |-> t, moved |-> FALSE]
    BY <1>4 DEF DragStart, ResizeStart, Starts, Kind
  <2>2. interaction' \in [type : Kind, moved : BOOLEAN]
    BY <2>1
  <2>3. interaction' # None
    BY <2>2, CanvasAssumption DEF Kind
  <2>4. QED
    BY <2>3 DEF GestureOwnsState
<1>5. CASE DoubleClick
  BY <1>1, <1>5 DEF DoubleClick
<1>6. CASE PointerMove
  BY <1>6 DEF PointerMove, GestureOwnsState
<1>7. CASE Frame
  <2>1. interaction \in [type : Kind, moved : BOOLEAN]
    BY <1>7 DEF Frame, GestureOwnsState, GestureOK
  <2>2. interaction' \in [type : Kind, moved : BOOLEAN]
    BY <1>7, <2>1 DEF Frame
  <2>3. interaction' # None
    BY <2>2, CanvasAssumption DEF Kind
  <2>4. QED
    BY <2>3 DEF GestureOwnsState
<1>8. CASE PointerUp \/ OnBlur
  BY <1>8 DEF PointerUp, OnBlur, HandleDragEnd, ExitGhostMode, Unlocks, GestureOwnsState
<1>9. CASE Zoom
  BY <1>2, <1>9 DEF Zoom
<1>10. CASE OnPage \/ EditingState \/ TextUpdated \/ PreviewToggle \/ Reload
  BY <1>1, <1>10, OnPageLeavesGesture
<1>11. QED
  BY <1>3, <1>4, <1>5, <1>6, <1>7, <1>8, <1>9, <1>10 DEF Next, Gesturing

-----------------------------------------------------------------------------
(* Live styles.                                                            *)

\* Messages are added behind the others, none of them live, and a gesture that ends
\* or loses its element has that element cleaned up.
LEMMA Grows ==
  ASSUME Typed, AllOwned, OfOneKind,
         NEW more \in Seq(ToFrame), toFrame' = toFrame \o more,
         \A i \in 1 .. Len(more) : ~IsLive(more[i]),
         UNCHANGED page,
         \/ interaction = None
         \/ selectedId = None
         \/ /\ interaction' # None /\ interaction'.type = interaction.type
            /\ selectedId' = selectedId
         \/ \E k \in 1 .. Len(more) : more[k] = To("cleanup", selectedId)
  PROVE  AllOwned' /\ OfOneKind'
<1> DEFINE n == Len(toFrame)
<1>1. /\ n \in Nat /\ Len(more) \in Nat /\ Len(toFrame') = n + Len(more)
      /\ \A i \in 1 .. n : toFrame'[i] = toFrame[i]
      /\ \A i \in 1 .. Len(more) : toFrame'[n + i] = more[i]
  <2>1. /\ Len(toFrame \o more) = n + Len(more)
        /\ \A i \in 1 .. n + Len(more) :
             (toFrame \o more)[i] = IF i <= n THEN toFrame[i] ELSE more[i - n]
        /\ n \in Nat /\ Len(more) \in Nat
    BY ConcatProperties, LenProperties DEF Typed, QueuesOK
  <2> HIDE DEF n
  <2>2. QED
    BY <2>1
<1> HIDE DEF n
<1>2. \A i \in 1 .. Len(toFrame') : IsLive(toFrame'[i]) => i \in 1 .. n
  <2>1. ASSUME NEW i \in 1 .. Len(toFrame'), i > n
        PROVE  ~IsLive(toFrame'[i])
    <3>1. i - n \in 1 .. Len(more) /\ i = n + (i - n)
      BY <1>1, <2>1
    <3>2. QED
      BY <1>1, <3>1
  <2>2. QED
    BY <1>1, <2>1
<1>3. ASSUME NEW e, NEW i \in Nat, Cleaned(e, i)
      PROVE  Cleaned(e, i)'
  BY <1>1, <1>3 DEF Cleaned, n
<1>4. ASSUME NEW e \in Element, NEW t, NEW i \in 0 .. n, Owned(e, t, i)
      PROVE  Owned(e, t, i)'
  <2>1. CASE Cleaned(e, i)
    BY <1>1, <1>3, <2>1 DEF Owned
  <2>2. CASE interaction # None /\ selectedId = e /\ interaction.type = t
    <3>1. e # None
      BY CanvasAssumption
    <3>2. CASE \E k \in 1 .. Len(more) : more[k] = To("cleanup", selectedId)
      <4>1. PICK k \in 1 .. Len(more) : more[k] = To("cleanup", e)
        BY <2>2, <3>2
      <4>2. n + k \in i + 1 .. Len(toFrame') /\ toFrame'[n + k] = To("cleanup", e)
        BY <1>1, <4>1
      <4>3. QED
        BY <4>2 DEF Owned, Cleaned
    <3>3. QED
      BY <2>2, <3>1, <3>2 DEF Owned
  <2>3. QED
    BY <1>4, <2>1, <2>2 DEF Owned
<1>5. ASSUME NEW e, NEW i \in Nat, NEW j \in 1 .. n
      PROVE  Between(e, i, j)' <=> Between(e, i, j)
  BY <1>1 DEF Between
<1>6. \A i \in 1 .. n : IsLive(toFrame[i]) => toFrame[i].id \in Element
  <2>1. \A m \in ToFrame : IsLive(m) => m.id \in Element
    BY DEF ToFrame, To, IsLive, Kind
  <2>2. QED
    BY <2>1 DEF Typed, QueuesOK, n
<1>7. AllOwned'
  <2>1. \A e \in Element, t \in Kind : page'[e] \in Styled(t, e) => Owned(e, t, 0)'
    BY <1>1, <1>4 DEF AllOwned
  <2>2. ASSUME NEW i \in 1 .. Len(toFrame'), IsLive(toFrame'[i])
        PROVE  Owned(toFrame[i].id, toFrame[i].type, i)'
    <3>1. i \in 1 .. n /\ toFrame'[i] = toFrame[i]
      BY <1>1, <1>2, <2>2
    <3>2. PICK e \in Element, t \in Kind : e = toFrame[i].id /\ t = toFrame[i].type
      BY <1>6, <2>2, <3>1 DEF IsLive
    <3>3. Owned(e, t, i)
      BY <2>2, <3>1, <3>2 DEF AllOwned, n
    <3>4. Owned(e, t, i)'
      BY <1>1, <1>4, <3>1, <3>3
    <3>5. QED
      BY <3>1, <3>2, <3>4 DEF Owned, Cleaned
  <2>3. QED
    BY <2>1, <2>2 DEF AllOwned
<1>8. OfOneKind'
  <2>1. ASSUME NEW e \in Element, NEW t \in Kind, NEW j \in 1 .. Len(toFrame'),
               page'[e] \in Styled(t, e), IsLive(toFrame'[j]), toFrame'[j].id = e
        PROVE  toFrame'[j].type = t \/ Between(e, 0, j)'
    <3>1. j \in 1 .. n /\ toFrame'[j] = toFrame[j]
      BY <1>1, <1>2, <2>1
    <3>2. QED
      BY <1>5, <2>1, <3>1 DEF OfOneKind, n
  <2>2. ASSUME NEW i \in 1 .. Len(toFrame'), NEW j \in 1 .. Len(toFrame'),
               i < j, IsLive(toFrame'[i]), IsLive(toFrame'[j]), toFrame'[i].id = toFrame'[j].id
        PROVE  toFrame'[j].type = toFrame'[i].type \/ Between(toFrame[i].id, i, j)'
    <3>1. /\ i \in 1 .. n /\ toFrame'[i] = toFrame[i]
          /\ j \in 1 .. n /\ toFrame'[j] = toFrame[j]
      BY <1>1, <1>2, <2>2
    <3>2. PICK e \in Element : e = toFrame[i].id
      BY <1>6, <2>2, <3>1
    <3>3. toFrame[j].type = toFrame[i].type \/ Between(e, i, j)
      BY <2>2, <3>1, <3>2 DEF OfOneKind, n
    <3>4. Between(e, i, j) => Between(e, i, j)'
      <4>1. i \in Nat /\ j \in 1 .. n
        BY <3>1
      <4>2. QED
        BY <1>5, <4>1, Zenon
    <3>5. QED
      BY <3>1, <3>2, <3>3, <3>4 DEF Between
  <2>3. QED
    BY <2>1, <2>2 DEF OfOneKind
<1>9. QED
  BY <1>7, <1>8

LEMMA LiveNamesElement ==
  ASSUME QueuesOK, NEW i \in 1 .. Len(toFrame), IsLive(toFrame[i])
  PROVE  toFrame[i].id \in Element /\ toFrame[i].type \in Kind
<1>1. \A m \in ToFrame : IsLive(m) => m.id \in Element /\ m.type \in Kind
  BY DEF ToFrame, To, IsLive, Kind
<1>2. QED
  BY <1>1 DEF QueuesOK

\* The gesture adds a live message for its element.
LEMMA Syncs ==
  ASSUME Typed, AllOwned, OfOneKind, interaction # None, selectedId # None,
         toFrame' = Append(toFrame, To(interaction.type, selectedId)),
         interaction' # None, interaction'.type = interaction.type,
         UNCHANGED <<selectedId, page>>
  PROVE  AllOwned' /\ OfOneKind'
<1> DEFINE n == Len(toFrame)
<1>1. /\ n \in Nat /\ Len(toFrame') = n + 1
      /\ \A i \in 1 .. n : toFrame'[i] = toFrame[i]
      /\ toFrame'[n + 1].type = interaction.type /\ toFrame'[n + 1].id = selectedId
  BY DEF Typed, QueuesOK, To
<1>2. ASSUME NEW e, NEW t, NEW i \in 0 .. n, Owned(e, t, i)
      PROVE  Owned(e, t, i)'
  BY <1>1, <1>2 DEF Owned, Cleaned
<1>3. ASSUME NEW e, NEW i \in Nat, NEW j \in 1 .. n + 1
      PROVE  Between(e, i, j)' <=> Between(e, i, j)
  BY <1>1 DEF Between
\* A live style without a cleanup behind it is of the gesture's kind.
<1>4. ASSUME NEW e, NEW t, NEW i \in 0 .. n, Owned(e, t, i), selectedId = e
      PROVE  t = interaction.type \/ Between(e, i, n + 1)
  BY <1>1, <1>4 DEF Owned, Cleaned, Between
<1>5. AllOwned'
  <2>1. \A e \in Element, t \in Kind : page'[e] \in Styled(t, e) => Owned(e, t, 0)'
    BY <1>1, <1>2 DEF AllOwned
  <2>2. ASSUME NEW i \in 1 .. Len(toFrame'), IsLive(toFrame'[i])
        PROVE  Owned(toFrame[i].id, toFrame[i].type, i)'
    <3>1. CASE i = n + 1
      BY <1>1, <3>1 DEF Owned
    <3>2. CASE i \in 1 .. n
      <4>1. PICK e \in Element, t \in Kind : e = toFrame[i].id /\ t = toFrame[i].type
        BY <1>1, <2>2, <3>2, LiveNamesElement DEF Typed
      <4>2. Owned(e, t, i)'
        BY <1>1, <1>2, <2>2, <3>2, <4>1 DEF AllOwned
      <4>3. QED
        BY <1>1, <3>2, <4>1, <4>2 DEF Owned, Cleaned
    <3>3. QED
      BY <1>1, <3>1, <3>2
  <2>3. QED
    BY <2>1, <2>2 DEF AllOwned
<1>6. OfOneKind'
  <2>1. ASSUME NEW e \in Element, NEW t \in Kind, NEW j \in 1 .. Len(toFrame'),
               page'[e] \in Styled(t, e), IsLive(toFrame'[j]), toFrame'[j].id = e
        PROVE  toFrame'[j].type = t \/ Between(e, 0, j)'
    <3>1. CASE j = n + 1
      <4>1. Owned(e, t, 0) /\ selectedId = e
        BY <1>1, <2>1, <3>1 DEF AllOwned
      <4>2. QED
        BY <1>1, <1>3, <1>4, <3>1, <4>1
    <3>2. CASE j \in 1 .. n
      BY <1>1, <1>3, <2>1, <3>2 DEF OfOneKind
    <3>3. QED
      BY <1>1, <3>1, <3>2
  <2>2. ASSUME NEW i \in 1 .. Len(toFrame'), NEW j \in 1 .. Len(toFrame'),
               i < j, IsLive(toFrame'[i]), IsLive(toFrame'[j]), toFrame'[i].id = toFrame'[j].id
        PROVE  toFrame'[j].type = toFrame'[i].type \/ Between(toFrame[i].id, i, j)'
    <3>1. i \in 1 .. n /\ toFrame'[i] = toFrame[i]
      BY <1>1, <2>2
    <3>2. PICK e \in Element, t \in Kind : e = toFrame[i].id /\ t = toFrame[i].type
      BY <2>2, <3>1, LiveNamesElement DEF Typed
    <3>3. toFrame'[j].type = t \/ Between(e, i, j)
      <4>1. CASE j = n + 1
        <5>1. Owned(e, t, i) /\ selectedId = e
          BY <1>1, <2>2, <3>1, <3>2, <4>1 DEF AllOwned
        <5>2. QED
          BY <1>1, <1>4, <3>1, <4>1, <5>1
      <4>2. CASE j \in 1 .. n
        BY <1>1, <2>2, <3>1, <3>2, <4>2 DEF OfOneKind
      <4>3. QED
        BY <1>1, <4>1, <4>2
    <3>4. Between(e, i, j) => Between(e, i, j)'
      BY <1>1, <1>3
    <3>5. QED
      BY <3>1, <3>2, <3>3, <3>4 DEF Between
  <2>3. QED
    BY <2>1, <2>2 DEF OfOneKind
<1>7. QED
  BY <1>5, <1>6

\* What the page does with its first message.
Handled(m) ==
  /\ IsLive(m) => \E p \in Styled(m.type, m.id) : page' = [page EXCEPT ![m.id] = p]
  /\ m.type = "cleanup" /\ m.id # None => \E p \in AtRest(m.id) : page' = [page EXCEPT ![m.id] = p]
  /\ ~IsLive(m) /\ ~(m.type = "cleanup" /\ m.id # None) => UNCHANGED page

\* The styles of a live message are owned from where the message was, and a cleanup
\* leaves none behind.
LEMMA Pops ==
  ASSUME Typed, AllOwned, OfOneKind, toFrame # <<>>, toFrame' = Tail(toFrame),
         UNCHANGED <<interaction, selectedId>>, Handled(Head(toFrame))
  PROVE  AllOwned' /\ OfOneKind'
<1> DEFINE n == Len(toFrame)
           m == Head(toFrame)
<1>1. /\ n \in Nat \ {0} /\ Len(toFrame') = n - 1 /\ m = toFrame[1]
      /\ \A i \in 1 .. n - 1 : toFrame'[i] = toFrame[i + 1]
  BY HeadTailProperties, LenProperties, EmptySeq DEF Typed, QueuesOK
<1>2. ASSUME NEW e, NEW t, NEW i \in 0 .. n - 1, Owned(e, t, i + 1)
      PROVE  Owned(e, t, i)'
  <2>1. ASSUME NEW j \in i + 2 .. n, toFrame[j] = To("cleanup", e)
        PROVE  j - 1 \in i + 1 .. n - 1 /\ toFrame'[j - 1] = To("cleanup", e)
    <3>1. j - 1 \in 1 .. n - 1 /\ (j - 1) + 1 = j
      BY <1>1, <2>1
    <3>2. QED
      BY <1>1, <2>1, <3>1
  <2> HIDE DEF n, m
  <2>2. Cleaned(e, i + 1) => Cleaned(e, i)'
    BY <1>1, <2>1 DEF Cleaned, n
  <2>3. QED
    BY <1>2, <2>2 DEF Owned
<1>3. ASSUME NEW e, NEW i \in Nat, NEW j \in 1 .. n - 1, Between(e, i + 1, j + 1)
      PROVE  Between(e, i, j)'
  <2>1. PICK k \in i + 2 .. j : toFrame[k] = To("cleanup", e)
    BY <1>3 DEF Between
  <2>2. k - 1 \in i + 1 .. j - 1 /\ k - 1 \in 1 .. n - 1 /\ (k - 1) + 1 = k
    BY <1>1, <2>1
  <2>3. QED
    BY <1>1, <2>1, <2>2 DEF Between
\* Live styles after the message are those it gave or some there were before,
\* which it has not taken back.
<1>4. ASSUME NEW e \in Element, NEW t \in Kind, page'[e] \in Styled(t, e)
      PROVE  \/ IsLive(m) /\ m.id = e /\ m.type = t
             \/ page[e] \in Styled(t, e) /\ m # To("cleanup", e)
  <2>1. DOMAIN page = Element
    BY DEF Typed, PageOK
  <2>2. \A u \in Kind : page'[e] \in Styled(u, e) => u = t
    BY <1>4, Styles DEF Kind
  <2>3. CASE IsLive(m)
    <3>1. PICK p \in Styled(m.type, m.id) : page' = [page EXCEPT ![m.id] = p]
      BY <2>3 DEF Handled
    <3>2. CASE m.id = e
      <4>1. page'[e] = p /\ m.type \in Kind
        BY <2>1, <2>3, <3>1, <3>2 DEF IsLive
      <4>2. QED
        BY <2>2, <2>3, <3>1, <3>2, <4>1
    <3>3. CASE m.id # e
      BY <1>4, <2>1, <3>1, <3>3 DEF To
    <3>4. QED
      BY <3>2, <3>3
  <2>4. CASE m.type = "cleanup" /\ m.id # None
    <3>1. PICK p \in AtRest(m.id) : page' = [page EXCEPT ![m.id] = p]
      BY <2>4 DEF Handled, IsLive, Kind
    <3>2. CASE m.id = e
      BY <1>4, <2>1, <3>1, <3>2, Styles
    <3>3. CASE m.id # e
      BY <1>4, <2>1, <3>1, <3>3 DEF To
    <3>4. QED
      BY <3>2, <3>3
  <2>5. CASE ~IsLive(m) /\ ~(m.type = "cleanup" /\ m.id # None)
    BY <1>4, <2>5, CanvasAssumption DEF Handled, To
  <2>6. QED
    BY <2>3, <2>4, <2>5
<1> HIDE DEF m
<1>5. AllOwned'
  <2>1. ASSUME NEW e \in Element, NEW t \in Kind, page'[e] \in Styled(t, e)
        PROVE  Owned(e, t, 0)'
    <3>1. Owned(e, t, 1)
      <4>1. CASE IsLive(m) /\ m.id = e /\ m.type = t
        BY <1>1, <4>1 DEF AllOwned
      <4>2. CASE page[e] \in Styled(t, e) /\ m # To("cleanup", e)
        BY <1>1, <4>2 DEF AllOwned, Owned, Cleaned
      <4>3. QED
        BY <1>4, <2>1, <4>1, <4>2
    <3>2. QED
      BY <1>1, <1>2, <3>1
  <2>2. ASSUME NEW i \in 1 .. Len(toFrame'), IsLive(toFrame'[i])
        PROVE  Owned(toFrame[i].id, toFrame[i].type, i)'
    <3>1. i + 1 \in 1 .. n /\ i \in 1 .. n - 1 /\ toFrame'[i] = toFrame[i + 1]
      BY <1>1
    <3>2. PICK e \in Element, t \in Kind : e = toFrame[i + 1].id /\ t = toFrame[i + 1].type
      BY <2>2, <3>1, LiveNamesElement DEF Typed
    <3>3. Owned(e, t, i + 1)
      BY <2>2, <3>1, <3>2 DEF AllOwned
    <3>4. Owned(e, t, i)'
      BY <1>2, <3>1, <3>3
    <3>5. QED
      BY <3>1, <3>2, <3>4 DEF Owned, Cleaned
  <2>3. QED
    BY <2>1, <2>2 DEF AllOwned
<1>6. OfOneKind'
  <2>1. ASSUME NEW e \in Element, NEW t \in Kind, NEW j \in 1 .. Len(toFrame'),
               page'[e] \in Styled(t, e), IsLive(toFrame'[j]), toFrame'[j].id = e
        PROVE  toFrame'[j].type = t \/ Between(e, 0, j)'
    <3>1. /\ j + 1 \in 1 .. n /\ j \in 1 .. n - 1 /\ toFrame'[j] = toFrame[j + 1]
          /\ 1 \in 1 .. n /\ 1 < j + 1
      BY <1>1
    <3>2. toFrame'[j].type = t \/ Between(e, 1, j + 1)
      <4>1. CASE IsLive(m) /\ m.id = e /\ m.type = t
        BY <1>1, <2>1, <3>1, <4>1 DEF OfOneKind
      <4>2. CASE page[e] \in Styled(t, e) /\ m # To("cleanup", e)
        <5>1. toFrame'[j].type = t \/ Between(e, 0, j + 1)
          BY <2>1, <3>1, <4>2 DEF OfOneKind
        <5>2. Between(e, 0, j + 1) => Between(e, 1, j + 1)
          BY <1>1, <4>2 DEF Between
        <5>3. QED
          BY <5>1, <5>2
      <4>3. QED
        BY <1>4, <2>1, <4>1, <4>2
    <3>3. QED
      BY <1>3, <3>1, <3>2
  <2>2. ASSUME NEW i \in 1 .. Len(toFrame'), NEW j \in 1 .. Len(toFrame'),
               i < j, IsLive(toFrame'[i]), IsLive(toFrame'[j]), toFrame'[i].id = toFrame'[j].id
        PROVE  toFrame'[j].type = toFrame'[i].type \/ Between(toFrame[i].id, i, j)'
    <3>1. /\ i + 1 \in 1 .. n /\ i \in 1 .. n - 1 /\ toFrame'[i] = toFrame[i + 1]
          /\ j + 1 \in 1 .. n /\ j \in 1 .. n - 1 /\ toFrame'[j] = toFrame[j + 1]
          /\ i + 1 < j + 1
      BY <1>1, <2>2
    <3>2. PICK e \in Element : e = toFrame[i + 1].id
      BY <2>2, <3>1, LiveNamesElement DEF Typed
    <3>3. toFrame'[j].type = toFrame'[i].type \/ Between(e, i + 1, j + 1)
      BY <2>2, <3>1, <3>2 DEF OfOneKind
    <3>4. Between(e, i + 1, j + 1) => Between(e, i, j)'
      BY <1>3, <3>1
    <3>5. QED
      BY <3>1, <3>2, <3>3, <3>4 DEF Between
  <2>3. QED
    BY <2>1, <2>2 DEF OfOneKind
<1>7. QED
  BY <1>5, <1>6

\* No message at all, or one that is neither live nor a cleanup.
LEMMA NothingAdded ==
  ASSUME Typed, AllOwned, OfOneKind, UNCHANGED <<toFrame, page>>,
         \/ interaction = None
         \/ /\ interaction' # None /\ interaction'.type = interaction.type
            /\ selectedId' = selectedId
  PROVE  AllOwned' /\ OfOneKind'
<1>1. toFrame' = toFrame \o <<>> /\ <<>> \in Seq(ToFrame) /\ Len(<<>>) = 0
  BY ConcatEmptySeq, EmptySeq DEF Typed, QueuesOK
<1>2. \A i \in 1 .. Len(<<>>) : ~IsLive(<<>>[i])
  BY <1>1
<1>3. QED
  BY <1>1, <1>2, Grows

LEMMA Cleanups ==
  ASSUME NEW id \in Element \cup {None}, NEW id2 \in Element \cup {None}
  PROVE  LET more == Cleanup(id) \o Cleanup(id2)
         IN  /\ more \in Seq(ToFrame)
             /\ \A i \in 1 .. Len(more) : ~IsLive(more[i])
             /\ id # None => \E k \in 1 .. Len(more) : more[k] = To("cleanup", id)
<1> DEFINE first == Cleanup(id)
           second == Cleanup(id2)
<1>1. first \in Seq(ToFrame) /\ second \in Seq(ToFrame)
  BY MessageSequences
<1>2. /\ \A i \in 1 .. Len(first) : ~IsLive(first[i])
      /\ \A i \in 1 .. Len(second) : ~IsLive(second[i])
      /\ id # None => Len(first) = 1 /\ first[1] = To("cleanup", id)
  BY DEF Cleanup, IsLive, To, Kind
<1> HIDE DEF first, second
<1>3. /\ Len(first \o second) = Len(first) + Len(second)
      /\ \A i \in 1 .. Len(first) + Len(second) : (first \o second)[i] =
           IF i <= Len(first) THEN first[i] ELSE second[i - Len(first)]
      /\ first \o second \in Seq(ToFrame) /\ Len(first) \in Nat /\ Len(second) \in Nat
  BY <1>1, ConcatProperties, LenProperties
<1>4. ASSUME NEW i \in 1 .. Len(first \o second)
      PROVE  ~IsLive((first \o second)[i])
  <2>1. CASE i <= Len(first)
    BY <1>2, <1>3, <2>1
  <2>2. CASE ~(i <= Len(first))
    BY <1>2, <1>3, <2>2
  <2>3. QED
    BY <2>1, <2>2
<1>5. id # None => 1 \in 1 .. Len(first \o second) /\ (first \o second)[1] = To("cleanup", id)
  <2>1. id # None => 1 <= Len(first) /\ 1 \in 1 .. Len(first) + Len(second)
    BY <1>2, <1>3
  <2>2. QED
    BY <1>2, <1>3, <2>1
<1>6. QED
  BY <1>3, <1>4, <1>5 DEF first, second

\* The gesture's listeners are set up again: what was selected is cleaned up.
LEMMA ResubscribeOwned ==
  ASSUME Typed, AllOwned, OfOneKind, NEW new \in Element \cup {None},
         Resubscribe(selectedId, new), UNCHANGED page
  PROVE  AllOwned' /\ OfOneKind'
<1> DEFINE more == Cleanup(selectedId) \o Cleanup(IF isDragging THEN new ELSE None)
<1>1. toFrame' = toFrame \o more
  BY DEF Resubscribe, ExitGhostMode, OldOne
<1>2. selectedId \in Element \cup {None} /\ (IF isDragging THEN new ELSE None) \in Element \cup {None}
  BY DEF Typed, StoreOK
<1>3. /\ more \in Seq(ToFrame)
      /\ \A i \in 1 .. Len(more) : ~IsLive(more[i])
      /\ selectedId # None => \E k \in 1 .. Len(more) : more[k] = To("cleanup", selectedId)
  BY <1>2, Cleanups
<1> HIDE DEF more
<1>4. QED
  BY <1>1, <1>3, Grows

LEMMA SelectingOwned ==
  ASSUME Typed, AllOwned, OfOneKind, Selecting
  PROVE  AllOwned' /\ OfOneKind'
<1>1. ASSUME NEW e \in Element, MouseDown(e)
      PROVE  AllOwned' /\ OfOneKind'
  BY <1>1, NothingAdded DEF MouseDown
<1>2. ASSUME NEW e \in Element, SelectRow(e)
      PROVE  AllOwned' /\ OfOneKind'
  <2> DEFINE more == <<To("select", e)>>
  <2>1. more \in Seq(ToFrame) /\ \A i \in 1 .. Len(more) : ~IsLive(more[i])
    <3>1. To("select", e) \in ToFrame
      BY Messages
    <3>2. ~IsLive(To("select", e))
      BY DEF IsLive, To, Kind
    <3>3. QED
      BY <3>1, <3>2
  <2>2. toFrame' = toFrame \o more /\ UNCHANGED <<store, gesture, page>>
    BY <1>2, Messages DEF SelectRow, Typed, QueuesOK
  <2> HIDE DEF more
  <2>3. interaction # None => interaction' # None /\ interaction'.type = interaction.type
    BY <2>2 DEF gesture
  <2>4. QED
    BY <2>1, <2>2, <2>3, Grows DEF store
<1>3. CASE Escape
  <2> DEFINE last == IF interaction = None THEN <<>> ELSE Cleanup(selectedId)
             more == <<To("cleanup", None)>> \o last
  <2>1. last \in Seq(ToFrame) /\ selectedId # None
    BY <1>3, MessageSequences DEF Escape, Typed, StoreOK
  <2>2. /\ \A i \in 1 .. Len(last) : ~IsLive(last[i])
        /\ interaction # None => Len(last) = 1 /\ last[1] = To("cleanup", selectedId)
    BY <2>1 DEF Cleanup, IsLive, To, Kind
  <2> HIDE DEF last
  <2>3. /\ more \in Seq(ToFrame) /\ Len(more) = 1 + Len(last) /\ Len(last) \in Nat
        /\ more[1] = To("cleanup", None)
        /\ \A i \in 2 .. Len(more) : more[i] = last[i - 1]
    <3>1. <<To("cleanup", None)>> \in Seq(ToFrame)
      BY Messages
    <3>2. /\ more \in Seq(ToFrame) /\ Len(more) = Len(<<To("cleanup", None)>>) + Len(last)
          /\ \A i \in 1 .. Len(<<To("cleanup", None)>>) + Len(last) : more[i] =
               IF i <= Len(<<To("cleanup", None)>>) THEN <<To("cleanup", None)>>[i]
               ELSE last[i - Len(<<To("cleanup", None)>>)]
          /\ Len(last) \in Nat
      BY <2>1, <3>1, ConcatProperties, LenProperties
    <3>3. QED
      BY <3>2
  <2>4. \A i \in 1 .. Len(more) : ~IsLive(more[i])
    <3>1. ~IsLive(To("cleanup", None))
      BY DEF IsLive, To, Kind
    <3>2. \A i \in 2 .. Len(more) : i - 1 \in 1 .. Len(last)
      BY <2>3
    <3>3. QED
      BY <2>2, <2>3, <3>1, <3>2
  <2>5. interaction # None => 2 \in 1 .. Len(more) /\ more[2] = To("cleanup", selectedId)
    <3>1. interaction # None => 2 \in 2 .. Len(more)
      <4> HIDE DEF more
      <4>1. interaction # None => Len(last) = 1
        BY <2>2
      <4>2. Len(more) = 1 + Len(last)
        BY <2>3
      <4>3. QED
        BY <4>1, <4>2
    <3>2. 2 \in 2 .. Len(more) => more[2] = last[1]
      BY <2>3
    <3>3. QED
      BY <2>2, <2>3, <3>1, <3>2
  <2>6. toFrame' = toFrame \o more
    <3>1. toFrame' = Append(toFrame, To("cleanup", None)) \o last
      BY <1>3 DEF Escape, OldOne, last
    <3>2. Append(toFrame, To("cleanup", None)) = toFrame \o <<To("cleanup", None)>>
      BY Messages DEF Typed, QueuesOK
    <3>3. <<To("cleanup", None)>> \in Seq(ToFrame)
      BY Messages
    <3>4. QED
      BY <2>1, <3>1, <3>2, <3>3, ConcatAssociative DEF Typed, QueuesOK
  <2> HIDE DEF more
  <2>7. UNCHANGED page
    BY <1>3 DEF Escape
  <2>8. QED
    BY <2>3, <2>4, <2>5, <2>6, <2>7, Grows
<1>4. CASE Answer
  <2>1. Head(fromFrame).id \in Element /\ UNCHANGED page /\ selectedId' = Head(fromFrame).id
    BY <1>4, HeadTypes DEF Answer, Selects, Typed
  <2>2. CASE interaction # None /\ Head(fromFrame).id # selectedId
    BY <1>4, <2>1, <2>2, ResubscribeOwned DEF Answer, Selects
  <2>3. CASE ~(interaction # None /\ Head(fromFrame).id # selectedId)
    BY <1>4, <2>1, <2>3, NothingAdded DEF Answer, Selects, gesture
  <2>4. QED
    BY <2>2, <2>3
<1>5. QED
  BY <1>1, <1>2, <1>3, <1>4 DEF Selecting

LEMMA GesturingOwned ==
  ASSUME Typed, GestureOwnsState, AllOwned, OfOneKind, Gesturing
  PROVE  AllOwned' /\ OfOneKind'
<1>1. CASE DragStart \/ ResizeStart
  BY <1>1, NothingAdded DEF DragStart, ResizeStart, Starts, MayStart
<1>2. CASE DoubleClick
  <2>1. PICK n \in 2 .. 3 : toFrame' = toFrame \o [i \in 1 .. n |-> To("editable", selectedId)]
    BY <1>2 DEF DoubleClick
  <2> DEFINE more == [i \in 1 .. n |-> To("editable", selectedId)]
  <2>2. selectedId \in Element /\ interaction = None /\ UNCHANGED page
    BY <1>2 DEF DoubleClick, MayStart, Typed, StoreOK
  <2>3. more \in Seq(ToFrame)
    <3>1. n \in Nat
      OBVIOUS
    <3>2. QED
      BY <2>2, <3>1, MessageSequences
  <2>4. \A i \in 1 .. Len(more) : ~IsLive(more[i])
    BY DEF IsLive, To, Kind
  <2> HIDE DEF more
  <2>5. QED
    BY <2>1, <2>2, <2>3, <2>4, Grows DEF more
<1>3. CASE PointerMove
  BY <1>3, NothingAdded DEF PointerMove, store
<1>4. CASE Frame
  <2>1. /\ interaction \in [type : Kind, moved : BOOLEAN] /\ interaction # None
        /\ UNCHANGED <<selectedId, page>>
    BY <1>4, CanvasAssumption DEF Frame, GestureOwnsState, Typed, GestureOK, store
  <2>2. interaction' # None /\ interaction'.type = interaction.type
    <3>1. CASE UNCHANGED interaction
      BY <2>1, <3>1
    <3>2. CASE interaction' = [interaction EXCEPT !.moved = TRUE]
      <4>1. interaction' \in [type : Kind, moved : BOOLEAN] /\ interaction'.type = interaction.type
        BY <2>1, <3>2
      <4>2. QED
        BY <4>1, CanvasAssumption DEF Kind
    <3>3. QED
      BY <1>4, <3>1, <3>2 DEF Frame
  <2>3. \/ UNCHANGED toFrame
        \/ /\ selectedId # None
           /\ toFrame' = Append(toFrame, To(interaction.type, selectedId))
    BY <1>4 DEF Frame, SyncLivePosition
  <2>4. QED
    BY <2>1, <2>2, <2>3, NothingAdded, Syncs
<1>5. CASE PointerUp \/ OnBlur
  <2> DEFINE more == Cleanup(selectedId) \o Cleanup(selectedId)
  <2>1. toFrame' = toFrame \o more /\ UNCHANGED page
    BY <1>5 DEF PointerUp, OnBlur, ExitGhostMode
  <2>2. /\ more \in Seq(ToFrame)
        /\ \A i \in 1 .. Len(more) : ~IsLive(more[i])
        /\ selectedId # None => \E k \in 1 .. Len(more) : more[k] = To("cleanup", selectedId)
    BY Cleanups DEF Typed, StoreOK
  <2> HIDE DEF more
  <2>3. QED
    BY <2>1, <2>2, Grows
<1>6. CASE Zoom
  BY <1>6, ResubscribeOwned DEF Zoom, Typed, StoreOK
<1>7. QED
  BY <1>1, <1>2, <1>3, <1>4, <1>5, <1>6 DEF Gesturing

\* A live message finds no styles of the other kind on its element.
LEMMA HeadFindsItsKind ==
  ASSUME Typed, OfOneKind, toFrame # <<>>, Head(toFrame).type \in Kind
  PROVE  page[Head(toFrame).id] \in AtRest(Head(toFrame).id) \cup Styled(Head(toFrame).type, Head(toFrame).id)
<1>1. 1 \in 1 .. Len(toFrame) /\ Head(toFrame) = toFrame[1]
  BY EmptySeq DEF Typed, QueuesOK
<1>2. Head(toFrame).id \in Element
  BY <1>1, LiveNamesElement DEF Typed, IsLive
<1>3. \A t \in Kind : page[Head(toFrame).id] \in Styled(t, Head(toFrame).id) => Head(toFrame).type = t
  BY <1>1, <1>2 DEF OfOneKind, IsLive, Between
<1>4. QED
  BY <1>2, <1>3 DEF Typed, PageOK, PageOf, Kind

LEMMA OnPageOwned ==
  ASSUME Typed, AllOwned, OfOneKind, OnPage
  PROVE  AllOwned' /\ OfOneKind'
<1>1. ASSUME NEW e \in Element, Commit(e) \/ Cancel(e)
      PROVE  AllOwned' /\ OfOneKind'
  BY <1>1, NothingAdded DEF Commit, Cancel, store, gesture
<1>2. CASE FrameSelect \/ LiveResize \/ LiveDragTransform \/ LiveInteractionCleanup \/ SetEditable
  <2>1. /\ toFrame # <<>> /\ toFrame' = Tail(toFrame) /\ UNCHANGED <<interaction, selectedId>>
    BY <1>2 DEF FrameSelect, LiveResize, LiveDragTransform, LiveInteractionCleanup, SetEditable, Takes,
               store, gesture
  <2>2. Handled(Head(toFrame))
    <3>1. CASE FrameSelect \/ SetEditable
      BY <3>1 DEF FrameSelect, SetEditable, Takes, Handled, IsLive, Kind
    <3>2. CASE LiveResize
      <4>1. Head(toFrame).type = "resize" /\ page' = [page EXCEPT ![Head(toFrame).id] = LiveResized(@)]
        BY <3>2 DEF LiveResize, Takes
      <4>2. page[Head(toFrame).id] \in AtRest(Head(toFrame).id) \cup Styled("resize", Head(toFrame).id)
        BY <2>1, <4>1, HeadFindsItsKind DEF Kind
      <4>3. QED
        BY <4>1, <4>2, Styles DEF Handled, IsLive, Kind
    <3>3. CASE LiveDragTransform
      <4>1. Head(toFrame).type = "drag" /\ page' = [page EXCEPT ![Head(toFrame).id] = LiveDragged(@)]
        BY <3>3 DEF LiveDragTransform, Takes
      <4>2. page[Head(toFrame).id] \in AtRest(Head(toFrame).id) \cup Styled("drag", Head(toFrame).id)
        BY <2>1, <4>1, HeadFindsItsKind DEF Kind
      <4>3. QED
        BY <4>1, <4>2, Styles DEF Handled, IsLive, Kind
    <3>4. CASE LiveInteractionCleanup
      <4>1. /\ Head(toFrame).type = "cleanup"
            /\ page' = IF Head(toFrame).id = None THEN page
                       ELSE [page EXCEPT ![Head(toFrame).id] = PutBack(@)]
        BY <3>4 DEF LiveInteractionCleanup, Takes
      <4>2. Head(toFrame).id # None => PutBack(page[Head(toFrame).id]) \in AtRest(Head(toFrame).id)
        BY <2>1, HeadTypes, Styles DEF Typed, PageOK
      <4>3. QED
        BY <4>1, <4>2 DEF Handled, IsLive, Kind
    <3>5. QED
      BY <1>2, <3>1, <3>2, <3>3, <3>4
  <2>3. QED
    BY <2>1, <2>2, Pops
<1>3. QED
  BY <1>1, <1>2 DEF OnPage

-----------------------------------------------------------------------------
(* The theorems.                                                           *)

LEMMA InitHolds == Init => IInv
<1> SUFFICES ASSUME Init
             PROVE  IInv
  OBVIOUS
<1>1. Typed
  <2>1. StoreOK /\ QueuesOK /\ TextOK /\ ActsOK /\ PageOK
    <3>1. StoreOK
      BY DEF Init, StoreOK
    <3>2. ActsOK
      <4>1. acts = 0
        BY DEF Init
      <4>2. QED
        BY <4>1, CanvasAssumption DEF ActsOK
    <3>3. QueuesOK
      BY EmptySeq DEF Init, QueuesOK
    <3>4. TextOK /\ PageOK
      BY FreshIsAtRest DEF Init, TextOK, PageOK, PageOf
    <3>5. QED
      BY <3>1, <3>2, <3>3, <3>4
  <2>2. GestureOK
    BY DEF Init, GestureOK
  <2>3. QED
    BY <2>1, <2>2 DEF Typed
<1>2. GestureOwnsState
  BY DEF Init, GestureOwnsState
<1>3. Counted
  BY FS_EmptySet DEF Init, Counted
<1>4. AllOwned /\ OfOneKind
  <2>1. Len(toFrame) = 0 /\ \A e \in Element, t \in Kind : page[e] \notin Styled(t, e)
    BY Styles, FreshIsAtRest DEF Init
  <2>2. QED
    BY <2>1 DEF AllOwned, OfOneKind
<1>5. QED
  BY <1>1, <1>2, <1>3, <1>4 DEF IInv

LEMMA IInvStep ==
  ASSUME IInv, Next
  PROVE  IInv'
<1>1. GestureOwnsState'
  BY GestureStep DEF IInv, Typed
<1>2. CASE Selecting
  BY <1>1, <1>2, SelectingTypes, SelectingOwned, CountedStep DEF IInv, Typed
<1>3. CASE Gesturing
  BY <1>1, <1>3, GesturingTypes, GesturingOwned, CountedStep DEF IInv, Typed
<1>4. CASE OnPage
  <2>1. AllOwned' /\ OfOneKind'
    BY <1>4, OnPageOwned DEF IInv
  <2>2. CASE SetEditable \/ \E e \in Element : Commit(e) \/ Cancel(e)
    BY <1>1, <2>1, <2>2, TextTypes DEF IInv
  <2>3. CASE FrameSelect \/ LiveResize \/ LiveDragTransform \/ LiveInteractionCleanup
    <3>1. toFrame # <<>> /\ Head(toFrame).type \in Kind
            => page[Head(toFrame).id] \in AtRest(Head(toFrame).id) \cup Styled(Head(toFrame).type, Head(toFrame).id)
      BY HeadFindsItsKind DEF IInv
    <3>2. Typed'
      BY <2>3, <3>1, PageTypes DEF IInv
    <3>3. Counted'
      BY <2>3, CountedStep DEF IInv, Typed
    <3>4. QED
      BY <1>1, <2>1, <3>2, <3>3 DEF IInv
  <2>4. QED
    BY <1>4, <2>2, <2>3 DEF OnPage
<1>5. CASE EditingState \/ TextUpdated \/ PreviewToggle
  <2>1. UNCHANGED <<toFrame, page, interaction, selectedId>>
    BY <1>5 DEF EditingState, TextUpdated, PreviewToggle, store, gesture
  <2>2. AllOwned' /\ OfOneKind'
    BY <2>1, NothingAdded DEF IInv
  <2>3. QED
    BY <1>1, <1>5, <2>2, OtherTypes, CountedStep DEF IInv, Typed
<1>6. CASE Reload
  <2>1. Len(toFrame') = 0 /\ \A e \in Element, t \in Kind : page'[e] \notin Styled(t, e)
    BY <1>6, Styles, FreshIsAtRest DEF Reload
  <2>2. AllOwned' /\ OfOneKind'
    BY <2>1 DEF AllOwned, OfOneKind
  <2>3. QED
    BY <1>1, <1>6, <2>2, OtherTypes, CountedStep DEF IInv, Typed
<1>7. QED
  BY <1>2, <1>3, <1>4, <1>5, <1>6 DEF Next

LEMMA Stutter ==
  ASSUME IInv, UNCHANGED vars
  PROVE  IInv'
BY DEF vars, store, gesture, dnd, text, IInv, Typed, StoreOK, GestureOK, QueuesOK, TextOK, ActsOK, PageOK,
       GestureOwnsState, Counted, AllOwned, OfOneKind, Owned, Cleaned, Between

\* In every state each live style is owned, by a message or a gesture of its kind.
THEOREM Inductive == Spec => []IInv
<1>1. IInv /\ [Next]_vars => IInv'
  BY IInvStep, Stutter
<1>2. QED
  BY InitHolds, <1>1, PTL DEF Spec

\* Every variable has its type; a message names an element, but for the cleanup that
\* Escape sends, and an element whose text can be edited listens for the end of it.
THEOREM TypeCorrect == Spec => []TypeOK
<1>1. Typed => TypeOK
  <2>1. ASSUME PageOK, NEW e \in Element
        PROVE  page[e].style \in [Group -> Value] /\ page[e].saved \in [Group -> Value \cup {"unsaved"}]
    BY <2>1, LiveOrAtRest
  <2>2. QED
    BY <2>1 DEF Typed, StoreOK, GestureOK, QueuesOK, TextOK, ActsOK, Kind, TypeOK
<1>2. IInv => TypeOK
  BY <1>1 DEF IInv
<1>3. QED
  BY Inductive, <1>2, PTL

\* Between gestures the frame takes pointer events, nothing is dragged and no
\* animation frame is pending or in the way.
THEOREM GesturesOwnTheirState == Spec => []GestureOwnsState
<1>1. IInv => GestureOwnsState
  BY DEF IInv
<1>2. QED
  BY Inductive, <1>1, PTL

\* Every live style, on the page or under way to it, has a cleanup behind it or a
\* gesture that will send one.
THEOREM LiveStylesAreOwned == Spec => []LiveIsOwned
<1>1. ASSUME IInv
      PROVE  LiveIsOwned
  <2>1. \A e \in Element : HasLive(e) => \E t \in Kind : page[e] \in Styled(t, e)
    BY <1>1, LiveOrAtRest DEF IInv, Typed
  <2>2. DOMAIN toFrame = 1 .. Len(toFrame)
    BY <1>1, LenProperties DEF IInv, Typed, QueuesOK
  <2>3. QED
    BY <1>1, <2>1, <2>2 DEF IInv, AllOwned, Owned, Cleaned, LiveIsOwned, IsLive, Kind
<1>2. QED
  BY Inductive, <1>1, PTL

\* Text is posted at most once for each time it became editable.
THEOREM TextIsPostedOnce == Spec => []TextOnce
<1>1. IInv => TextOnce
  BY FS_CardinalityType DEF IInv, Typed, TextOK, Counted, TextOnce
<1>2. QED
  BY Inductive, <1>1, PTL

\* An element without live styles has those it had on the page, but for a transform
\* that is now inline: no cleanup leaves one of the gesture's behind, or half of them.
THEOREM LeavesSettled == Spec => []SettledBetween
<1>1. IInv => SettledBetween
  BY LiveOrAtRest DEF IInv, Typed, SettledBetween
<1>2. QED
  BY Inductive, <1>1, PTL

-----------------------------------------------------------------------------
(* Snapping.                                                               *)

Span == [at : Int, size : Nat]
TargetOf(Id) == [id : Id, at : Int, size : Nat]

\* The nearest so far of a loop: nothing yet, or the movement that puts an
\* active edge of the span on the first guide, one of a set of edges.
Best == [least : Nat, by : Int, snaps : BOOLEAN, guides : Seq(Int)]

Fits(best, span, active, E) ==
  /\ best \in Best
  /\ \/ best = NotSnapped
     \/ /\ best.snaps = TRUE /\ best.least < Threshold /\ AbsOf(best.by) = best.least
        /\ best.guides # <<>>
        /\ best.guides[1] \in E
        /\ \E i \in DOMAIN active : Edges(span)[active[i]] + best.by = best.guides[1]

LEMMA EdgesAre ==
  ASSUME NEW span, span.at \in Int, span.size \in Nat
  PROVE  \A j \in 1 .. 3 : Edges(span)[j] \in Int
<1>1. span.size \div 2 \in Int
  OBVIOUS
<1>2. /\ Edges(span)[1] = span.at /\ Edges(span)[2] = span.at + (span.size \div 2)
      /\ Edges(span)[3] = span.at + span.size
  BY DEF Edges
<1>3. Edges(span)[1] \in Int /\ Edges(span)[2] \in Int /\ Edges(span)[3] \in Int
  BY <1>1, <1>2
<1>4. \A j \in 1 .. 3 : j = 1 \/ j = 2 \/ j = 3
  OBVIOUS
<1>5. QED
  BY <1>3, <1>4

LEMMA DistanceIs == \A m, n \in Int : AbsOf(m - n) \in Int /\ AbsOf(m - n) = AbsOf(n - m)
BY DEF AbsOf

LEMMA EdgesMoved ==
  ASSUME NEW span, NEW moved, NEW by \in Int, span.at \in Int, span.size \in Nat,
         moved.at = span.at + by, moved.size = span.size
  PROVE  \A j \in 1 .. 3 : Edges(moved)[j] = Edges(span)[j] + by
<1> DEFINE half == span.size \div 2
<1>1. half \in Int
  OBVIOUS
<1>2. /\ Edges(moved) = <<span.at + by, span.at + by + half, span.at + by + span.size>>
      /\ Edges(span) = <<span.at, span.at + half, span.at + span.size>>
  BY DEF Edges
<1> HIDE DEF half
<1>3. /\ Edges(moved)[1] = Edges(span)[1] + by /\ Edges(moved)[2] = Edges(span)[2] + by
      /\ Edges(moved)[3] = Edges(span)[3] + by
  BY <1>1, <1>2
<1>4. \A j \in 1 .. 3 : j = 1 \/ j = 2 \/ j = 3
  OBVIOUS
<1>5. QED
  BY <1>3, <1>4

LEMMA NotSnappedFits ==
  ASSUME NEW span, NEW active, NEW E
  PROVE  Fits(NotSnapped, span, active, E) /\ NotSnapped.least = Threshold
<1>1. <<>> \in Seq(Int)
  OBVIOUS
<1>2. QED
  BY <1>1, GeometryAssumption DEF Fits, NotSnapped, Best

LEMMA TryFits ==
  ASSUME NEW span, NEW active, NEW E \in SUBSET Int, NEW best, Fits(best, span, active, E),
         NEW i \in DOMAIN active, Edges(span)[active[i]] \in Int, NEW theirs \in E
  PROVE  LET mine == Edges(span)[active[i]]
             c == Try(best, mine, theirs)
         IN  /\ Fits(c, span, active, E)
             /\ c.least <= best.least /\ c.least <= AbsOf(mine - theirs)
<1> DEFINE mine == Edges(span)[active[i]]
           diff == AbsOf(mine - theirs)
           c == Try(best, mine, theirs)
<1>0. mine \in Int /\ theirs \in Int /\ diff \in Nat /\ diff = AbsOf(theirs - mine) /\ Threshold \in Nat /\ Threshold > 0
  BY GeometryAssumption DEF AbsOf
<1>1. best.least \in Nat /\ best.by \in Int /\ best.guides \in Seq(Int) /\ best.least <= Threshold
  BY <1>0 DEF Fits, NotSnapped, Best
<1> DEFINE new == [least |-> diff, by |-> theirs - mine, snaps |-> TRUE, guides |-> <<theirs>>]
<1>2. c = IF diff < best.least THEN new
          ELSE IF best.snaps /\ diff < Threshold /\ diff = best.least
          THEN [best EXCEPT !.guides = Append(@, theirs)]
          ELSE best
  BY DEF Try, Nearer
<1> HIDE DEF c
<1>3. CASE diff < best.least
  <2>1. new.guides \in Seq(Int) /\ new.guides # <<>> /\ new.guides[1] = theirs
    OBVIOUS
  <2>2. new.least = diff /\ new.by = theirs - mine /\ new.snaps = TRUE
    OBVIOUS
  <2>3. mine + new.by = theirs /\ AbsOf(new.by) = diff /\ new.by \in Int
    BY <1>0, <2>2
  <2>4. c = new
    BY <1>2, <1>3
  <2> HIDE DEF new, diff
  <2>5. Edges(span)[active[i]] + new.by = new.guides[1]
    BY <2>1, <2>3
  <2> HIDE DEF mine
  <2>51. new \in Best
    BY <1>0, <2>1, <2>3 DEF Best, new
  <2>6. Fits(new, span, active, E)
    <3>1. new.least < Threshold /\ AbsOf(new.by) = new.least
      BY <1>0, <1>1, <1>3, <2>2, <2>3
    <3>2. \E k \in DOMAIN active : Edges(span)[active[k]] + new.by = new.guides[1]
      BY <2>5
    <3>3. new.snaps = TRUE /\ new.guides # <<>> /\ new \in Best /\ new.guides[1] \in E
      BY <2>1, <2>2, <2>51
    <3>4. QED
      BY <3>1, <3>2, <3>3 DEF Fits
  <2>7. QED
    BY <1>0, <1>1, <1>3, <2>2, <2>4, <2>6 DEF c, mine, diff
<1>4. CASE ~(diff < best.least) /\ best.snaps /\ diff < Threshold /\ diff = best.least
  <2> DEFINE g == Append(best.guides, theirs)
             more == [best EXCEPT !.guides = g]
  <2>1. best # NotSnapped
    BY <1>4 DEF NotSnapped
  <2>2. /\ best.snaps = TRUE /\ best.least < Threshold /\ AbsOf(best.by) = best.least
        /\ best.guides # <<>> /\ best.guides[1] \in E
        /\ \E k \in DOMAIN active : Edges(span)[active[k]] + best.by = best.guides[1]
    BY <2>1 DEF Fits
  <2>3. g \in Seq(Int) /\ g # <<>> /\ g[1] = best.guides[1]
    <3>1. /\ g \in Seq(Int) /\ Len(g) = Len(best.guides) + 1
          /\ \A k \in 1 .. Len(best.guides) : g[k] = best.guides[k]
      BY <1>1, AppendProperties
    <3>2. Len(best.guides) \in Nat \ {0}
      BY <1>1, <2>2, EmptySeq
    <3> HIDE DEF g
    <3>3. 1 \in 1 .. Len(best.guides) /\ Len(g) # 0
      BY <3>1, <3>2
    <3>4. QED
      BY <3>1, <3>3
  <2>4. c = more
    BY <1>2, <1>4
  <2> HIDE DEF g
  <2>5. /\ more.least = best.least /\ more.by = best.by /\ more.snaps = best.snaps
        /\ more.guides = g
    <3>1. best \in Best
      BY DEF Fits
    <3>2. QED
      BY <3>1 DEF Best
  <2>51. more \in Best
    <3>1. best \in Best
      BY DEF Fits
    <3>2. QED
      BY <2>3, <3>1 DEF Best
  <2> HIDE DEF more
  <2>6. Fits(more, span, active, E)
    BY <1>1, <2>2, <2>3, <2>5, <2>51 DEF Fits
  <2>7. QED
    BY <1>0, <1>4, <2>4, <2>5, <2>6 DEF c
<1>5. CASE ~(diff < best.least) /\ ~(best.snaps /\ diff < Threshold /\ diff = best.least)
  <2>1. c = best
    BY <1>2, <1>5
  <2>2. QED
    BY <1>0, <1>1, <1>5, <2>1 DEF c
<1>6. QED
  BY <1>3, <1>4, <1>5

LEMMA EdgeFits ==
  ASSUME NEW span, NEW active, NEW E \in SUBSET Int, NEW best, Fits(best, span, active, E),
         NEW i \in DOMAIN active, Edges(span)[active[i]] \in Int,
         NEW target, target.at \in Int, target.size \in Nat, \A j \in 1 .. 3 : Edges(target)[j] \in E
  PROVE  LET mine == Edges(span)[active[i]]
             c == TryEdge(best, mine, target)
         IN  /\ Fits(c, span, active, E)
             /\ c.least <= best.least
             /\ \A j \in 1 .. 3 : c.least <= AbsOf(mine - Edges(target)[j])
<1> DEFINE mine == Edges(span)[active[i]]
           t == Edges(target)
           c1 == Try(best, mine, t[1])
           c2 == Try(c1, mine, t[2])
           c3 == Try(c2, mine, t[3])
<1>1. /\ t[1] \in Int /\ t[2] \in Int /\ t[3] \in Int
      /\ t[1] \in E /\ t[2] \in E /\ t[3] \in E
  BY EdgesAre
<1>2. TryEdge(best, mine, target) = c3
  BY DEF TryEdge
<1> HIDE DEF t
<1>3. Fits(c1, span, active, E) /\ c1.least <= best.least /\ c1.least <= AbsOf(mine - t[1])
  BY <1>1, TryFits
<1> HIDE DEF c1
<1>4. Fits(c2, span, active, E) /\ c2.least <= c1.least /\ c2.least <= AbsOf(mine - t[2])
  BY <1>1, <1>3, TryFits
<1> HIDE DEF c2
<1>5. Fits(c3, span, active, E) /\ c3.least <= c2.least /\ c3.least <= AbsOf(mine - t[3])
  BY <1>1, <1>4, TryFits
<1> HIDE DEF c3
<1>6. best.least \in Nat /\ c1.least \in Nat /\ c2.least \in Nat /\ c3.least \in Nat
  BY <1>3, <1>4, <1>5 DEF Fits, Best
<1>7. /\ mine \in Int
      /\ AbsOf(mine - t[1]) \in Int /\ AbsOf(mine - t[2]) \in Int /\ AbsOf(mine - t[3]) \in Int
  BY <1>1 DEF AbsOf
<1>8. c3.least <= AbsOf(mine - t[1]) /\ c3.least <= AbsOf(mine - t[2]) /\ c3.least <= best.least
  <2> HIDE DEF mine
  <2>1. QED
    BY <1>3, <1>4, <1>5, <1>6, <1>7
<1>9. \A j \in 1 .. 3 : j = 1 \/ j = 2 \/ j = 3
  OBVIOUS
<1>10. \A j \in 1 .. 3 : c3.least <= AbsOf(mine - t[j])
  BY <1>5, <1>8, <1>9
<1>11. QED
  BY <1>2, <1>5, <1>8, <1>10 DEF t

\* A loop over a finite number of rounds, from the least number of rounds for
\* which a claim is false.
LEMMA LeastFalse ==
  ASSUME NEW N \in Nat, NEW Bad \in SUBSET (0 .. N), Bad # {}
  PROVE  \E b \in Bad : b \in Nat /\ b <= N /\ \A m \in Bad : b <= m
<1>0. Bad \in SUBSET Nat
  OBVIOUS
<1>1. PICK b \in Bad : \A m \in Bad : ~(<<m, b>> \in OpToRel(<, Nat))
  BY <1>0, NatLessThanWellFounded, WFMin
<1>2. \A m \in Bad : ~(m < b)
  BY <1>0, <1>1 DEF OpToRel
<1>3. QED
  BY <1>0, <1>2

\* The loop over the active edges.
Round(best, span, target, active, f, i) ==
  IF i = 0 THEN best ELSE TryEdge(f[i - 1], Edges(span)[active[i]], target)

Rounds(best, span, target, active, N, f) ==
  /\ f = [i \in 0 .. N |-> f[i]]
  /\ \A i \in 0 .. N : f[i] = Round(best, span, target, active, f, i)

LEMMA RoundsExist ==
  ASSUME NEW best, NEW span, NEW target, NEW active, NEW N \in Nat
  PROVE  \E f : Rounds(best, span, target, active, N, f)
<1> DEFINE Is(f, n) == \A i \in 0 .. n : f[i] = Round(best, span, target, active, f, i)
           Bad == {n \in 0 .. N : ~\E f : Is(f, n)}
<1>1. Bad = {}
  <2> SUFFICES ASSUME Bad # {} PROVE FALSE
    OBVIOUS
  <2>1. PICK b \in Bad : b \in Nat /\ b <= N /\ \A m \in Bad : b <= m
    <3> HIDE DEF Bad
    <3>1. Bad \in SUBSET (0 .. N)
      BY DEF Bad
    <3>2. QED
      BY <3>1, LeastFalse
  <2>2. ~\E f : Is(f, b)
    OBVIOUS
  <2>3. \E g : \A i \in 0 .. b - 1 : g[i] = Round(best, span, target, active, g, i)
    <3>1. CASE b = 0
      BY <3>1
    <3>2. CASE b # 0
      <4>1. b - 1 \in 0 .. N /\ ~(b <= b - 1)
        BY <2>1, <3>2
      <4>2. b - 1 \notin Bad
        BY <2>1, <4>1
      <4>3. QED
        BY <4>1, <4>2
    <3>3. QED
      BY <3>1, <3>2
  <2>4. PICK g : \A i \in 0 .. b - 1 : g[i] = Round(best, span, target, active, g, i)
    BY <2>3
  <2> DEFINE f == [i \in 0 .. b |-> IF i = b THEN Round(best, span, target, active, g, b) ELSE g[i]]
  <2>5. \A i \in 0 .. b : f[i] = IF i = b THEN Round(best, span, target, active, g, b) ELSE g[i]
    OBVIOUS
  <2> HIDE DEF f
  <2>6. ASSUME NEW i \in 0 .. b
        PROVE  f[i] = Round(best, span, target, active, f, i)
    <3>1. i = 0 \/ f[i - 1] = g[i - 1]
      <4>1. i # 0 => i - 1 \in 0 .. b /\ i - 1 # b
        BY <2>1
      <4>2. QED
        BY <2>5, <4>1
    <3>2. Round(best, span, target, active, f, i) = Round(best, span, target, active, g, i)
      BY <3>1 DEF Round
    <3>3. i # b => i \in 0 .. b - 1
      BY <2>1
    <3>4. QED
      BY <2>4, <2>5, <3>2, <3>3
  <2>7. Is(f, b)
    BY <2>6
  <2>8. QED
    <3> HIDE DEF Is
    <3>1. QED
      BY <2>2, <2>7
<1>2. N \notin Bad /\ N \in 0 .. N
  BY <1>1
<1>3. PICK g : \A i \in 0 .. N : g[i] = Round(best, span, target, active, g, i)
  BY <1>2
<1> DEFINE f == [i \in 0 .. N |-> g[i]]
<1>4. ASSUME NEW i \in 0 .. N
      PROVE  f[i] = Round(best, span, target, active, f, i)
  <2>1. f[i] = g[i] /\ (i # 0 => i - 1 \in 0 .. N)
    OBVIOUS
  <2>2. i # 0 => f[i - 1] = g[i - 1]
    BY <2>1
  <2> HIDE DEF f
  <2>3. QED
    BY <1>3, <2>1, <2>2 DEF Round
<1>5. f = [i \in 0 .. N |-> f[i]]
  OBVIOUS
<1> HIDE DEF f
<1>6. Rounds(best, span, target, active, N, f)
  BY <1>4, <1>5 DEF Rounds
<1>7. QED
  BY <1>6

LEMMA TargetFits ==
  ASSUME NEW span, span.at \in Int, span.size \in Nat, NEW active \in Seq(1 .. 3),
         NEW E \in SUBSET Int, NEW best, Fits(best, span, active, E),
         NEW target, target.at \in Int, target.size \in Nat, \A j \in 1 .. 3 : Edges(target)[j] \in E
  PROVE  LET c == TryTarget(best, span, target, active)
         IN  /\ Fits(c, span, active, E)
             /\ c.least <= best.least
             /\ \A i \in DOMAIN active, j \in 1 .. 3 :
                  c.least <= AbsOf(Edges(span)[active[i]] - Edges(target)[j])
<1> DEFINE N == Len(active)
           Is(f) == f = [i \in 0 .. N |-> Round(best, span, target, active, f, i)]
           h == CHOOSE f : Is(f)
           D(i, j) == AbsOf(Edges(span)[active[i]] - Edges(target)[j])
<1>0. /\ N \in Nat /\ DOMAIN active = 1 .. N
      /\ \A i \in 1 .. N : i \in DOMAIN active /\ active[i] \in 1 .. 3
  BY LenProperties, ElementOfSeq
<1>1. \A i \in 1 .. N : Edges(span)[active[i]] \in Int
  BY <1>0, EdgesAre
<1>2. \A i \in 1 .. N, j \in 1 .. 3 : D(i, j) \in Int
  <2> TAKE i \in 1 .. N, j \in 1 .. 3
  <2>1. Edges(span)[active[i]] \in Int /\ Edges(target)[j] \in Int
    BY <1>1, EdgesAre
  <2>2. QED
    BY <2>1, DistanceIs
<1>3. TryTarget(best, span, target, active) = h[N]
  BY DEF TryTarget, Round
<1> HIDE DEF N, D
<1>4. Is(h)
  <2>1. PICK g : Rounds(best, span, target, active, N, g)
    BY <1>0, RoundsExist
  <2>2. Is(g)
    BY <2>1 DEF Rounds
  <2> HIDE DEF Is
  <2>3. QED
    BY <2>2
<1> HIDE DEF h
<1>5. \A i \in 0 .. N : h[i] = Round(best, span, target, active, h, i)
  BY <1>4
<1> DEFINE Good(n) == /\ Fits(h[n], span, active, E)
                      /\ h[n].least <= best.least
                      /\ \A i \in 1 .. N, j \in 1 .. 3 : i <= n => h[n].least <= D(i, j)
           Bad == {n \in 0 .. N : ~Good(n)}
<1>6. Good(0)
  <2>1. h[0] = best /\ \A i \in 1 .. N : ~(i <= 0)
    BY <1>0, <1>5 DEF Round
  <2>2. best.least \in Nat
    BY DEF Fits, Best
  <2>3. QED
    BY <2>1, <2>2
<1>7. ASSUME NEW n \in 1 .. N, Good(n - 1)
      PROVE  Good(n)
  <2> DEFINE p == h[n - 1]
             c == TryEdge(p, Edges(span)[active[n]], target)
  <2>1. h[n] = c /\ n \in DOMAIN active /\ n \in Nat /\ n - 1 \in Nat
    BY <1>0, <1>5 DEF Round
  <2> HIDE DEF p, c
  <2>2. Fits(p, span, active, E) /\ p.least <= best.least
    BY <1>7 DEF p
  <2>3. /\ Fits(c, span, active, E) /\ c.least <= p.least
        /\ \A j \in 1 .. 3 : c.least <= D(n, j)
    BY <1>0, <1>1, <2>1, <2>2, EdgeFits DEF c, D
  <2>4. c.least \in Nat /\ p.least \in Nat /\ best.least \in Nat
    BY <2>2, <2>3 DEF Fits, Best
  <2>5. ASSUME NEW i \in 1 .. N, NEW j \in 1 .. 3, i <= n
        PROVE  c.least <= D(i, j)
    <3>1. CASE i = n
      BY <2>3, <3>1
    <3>2. CASE i # n
      <4>1. p.least <= D(i, j)
        BY <1>0, <1>7, <2>1, <2>5, <3>2 DEF p
      <4>2. QED
        BY <1>2, <2>3, <2>4, <4>1, SMTT(30)
    <3>3. QED
      BY <3>1, <3>2
  <2>6. c.least <= best.least
    BY <2>2, <2>3, <2>4
  <2>7. QED
    BY <2>1, <2>3, <2>5, <2>6
<1> HIDE DEF Good
<1>8. Bad = {}
  <2> SUFFICES ASSUME Bad # {} PROVE FALSE
    OBVIOUS
  <2>1. PICK b \in Bad : b \in Nat /\ b <= N /\ \A m \in Bad : b <= m
    <3> HIDE DEF Bad
    <3>1. Bad \in SUBSET (0 .. N)
      BY DEF Bad
    <3>2. QED
      BY <1>0, <3>1, LeastFalse
  <2>2. ~Good(b)
    OBVIOUS
  <2>3. b # 0
    BY <1>6, <2>2
  <2>4. b \in 1 .. N /\ b - 1 \in 0 .. N /\ ~(b <= b - 1)
    BY <1>0, <2>1, <2>3
  <2>5. Good(b - 1)
    BY <2>1, <2>4
  <2>6. QED
    BY <1>7, <2>2, <2>4, <2>5
<1>9. Good(N)
  BY <1>0, <1>8
<1>10. \A i \in 1 .. N : i <= N
  BY <1>0
<1>11. QED
  BY <1>0, <1>3, <1>9, <1>10 DEF Good, D

\* The loop over the other elements.
Turn(span, targets, excludeId, active, f, k) ==
  IF k = 0 THEN NotSnapped
  ELSE IF targets[k].id = excludeId THEN f[k - 1]
  ELSE TryTarget(f[k - 1], span, targets[k], active)

Turns(span, targets, excludeId, active, N, f) ==
  /\ f = [i \in 0 .. N |-> f[i]]
  /\ \A i \in 0 .. N : f[i] = Turn(span, targets, excludeId, active, f, i)

LEMMA TurnsExist ==
  ASSUME NEW span, NEW targets, NEW excludeId, NEW active, NEW N \in Nat
  PROVE  \E f : Turns(span, targets, excludeId, active, N, f)
<1> DEFINE Is(f, n) == \A i \in 0 .. n : f[i] = Turn(span, targets, excludeId, active, f, i)
           Bad == {n \in 0 .. N : ~\E f : Is(f, n)}
<1>1. Bad = {}
  <2> SUFFICES ASSUME Bad # {} PROVE FALSE
    OBVIOUS
  <2>1. PICK b \in Bad : b \in Nat /\ b <= N /\ \A m \in Bad : b <= m
    <3> HIDE DEF Bad
    <3>1. Bad \in SUBSET (0 .. N)
      BY DEF Bad
    <3>2. QED
      BY <3>1, LeastFalse
  <2>2. ~\E f : Is(f, b)
    OBVIOUS
  <2>3. \E g : \A i \in 0 .. b - 1 : g[i] = Turn(span, targets, excludeId, active, g, i)
    <3>1. CASE b = 0
      BY <3>1
    <3>2. CASE b # 0
      <4>1. b - 1 \in 0 .. N /\ ~(b <= b - 1)
        BY <2>1, <3>2
      <4>2. b - 1 \notin Bad
        BY <2>1, <4>1
      <4>3. QED
        BY <4>1, <4>2
    <3>3. QED
      BY <3>1, <3>2
  <2>4. PICK g : \A i \in 0 .. b - 1 : g[i] = Turn(span, targets, excludeId, active, g, i)
    BY <2>3
  <2> DEFINE f == [i \in 0 .. b |-> IF i = b THEN Turn(span, targets, excludeId, active, g, b) ELSE g[i]]
  <2>5. \A i \in 0 .. b : f[i] = IF i = b THEN Turn(span, targets, excludeId, active, g, b) ELSE g[i]
    OBVIOUS
  <2> HIDE DEF f
  <2>6. ASSUME NEW i \in 0 .. b
        PROVE  f[i] = Turn(span, targets, excludeId, active, f, i)
    <3>1. i = 0 \/ f[i - 1] = g[i - 1]
      <4>1. i # 0 => i - 1 \in 0 .. b /\ i - 1 # b
        BY <2>1
      <4>2. QED
        BY <2>5, <4>1
    <3>2. Turn(span, targets, excludeId, active, f, i) = Turn(span, targets, excludeId, active, g, i)
      BY <3>1 DEF Turn
    <3>3. i # b => i \in 0 .. b - 1
      BY <2>1
    <3>4. QED
      BY <2>4, <2>5, <3>2, <3>3
  <2>7. Is(f, b)
    BY <2>6
  <2>8. QED
    <3> HIDE DEF Is
    <3>1. QED
      BY <2>2, <2>7
<1>2. N \notin Bad /\ N \in 0 .. N
  BY <1>1
<1>3. PICK g : \A i \in 0 .. N : g[i] = Turn(span, targets, excludeId, active, g, i)
  BY <1>2
<1> DEFINE f == [i \in 0 .. N |-> g[i]]
<1>4. ASSUME NEW i \in 0 .. N
      PROVE  f[i] = Turn(span, targets, excludeId, active, f, i)
  <2>1. f[i] = g[i] /\ (i # 0 => i - 1 \in 0 .. N)
    OBVIOUS
  <2>2. i # 0 => f[i - 1] = g[i - 1]
    BY <2>1
  <2> HIDE DEF f
  <2>3. QED
    BY <1>3, <2>1, <2>2 DEF Turn
<1>5. f = [i \in 0 .. N |-> f[i]]
  OBVIOUS
<1> HIDE DEF f
<1>6. Turns(span, targets, excludeId, active, N, f)
  BY <1>4, <1>5 DEF Turns
<1>7. QED
  BY <1>6

\* Snapping ends with the nearest of all edges within the threshold.
LEMMA SnappingFits ==
  ASSUME NEW span, span.at \in Int, span.size \in Nat, NEW active \in Seq(1 .. 3),
         NEW targets, NEW excludeId, Len(targets) \in Nat,
         \A k \in 1 .. Len(targets) : targets[k].at \in Int /\ targets[k].size \in Nat
  PROVE  \E c : /\ Snapping(span, targets, excludeId, active) = [at |-> span.at + c.by, guides |-> c.guides]
                /\ Fits(c, span, active, OthersEdges(targets, excludeId))
                /\ \A i \in DOMAIN active, k \in 1 .. Len(targets), j \in 1 .. 3 :
                     targets[k].id # excludeId =>
                       c.least <= AbsOf(Edges(span)[active[i]] - Edges(targets[k])[j])
<1> DEFINE N == Len(targets)
           Is(f) == f = [k \in 0 .. N |-> Turn(span, targets, excludeId, active, f, k)]
           h == CHOOSE f : Is(f)
           D(i, k, j) == AbsOf(Edges(span)[active[i]] - Edges(targets[k])[j])
           E == OthersEdges(targets, excludeId)
<1>0. /\ N \in Nat /\ DOMAIN active = 1 .. Len(active)
      /\ \A i \in 1 .. Len(active) : i \in DOMAIN active /\ active[i] \in 1 .. 3
  BY LenProperties, ElementOfSeq
<1>1. \A i \in DOMAIN active : Edges(span)[active[i]] \in Int
  BY <1>0, EdgesAre
<1>2. \A i \in DOMAIN active, k \in 1 .. N, j \in 1 .. 3 : D(i, k, j) \in Int
  <2> TAKE i \in DOMAIN active, k \in 1 .. N, j \in 1 .. 3
  <2>1. Edges(span)[active[i]] \in Int /\ Edges(targets[k])[j] \in Int
    BY <1>1, EdgesAre
  <2>2. QED
    BY <2>1, DistanceIs
<1>3. Snapping(span, targets, excludeId, active) = [at |-> span.at + h[N].by, guides |-> h[N].guides]
  BY DEF Snapping, Turn
<1>31. \A k \in 1 .. N, j \in 1 .. 3 : targets[k].id # excludeId => Edges(targets[k])[j] \in E
  BY DEF OthersEdges
<1>32. E \in SUBSET Int
  <2>1. \A k \in 1 .. N, j \in 1 .. 3 : Edges(targets[k])[j] \in Int
    BY EdgesAre
  <2>2. QED
    BY <2>1 DEF OthersEdges
<1> HIDE DEF D, E
<1>4. Is(h)
  <2>1. PICK g : Turns(span, targets, excludeId, active, N, g)
    BY <1>0, TurnsExist
  <2>2. Is(g)
    BY <2>1 DEF Turns
  <2> HIDE DEF Is
  <2>3. QED
    BY <2>2
<1> HIDE DEF h
<1>5. \A k \in 0 .. N : h[k] = Turn(span, targets, excludeId, active, h, k)
  BY <1>4
<1> DEFINE Good(n) == /\ Fits(h[n], span, active, E)
                      /\ \A i \in DOMAIN active, k \in 1 .. N, j \in 1 .. 3 :
                           k <= n /\ targets[k].id # excludeId => h[n].least <= D(i, k, j)
           Bad == {n \in 0 .. N : ~Good(n)}
<1>6. Good(0)
  <2>1. h[0] = NotSnapped /\ \A k \in 1 .. N : ~(k <= 0)
    BY <1>0, <1>5 DEF Turn
  <2>2. QED
    BY <2>1, NotSnappedFits
<1>7. ASSUME NEW n \in 1 .. N, Good(n - 1)
      PROVE  Good(n)
  <2>0. n \in Nat /\ n - 1 \in Nat /\ \A k \in 1 .. N : k <= n /\ k # n => k <= n - 1
    BY <1>0
  <2> DEFINE p == h[n - 1]
  <2>1. Fits(p, span, active, E)
    BY <1>7
  <2>2. CASE targets[n].id = excludeId
    <3>1. h[n] = p
      BY <1>0, <1>5, <2>2 DEF Turn
    <3> HIDE DEF p
    <3>2. ASSUME NEW i \in DOMAIN active, NEW k \in 1 .. N, NEW j \in 1 .. 3,
                 k <= n, targets[k].id # excludeId
          PROVE  p.least <= D(i, k, j)
      BY <1>7, <2>0, <2>2, <3>2 DEF p
    <3>3. QED
      BY <2>1, <3>1, <3>2
  <2>3. CASE targets[n].id # excludeId
    <3> DEFINE c == TryTarget(p, span, targets[n], active)
    <3>1. h[n] = c
      BY <1>0, <1>5, <2>3 DEF Turn
    <3> HIDE DEF p, c
    <3>2. /\ Fits(c, span, active, E) /\ c.least <= p.least
          /\ \A i \in DOMAIN active, j \in 1 .. 3 : c.least <= D(i, n, j)
      <4> DEFINE target == targets[n]
      <4>1. target.at \in Int /\ target.size \in Nat /\ \A j \in 1 .. 3 : Edges(target)[j] \in E
        BY <1>31, <2>3
      <4> HIDE DEF target
      <4>2. LET d == TryTarget(p, span, target, active)
            IN  /\ Fits(d, span, active, E)
                /\ d.least <= p.least
                /\ \A i \in DOMAIN active, j \in 1 .. 3 :
                     d.least <= AbsOf(Edges(span)[active[i]] - Edges(target)[j])
        BY <1>32, <2>1, <4>1, TargetFits
      <4>3. QED
        BY <4>2 DEF c, target, D
    <3>3. c.least \in Nat /\ p.least \in Nat
      BY <2>1, <3>2 DEF Fits, Best
    <3>4. ASSUME NEW i \in DOMAIN active, NEW k \in 1 .. N, NEW j \in 1 .. 3,
                 k <= n, targets[k].id # excludeId
          PROVE  c.least <= D(i, k, j)
      <4>1. CASE k = n
        BY <3>2, <4>1
      <4>2. CASE k # n
        <5>1. p.least <= D(i, k, j)
          BY <1>7, <2>0, <3>4, <4>2 DEF p
        <5>2. D(i, k, j) \in Int
          BY <1>2
        <5>3. QED
          BY <3>2, <3>3, <5>1, <5>2
      <4>3. QED
        BY <4>1, <4>2
    <3>5. QED
      BY <3>1, <3>2, <3>4
  <2>4. QED
    BY <2>2, <2>3
<1> HIDE DEF Good
<1>8. Bad = {}
  <2> SUFFICES ASSUME Bad # {} PROVE FALSE
    OBVIOUS
  <2>1. PICK b \in Bad : b \in Nat /\ b <= N /\ \A m \in Bad : b <= m
    <3> HIDE DEF Bad
    <3>1. Bad \in SUBSET (0 .. N)
      BY DEF Bad
    <3>2. QED
      BY <1>0, <3>1, LeastFalse
  <2>2. ~Good(b)
    OBVIOUS
  <2>3. b # 0
    BY <1>6, <2>2
  <2>4. b \in 1 .. N /\ b - 1 \in 0 .. N /\ ~(b <= b - 1)
    BY <1>0, <2>1, <2>3
  <2>5. Good(b - 1)
    BY <2>1, <2>4
  <2>6. QED
    BY <1>7, <2>2, <2>4, <2>5
<1>9. Good(N)
  BY <1>0, <1>8
<1>10. \A k \in 1 .. N : k <= N
  BY <1>0
<1>11. Fits(h[N], span, active, E) /\
       \A i \in DOMAIN active, k \in 1 .. N, j \in 1 .. 3 : targets[k].id # excludeId => h[N].least <= D(i, k, j)
  BY <1>9, <1>10 DEF Good
<1>12. QED
  BY <1>3, <1>11 DEF D, E

\* Snapping moves a span to the nearest edge of any number of other elements, of
\* any sizes and anywhere, and shows a guide there (getSnapping).
THEOREM AnySnappingIsNearest ==
  ASSUME NEW span \in Span, NEW Id, NEW targets \in Seq(TargetOf(Id)), NEW excludeId,
         NEW active \in Seq(1 .. 3)
  PROVE  SnapsToTheNearest(span, targets, excludeId, active)
<1> DEFINE s == Snapping(span, targets, excludeId, active)
           E == OthersEdges(targets, excludeId)
           all == Distances(span, targets, excludeId, active)
           within == {d \in all : d < Threshold}
<1>0. /\ span.at \in Int /\ span.size \in Nat
      /\ Len(targets) \in Nat /\ DOMAIN targets = 1 .. Len(targets)
      /\ \A k \in 1 .. Len(targets) : targets[k].at \in Int /\ targets[k].size \in Nat
      /\ Len(active) \in Nat /\ DOMAIN active = 1 .. Len(active)
      /\ \A i \in DOMAIN active : active[i] \in 1 .. 3
  <2>1. Len(targets) \in Nat /\ DOMAIN targets = 1 .. Len(targets)
    BY LenProperties
  <2>2. \A k \in 1 .. Len(targets) : targets[k] \in TargetOf(Id)
    BY ElementOfSeq
  <2>3. Len(active) \in Nat /\ DOMAIN active = 1 .. Len(active)
    BY LenProperties
  <2>4. \A i \in 1 .. Len(active) : active[i] \in 1 .. 3
    BY ElementOfSeq
  <2>5. QED
    BY <2>1, <2>2, <2>3, <2>4 DEF Span, TargetOf
<1>1. PICK c : /\ s = [at |-> span.at + c.by, guides |-> c.guides]
               /\ Fits(c, span, active, E)
               /\ \A i \in DOMAIN active, k \in 1 .. Len(targets), j \in 1 .. 3 :
                    targets[k].id # excludeId =>
                      c.least <= AbsOf(Edges(span)[active[i]] - Edges(targets[k])[j])
  BY <1>0, SnappingFits
<1> HIDE DEF s, E
<1>2. c \in Best /\ s.at = span.at + c.by /\ s.guides = c.guides /\ c.by \in Int /\ c.least \in Nat
  BY <1>1 DEF Fits, Best
<1>31. \A d \in all : d \in Int
  <2>1. \A i \in DOMAIN active, k \in 1 .. Len(targets), j \in 1 .. 3 :
          AbsOf(Edges(span)[active[i]] - Edges(targets[k])[j]) \in Int
    <3> TAKE i \in DOMAIN active, k \in 1 .. Len(targets), j \in 1 .. 3
    <3>1. Edges(span)[active[i]] \in Int /\ Edges(targets[k])[j] \in Int
      BY <1>0, EdgesAre
    <3>2. QED
      BY <3>1, DistanceIs
  <2>2. QED
    BY <1>0, <2>1, SMTT(30) DEF Distances
<1>3. \A d \in all : c.least <= d
  <2>1. \A d \in all : \E i \in DOMAIN active, k \in 1 .. Len(targets), j \in 1 .. 3 :
          targets[k].id # excludeId /\ d = AbsOf(Edges(span)[active[i]] - Edges(targets[k])[j])
    BY <1>0 DEF Distances
  <2> HIDE DEF all
  <2>2. QED
    BY <1>1, <2>1
<1> HIDE DEF all
<1>4. CASE c = NotSnapped
  <2>1. c.least = Threshold /\ c.by = 0 /\ c.guides = <<>>
    BY <1>4 DEF NotSnapped
  <2>2. within = {}
    <3> SUFFICES ASSUME NEW d \in within PROVE FALSE
      OBVIOUS
    <3>1. d \in all /\ d < Threshold
      OBVIOUS
    <3>2. Threshold <= d
      BY <1>3, <2>1, <3>1
    <3>3. d \in Int
      BY <1>31, <3>1
    <3>4. QED
      BY <3>1, <3>2, <3>3, GeometryAssumption
  <2>3. s = [at |-> span.at, guides |-> <<>>]
    BY <1>0, <1>1, <2>1
  <2>4. QED
    BY <2>2, <2>3 DEF SnapsToTheNearest, s, all
<1>5. CASE /\ c.snaps = TRUE /\ c.least < Threshold /\ AbsOf(c.by) = c.least
           /\ c.guides # <<>> /\ c.guides[1] \in E
           /\ \E i \in DOMAIN active : Edges(span)[active[i]] + c.by = c.guides[1]
  <2>1. s.guides # <<>>
    BY <1>2, <1>5
  <2>2. \A d \in within : AbsOf(s.at - span.at) <= d
    <3>1. s.at - span.at = c.by
      BY <1>0, <1>2
    <3>2. QED
      BY <1>3, <1>5, <3>1
  <2>3. \E i \in DOMAIN active : Edges([span EXCEPT !.at = s.at])[active[i]] = s.guides[1]
    <3>1. PICK i \in DOMAIN active : Edges(span)[active[i]] + c.by = c.guides[1]
      BY <1>5
    <3> DEFINE moved == [span EXCEPT !.at = s.at]
    <3>2. moved.at = span.at + c.by /\ moved.size = span.size
      BY <1>2 DEF Span
    <3> HIDE DEF moved
    <3>3. \A j \in 1 .. 3 : Edges(moved)[j] = Edges(span)[j] + c.by
      BY <1>0, <1>2, <3>2, EdgesMoved, ZenonT(30)
    <3>4. Edges(moved)[active[i]] = s.guides[1]
      BY <1>0, <1>2, <3>1, <3>3
    <3>5. QED
      BY <3>4 DEF moved
  <2>4. within # {} => /\ s.guides # <<>>
                       /\ \A d \in within : AbsOf(s.at - span.at) <= d
                       /\ \E i \in DOMAIN active : Edges([span EXCEPT !.at = s.at])[active[i]] = s.guides[1]
    BY <2>1, <2>2, <2>3
  <2>5. within # {}
    <3>1. PICK i \in DOMAIN active : Edges(span)[active[i]] + c.by = c.guides[1]
      BY <1>5
    <3>0. \A x \in E : \E k \in 1 .. Len(targets), j \in 1 .. 3 :
            targets[k].id # excludeId /\ x = Edges(targets[k])[j]
      BY DEF OthersEdges, E
    <3>2. PICK k \in 1 .. Len(targets), j \in 1 .. 3 :
            targets[k].id # excludeId /\ c.guides[1] = Edges(targets[k])[j]
      BY <1>5, <3>0
    <3> DEFINE mine == Edges(span)[active[i]]
               theirs == Edges(targets[k])[j]
               d == AbsOf(mine - theirs)
    <3>3. mine \in Int /\ theirs \in Int
      BY <1>0, EdgesAre
    <3>4. mine + c.by = theirs
      BY <3>1, <3>2
    <3>5. d \in all
      BY <1>0, <3>2 DEF Distances, all
    <3> HIDE DEF mine, theirs
    <3>6. d = AbsOf(c.by)
      BY <1>2, <3>3, <3>4 DEF AbsOf
    <3>7. d < Threshold
      BY <1>5, <3>6
    <3> HIDE DEF d
    <3>8. QED
      BY <3>5, <3>7
  <2>6. QED
    BY <2>4, <2>5 DEF SnapsToTheNearest, s, all
<1>6. QED
  BY <1>1, <1>4, <1>5 DEF Fits

\* The snappings that the run enumerates are among them.
THEOREM SnapsAreNearest == Spec => []SnapsToNearest
<1>1. ASSUME NEW at \in -Reach .. Reach, NEW there \in 0 .. Reach, NEW size \in {0, 4},
             NEW active \in {<< 1 >>, << 3 >>, <<1, 2, 3>>}
      PROVE  SnapsToTheNearest([at |-> at, size |-> 4],
               <<[id |-> 1, at |-> at, size |-> 4], [id |-> 2, at |-> 0, size |-> 2],
                 [id |-> 3, at |-> there, size |-> size]>>, 1, active)
  <2> DEFINE span == [at |-> at, size |-> 4]
             t1 == [id |-> 1, at |-> at, size |-> 4]
             t2 == [id |-> 2, at |-> 0, size |-> 2]
             t3 == [id |-> 3, at |-> there, size |-> size]
             targets == <<t1, t2, t3>>
  <2>1. at \in Int /\ there \in Int /\ size \in Nat
    BY GeometryAssumption
  <2>2. span \in Span
    BY <2>1 DEF Span
  <2>3. t1 \in TargetOf(Nat) /\ t2 \in TargetOf(Nat) /\ t3 \in TargetOf(Nat)
    BY <2>1 DEF TargetOf
  <2> HIDE DEF t1, t2, t3
  <2>4. targets \in Seq(TargetOf(Nat))
    BY <2>3
  <2>5. active \in Seq(1 .. 3)
    <3>1. 1 \in 1 .. 3 /\ 2 \in 1 .. 3 /\ 3 \in 1 .. 3
      OBVIOUS
    <3>2. CASE active = <<1>>
      BY <3>1, <3>2
    <3>3. CASE active = <<3>>
      BY <3>1, <3>3
    <3>4. CASE active = <<1, 2, 3>>
      BY <3>1, <3>4
    <3>5. QED
      BY <3>2, <3>3, <3>4
  <2> HIDE DEF span, targets
  <2>6. SnapsToTheNearest(span, targets, 1, active)
    BY <2>2, <2>4, <2>5, AnySnappingIsNearest
  <2>7. QED
    BY <2>6 DEF span, targets, t1, t2, t3
<1>2. SnappingIsNearest
  BY <1>1 DEF SnappingIsNearest
<1>3. SnapsToNearest
  BY <1>2 DEF SnapsToNearest
<1>4. QED
  BY <1>3, PTL

-----------------------------------------------------------------------------
(* Resizing.                                                               *)

\* The spans of elements, of whole pixels: two units each.
EvenSpan == {span \in Span : span.size >= 2 /\ \E n \in Nat : span.size = 2 * n}

\* The sizes come from the pointer where the handle pulls, and are even where
\* they are laid out around the centre.
SizeOK(side, new, alt) == new \in Nat /\ (alt \/ side = "none" => \E n \in Nat : new = 2 * n)

\* Along one axis: the resize alone moves no anchor.
LEMMA PlacedHolds ==
  ASSUME NEW side \in Side, NEW span \in EvenSpan, NEW alt \in BOOLEAN, NEW new, SizeOK(side, new, alt),
         NEW delta
  PROVE  LET placed == Placed(span, side, new, delta, alt)
         IN  /\ placed.at \in Int /\ placed.size = new
             /\ TwiceAnchor(placed, side, alt) = TwiceAnchor(span, side, alt)
<1> DEFINE moved == IF alt THEN 0 ELSE Shift(side, span.size, new, delta)
           placed == Placed(span, side, new, delta, alt)
           half == (span.size + moved - new) \div 2
<1>1. /\ span.at \in Int /\ span.size \in Nat /\ new \in Nat
      /\ \E n \in Nat : span.size = 2 * n
  BY DEF EvenSpan, Span, SizeOK
<1>2. placed.at = span.at + half /\ placed.size = new
  BY DEF Placed
<1>3. CASE alt \/ side = "none"
  <2>1. moved = 0
    BY <1>3 DEF Shift
  <2>2. PICK m \in Nat, n \in Nat : span.size = 2 * m /\ new = 2 * n
    BY <1>1, <1>3 DEF SizeOK
  <2>3. half = m - n
    BY <2>1, <2>2
  <2> HIDE DEF half, placed
  <2>4. 2 * placed.at + placed.size = 2 * span.at + span.size /\ placed.at \in Int
    BY <1>1, <1>2, <2>2, <2>3
  <2>5. QED
    BY <1>2, <1>3, <2>4 DEF TwiceAnchor, placed
<1>4. CASE ~alt /\ side = "end"
  <2>1. half = 0
    BY <1>1, <1>4 DEF Shift
  <2> HIDE DEF half, placed
  <2>2. placed.at = span.at
    BY <1>1, <1>2, <2>1
  <2>3. QED
    BY <1>1, <1>2, <1>4, <2>2 DEF TwiceAnchor, placed
<1>5. CASE ~alt /\ side = "start"
  <2>1. half = span.size - new
    BY <1>1, <1>5 DEF Shift
  <2> HIDE DEF half, placed
  <2>2. placed.at + placed.size = span.at + span.size /\ placed.at \in Int
    BY <1>1, <1>2, <2>1
  <2>3. QED
    BY <1>2, <1>5, <2>2 DEF TwiceAnchor, placed
<1>6. QED
  BY <1>3, <1>4, <1>5 DEF Side

LEMMA ActiveEdgesAre ==
  ASSUME NEW side \in Side
  PROVE  /\ ActiveEdges(side) \in Seq(1 .. 3)
         /\ \A i \in DOMAIN ActiveEdges(side) : \/ side = "start" /\ ActiveEdges(side)[i] = 1
                                                \/ side = "end" /\ ActiveEdges(side)[i] = 3
<1>1. 1 \in 1 .. 3 /\ 3 \in 1 .. 3
  OBVIOUS
<1>2. CASE side = "start"
  BY <1>1, <1>2 DEF ActiveEdges
<1>3. CASE side = "end"
  BY <1>1, <1>3 DEF ActiveEdges
<1>4. CASE side = "none"
  BY <1>4 DEF ActiveEdges
<1>5. QED
  BY <1>2, <1>3, <1>4 DEF Side

\* The snap that follows moves the anchor when it takes what the handle holds to
\* an edge of another element.
LEMMA AxisHoldsOrSnaps ==
  ASSUME NEW side \in Side, NEW span \in EvenSpan, NEW alt \in BOOLEAN, NEW new, SizeOK(side, new, alt),
         NEW delta, NEW Id, NEW targets \in Seq(TargetOf(Id)), NEW excludeId
  PROVE  HoldsOrSnaps(side, span, Resized(span, side, new, delta, alt, targets, excludeId),
                      alt, targets, excludeId)
<1> DEFINE placed == Placed(span, side, new, delta, alt)
           active == ActiveEdges(side)
           E == OthersEdges(targets, excludeId)
           after == Resized(span, side, new, delta, alt, targets, excludeId)
<1>1. /\ placed.at \in Int /\ placed.size = new /\ new \in Nat
      /\ TwiceAnchor(placed, side, alt) = TwiceAnchor(span, side, alt)
  <2>1. new \in Nat
    BY DEF SizeOK
  <2>2. QED
    BY <2>1, PlacedHolds
<1>2. /\ active \in Seq(1 .. 3)
      /\ \A i \in DOMAIN active : (side = "start" /\ active[i] = 1) \/ (side = "end" /\ active[i] = 3)
  BY ActiveEdgesAre
<1>3. /\ Len(targets) \in Nat
      /\ \A k \in 1 .. Len(targets) : targets[k].at \in Int /\ targets[k].size \in Nat
  <2>1. \A k \in 1 .. Len(targets) : targets[k] \in TargetOf(Id)
    BY ElementOfSeq
  <2>2. QED
    BY <2>1, LenProperties DEF TargetOf
<1>4. after = [placed EXCEPT !.at = Snapping(placed, targets, excludeId, active).at]
  BY DEF Resized
<1> HIDE DEF active, E
<1>5. placed = [at |-> placed.at, size |-> placed.size]
  BY DEF Placed
<1> HIDE DEF placed, after
<1>6. PICK c : /\ Snapping(placed, targets, excludeId, active) = [at |-> placed.at + c.by, guides |-> c.guides]
               /\ Fits(c, placed, active, OthersEdges(targets, excludeId))
  BY <1>1, <1>2, <1>3, SnappingFits
<1>7. c \in Best /\ c.by \in Int /\ c.least \in Nat
  BY <1>6 DEF Fits, Best
<1>8. after.at = placed.at + c.by /\ after.size = placed.size
  <2>1. Snapping(placed, targets, excludeId, active).at = placed.at + c.by
    BY <1>6
  <2>2. QED
    BY <1>4, <1>5, <2>1
<1>9. TwiceAnchor(after, side, alt) - TwiceAnchor(span, side, alt) = 2 * c.by
  <2>1. TwiceAnchor(after, side, alt) = TwiceAnchor(placed, side, alt) + 2 * c.by
    BY <1>1, <1>7, <1>8 DEF TwiceAnchor
  <2>2. TwiceAnchor(placed, side, alt) \in Int
    BY <1>1 DEF TwiceAnchor
  <2>3. QED
    BY <1>1, <1>7, <2>1, <2>2
<1>10. CASE c = NotSnapped
  BY <1>9, <1>10 DEF HoldsOrSnaps, NotSnapped, after
<1>11. CASE c # NotSnapped
  <2>1. /\ c.least < Threshold /\ AbsOf(c.by) = c.least /\ c.guides[1] \in OthersEdges(targets, excludeId)
        /\ \E i \in DOMAIN active : Edges(placed)[active[i]] + c.by = c.guides[1]
    BY <1>6, <1>11 DEF Fits
  <2>2. AbsOf(2 * c.by) < 2 * Threshold
    BY <1>7, <2>1, GeometryAssumption DEF AbsOf
  <2>3. PICK i \in DOMAIN active : Edges(placed)[active[i]] + c.by = c.guides[1]
    BY <2>1
  <2>4. Edges(placed)[1] = placed.at /\ Edges(placed)[3] = placed.at + placed.size
    BY DEF Edges
  <2>5. side # "none" /\ Held(after, side) = c.guides[1]
    BY <1>1, <1>2, <1>7, <1>8, <2>3, <2>4 DEF Held
  <2>6. QED
    BY <1>9, <2>1, <2>2, <2>5 DEF HoldsOrSnaps, after
<1>12. QED
  BY <1>10, <1>11

LEMMA StretchedIs ==
  ASSUME NEW side \in Side, NEW span \in EvenSpan, NEW delta \in Int, NEW alt \in BOOLEAN
  PROVE  SizeOK(side, Stretched(side, span.size, delta, alt), alt) /\ Stretched(side, span.size, delta, alt) >= 2
<1>1. PICK n \in Nat : span.size = 2 * n /\ n >= 1
  BY DEF EvenSpan
<1> DEFINE size == span.size
           new == Stretched(side, size, delta, alt)
<1>2. CASE side = "none"
  BY <1>1, <1>2 DEF Stretched, SizeOK
<1>3. CASE side # "none" /\ ~alt
  BY <1>1, <1>3 DEF Stretched, SizeOK, AtLeast, Side
<1>4. CASE side # "none" /\ alt
  <2>1. /\ new \in Nat /\ new >= 2
        /\ new = 2 \/ new = 2 * (n + delta) \/ new = 2 * (n - delta)
    BY <1>1, <1>4 DEF Stretched, AtLeast, Side
  <2> HIDE DEF new
  <2>2. \E m \in Nat : new = 2 * m
    <3>1. CASE new = 2
      BY <3>1
    <3>2. CASE new = 2 * (n + delta)
      BY <1>1, <2>1, <3>2
    <3>3. CASE new = 2 * (n - delta)
      BY <1>1, <2>1, <3>3
    <3>4. QED
      BY <2>1, <3>1, <3>2, <3>3
  <2>3. QED
    BY <2>1, <2>2 DEF SizeOK, new
<1>5. QED
  BY <1>2, <1>3, <1>4

LEMMA InProportionIs ==
  ASSUME NEW n \in Nat, NEW from \in Nat, from >= 2, NEW to \in Nat, to >= 2
  PROVE  InProportion(n, from, to) \in Nat /\ \E m \in Nat : InProportion(n, from, to) = 2 * m
<1> DEFINE a == n * to
           b == 2 * from
           q == a \div b
<1>1. a \in Nat
  OBVIOUS
<1>2. b \in Nat /\ b > 0
  OBVIOUS
<1>3. InProportion(n, from, to) = 2 * q
  BY DEF InProportion
<1> HIDE DEF a, b
<1>4. q \in Nat
  BY <1>1, <1>2
<1> HIDE DEF q
<1>5. QED
  BY <1>3, <1>4

\* The sizes are such, and of the two at least one is not below the least.
LEMMA SizesAre ==
  ASSUME NEW side \in Side \X Side, NEW span \in EvenSpan \X EvenSpan, NEW delta \in Int \X Int,
         NEW keys \in [alt : BOOLEAN, shift : BOOLEAN]
  PROVE  LET new == Sizes(side, span, delta, keys)
         IN  /\ SizeOK(side[1], new[1], keys.alt) /\ SizeOK(side[2], new[2], keys.alt)
             /\ new[1] >= 2 \/ new[2] >= 2
             /\ ~keys.shift => new[1] >= 2 /\ new[2] >= 2
<1> DEFINE first == Stretched(side[1], span[1].size, delta[1], keys.alt)
           second == Stretched(side[2], span[2].size, delta[2], keys.alt)
           w == AtLeast(2, span[1].size)
           h == AtLeast(2, span[2].size)
           new == Sizes(side, span, delta, keys)
<1>1. /\ side[1] \in Side /\ side[2] \in Side /\ span[1] \in EvenSpan /\ span[2] \in EvenSpan
      /\ delta[1] \in Int /\ delta[2] \in Int /\ keys.alt \in BOOLEAN /\ keys.shift \in BOOLEAN
  OBVIOUS
<1>2. /\ SizeOK(side[1], first, keys.alt) /\ first >= 2
      /\ SizeOK(side[2], second, keys.alt) /\ second >= 2
  BY <1>1, StretchedIs
<1>3. w \in Nat /\ w >= 2 /\ h \in Nat /\ h >= 2
  BY <1>1 DEF AtLeast, EvenSpan, Span
<1> DEFINE followsW == <<first, InProportion(first, w, h)>>
           followsH == <<InProportion(second, h, w), second>>
<1>4. \/ ~keys.shift /\ new = <<first, second>>
      \/ keys.shift /\ (new = followsW \/ new = followsH)
  BY <1>1 DEF Sizes, Locked
<1> HIDE DEF first, second, w, h
<1>5. first \in Nat /\ second \in Nat
  BY <1>2 DEF SizeOK
<1>6. /\ SizeOK(side[2], InProportion(first, w, h), keys.alt)
      /\ SizeOK(side[1], InProportion(second, h, w), keys.alt)
  BY <1>3, <1>5, InProportionIs, ZenonT(30) DEF SizeOK
<1> HIDE DEF new
<1>7. CASE ~keys.shift /\ new = <<first, second>>
  BY <1>2, <1>7 DEF new
<1>8. CASE keys.shift /\ new = followsW
  BY <1>2, <1>6, <1>8 DEF new
<1>9. CASE keys.shift /\ new = followsH
  BY <1>2, <1>6, <1>9 DEF new
<1>10. QED
  BY <1>4, <1>7, <1>8, <1>9

\* Whatever handle is pulled, however far, with whatever keys held, on an element of
\* any proportions among any others: along each axis the edge across from the handle,
\* or the centre, stays where it is, unless what the handle holds has snapped to an
\* edge of another element, and with Shift held at most one size gets below 1
\* (onPointerMove of useArtboardInteraction.ts, getSnapping of snapUtils.ts).
THEOREM AnyResizeHoldsOrSnaps ==
  ASSUME NEW side \in Side \X Side, NEW span \in EvenSpan \X EvenSpan, NEW delta \in Int \X Int,
         NEW keys \in [alt : BOOLEAN, shift : BOOLEAN],
         NEW Id, NEW targets \in Seq(TargetOf(Id)), NEW excludeId
  PROVE  ResizeOK(side, span, delta, keys, targets, excludeId)
<1> DEFINE new == Sizes(side, span, delta, keys)
           After(a) == Resized(span[a], side[a], new[a], delta[a], keys.alt, targets, excludeId)
<1>1. /\ SizeOK(side[1], new[1], keys.alt) /\ SizeOK(side[2], new[2], keys.alt)
      /\ new[1] >= 2 \/ new[2] >= 2
      /\ ~keys.shift => new[1] >= 2 /\ new[2] >= 2
  BY SizesAre
<1> HIDE DEF new
<1>2. /\ side[1] \in Side /\ side[2] \in Side /\ span[1] \in EvenSpan /\ span[2] \in EvenSpan
      /\ keys.alt \in BOOLEAN /\ keys.shift \in BOOLEAN
  OBVIOUS
<1>3. HoldsOrSnaps(side[1], span[1], After(1), keys.alt, targets, excludeId)
  BY <1>1, <1>2, AxisHoldsOrSnaps
<1>4. HoldsOrSnaps(side[2], span[2], After(2), keys.alt, targets, excludeId)
  BY <1>1, <1>2, AxisHoldsOrSnaps
<1> HIDE DEF After
<1>5. \A a \in 1 .. 2 : a = 1 \/ a = 2
  OBVIOUS
<1>6. \A a \in 1 .. 2 : HoldsOrSnaps(side[a], span[a], After(a), keys.alt, targets, excludeId)
  BY <1>3, <1>4, <1>5
<1>7. IF keys.shift THEN new[1] >= 2 \/ new[2] >= 2
      ELSE \A a \in 1 .. 2 : side[a] # "none" => new[a] >= 2
  BY <1>1, <1>2, <1>5
<1>8. QED
  BY <1>6, <1>7 DEF ResizeOK, After, new

\* The resizes that the run enumerates are among them.
THEOREM ResizesHoldOrSnap == Spec => []ResizeHoldsOrSnaps
<1>1. ASSUME NEW side \in Handle, NEW w \in {2, 8}, NEW h \in {2, 8}, NEW dx \in Moves, NEW dy \in Moves,
             NEW keys \in [alt : BOOLEAN, shift : BOOLEAN], NEW there \in {-5, 6}
      PROVE  ResizeOK(side, <<At0(w), At0(h)>>, <<dx, dy>>, keys, InTheWay(there), 1)
  <2>1. side \in Side \X Side
    BY DEF Handle
  <2>2. At0(w) \in EvenSpan /\ At0(h) \in EvenSpan
    <3>1. \A n \in {2, 8} : n \in Nat /\ n >= 2 /\ \E m \in Nat : n = 2 * m
      <4>1. 2 = 2 * 1 /\ 8 = 2 * 4 /\ 1 \in Nat /\ 4 \in Nat
        OBVIOUS
      <4>2. QED
        BY <4>1
    <3>2. \A n \in {2, 8} : At0(n).size = n /\ At0(n) \in Span
      BY <3>1 DEF At0, Span
    <3>3. \A n \in {2, 8} : At0(n) \in EvenSpan
      BY <3>1, <3>2 DEF EvenSpan
    <3>4. QED
      BY <3>3
  <2>3. dx \in Int /\ dy \in Int
    BY GeometryAssumption DEF Moves
  <2> DEFINE t1 == [id |-> 1, at |-> 0, size |-> 8]
             t2 == [id |-> 2, at |-> there, size |-> 6]
  <2>4. t1 \in TargetOf(Nat) /\ t2 \in TargetOf(Nat)
    BY DEF TargetOf
  <2> HIDE DEF t1, t2
  <2>5. <<t1, t2>> \in Seq(TargetOf(Nat))
    BY <2>4
  <2>6. InTheWay(there) = <<t1, t2>>
    BY DEF InTheWay, t1, t2
  <2>7. <<At0(w), At0(h)>> \in EvenSpan \X EvenSpan /\ <<dx, dy>> \in Int \X Int
    BY <2>2, <2>3
  <2>8. InTheWay(there) \in Seq(TargetOf(Nat))
    BY <2>5, <2>6
  <2>9. QED
    BY <2>1, <2>7, <2>8, AnyResizeHoldsOrSnaps
<1>2. ResizingHoldsOrSnaps
  BY <1>1 DEF ResizingHoldsOrSnaps
<1>3. ResizeHoldsOrSnaps
  BY <1>2 DEF ResizeHoldsOrSnaps
<1>4. QED
  BY <1>3, PTL
=============================================================================
