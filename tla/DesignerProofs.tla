-------------------------- MODULE DesignerProofs --------------------------
(***************************************************************************)
(* Proofs about Designer, for every set of elements, length of the history *)
(* and number of sides, edits and requests.                                *)
(***************************************************************************)
EXTENDS Designer, TLAPS

\* The messages that are for the element they were made on, and the calls that
\* post them.
Own   == {m \in Posted : m.type = "edit" => m.to = m.of}
Calls == [n : 1 .. Edits, msg : Own]

Throttle == [hot : BOOLEAN, last : Calls \cup {None}]

\* The values of the variables, with Own for Posted.
Typed ==
  /\ selected \in Whose /\ signature \in Whose
  /\ history \in 0 .. MaxHistory /\ historyIndex \in 0 .. history
  /\ history # 0 => historyIndex # 0
  /\ throttle \in [Kind -> Throttle]
  /\ toHost \in Seq(Own) /\ toView \in Seq(Nat) /\ count \in Nat /\ stagedCount \in Nat
  /\ made \in 0 .. Edits /\ requests \in 0 .. Requests
  /\ newest \in [Kind -> 0 .. made] /\ sent \in [Kind -> 0 .. made]

\* Only while the interval lasts does a throttle remember a call, and what it
\* remembers is newer than all it has posted.
InTurn ==
  \A k \in Kind :
    /\ sent[k] <= newest[k]
    /\ throttle[k].last # None =>
         throttle[k].hot /\ throttle[k].last.n \in sent[k] + 1 .. newest[k]

IInv == Typed /\ InTurn

LEMMA MinType == \A a, b \in Nat : Min({a, b}) \in {a, b} /\ Min({a, b}) <= a /\ Min({a, b}) <= b
<1> SUFFICES ASSUME NEW a \in Nat, NEW b \in Nat
             PROVE  Min({a, b}) \in {a, b} /\ Min({a, b}) <= a /\ Min({a, b}) <= b
  OBVIOUS
<1>1. \E x \in {a, b} : \A y \in {a, b} : x <= y
  OBVIOUS
<1>2. QED
  BY <1>1 DEF Min

\* What an event posts is for the element it was made on.
LEMMA PostedTypes ==
  /\ \A e \in Element : Edit(e, e) \in Own
  /\ \A type \in {"stage", "reset", "nameless", "undo"} : Other(type) \in Own
BY DEF Own, Posted, Edit, Other

-----------------------------------------------------------------------------
(* Editing: patchStyle, patchBatch and the end of the interval.            *)

\* A patch of c calls: the first goes out, or the last is remembered.
LEMMA PatchStep ==
  ASSUME IInv, NEW k \in Kind, NEW c \in Nat \ {0}, NEW n \in Nat, Patch(k, c, n)
  PROVE  /\ IInv'
         /\ newest'[k] \in Nat /\ newest'[k] > newest[k]
         /\ sent'[k] = sent[k] \/ sent'[k] \in sent[k] + 1 .. newest'[k]
         /\ \A l \in Kind \ {k} : newest'[l] = newest[l] /\ sent'[l] = sent[l]
<1>0. /\ Target \in Element /\ made \in Nat /\ made + c \in 1 .. Edits /\ made + 1 \in 1 .. Edits
      /\ throttle \in [Kind -> Throttle] /\ throttle[k] \in Throttle
      /\ newest \in [Kind -> 0 .. made] /\ sent \in [Kind -> 0 .. made]
      /\ history \in Nat /\ historyIndex \in Nat /\ stagedCount \in Nat
  BY DesignerAssumption DEF IInv, Typed, Patch, Target, Whose
<1> DEFINE Call(i) == [n |-> i, msg |-> Edit(Target, Target)]
<1>1. \A i \in 1 .. Edits : Call(i) \in Calls /\ Call(i).n = i /\ Call(i).msg \in Own
  BY <1>0, PostedTypes DEF Calls
<1>2. made' = made + c /\ newest' = [newest EXCEPT ![k] = made + c]
  BY DEF Patch
<1>3. history' \in 0 .. MaxHistory /\ history' # 0 /\ historyIndex' = history'
  <2>1. historyIndex + c \in Nat /\ MaxHistory \in Nat /\ historyIndex + c # 0 /\ MaxHistory # 0
    BY <1>0, DesignerAssumption
  <2>2. history' = Min({historyIndex + c, MaxHistory}) /\ historyIndex' = history'
    BY DEF Patch
  <2>3. QED
    BY <2>1, <2>2, MinType
<1>4. /\ newest' \in [Kind -> 0 .. made'] /\ newest'[k] = made + c
      /\ \A l \in Kind \ {k} : newest'[l] = newest[l]
  BY <1>0, <1>2
<1>5. newest[k] \in 0 .. made /\ sent[k] \in 0 .. made
  BY <1>0
<1>6. CASE throttle[k].hot
  <2>1. /\ throttle' = [throttle EXCEPT ![k] = [throttle[k] EXCEPT !.last = Call(made + c)]]
        /\ toHost' = toHost /\ sent' = sent
    BY <1>6 DEF Patch, Throttled, Remembers
  <2>2. /\ [throttle[k] EXCEPT !.last = Call(made + c)] \in Throttle
        /\ [throttle[k] EXCEPT !.last = Call(made + c)].hot = throttle[k].hot
        /\ [throttle[k] EXCEPT !.last = Call(made + c)].last = Call(made + c)
    BY <1>0, <1>1 DEF Throttle
  <2>3. throttle'[k] = [throttle[k] EXCEPT !.last = Call(made + c)]
    BY <1>0, <2>1
  <2>4. throttle' \in [Kind -> Throttle]
    BY <1>0, <2>1, <2>2
  <2>5. sent' \in [Kind -> 0 .. made']
    BY <1>0, <1>2, <2>1
  <2>6. Typed'
    <3>1. /\ UNCHANGED <<selected, signature, toView, count, requests>>
          /\ made' \in 0 .. Edits /\ stagedCount' \in Nat
      BY <1>0, <1>2 DEF Patch, selection
    <3>2. QED
      BY <1>0, <1>2, <1>3, <1>4, <2>1, <2>4, <2>5, <3>1, SMTT(30) DEF IInv, Typed
  <2>7. ASSUME NEW l \in Kind
        PROVE  /\ sent'[l] <= newest'[l]
               /\ throttle'[l].last # None =>
                    throttle'[l].hot /\ throttle'[l].last.n \in sent'[l] + 1 .. newest'[l]
    <3>1. CASE l = k
      BY <1>0, <1>1, <1>4, <1>5, <1>6, <2>1, <2>2, <2>3, <3>1
    <3>2. CASE l # k
      BY <1>0, <1>4, <2>1, <3>2 DEF IInv, InTurn
    <3>3. QED
      BY <3>1, <3>2
  <2>8. QED
    BY <1>0, <1>4, <1>5, <2>1, <2>6, <2>7 DEF IInv, InTurn
<1>7. CASE ~throttle[k].hot
  <2>1. /\ throttle' = [throttle EXCEPT ![k] =
               [hot |-> TRUE, last |-> IF made + 1 = made + c THEN throttle[k].last ELSE Call(made + c)]]
        /\ toHost' = Append(toHost, Call(made + 1).msg) /\ sent' = [sent EXCEPT ![k] = made + 1]
    BY <1>7 DEF Patch, Throttled
  <2>2. throttle[k].last = None
    BY <1>7 DEF IInv, InTurn
  <2>3. throttle'[k] \in Throttle /\ throttle' = [throttle EXCEPT ![k] = throttle'[k]]
    BY <1>0, <1>1, <2>1 DEF Throttle
  <2>4. throttle' \in [Kind -> Throttle]
    BY <1>0, <2>3
  <2>5. /\ sent' \in [Kind -> 0 .. made'] /\ sent'[k] = made + 1
        /\ \A l \in Kind \ {k} : sent'[l] = sent[l]
    BY <1>0, <1>2, <2>1
  <2>6. toHost' \in Seq(Own)
    <3>1. toHost \in Seq(Own) /\ Call(made + 1).msg \in Own
      BY <1>0, <1>1 DEF IInv, Typed
    <3>2. QED
      BY <2>1, <3>1
  <2>7. Typed'
    <3>1. /\ UNCHANGED <<selected, signature, toView, count, requests>>
          /\ made' \in 0 .. Edits /\ stagedCount' \in Nat
      BY <1>0, <1>2 DEF Patch, selection
    <3>2. QED
      BY <1>0, <1>2, <1>3, <1>4, <2>4, <2>5, <2>6, <3>1 DEF IInv, Typed
  <2>8. ASSUME NEW l \in Kind
        PROVE  /\ sent'[l] <= newest'[l]
               /\ throttle'[l].last # None =>
                    throttle'[l].hot /\ throttle'[l].last.n \in sent'[l] + 1 .. newest'[l]
    <3>1. CASE l = k
      <4>1. throttle'[k].hot /\ throttle'[k].last \in {None, Call(made + c)}
        BY <1>0, <2>1, <2>2
      <4>2. made + 1 = made + c => throttle'[k].last = None
        BY <1>0, <2>1, <2>2
      <4>3. QED
        BY <1>0, <1>1, <1>4, <2>5, <3>1, <4>1, <4>2
    <3>2. CASE l # k
      BY <1>0, <1>4, <2>1, <2>5, <3>2 DEF IInv, InTurn
    <3>3. QED
      BY <3>1, <3>2
  <2>9. QED
    BY <1>0, <1>4, <1>5, <2>5, <2>7, <2>8 DEF IInv, InTurn
<1>8. QED
  BY <1>6, <1>7

\* What the end of the interval posts is newer than what went out before.
LEMMA TimerStep ==
  ASSUME IInv, NEW k \in Kind, Timer(k)
  PROVE  /\ IInv'
         /\ newest' = newest
         /\ sent'[k] = sent[k] \/ sent'[k] \in sent[k] + 1 .. newest[k]
         /\ \A l \in Kind \ {k} : sent'[l] = sent[l]
<1>0. /\ throttle \in [Kind -> Throttle] /\ throttle[k] \in Throttle /\ Calm \in Throttle
      /\ newest \in [Kind -> 0 .. made] /\ sent \in [Kind -> 0 .. made] /\ made \in Nat
  BY DesignerAssumption DEF IInv, Typed, Calm, Throttle
<1>1. throttle' = [throttle EXCEPT ![k] = Calm] /\ throttle' \in [Kind -> Throttle]
  BY <1>0 DEF Timer, Rests
<1>2. /\ newest' = newest
      /\ UNCHANGED <<selection, past, stagedCount, toView, count, edits>>
  BY DEF Timer, edits
<1>3. CASE throttle[k].last = None
  <2>1. toHost' = toHost /\ sent' = sent
    BY <1>3 DEF Timer
  <2>2. Typed'
    BY <1>0, <1>1, <1>2, <2>1 DEF IInv, Typed, selection, past, edits
  <2>3. InTurn'
    BY <1>0, <1>1, <1>2, <2>1 DEF IInv, InTurn, Calm
  <2>4. QED
    BY <1>2, <2>1, <2>2, <2>3 DEF IInv
<1>4. CASE throttle[k].last # None
  <2> DEFINE call == throttle[k].last
  <2>1. call \in Calls /\ call.n \in sent[k] + 1 .. newest[k] /\ call.msg \in Own
    BY <1>0, <1>4 DEF Throttle, Calls, IInv, InTurn
  <2>2. [call.msg EXCEPT !.to = Addressee(call.msg)] = call.msg
    BY <2>1 DEF Addressee, Own, Posted, Edit, Other
  <2>3. toHost' = Append(toHost, call.msg) /\ sent' = [sent EXCEPT ![k] = call.n]
    BY <1>4, <2>2 DEF Timer
  <2> HIDE DEF call
  <2>4. toHost' \in Seq(Own)
    BY <2>1, <2>3 DEF IInv, Typed
  <2>5. /\ sent' \in [Kind -> 0 .. made] /\ sent'[k] = call.n
        /\ \A l \in Kind \ {k} : sent'[l] = sent[l]
    <3>1. newest[k] \in 0 .. made /\ sent[k] \in 0 .. made
      BY <1>0
    <3>2. call.n \in 0 .. made
      BY <1>0, <2>1, <3>1
    <3>3. QED
      BY <1>0, <2>3, <3>2
  <2>6. Typed'
    BY <1>0, <1>1, <1>2, <2>4, <2>5 DEF IInv, Typed, selection, past, edits
  <2>7. InTurn'
    <3>1. ASSUME NEW l \in Kind
          PROVE  /\ sent'[l] <= newest[l]
                 /\ throttle'[l].last # None =>
                      throttle'[l].hot /\ throttle'[l].last.n \in sent'[l] + 1 .. newest[l]
      <4>1. CASE l = k
        <5>1. throttle'[k].last = None
          BY <1>0, <1>1 DEF Calm
        <5>2. newest[k] \in 0 .. made /\ sent[k] \in 0 .. made
          BY <1>0
        <5>3. QED
          BY <1>0, <2>1, <2>5, <4>1, <5>1, <5>2
      <4>2. CASE l # k
        BY <1>0, <1>1, <2>5, <4>2 DEF IInv, InTurn
      <4>3. QED
        BY <4>1, <4>2
    <3>2. QED
      BY <1>2, <3>1 DEF InTurn
  <2>8. QED
    BY <1>2, <2>1, <2>5, <2>6, <2>7 DEF IInv
<1>5. QED
  BY <1>3, <1>4

-----------------------------------------------------------------------------
(* Everything else leaves the throttles alone.                             *)

\* Nothing is put into a channel or comes out of it.
Aside == UNCHANGED <<throttle, sent, newest, made>>

LEMMA AskingStep ==
  ASSUME IInv, Asking
  PROVE  IInv' /\ Aside
<1>1. Aside /\ UNCHANGED <<selected, signature, toView, count>>
  BY DEF Asking, Undo, Redo, UndoKey, LayersMenu, DeleteKey, SelectionActions, CanvasContextMenu,
         InsertElement, Clear, Publish, Structural, Only, Jumps, Aside, selection
<1>2. history \in 0 .. MaxHistory /\ historyIndex \in 0 .. history /\ MaxHistory \in Nat \ {0}
  BY DesignerAssumption DEF IInv, Typed
<1>3. /\ history' \in 0 .. MaxHistory /\ historyIndex' \in 0 .. history'
      /\ history' # 0 => historyIndex' # 0
  <2>1. CASE Undo \/ Redo
    BY <1>2, <2>1 DEF Undo, Redo, Jumps
  <2>2. CASE Publish
    BY <1>2, <2>2 DEF Publish, Baseline
  <2>3. CASE UNCHANGED past
    BY <2>3 DEF past, IInv, Typed
  <2>4. QED
    BY <2>1, <2>2, <2>3
       DEF Asking, UndoKey, LayersMenu, DeleteKey, SelectionActions, CanvasContextMenu, InsertElement,
           Clear, Structural, Only
<1>4. stagedCount' \in Nat
  <2>1. stagedCount' \in {stagedCount, 0}
    BY DEF Asking, Undo, Redo, UndoKey, LayersMenu, DeleteKey, SelectionActions, CanvasContextMenu,
           InsertElement, Clear, Publish, Structural, Only, Jumps
  <2>2. QED
    BY <2>1 DEF IInv, Typed
<1>5. toHost' \in Seq(Own) /\ requests' \in 0 .. Requests
  <2>1. \E msgs \in Seq(Own) : Posts(msgs)
    <3>1. /\ Other("undo") \in Own /\ Other("stage") \in Own /\ Other("reset") \in Own
          /\ Other("nameless") \in Own
      BY PostedTypes
    <3>2. /\ \A a \in Own : <<a>> \in Seq(Own)
          /\ \A a, b \in Own : <<a, b>> \in Seq(Own)
      OBVIOUS
    <3>3. \A e : (IF e = None THEN "nameless" ELSE "stage") \in {"nameless", "stage"}
      OBVIOUS
    <3>4. CASE Undo \/ Redo
      BY <3>1, <3>2, <3>4 DEF Undo, Redo, Undone
    <3>5. CASE Publish
      BY <3>1, <3>2, <3>5 DEF Publish
    <3>6. CASE \E type \in {"undo", "stage", "reset", "nameless"} : Only(Other(type))
      BY <3>1, <3>2, <3>6 DEF Only
    <3>7. QED
      BY <3>3, <3>4, <3>5, <3>6
         DEF Asking, UndoKey, LayersMenu, DeleteKey, SelectionActions, CanvasContextMenu,
             InsertElement, Clear, Structural
  <2>2. PICK msgs \in Seq(Own) : Posts(msgs)
    BY <2>1
  <2>3. toHost' = toHost \o msgs /\ toHost \in Seq(Own)
    BY <2>2 DEF Posts, IInv, Typed
  <2>4. toHost' \in Seq(Own)
    BY <2>3
  <2>5. requests' \in 0 .. Requests
    BY <2>2, DesignerAssumption DEF Posts, IInv, Typed
  <2>6. QED
    BY <2>4, <2>5
<1>6. QED
  BY <1>1, <1>3, <1>4, <1>5 DEF IInv, Typed, InTurn, Aside

LEMMA OtherStep ==
  ASSUME IInv, Selecting \/ Handle \/ Poll \/ Status \/ UNCHANGED vars
  PROVE  IInv' /\ Aside
<1>1. /\ toHost \in Seq(Own) /\ toView \in Seq(Nat) /\ count \in Nat /\ stagedCount \in Nat
      /\ selected \in Whose /\ signature \in Whose
  BY DEF IInv, Typed
<1>2. CASE Selecting \/ UNCHANGED vars
  <2>1. selected' \in Whose /\ signature' \in Whose
    BY <1>1, <1>2 DEF Selecting, Answer, Escape, Whose, vars, selection
  <2>2. UNCHANGED <<past, stagedCount, out, toView, count, edits>>
    BY <1>2 DEF Selecting, Answer, Escape, vars
  <2>3. QED
    BY <2>1, <2>2 DEF IInv, Typed, InTurn, Aside, past, out, edits
<1>3. CASE Handle
  <2>1. toHost' \in Seq(Own)
    BY <1>1, <1>3 DEF Handle
  <2>2. count' \in Nat /\ toView' \in Seq(Nat)
    <3>1. CountAfter(Head(toHost)) \in Nat
      BY <1>1 DEF CountAfter
    <3>2. CASE UNCHANGED <<count, toView>>
      BY <1>1, <3>2
    <3>3. CASE count' = CountAfter(Head(toHost)) /\ toView' = Append(toView, count')
      BY <1>1, <3>1, <3>3
    <3>4. QED
      BY <1>3, <3>2, <3>3 DEF Handle
  <2>3. UNCHANGED <<selection, past, stagedCount, throttle, sent, edits>>
    BY <1>3 DEF Handle
  <2>4. QED
    BY <2>1, <2>2, <2>3 DEF IInv, Typed, InTurn, Aside, selection, past, edits
<1>4. CASE Poll
  <2>1. toView' \in Seq(Nat)
    BY <1>1, <1>4 DEF Poll
  <2>2. UNCHANGED <<selection, past, stagedCount, out, count, edits>>
    BY <1>4 DEF Poll
  <2>3. QED
    BY <2>1, <2>2 DEF IInv, Typed, InTurn, Aside, selection, past, out, edits
<1>5. CASE Status
  <2>1. toView' \in Seq(Nat) /\ stagedCount' \in Nat
    BY <1>1, <1>5 DEF Status, CountShown
  <2>2. UNCHANGED <<selection, past, out, count, edits>>
    BY <1>5 DEF Status
  <2>3. QED
    BY <2>1, <2>2 DEF IInv, Typed, InTurn, Aside, selection, past, out, edits
<1>6. QED
  BY <1>2, <1>3, <1>4, <1>5

LEMMA EditingIs == Editing => \E k \in Kind, c \in Nat \ {0}, n \in Nat : Patch(k, c, n)
<1> SUFFICES ASSUME Editing
             PROVE  \E k \in Kind, c \in Nat \ {0}, n \in Nat : Patch(k, c, n)
  OBVIOUS
<1>1. Patch("style", 1, 1) \/ Patch("style", Sides, Sides) \/ Drop
  BY DEF Editing, Pick, Colour, Text, Slide, Scrub, Number, SpacingDone, LinkedDone, Commit
<1>2. CASE Drop
  <2>1. PICK n \in Dropped : Patch("batch", 1, n)
    BY <1>2 DEF Drop
  <2>2. n \in Nat /\ 1 \in Nat \ {0} /\ "batch" \in Kind
    BY DesignerAssumption DEF Kind
  <2>3. QED
    BY <2>1, <2>2
<1>3. CASE Patch("style", 1, 1) \/ Patch("style", Sides, Sides)
  <2>1. 1 \in Nat \ {0} /\ 1 \in Nat /\ Sides \in Nat \ {0} /\ Sides \in Nat /\ "style" \in Kind
    BY DesignerAssumption DEF Kind
  <2>2. QED
    BY <1>3, <2>1
<1>4. QED
  BY <1>1, <1>2, <1>3

\* Every step keeps the invariant, and for each channel it is one of those that
\* Latest allows, or none.
LEMMA Step ==
  ASSUME IInv, [Next]_vars, NEW k \in Kind
  PROVE  /\ IInv'
         /\ \/ newest'[k] = newest[k] /\ sent'[k] = sent[k]
            \/ newest'[k] = newest[k] /\ sent'[k] \in sent[k] + 1 .. newest[k]
            \/ newest'[k] \in Nat /\ newest'[k] > newest[k] /\ sent'[k] = sent[k]
            \/ newest'[k] \in Nat /\ newest'[k] > newest[k] /\ sent'[k] \in sent[k] + 1 .. newest'[k]
<1>1. ASSUME NEW l \in Kind, NEW c \in Nat \ {0}, NEW n \in Nat, Patch(l, c, n)
      PROVE  /\ IInv'
             /\ \/ newest'[k] = newest[k] /\ sent'[k] = sent[k]
                \/ newest'[k] \in Nat /\ newest'[k] > newest[k] /\ sent'[k] = sent[k]
                \/ newest'[k] \in Nat /\ newest'[k] > newest[k] /\ sent'[k] \in sent[k] + 1 .. newest'[k]
  BY <1>1, PatchStep
<1>2. ASSUME NEW l \in Kind, Timer(l)
      PROVE  /\ IInv'
             /\ \/ newest'[k] = newest[k] /\ sent'[k] = sent[k]
                \/ newest'[k] = newest[k] /\ sent'[k] \in sent[k] + 1 .. newest[k]
  BY <1>2, TimerStep
<1>3. CASE Asking \/ Selecting \/ Handle \/ Poll \/ Status \/ UNCHANGED vars
  BY <1>3, AskingStep, OtherStep DEF Aside
<1>4. QED
  BY <1>1, <1>2, <1>3, EditingIs DEF Next

-----------------------------------------------------------------------------
(* The theorems.                                                           *)

LEMMA InitIInv == Init => IInv
<1> SUFFICES ASSUME Init
             PROVE  IInv
  OBVIOUS
<1>1. Calm \in Throttle
  BY DEF Calm, Throttle
<1>2. << >> \in Seq(Own) /\ << >> \in Seq(Nat)
  OBVIOUS
<1>3. Typed
  BY <1>1, <1>2, DesignerAssumption DEF Init, Typed, Whose
<1>4. InTurn
  BY DEF Init, InTurn, Calm
<1>5. QED
  BY <1>3, <1>4 DEF IInv

LEMMA IInvStep == IInv /\ [Next]_vars => IInv'
BY Step DEF Kind

\* Every step keeps the invariant of Designer: what a throttle remembers is newer than
\* what it posted and meant for the element it was made on.
THEOREM Inductive == Spec => []IInv
BY InitIInv, IInvStep, PTL DEF Spec

\* The history keeps its bound and its index an entry, and a throttle remembers
\* a call only while its interval lasts.
THEOREM TypeCorrect == Spec => []TypeOK
<1>1. IInv => TypeOK
  <2> SUFFICES ASSUME IInv
               PROVE  TypeOK
    OBVIOUS
  <2>1. toHost \in Seq(Posted)
    BY DEF IInv, Typed, Own
  <2>2. ASSUME NEW k \in Kind, throttle[k].last # None
        PROVE  /\ throttle[k].hot /\ throttle[k].last.msg \in Posted
               /\ throttle[k].last.n \in 1 .. made
    <3>1. throttle[k] \in Throttle /\ newest[k] \in 0 .. made /\ sent[k] \in 0 .. made /\ made \in Nat
      BY DesignerAssumption DEF IInv, Typed
    <3>2. throttle[k].hot /\ throttle[k].last.n \in sent[k] + 1 .. newest[k]
      BY <2>2 DEF IInv, InTurn
    <3>3. throttle[k].last.msg \in Posted
      BY <2>2, <3>1 DEF Throttle, Calls, Own
    <3>4. QED
      BY <3>1, <3>2, <3>3
  <2>3. QED
    BY <2>1, <2>2 DEF IInv, Typed, TypeOK
<1>2. QED
  BY <1>1, Inductive, PTL

\* What the host gets is for the element that the edit was made on, however long
\* a throttle (bridge.ts) held it and whatever was selected meanwhile.
THEOREM PostedForItsElement == Spec => []SentForItsElement
<1>1. IInv => SentForItsElement
  BY DEF IInv, Typed, Own, SentForItsElement
<1>2. QED
  BY <1>1, Inductive, PTL

\* Each throttle is a channel as Latest describes it, but for its fairness: what
\* it posts is never older than what it posted before, and never newer than the
\* last edit that was made.
THEOREM StyleIsInOrder ==
  Spec => /\ StyleChannel!Init
          /\ [][StyleChannel!Put \/ StyleChannel!Send \/ StyleChannel!Pass]_(StyleChannel!chan)
<1>1. Init => StyleChannel!Init
  BY DEF Init, StyleChannel!Init, Kind
<1>2. IInv /\ [Next]_vars =>
        [StyleChannel!Put \/ StyleChannel!Send \/ StyleChannel!Pass]_(StyleChannel!chan)
  BY Step DEF Kind, StyleChannel!Put, StyleChannel!Send, StyleChannel!Pass, StyleChannel!chan
<1>3. QED
  BY <1>1, <1>2, Inductive, PTL DEF Spec

\* The same of the batches that a drop on the canvas posts.
THEOREM BatchIsInOrder ==
  Spec => /\ BatchChannel!Init
          /\ [][BatchChannel!Put \/ BatchChannel!Send \/ BatchChannel!Pass]_(BatchChannel!chan)
<1>1. Init => BatchChannel!Init
  BY DEF Init, BatchChannel!Init, Kind
<1>2. IInv /\ [Next]_vars =>
        [BatchChannel!Put \/ BatchChannel!Send \/ BatchChannel!Pass]_(BatchChannel!chan)
  BY Step DEF Kind, BatchChannel!Put, BatchChannel!Send, BatchChannel!Pass, BatchChannel!chan
<1>3. QED
  BY <1>1, <1>2, Inductive, PTL DEF Spec
=============================================================================
