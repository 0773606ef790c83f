------------------------------ MODULE Geometry ------------------------------
(***************************************************************************)
(* The arithmetic of a gesture on the canvas, for elements that are not    *)
(* rotated or scaled: snapping (utils/snapUtils.ts), the rectangle a       *)
(* resize handle makes (hooks/useArtboardInteraction.ts), which snaps, and *)
(* the drop target under the pointer (hooks/useStructuralDND.ts).          *)
(*                                                                         *)
(* A rectangle is taken one axis at a time, as a span.  Spans have even    *)
(* sizes, so that their centres are integers.                              *)
(***************************************************************************)
EXTENDS Integers, FiniteSets, Sequences

CONSTANTS
  Reach,     \* bound: positions and pointer movements are in -Reach .. Reach
  Threshold  \* SNAP_THRESHOLD

ASSUME GeometryAssumption == Reach \in Nat \ {0} /\ Threshold \in Nat \ {0}

AbsOf(n)     == IF n < 0 THEN -n ELSE n
AtLeast(m, n) == IF n < m THEN m ELSE n

(***************************************************************************)
(* getSnapping, along one axis.                                            *)
(***************************************************************************)
Edges(span) == <<span.at, span.at + (span.size \div 2), span.at + span.size>>

\* Whether an edge comes nearer than the nearest so far.
AnyNear(diff, least) == diff < Threshold
Nearer(diff, least)  == diff < least

\* One edge of the moving span against one of a target.
Try(best, mine, theirs) ==
  LET diff == AbsOf(mine - theirs)
  IN IF Nearer(diff, best.least)
     THEN [least |-> diff, by |-> theirs - mine, snaps |-> TRUE, guides |-> <<theirs>>]
     ELSE IF best.snaps /\ diff < Threshold /\ diff = best.least
     THEN [best EXCEPT !.guides = Append(@, theirs)]
     ELSE best

\* An edge of the moving span against those of a target.
TryEdge(best, mine, target) ==
  LET theirs == Edges(target)
  IN Try(Try(Try(best, mine, theirs[1]), mine, theirs[2]), mine, theirs[3])

\* Every active edge against every edge of a target.
TryTarget(best, span, target, active) ==
  LET after[i \in 0 .. Len(active)] ==
        IF i = 0 THEN best ELSE TryEdge(after[i - 1], Edges(span)[active[i]], target)
  IN after[Len(active)]

NotSnapped == [least |-> Threshold, by |-> 0, snaps |-> FALSE, guides |-> <<>>]

Snapping(span, targets, excludeId, active) ==
  LET after[k \in 0 .. Len(targets)] ==
        IF k = 0 THEN NotSnapped
        ELSE IF targets[k].id = excludeId THEN after[k - 1]
        ELSE TryTarget(after[k - 1], span, targets[k], active)
      best == after[Len(targets)]
  IN [at |-> span.at + best.by, guides |-> best.guides]

\* The distances between an edge that may snap and one of another element.
Distances(span, targets, excludeId, active) ==
  {AbsOf(Edges(span)[active[i]] - Edges(targets[k])[j]) :
     i \in DOMAIN active, k \in {k \in DOMAIN targets : targets[k].id # excludeId}, j \in 1 .. 3}

\* Snapping moves the span by the least distance between one of its active
\* edges and an edge of another element, onto that edge, and shows a guide
\* there; when no edge is within the threshold it moves nothing and shows
\* nothing.  The order of the elements decides only between equal distances.
SnapsToTheNearest(span, targets, excludeId, active) ==
  LET s      == Snapping(span, targets, excludeId, active)
      within == {d \in Distances(span, targets, excludeId, active) : d < Threshold}
  IN IF within = {} THEN s = [at |-> span.at, guides |-> <<>>]
     ELSE /\ s.guides # <<>>
          /\ \A d \in within : AbsOf(s.at - span.at) <= d
          /\ \E i \in DOMAIN active : Edges([span EXCEPT !.at = s.at])[active[i]] = s.guides[1]

SnappingIsNearest ==
  \A at \in -Reach .. Reach, there \in 0 .. Reach, size \in {0, 4}, active \in {<<1>>, <<3>>, <<1, 2, 3>>} :
    SnapsToTheNearest([at |-> at, size |-> 4],
                      <<[id |-> 1, at |-> at, size |-> 4], [id |-> 2, at |-> 0, size |-> 2],
                        [id |-> 3, at |-> there, size |-> size]>>, 1, active)

(***************************************************************************)
(* Resizing.  The side of a span that the handle holds is "start" (w, n),  *)
(* "end" (e, s) or "none".  Lengths are in halves of a pixel, so that the  *)
(* smallest size, 1, is 2; sizes are even, so that centres are integers.   *)
(***************************************************************************)
Side == {"start", "end", "none"}

Stretched(side, size, delta, alt) ==
  LET by == IF alt THEN 2 * delta ELSE delta
  IN CASE side = "end"   -> AtLeast(2, size + by)
       [] side = "start" -> AtLeast(2, size - by)
       [] OTHER          -> size

\* Twice the centre's movement, so that the side across from the handle stays.
ByPointer(side, size, new, delta) == IF side = "none" THEN 0 ELSE delta
Shift(side, size, new, delta) ==
  CASE side = "end"   -> new - size
    [] side = "start" -> size - new
    [] OTHER          -> 0

\* The length that is to n what "to" is to "from", rounded to an even one.
InProportion(n, from, to) == 2 * ((n * to) \div (2 * from))

\* With Shift held the sizes keep their proportion: the one along the axis
\* the handle pulls, or at a corner the relatively smaller one, has the other
\* follow, to below the smallest size too.
Locked(side, span, new) ==
  LET w == AtLeast(2, span[1].size)
      h == AtLeast(2, span[2].size)
      FollowsW == <<new[1], InProportion(new[1], w, h)>>
      FollowsH == <<InProportion(new[2], h, w), new[2]>>
  IN CASE side[2] = "none" -> FollowsW
       [] side[1] = "none" -> FollowsH
       [] OTHER -> IF new[1] * h > w * AtLeast(2, new[2]) THEN FollowsH ELSE FollowsW

\* The sizes along the two axes.
Sizes(side, span, delta, keys) ==
  LET Pulled(a) == Stretched(side[a], span[a].size, delta[a], keys.alt)
      new == <<Pulled(1), Pulled(2)>>
  IN IF keys.shift THEN Locked(side, span, new) ELSE new

\* The span of the new size around the moved centre.
Placed(span, side, new, delta, alt) ==
  LET moved == IF alt THEN 0 ELSE Shift(side, span.size, new, delta)
  IN [at |-> span.at + ((span.size + moved - new) \div 2), size |-> new]

\* The edges that may snap are those the handle holds.
ActiveEdges(side) == CASE side = "start" -> << 1 >> [] side = "end" -> << 3 >> [] OTHER -> <<>>

\* One axis of a resize: the new span is placed, and snaps as a whole.
Resized(span, side, new, delta, alt, targets, excludeId) ==
  LET placed == Placed(span, side, new, delta, alt)
  IN [placed EXCEPT !.at = Snapping(placed, targets, excludeId, ActiveEdges(side)).at]

\* Twice the place of what a resize should leave where it is: the edge across
\* from the handle, or the centre when Alt is held or no handle pulls.
TwiceAnchor(span, side, alt) ==
  IF alt \/ side = "none" THEN 2 * span.at + span.size
  ELSE IF side = "end" THEN 2 * span.at ELSE 2 * (span.at + span.size)

Held(span, side) == IF side = "start" THEN span.at ELSE span.at + span.size

\* The edges of the other elements.
OthersEdges(targets, excludeId) ==
  {Edges(targets[k])[j] : k \in {k \in 1 .. Len(targets) : targets[k].id # excludeId}, j \in 1 .. 3}

\* One axis of a resize, from what it was to what it becomes: the anchor stays,
\* or it has moved by less than the threshold, along an axis the handle pulls,
\* with what the handle holds now on an edge of another element.
HoldsOrSnaps(side, before, after, alt, targets, excludeId) ==
  LET by == TwiceAnchor(after, side, alt) - TwiceAnchor(before, side, alt)
  IN by # 0 => /\ side # "none" /\ AbsOf(by) < 2 * Threshold
               /\ Held(after, side) \in OthersEdges(targets, excludeId)

\* What is true of a resize, whatever keys are held: along each axis its anchor
\* holds or snaps; and a size that the handle pulls is at least 1, or one of the
\* two is when Shift is held.
ResizeOK(side, span, delta, keys, targets, excludeId) ==
  LET new == Sizes(side, span, delta, keys)
      After(a) == Resized(span[a], side[a], new[a], delta[a], keys.alt, targets, excludeId)
  IN /\ \A a \in 1 .. 2 : HoldsOrSnaps(side[a], span[a], After(a), keys.alt, targets, excludeId)
     /\ IF keys.shift THEN new[1] >= 2 \/ new[2] >= 2
        ELSE \A a \in 1 .. 2 : side[a] # "none" => new[a] >= 2

\* An element at 0, of any proportions, and another in its way.
At0(size) == [at |-> 0, size |-> size]
InTheWay(there) == <<[id |-> 1, at |-> 0, size |-> 8], [id |-> 2, at |-> there, size |-> 6]>>
Handle == (Side \X Side) \ {<<"none", "none">>}
Moves  == {2 * d : d \in -Reach .. Reach}

ResizingHoldsOrSnaps ==
  \A side \in Handle, w, h \in {2, 8}, dx, dy \in Moves, keys \in [alt : BOOLEAN, shift : BOOLEAN] :
    \A there \in {-5, 6} :
      ResizeOK(side, <<At0(w), At0(h)>>, <<dx, dy>>, keys, InTheWay(there), 1)

\* What the resize alone would do, and the snap undoes.
ResizingHolds ==
  \A side \in Side, delta \in Moves, there \in {-5, 6} :
    LET after == Resized(At0(8), side, Stretched(side, 8, delta, FALSE), delta, FALSE, InTheWay(there), 1)
    IN TwiceAnchor(after, side, FALSE) = TwiceAnchor(At0(8), side, FALSE)

(***************************************************************************)
(* handleDragMove: the smallest rectangle under the pointer.               *)
(***************************************************************************)
\* The sides of a rectangle are compared when it has them; a comparison with
\* undefined is false.
Under(rect, x, y) ==
  /\ {"left", "right", "top", "bottom"} \subseteq DOMAIN rect
  /\ rect.left <= x /\ x <= rect.right /\ rect.top <= y /\ y <= rect.bottom

\* When nothing is under the pointer the rest of the handler, the index to
\* insert at and the line shown there, is passed over.
DropTarget(dragged, bounds, x, y, none) ==
  LET under == {e \in DOMAIN bounds \ {dragged} : Under(bounds[e], x, y)}
      Area(e) == bounds[e].width * bounds[e].height
  IN IF under = {} THEN none
     ELSE CHOOSE e \in under : \A f \in under : Area(e) <= Area(f)
=============================================================================
