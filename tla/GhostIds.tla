------------------------------ MODULE GhostIds ------------------------------
(***************************************************************************)
(* Ghost ids (zenith-vite-plugin): injector.ts gives every JSX element of  *)
(* a file an id made of the path to it, the browser sends such an id back, *)
(* and surgical.ts looks the element up in the text of the file and edits  *)
(* it.                                                                     *)
(*                                                                         *)
(* A file is the preorder sequence of the JSX nodes of its components.  An *)
(* "expr" is a {...} child that the lookup opens: a .map, a condition, an  *)
(* &&, an IIFE.  An id is the sequence of [tag, idx] of its parts.  The    *)
(* sidecar sends neither a fingerprint nor an expected tag, and these      *)
(* branches of the lookup are left out.                                    *)
(***************************************************************************)
EXTENDS Integers, FiniteSets, Sequences, FiniteSetsExt

CONSTANTS
  Tag,        \* element names
  Transparent,\* those isFragment skips: Fragment, React.Fragment
  Dotted,     \* those with a dot in them: React.Fragment, Menu.Item
  NewTag,     \* what an insertion inserts
  Branch,     \* positions of a return among the returns and ifs of its function
  Inserted,   \* indices that insertions ask for
  MaxNodes,   \* bound: nodes in a file
  None

ASSUME GhostIdsAssumption ==
  /\ Transparent \subseteq Tag /\ Dotted \subseteq Tag /\ NewTag \in Tag
  /\ None \notin Tag \cup {"element", "fragment", "expr", "text"}
  /\ Branch \subseteq Nat /\ Inserted \subseteq Nat /\ MaxNodes \in Nat

VARIABLES
  source, \* the text the sidecar edits
  page    \* the text the ids in the browser were made from

fileVars == <<source, page>>

\* up: the parent, 0 for what a component returns; branch and bare: the place
\* of that return, bare when it is the unbraced body of an if.
Node ==
  [kind : {"element", "fragment", "expr", "text"}, tag : Tag \cup {None},
   up : Nat, branch : Nat, bare : BOOLEAN]

Nodes(s, kind) == {n \in DOMAIN s : s[n].kind = kind}
Elements(s)    == Nodes(s, "element")
Children(s, n) == {m \in DOMAIN s : s[m].up = n}
Kind(s, n)     == IF n = 0 THEN None ELSE s[n].kind

\* The nodes above n, the file itself (0) among them: what follows such a
\* node, as far as n, hangs from it or from what follows it.  Nearest is the
\* first of them, going up, that is of no kind to pass through.
Above(s, n) == {m \in 0 .. n - 1 : \A k \in m + 1 .. n : s[k].up >= m}
Nearest(s, n, through) == Max({m \in Above(s, n) : Kind(s, m) \notin through})
InLogic(s, n) == \E m \in Above(s, n) : Kind(s, m) = "expr"
Leave(s, n)   == Min({m \in n + 1 .. Len(s) : s[m].up < n} \cup {Len(s) + 1})

\* A set of nodes in the order of the text.
InOrder(nodes) ==
  [i \in 1 .. Cardinality(nodes) |->
     CHOOSE n \in nodes : Cardinality({m \in nodes : m < n}) = i - 1]

(***************************************************************************)
(* injectGhostIds.                                                         *)
(***************************************************************************)
\* Without the flattening of fragments.
IndexAmongSiblings(s, n) ==
  IF s[n].up = 0 THEN s[n].branch
  ELSE Cardinality({m \in Elements(s) : m < n /\ s[m].up = s[n].up})

\* getJSXElementIndex: the place of the return for what is returned itself,
\* otherwise the number of elements before n that fragments only separate
\* from n's parent; what an expression holds has index 0.
IndexOf(s, n) ==
  LET holder(m) == Nearest(s, m, {"fragment"})
  IN  CASE s[n].up = 0 -> IF s[n].bare THEN 0 ELSE s[n].branch
        [] s[n].up # 0 /\ Kind(s, holder(n)) # "element" -> 0
        [] OTHER -> Cardinality({m \in Elements(s) : m < n /\ holder(m) = holder(n)})

Part(s, n) == [tag |-> s[n].tag, idx |-> IndexOf(s, n)]

\* The parts of the elements above n and of n, outermost first.
GhostId(s, n) ==
  LET path == InOrder((Above(s, n) \cap Elements(s)) \cup {n})
  IN  [i \in DOMAIN path |-> Part(s, path[i])]

\* The elements that get an id.
Injected(s) == {n \in Elements(s) : s[n].tag \notin Transparent}

(***************************************************************************)
(* patchSourceFile: the lookup.  A hit is the element, whether a dynamic   *)
(* block was entered on the way, and how it hangs in the tree: "path" for  *)
(* the traversal's own path, "list" in an array of children, "copy" in a   *)
(* one-element array made for the lookup, "bare" in none.                  *)
(***************************************************************************)
Hit(n, locked, via) == [node |-> n, locked |-> locked, via |-> via]
Hits(s) == [node : Elements(s), locked : BOOLEAN, via : {"path", "list", "copy", "bare"}]
NoHit == Hit(0, FALSE, "bare")

\* matchInChildren: the elements below n that fragments and expressions only
\* separate from it, in the order of the text.
Reached(s, n) == InOrder({m \in Elements(s) : Nearest(s, m, {"fragment", "expr"}) = n})

\* What it tries for an index: the element with that index and, where that
\* one is an expression's and leads nowhere, the next, for it is not counted.
Tried(s, reached, idx) ==
  {p \in idx + 1 .. Len(reached) :
     \A q \in idx + 1 .. p - 1 : Kind(s, s[reached[q]].up) = "expr"}

NotEntered(s, n, m) == FALSE
Entered(s, n, m) == \E e \in Above(s, m) \ Above(s, n) : Kind(s, e) = "expr"

HitBelow(s, at, m) ==
  Hit(m, at.locked \/ Entered(s, at.node, m),
      IF Kind(s, s[m].up) = "expr" THEN "copy" ELSE "list")

\* Fallback: the idx-th among the children with the tag.
SameTag(s, n, tag) == InOrder({m \in Children(s, n) \cap Elements(s) : s[m].tag = tag})

\* The hit the k-th part leads to from another, rest being where the parts
\* after it lead to.
Matched(s, id, k, at, rest) ==
  LET reached == Reached(s, at.node)
      good == {p \in Tried(s, reached, id[k].idx) : rest[HitBelow(s, at, reached[p])] # NoHit}
      same == SameTag(s, at.node, id[k].tag)
  IN  CASE id[k].tag \in Dotted -> NoHit \* split(".") gives no index
        [] id[k].tag \notin Dotted /\ good # {} -> rest[HitBelow(s, at, reached[Min(good)])]
        [] OTHER -> IF id[k].idx < Len(same)
                    THEN rest[Hit(same[id[k].idx + 1], at.locked, "bare")]
                    ELSE NoHit

\* matchPath: where the last n parts lead to from a hit.
Match(s, id, n) ==
  LET match[m \in Nat] ==
        IF m = 0 THEN [at \in Hits(s) |-> at]
        ELSE [at \in Hits(s) |-> Matched(s, id, Len(id) + 1 - m, at, match[m - 1])]
  IN  match[n]

\* isComponentRoot and its branch.
Roots(s, part) ==
  {n \in Elements(s) : /\ Kind(s, s[n].up) \notin {"element", "fragment"}
                       /\ s[n].tag = part.tag /\ s[n].tag \notin Dotted
                       /\ (IF s[n].up = 0 THEN s[n].branch ELSE 0) = part.idx}

Lookup(s, id) ==
  LET hit(n) == Match(s, id, Len(id) - 1)[Hit(n, FALSE, "path")]
      good   == {n \in Roots(s, id[1]) : hit(n) # NoHit}
  IN  IF good = {} THEN NoHit ELSE hit(Min(good))

\* targetIsLocked, or isInDynamicBlock, which sees above a "path" only.
Refused(s, hit) == hit.locked \/ (hit.via = "path" /\ InLogic(s, hit.node))

(***************************************************************************)
(* patchSourceFile: the edits.                                             *)
(***************************************************************************)
\* s with the nodes from i to before j, whole subtrees, replaced by new.
Splice(s, i, j, new) ==
  LET d == Len(new) - (j - i)
      Re(n) == [n EXCEPT !.up = IF @ >= j THEN @ + d ELSE @]
  IN  SubSeq(s, 1, i - 1) \o new \o [k \in 1 .. Len(s) - j + 1 |-> Re(s[j + k - 1])]

NewNode(kind, tag, up) ==
  [kind |-> kind, tag |-> tag, up |-> up, branch |-> 0, bare |-> FALSE]

\* A child of a temporary array is spliced out of that array only; a "bare"
\* one has no remove().
Delete(s, hit) ==
  CASE hit.via \in {"path", "list"} -> Splice(s, hit.node, Leave(s, hit.node), <<>>)
    [] hit.via = "copy" -> s
    [] hit.via = "bare" -> <<>>

\* updateTextContent.
Hybrid(s, n) ==
  /\ Cardinality(Children(s, n)) > 1
  /\ \E c \in Children(s, n) : s[c].kind \in {"element", "fragment"}
ReplaceChildren(s, n) == Splice(s, n + 1, Leave(s, n), <<NewNode("text", None, n)>>)
SetText(s, n) ==
  LET text == <<NewNode("text", None, n)>>
      old  == {c \in Children(s, n) : s[c].kind = "text"}
  IN  IF ~Hybrid(s, n) THEN Splice(s, n + 1, Leave(s, n), text)
      ELSE IF old # {} THEN Splice(s, Min(old), Min(old) + 1, text)
      ELSE Splice(s, n + 1, n + 1, text)

\* The insertion of an element with a text, before the idx-th child.
Insert(s, n, idx) ==
  LET jsx == InOrder({c \in Children(s, n) : s[c].kind \in {"element", "fragment"}})
      at  == IF idx < Len(jsx) THEN jsx[idx + 1] ELSE Leave(s, n)
  IN  Splice(s, at, at, <<NewNode("element", NewTag, n), NewNode("text", None, at)>>)

Ops == [op : {"style", "text", "delete", "move", "group", "ungroup", "duplicate"}, idx : {0}]
       \cup [op : {"insert"}, idx : Inserted]

Unlocked == {"delete", "move", "group", "ungroup"} \* isStructuralOp

\* Nothing is done for move, group, ungroup and duplicate; attributes (styles
\* and className) are no part of the model.
Edited(s, hit, o) ==
  CASE o.op = "text"   -> SetText(s, hit.node)
    [] o.op = "delete" -> Delete(s, hit)
    [] o.op = "insert" -> Insert(s, hit.node, o.idx)
    [] OTHER           -> s

Result(s, hit, o) ==
  CASE hit = NoHit -> "not found"
    [] hit # NoHit /\ o.op \notin Unlocked /\ Refused(s, hit) -> "locked"
    [] o.op = "delete" /\ hit.via = "bare" -> "error"
    [] OTHER -> "ok"

-----------------------------------------------------------------------------

FileInit == source = <<>> /\ page = <<>>

\* The developer writes one more node, below what ends the file so far.
Write(kind, tag, up, branch, bare) ==
  LET n == [kind |-> kind, tag |-> tag, up |-> up, branch |-> branch, bare |-> bare]
  IN  /\ page = <<>> /\ Len(source) < MaxNodes
      /\ up \in {0, Len(source)} \cup Above(source, Len(source))
      /\ up # 0 => source[up].kind # "text" /\ branch = 0
      /\ up = 0 => kind \in {"element", "fragment"}
      /\ up # 0 /\ source[up].kind = "expr" => kind \in {"element", "fragment"}
      /\ bare => up = 0 /\ branch > 0
      /\ kind = "element" <=> tag # None
      /\ source' = Append(source, n)
      /\ UNCHANGED page

\* Vite transforms the file and the browser shows it.
InjectGhostIds ==
  /\ source # <<>> /\ page # source
  /\ page' = source
  /\ UNCHANGED source

\* What the ids the browser shows lead to.
Shown == {Lookup(source, GhostId(page, n)) : n \in Injected(page)}

\* surgical-cli: an edit of the element an id leads to.
Patch(hit, o) ==
  LET result == Result(source, hit, o)
  IN  /\ o.op = "insert" => Len(source) + 2 <= MaxNodes
      /\ source' = IF result = "ok" THEN Edited(source, hit, o) ELSE source
      /\ Len(source') <= MaxNodes
      /\ UNCHANGED page

FileNext ==
  \/ \E kind \in {"element", "fragment", "expr", "text"}, tag \in Tag \cup {None},
        up \in 0 .. MaxNodes, branch \in Branch,
        bare \in BOOLEAN :
       Write(kind, tag, up, branch, bare)
  \/ InjectGhostIds
  \/ \E hit \in Shown, o \in Ops : Patch(hit, o)

FileSpec == FileInit /\ [][FileNext]_fileVars

-----------------------------------------------------------------------------
(***************************************************************************)
(* Properties                                                              *)
(***************************************************************************)
\* The source stays the preorder of a forest, in which what follows the parent
\* of a node, as far as the node, hangs below that parent; text has no children
\* (splices of patchSourceFile).
FileTypeOK ==
  /\ source \in Seq(Node) /\ Len(source) <= MaxNodes
  /\ \A n \in DOMAIN source :
       /\ source[n].up \in Above(source, n)
       /\ Kind(source, source[n].up) # "text"
       /\ source[n].kind = "element" <=> source[n].tag \in Tag

\* Files of plain JSX: no expression, no fragment returned, no dotted names,
\* returns in blocks of their own, told apart by tag and branch.
Plain(s) ==
  /\ Nodes(s, "expr") = {} /\ \A n \in Elements(s) : s[n].tag \notin Dotted
  /\ \A n \in Children(s, 0) : s[n].kind = "element" /\ ~s[n].bare
  /\ \A n, m \in Children(s, 0) : Part(s, n) = Part(s, m) => n = m

\* In a plain file the lookup of an element's own id finds that element, as
\* far as the two traversals, which flatten fragments separately, agree.
PlainRoundTrip ==
  Plain(source) => \A n \in Injected(source) : Lookup(source, GhostId(source, n)).node = n

\* Components whose one return is braced and of one element, and nothing a
\* {...} holds looks like that element.
OneRoot(s) ==
  /\ Children(s, 0) = {1} /\ s[1].kind = "element" /\ ~s[1].bare
  /\ Roots(s, Part(s, 1)) \subseteq {1}

\* In such a component no edit by a fresh id goes into a dynamic block, except
\* a structural one (Logic-Lock).
LockHolds ==
  OneRoot(source) =>
    \A n \in Injected(source) :
      LET hit == Lookup(source, GhostId(source, n))
      IN  \A o \in Ops : o.op \notin Unlocked /\ Result(source, hit, o) = "ok"
                         => ~InLogic(source, hit.node)

\* A text edit of an element that has several children, elements among them,
\* keeps every element below it (updateTextContent: "preserve sibling nodes").
SiblingsKept ==
  \A n \in Elements(source) : Hybrid(source, n) =>
    Cardinality(Elements(SetText(source, n))) = Cardinality(Elements(source))

\* "A Ghost-ID uniquely identifies a JSX element in the source."  It does not:
\* what an expression holds has index 0, as its plain sibling may
\* (GhostIdsUnique.cfg).
UniqueIds ==
  \A n, m \in Injected(source) : GhostId(source, n) = GhostId(source, m) => n = m

\* LockHolds without its condition on what a {...} holds: "blocks patching
\* inside logic/dynamic blocks (Logic-Lock)".  When the path from the root
\* leads nowhere, the lookup goes on with the next element that could be a
\* root; from one inside a block it goes down without a lock
\* (GhostIdsLock.cfg).
BlocksPatching ==
  (Children(source, 0) = {1} /\ source[1].kind = "element" /\ ~source[1].bare) =>
    \A n \in Injected(source), o \in Ops :
      LET hit == Lookup(source, GhostId(source, n))
      IN  o.op \notin Unlocked /\ Result(source, hit, o) = "ok" => ~InLogic(source, hit.node)
=============================================================================
