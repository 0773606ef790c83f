---------------------------- MODULE PluginProofs ----------------------------
(***************************************************************************)
(* Proofs about the Vite plugin: Transform (how a file gets its ids), for  *)
(* every number of transforms under way, of texts, attempts, tries and     *)
(* ports, and GhostIds (the ids, their lookup and the edits), for files of *)
(* every size, depth and vocabulary.                                       *)
(***************************************************************************)
EXTENDS Transform, GhostIds, FiniteSetTheorems, SequenceTheorems, WellFoundedInduction, TLAPS

-----------------------------------------------------------------------------
(***************************************************************************)
(* Transform                                                               *)
(***************************************************************************)
Asking == {s \in Slot : job[s].at = "asking"}

\* Who asks has a text to ask about, and the failures the loader has counted
\* leave room for those that are still to come: none of them was begun after it
\* gave up.
Counted ==
  /\ \A s \in Asking : job[s].code # 0
  /\ plugin = "next" => failed + Cardinality(Asking) <= Tries + Cardinality(Slot)
  /\ plugin # "next" => failed = 0

IInv == TypeOK /\ Counted /\ KeepsAsking

JobRecord == [at : {"idle", "asking", "hung"}, code : 0 .. Texts, attempt : 0 .. Attempts]

-----------------------------------------------------------------------------
(* Counting the transforms that ask.                                       *)

LEMMA AskingFinite ==
  /\ IsFiniteSet(Asking) /\ Cardinality(Asking) \in Nat
  /\ Cardinality(Slot) \in Nat /\ Cardinality(Asking) <= Cardinality(Slot)
BY TransformAssumption, FS_Subset, FS_CardinalityType DEF Asking

\* A transform that stops asking takes one from the number that do.
LEMMA AskingEnds ==
  ASSUME TypeOK, NEW s \in Asking, job' = [job EXCEPT ![s] = Idle]
  PROVE  /\ Asking' = Asking \ {s}
         /\ Cardinality(Asking') = Cardinality(Asking) - 1
<1>1. s \in Slot /\ \A t \in Slot : job'[t] = IF t = s THEN Idle ELSE job[t]
  BY DEF Asking, TypeOK
<1>2. Asking' = Asking \ {s}
  BY <1>1 DEF Asking, Idle
<1>3. QED
  BY <1>2, AskingFinite, FS_RemoveElement

\* One that begins is one of the slots.
LEMMA AskingBegins ==
  ASSUME TypeOK, NEW s \in Slot, NEW c \in Text,
         job' = [job EXCEPT ![s] = [at |-> "asking", code |-> c, attempt |-> 1]]
  PROVE  job' \in [Slot -> JobRecord] /\ Asking' = Asking \cup {s} /\ job'[s].code # 0
<1>1. [at |-> "asking", code |-> c, attempt |-> 1] \in JobRecord
  BY TransformAssumption DEF JobRecord, Text
<1>2. job \in [Slot -> JobRecord]
  BY DEF TypeOK, JobRecord
<1>3. \A t \in Slot : job'[t] = IF t = s THEN [at |-> "asking", code |-> c, attempt |-> 1] ELSE job[t]
  BY <1>2
<1>4. QED
  BY <1>1, <1>2, <1>3 DEF Asking, Text

-----------------------------------------------------------------------------
(* Types and counts.                                                       *)

\* The answers, and the end of the attempts.
LEMMA InjectStep ==
  ASSUME TypeOK, Counted, NEW s \in Slot, job[s].at = "asking", plugin = "vite",
         NEW content \in 0 .. Texts, Inject(s, content),
         UNCHANGED <<plugin, disk, made, virtual, home, rpc, loader>>
  PROVE  TypeOK' /\ Counted'
<1>1. s \in Asking /\ job[s].code \in Text
  BY TransformAssumption DEF Asking, Counted, TypeOK, Text
<1>2. Idle \in JobRecord /\ job \in [Slot -> JobRecord]
  BY TransformAssumption DEF Idle, JobRecord, TypeOK
<1>3. job' \in [Slot -> JobRecord]
  BY <1>2 DEF Inject
<1>4. /\ cache' \in [hash : 0 .. Texts, text : 0 .. Texts] /\ registry' \subseteq Text
  <2> DEFINE text == IF content # 0 THEN content ELSE job[s].code
  <2>1. text \in Text /\ Text \subseteq 0 .. Texts
    BY <1>1, TransformAssumption DEF Text
  <2>2. /\ cache' = [hash |-> job[s].code, text |-> text]
        /\ registry' \in {{text}, registry}
    BY DEF Inject
  <2> HIDE DEF text
  <2>3. QED
    BY <1>1, <2>1, <2>2 DEF TypeOK
<1>5. TypeOK'
  BY <1>3, <1>4 DEF TypeOK, JobRecord, rpc, loader
<1>6. \A t \in Asking' : t \in Asking /\ job'[t] = job[t]
  <2>1. job' = [job EXCEPT ![s] = Idle]
    BY DEF Inject
  <2>2. Asking' = Asking \ {s}
    BY <1>1, <2>1, AskingEnds
  <2>3. QED
    BY <1>2, <2>1, <2>2 DEF Asking
<1>7. QED
  BY <1>5, <1>6 DEF Counted, loader

LEMMA TypeStep ==
  ASSUME TypeOK, Counted, [Next]_vars
  PROVE  TypeOK' /\ Counted'
<1>0. /\ job \in [Slot -> JobRecord] /\ Idle \in JobRecord
      /\ disk \in Text /\ made \in Text /\ Texts \in Nat \ {0} /\ Tries \in Nat
      /\ Text \subseteq 0 .. Texts /\ failed \in Nat
  BY TransformAssumption DEF JobRecord, Idle, TypeOK, Text
<1>1. CASE \E t \in Text : Save(t)
  <2>1. disk' \in Text /\ made' \in Text
    BY <1>0, <1>1 DEF Save
  <2>2. Asking' = Asking
    BY <1>1 DEF Save, Asking
  <2>3. QED
    BY <1>1, <2>1, <2>2 DEF Save, TypeOK, Counted, sidecar, rpc, loader
<1>2. ASSUME NEW t \in Text, Holds(t)
      PROVE  TypeOK' /\ Counted'
  <2>1. virtual' \in 0 .. Texts /\ made' \in Text /\ Asking' = Asking
    BY <1>0, <1>2 DEF Holds, Asking
  <2>2. QED
    BY <1>2, <2>1 DEF Holds, TypeOK, Counted, rpc, loader
<1>3. CASE Load \/ Stage \/ Rollback
  <2>1. made < Texts => made + 1 \in Text
    BY <1>0 DEF Text
  <2>2. QED
    BY <1>0, <1>2, <1>3, <2>1 DEF Load, Stage, Rollback
<1>4. CASE Persist
  <2>1. disk' \in Text /\ Asking' = Asking
    BY <1>0, <1>4 DEF Persist, TypeOK, Text, Asking
  <2>2. QED
    BY <1>4, <2>1 DEF Persist, TypeOK, Counted, sidecar, rpc, loader
<1>5. CASE Die \/ \E p \in 0 .. Ports - 1 : Start(p)
  <2>1. home' \in 0 .. Ports /\ virtual' \in 0 .. Texts /\ registry' \subseteq Text /\ Asking' = Asking
    <3>1. Ports \in 0 .. Ports /\ 0 .. Ports - 1 \subseteq 0 .. Ports /\ 0 \in 0 .. Texts
      BY TransformAssumption
    <3>2. QED
      BY <1>5, <3>1 DEF Die, Start, TypeOK, Asking
  <2>2. QED
    BY <1>5, <2>1 DEF Die, Start, TypeOK, Counted, rpc, loader
<1>6. CASE ConnectRpc \/ Close \/ Reconnect
  <2>1. NextPort \in 0 .. Ports - 1
    BY TransformAssumption DEF NextPort, TypeOK
  <2>2. link' \in {"connecting", "open", "waiting"} /\ port' \in 0 .. Ports - 1 /\ Asking' = Asking
    BY <1>6, <2>1 DEF ConnectRpc, Close, Reconnect, Asking, TypeOK
  <2>3. UNCHANGED <<plugin, disk, made, sidecar, job, cache, warmup, loader>>
    BY <1>6 DEF ConnectRpc, Close, Reconnect
  <2>4. QED
    BY <2>2, <2>3 DEF TypeOK, Counted, sidecar, loader
<1>7. CASE WarmupRegistry
  <2>1. registry' \subseteq Text /\ warmup' \in BOOLEAN /\ Asking' = Asking
    BY <1>0, <1>7 DEF WarmupRegistry, TypeOK, Asking
  <2>2. QED
    BY <1>7, <2>1 DEF WarmupRegistry, TypeOK, Counted, loader
<1>8. ASSUME NEW s \in Slot, Transform(s)
      PROVE  TypeOK' /\ Counted'
  <2>1. /\ UNCHANGED <<plugin, disk, made, sidecar, cache, rpc, loader>> /\ plugin = "vite"
    BY <1>8 DEF Transform
  <2>2. job' \in [Slot -> JobRecord] /\ \A t \in Asking' : job'[t].code # 0
    <3>1. CASE CacheHolds(disk)
      BY <1>0, <1>8, <3>1 DEF Transform, Counted, Asking
    <3>2. CASE ~CacheHolds(disk)
      <4>1. job' = [job EXCEPT ![s] = [at |-> "asking", code |-> disk, attempt |-> 1]]
        BY <1>8, <3>2 DEF Transform
      <4>2. \A t \in Slot : t # s => job'[t] = job[t]
        BY <1>0, <4>1
      <4>3. QED
        <5>1. job' \in [Slot -> JobRecord] /\ Asking' = Asking \cup {s} /\ job'[s].code # 0
          BY <1>0, <4>1, AskingBegins
        <5>2. \A t \in Asking : t # s => job'[t].code # 0
          BY <4>2 DEF Counted, Asking
        <5>3. QED
          BY <5>1, <5>2
    <3>3. QED
      BY <3>1, <3>2
  <2>3. QED
    BY <2>1, <2>2 DEF TypeOK, Counted, JobRecord, sidecar, rpc, loader
<1>9. ASSUME NEW s \in Slot, CutOff(s)
      PROVE  TypeOK' /\ Counted'
  <2>1. job' \in [Slot -> JobRecord] /\ \A t \in Asking' : t \in Asking /\ job'[t] = job[t]
    BY <1>0, <1>9 DEF CutOff, JobRecord, Asking
  <2>2. QED
    BY <1>9, <2>1 DEF CutOff, TypeOK, Counted, JobRecord, sidecar, rpc, loader
<1>10. ASSUME NEW s \in Slot, LoaderCalled(s)
       PROVE  TypeOK' /\ Counted'
  <2>1. /\ UNCHANGED <<plugin, disk, made, sidecar, cache, rpc, loader>> /\ plugin = "next"
    BY <1>10 DEF LoaderCalled
  <2>2. /\ job' \in [Slot -> JobRecord] /\ \A t \in Asking' : job'[t].code # 0
        /\ failed' + Cardinality(Asking') <= Tries + Cardinality(Slot)
    <3>1. CASE GivesUp
      <4>1. job' = job /\ Asking' = Asking
        BY <1>10, <3>1 DEF LoaderCalled, Asking
      <4>2. QED
        BY <1>0, <2>1, <4>1 DEF Counted, loader
    <3>2. CASE ~GivesUp
      <4>1. job' = [job EXCEPT ![s] = [at |-> "asking", code |-> disk, attempt |-> 1]]
        BY <1>10, <3>2 DEF LoaderCalled
      <4>2. \A t \in Slot : t # s => job'[t] = job[t]
        BY <1>0, <4>1
      <4>3. job' \in [Slot -> JobRecord] /\ \A t \in Asking' : job'[t].code # 0
        <5>1. job' \in [Slot -> JobRecord] /\ Asking' = Asking \cup {s} /\ job'[s].code # 0
          BY <1>0, <4>1, AskingBegins
        <5>2. \A t \in Asking : t # s => job'[t].code # 0
          BY <4>2 DEF Counted, Asking
        <5>3. QED
          BY <5>1, <5>2
      <4>4. /\ Cardinality(Asking') \in Nat /\ Cardinality(Slot) \in Nat
            /\ Cardinality(Asking') <= Cardinality(Slot)
        BY TransformAssumption, FS_Subset, FS_CardinalityType DEF Asking
      <4>5. failed' = failed /\ failed <= Tries
        BY <1>0, <2>1, <3>2 DEF GivesUp, loader
      <4>6. QED
        BY <1>0, <4>3, <4>4, <4>5
    <3>3. QED
      BY <3>1, <3>2
  <2>3. QED
    BY <2>1, <2>2 DEF TypeOK, Counted, JobRecord, sidecar, rpc, loader
<1>11. ASSUME NEW s \in Slot, Answered(s) \/ Unanswered(s)
       PROVE  TypeOK' /\ Counted'
  <2>1. CASE \E content \in 0 .. Texts : Inject(s, content)
    BY <1>0, <1>11, <2>1, InjectStep DEF Answered, Unanswered
  <2>2. CASE /\ NextAttempt(s) <= Attempts
             /\ job' = [job EXCEPT ![s].attempt = NextAttempt(s)]
             /\ UNCHANGED <<cache, registry>>
             /\ UNCHANGED <<plugin, disk, made, virtual, home, rpc, loader>>
    <3>1. NextAttempt(s) \in 0 .. Attempts
      BY <1>0, <2>2, TransformAssumption DEF NextAttempt, JobRecord
    <3>2. job' \in [Slot -> JobRecord]
      BY <1>0, <2>2, <3>1 DEF JobRecord
    <3>3. \A t \in Slot : job'[t].at = job[t].at /\ job'[t].code = job[t].code
      BY <1>0, <2>2 DEF JobRecord
    <3>4. Asking' = Asking
      BY <3>3 DEF Asking
    <3>5. Counted'
      BY <2>2, <3>3, <3>4 DEF Counted, loader, Asking
    <3>6. QED
      BY <2>2, <3>2, <3>5 DEF TypeOK, JobRecord, rpc, loader
  <2>3. QED
    BY <1>0, <1>11, <2>1, <2>2 DEF Answered, Unanswered, TypeOK
<1>12. ASSUME NEW s \in Slot, Given(s) \/ Failed(s)
       PROVE  TypeOK' /\ Counted'
  <2>1. /\ plugin = "next" /\ job[s].at = "asking" /\ job' = [job EXCEPT ![s] = Idle]
        /\ UNCHANGED <<plugin, disk, made, sidecar, cache, rpc>>
    BY <1>12 DEF Given, Failed
  <2>4. failed' \in {0, failed, failed + 1}
    BY <1>12 DEF Given, Failed, loader
  <2>5. Asking' = Asking \ {s} /\ Cardinality(Asking') = Cardinality(Asking) - 1
    BY <2>1, AskingEnds DEF Asking
  <2>6. failed' + Cardinality(Asking') <= Tries + Cardinality(Slot) /\ failed' \in 0 .. Tries + Cardinality(Slot)
    <3>1. Cardinality(Asking) \in Nat /\ Cardinality(Slot) \in Nat /\ Cardinality(Asking') \in Nat
      BY <2>5, AskingFinite, FS_RemoveElement, FS_CardinalityType
    <3>2. QED
      BY <1>0, <2>1, <2>4, <2>5, <3>1 DEF Counted
  <2>7. \A t \in Asking' : job'[t] = job[t] /\ t \in Asking
    BY <1>0, <2>1, <2>5
  <2>8. job' \in [Slot -> JobRecord]
    BY <1>0, <2>1
  <2>9. QED
    BY <2>1, <2>6, <2>7, <2>8 DEF TypeOK, Counted, JobRecord, sidecar, rpc
<1>13. CASE UNCHANGED vars
  BY <1>13 DEF vars, TypeOK, Counted, Asking, sidecar, rpc, loader
<1>14. QED
  BY <1>1, <1>3, <1>4, <1>5, <1>6, <1>7, <1>8, <1>9, <1>10, <1>11, <1>12, <1>13 DEF Next, Finish

-----------------------------------------------------------------------------
(* The loader's asking.                                                    *)

LEMMA AskingStep ==
  ASSUME KeepsAsking, [Next]_vars
  PROVE  KeepsAsking'
<1>1. ASSUME NEW s \in Slot, Given(s)
      PROVE  KeepsAsking'
  <2>1. CASE failed' = 0
    BY <2>1, TransformAssumption DEF KeepsAsking
  <2>2. CASE UNCHANGED loader
    BY <2>2 DEF KeepsAsking, loader
  <2>3. QED
    BY <1>1, <2>1, <2>2 DEF Given
<1>2. ASSUME NEW s \in Slot, Failed(s)
      PROVE  KeepsAsking'
  BY <1>2 DEF Failed, Counts, KeepsAsking
<1>3. CASE UNCHANGED loader
  BY <1>3 DEF KeepsAsking, loader
<1>4. QED
  BY <1>1, <1>2, <1>3
     DEF Next, Finish, Save, Holds, Load, Stage, Rollback, Persist, Die, Start, ConnectRpc, Close,
         Reconnect, WarmupRegistry, Transform, LoaderCalled, CutOff, Answered, Unanswered, vars

-----------------------------------------------------------------------------
(* The theorems.                                                           *)

LEMMA InitIInv == Init => IInv
<1> SUFFICES ASSUME Init
             PROVE  IInv
  OBVIOUS
<1>1. /\ 1 \in Text /\ 0 \in 0 .. Texts /\ Ports \in 0 .. Ports /\ 0 \in 0 .. Ports - 1
      /\ 0 \in 0 .. Attempts
  BY TransformAssumption DEF Text
<1>2. 0 \in 0 .. Tries + Cardinality(Slot)
  BY AskingFinite, TransformAssumption
<1>3. TypeOK
  BY <1>1, <1>2 DEF Init, TypeOK, Idle
<1>4. Asking = {}
  BY DEF Init, Asking, Idle
<1>5. Counted
  BY <1>4, AskingFinite, FS_EmptySet, TransformAssumption DEF Init, Counted
<1>6. KeepsAsking
  BY DEF Init, KeepsAsking
<1>7. QED
  BY <1>3, <1>5, <1>6 DEF IInv

LEMMA IInvStep == IInv /\ [Next]_vars => IInv'
BY TypeStep, AskingStep DEF IInv

\* Every step of Transform keeps count of the transforms that ask.
THEOREM Inductive == Spec => []IInv
BY InitIInv, IInvStep, PTL DEF Spec

\* The loader counts no more failures after it gave up than there were
\* transforms under way then (zenith-next-plugin's failedAttempts); what is
\* registered is texts of the file.
THEOREM TypeCorrect == Spec => []TypeOK
BY Inductive, PTL DEF IInv

\* Once the loader has reached the sidecar, it never stops asking it.
THEOREM LoaderKeepsAsking == Spec => []KeepsAsking
BY Inductive, PTL DEF IInv

-----------------------------------------------------------------------------
(***************************************************************************)
(* GhostIds                                                                *)
(***************************************************************************)
\* A file that is the preorder of a forest.
Tree(s) ==
  /\ s \in Seq(Node)
  /\ \A n \in DOMAIN s :
       /\ s[n].up \in Above(s, n)
       /\ Kind(s, s[n].up) # "text"
       /\ s[n].kind = "element" <=> s[n].tag \in Tag

FileInv == FileTypeOK /\ Tree(page)

-----------------------------------------------------------------------------
(* Sets of nodes.                                                          *)

LEMMA LeastOf ==
  ASSUME NEW S \in SUBSET Nat, S # {}
  PROVE  Min(S) \in S /\ \A m \in S : Min(S) <= m
<1>1. PICK n \in S : \A m \in S : ~(<<m, n>> \in OpToRel(<, Nat))
  BY NatLessThanWellFounded, WFMin
<1>2. \A m \in S : ~(m < n)
  BY <1>1 DEF OpToRel
<1>3. \A m \in S : n <= m
  BY <1>2
<1>4. QED
  BY <1>3 DEF Min

LEMMA GreatestOf ==
  ASSUME NEW S \in SUBSET Nat, S # {}, NEW b \in Nat, \A m \in S : m <= b
  PROVE  Max(S) \in S /\ \A m \in S : m <= Max(S)
<1> DEFINE T == {b - m : m \in S}
<1>1. T \in SUBSET Nat /\ T # {}
  <2>1. \A m \in S : b - m \in Nat
    OBVIOUS
  <2>2. PICK m \in S : TRUE
    OBVIOUS
  <2>3. b - m \in T
    BY <2>2
  <2>4. \A x \in T : x \in Nat
    BY <2>1
  <2>5. QED
    BY <2>3, <2>4
<1> HIDE DEF T
<1>2. Min(T) \in T /\ \A m \in T : Min(T) <= m
  BY <1>1, LeastOf
<1> USE DEF T
<1>3. PICK n \in S : Min(T) = b - n
  BY <1>2
<1>4. \A m \in S : n >= m
  <2> SUFFICES ASSUME NEW m \in S PROVE n >= m
    OBVIOUS
  <2>1. b - n <= b - m
    BY <1>2, <1>3
  <2>2. QED
    BY <2>1
<1>5. QED
  BY <1>4 DEF Max

\* How many of a set of nodes stand before a number: a place in the order of
\* the text, which no two of the set share.
Before(S, n) == {m \in S : m < n}

LEMMA Places ==
  ASSUME NEW N \in Nat, NEW S \in SUBSET (1 .. N)
  PROVE  /\ IsFiniteSet(S)
         /\ Cardinality(S) \in Nat
         /\ \A n \in Nat : IsFiniteSet(Before(S, n)) /\ Cardinality(Before(S, n)) \in Nat
         /\ \A n \in S : Cardinality(Before(S, n)) + 1 <= Cardinality(S)
         /\ \A n \in S, m \in Nat : n < m => Cardinality(Before(S, n)) < Cardinality(Before(S, m))
<1>0. S \in SUBSET Nat /\ \A n \in S : n \in Nat
  OBVIOUS
<1>1. IsFiniteSet(S) /\ Cardinality(S) \in Nat
  <2>1. IsFiniteSet(1 .. N)
    BY FS_Interval
  <2>2. QED
    BY <2>1, FS_Subset, FS_CardinalityType
<1>2. ASSUME NEW n \in Nat
      PROVE  IsFiniteSet(Before(S, n)) /\ Cardinality(Before(S, n)) \in Nat
  <2>1. Before(S, n) \in SUBSET S
    BY DEF Before
  <2>2. QED
    BY <1>1, <2>1, FS_Subset, FS_CardinalityType
<1>3. ASSUME NEW n \in S, NEW T, IsFiniteSet(T), Before(S, n) \subseteq T, n \in T
      PROVE  Cardinality(Before(S, n)) + 1 <= Cardinality(T)
  <2>0. n \in Nat /\ Cardinality(T) \in Nat
    BY <1>0, <1>3, FS_CardinalityType
  <2>1. n \notin Before(S, n)
    BY <2>0 DEF Before
  <2>2. Cardinality(Before(S, n) \cup {n}) = Cardinality(Before(S, n)) + 1
    BY <1>2, <2>0, <2>1, FS_AddElement
  <2>3. Before(S, n) \cup {n} \in SUBSET T
    BY <1>3
  <2>4. QED
    BY <1>2, <1>3, <2>0, <2>2, <2>3, FS_Subset
<1>4. \A n \in S : Cardinality(Before(S, n)) + 1 <= Cardinality(S)
  BY <1>1, <1>3 DEF Before
<1>5. ASSUME NEW n \in S, NEW m \in Nat, n < m
      PROVE  Cardinality(Before(S, n)) < Cardinality(Before(S, m))
  <2>1. Before(S, n) \subseteq Before(S, m) /\ n \in Before(S, m)
    <3>1. n \in Nat /\ \A k \in S : k \in Nat /\ (k < n => k < m)
      BY <1>0, <1>5
    <3>2. QED
      BY <1>5, <3>1 DEF Before
  <2>2. Cardinality(Before(S, n)) + 1 <= Cardinality(Before(S, m))
    BY <1>2, <1>3, <2>1
  <2>3. n \in Nat
    BY <1>0
  <2>4. QED
    BY <1>2, <2>2, <2>3
<1>6. QED
  BY <1>1, <1>2, <1>4, <1>5

\* Every place is taken.
LEMMA PlaceTaken ==
  ASSUME NEW N \in Nat, NEW S \in SUBSET (1 .. N), NEW i \in 1 .. Cardinality(S)
  PROVE  \E n \in S : Cardinality(Before(S, n)) = i - 1
<1>0. /\ Cardinality(S) \in Nat /\ i \in Nat /\ i >= 1 /\ i <= Cardinality(S) /\ IsFiniteSet(S)
      /\ \A n \in S : /\ n \in Nat /\ n <= N
                      /\ Cardinality(Before(S, n)) \in Nat /\ IsFiniteSet(Before(S, n))
  <2>1. \A n \in S : n \in Nat /\ n <= N
    OBVIOUS
  <2>2. Cardinality(S) \in Nat /\ IsFiniteSet(S)
    BY Places
  <2>3. \A n \in Nat : IsFiniteSet(Before(S, n)) /\ Cardinality(Before(S, n)) \in Nat
    BY Places
  <2>4. QED
    BY <2>1, <2>2, <2>3
\* The last of a part of S, and what stands before it.
<1>1. ASSUME NEW T \in SUBSET S, T # {}, NEW k \in Nat, \A n \in S : n \in T <=> n < k
      PROVE  \E m \in T : Cardinality(T) = Cardinality(Before(S, m)) + 1
  <2>1. T \in SUBSET Nat /\ \A m \in T : m <= N
    BY <1>0
  <2>2. Max(T) \in T /\ \A m \in T : m <= Max(T)
    BY <1>1, <2>1, GreatestOf
  <2>3. PICK m \in T : \A n \in T : n <= m
    BY <2>2
  <2>4. m \in S /\ m \in Nat /\ m < k
    BY <1>0, <1>1, <2>3
  <2>5. \A n \in S : n \in T <=> n \in Before(S, m) \/ n = m
    BY <1>0, <1>1, <2>3, <2>4 DEF Before
  <2>6. T = Before(S, m) \cup {m} /\ m \notin Before(S, m)
    <3>1. ~(m < m)
      BY <2>4
    <3>2. m \notin Before(S, m) /\ Before(S, m) \subseteq S
      BY <3>1 DEF Before
    <3>3. QED
      BY <2>3, <2>4, <2>5, <3>2
  <2>7. Cardinality(Before(S, m) \cup {m}) = Cardinality(Before(S, m)) + 1
    BY <1>0, <2>4, <2>6, FS_AddElement
  <2>8. QED
    BY <2>3, <2>6, <2>7
<1> DEFINE High == {n \in S : Cardinality(Before(S, n)) >= i - 1}
<1>2. High # {}
  <2>1. S # {}
    BY <1>0, FS_EmptySet
  <2>2. \A n \in S : n \in S <=> n < N + 1
    BY <1>0
  <2>3. PICK m \in S : Cardinality(S) = Cardinality(Before(S, m)) + 1
    BY <1>1, <2>1, <2>2
  <2>4. Cardinality(Before(S, m)) >= i - 1
    BY <1>0, <2>3
  <2>5. QED
    BY <2>4
<1>3. PICK n \in High : \A m \in High : n <= m
  <2>1. High \in SUBSET Nat
    BY <1>0
  <2> HIDE DEF High
  <2>2. QED
    BY <1>2, <2>1, LeastOf
<1>4. n \in S /\ n \in Nat /\ Cardinality(Before(S, n)) >= i - 1
  BY <1>0
<1>5. ASSUME Cardinality(Before(S, n)) # i - 1
      PROVE  FALSE
  <2>1. Cardinality(Before(S, n)) >= i
    BY <1>0, <1>4, <1>5
  <2>2. Before(S, n) # {}
    BY <1>0, <2>1, FS_EmptySet
  <2>3. Before(S, n) \in SUBSET S /\ \A m \in S : m \in Before(S, n) <=> m < n
    BY DEF Before
  <2>4. PICK p \in Before(S, n) : Cardinality(Before(S, n)) = Cardinality(Before(S, p)) + 1
    BY <1>1, <1>4, <2>2, <2>3
  <2>5. p \in S /\ p \in Nat /\ p < n /\ Cardinality(Before(S, p)) \in Nat
    BY <1>0, <2>3
  <2>6. Cardinality(Before(S, p)) >= i - 1
    BY <1>0, <2>1, <2>4, <2>5
  <2>7. n <= p
    BY <1>3, <2>5, <2>6
  <2>8. QED
    BY <1>4, <2>5, <2>7
<1>6. QED
  BY <1>4, <1>5

LEMMA InOrderOf ==
  ASSUME NEW N \in Nat, NEW S \in SUBSET (1 .. N)
  PROVE  /\ Len(InOrder(S)) = Cardinality(S) /\ Cardinality(S) \in Nat
         /\ DOMAIN InOrder(S) = 1 .. Cardinality(S)
         /\ \A i \in 1 .. Cardinality(S) :
              InOrder(S)[i] \in S /\ Cardinality(Before(S, InOrder(S)[i])) = i - 1
         /\ \A n \in S : /\ Cardinality(Before(S, n)) + 1 \in 1 .. Cardinality(S)
                         /\ InOrder(S)[Cardinality(Before(S, n)) + 1] = n
<1>1. Cardinality(S) \in Nat /\ \A n \in S : n \in Nat /\ Cardinality(Before(S, n)) \in Nat
  <2>1. \A n \in S : n \in Nat
    OBVIOUS
  <2>2. Cardinality(S) \in Nat /\ \A n \in Nat : Cardinality(Before(S, n)) \in Nat
    BY Places
  <2>3. QED
    BY <2>1, <2>2
<1>2. InOrder(S) = [i \in 1 .. Cardinality(S) |->
                      CHOOSE n \in S : Cardinality(Before(S, n)) = i - 1]
  BY DEF InOrder, Before
<1>3. ASSUME NEW i \in 1 .. Cardinality(S)
      PROVE  InOrder(S)[i] \in S /\ Cardinality(Before(S, InOrder(S)[i])) = i - 1
  <2>1. \E n \in S : Cardinality(Before(S, n)) = i - 1
    BY PlaceTaken
  <2>2. InOrder(S)[i] = CHOOSE n \in S : Cardinality(Before(S, n)) = i - 1
    BY <1>2
  <2>3. QED
    BY <2>1, <2>2
<1>4. Len(InOrder(S)) = Cardinality(S)
  <2>1. InOrder(S) \in [1 .. Cardinality(S) -> S]
    BY <1>2, <1>3
  <2>2. InOrder(S) \in Seq(S)
    BY <1>1, <2>1
  <2>3. QED
    BY <1>1, <2>1, <2>2
<1>5. ASSUME NEW n \in S
      PROVE  /\ Cardinality(Before(S, n)) + 1 \in 1 .. Cardinality(S)
             /\ InOrder(S)[Cardinality(Before(S, n)) + 1] = n
  <2>1. Cardinality(Before(S, n)) + 1 <= Cardinality(S)
    BY Places
  <2>2. Cardinality(Before(S, n)) + 1 \in 1 .. Cardinality(S)
    BY <1>1, <2>1
  <2> DEFINE m == InOrder(S)[Cardinality(Before(S, n)) + 1]
  <2>3. m \in S /\ Cardinality(Before(S, m)) = (Cardinality(Before(S, n)) + 1) - 1
    BY <1>3, <2>2
  <2> HIDE DEF m
  <2>4. m \in Nat /\ n \in Nat
    BY <1>1, <2>3
  <2>5. ~(m < n) /\ ~(n < m)
    <3>1. m < n => Cardinality(Before(S, m)) < Cardinality(Before(S, n))
      BY <2>3, <2>4, Places
    <3>2. n < m => Cardinality(Before(S, n)) < Cardinality(Before(S, m))
      BY <2>3, <2>4, Places
    <3>3. QED
      BY <1>1, <2>3, <3>1, <3>2
  <2>6. m = n
    BY <2>4, <2>5
  <2>7. QED
    BY <2>2, <2>6 DEF m
<1>6. QED
  BY <1>1, <1>2, <1>3, <1>4, <1>5

-----------------------------------------------------------------------------
(* Trees.                                                                  *)

LEMMA TreeNode ==
  ASSUME NEW s, Tree(s)
  PROVE  /\ Len(s) \in Nat /\ DOMAIN s = 1 .. Len(s)
         /\ \A n \in 1 .. Len(s) : /\ s[n] \in Node /\ s[n].up \in Nat /\ s[n].up < n
                                   /\ \A k \in s[n].up + 1 .. n : s[k].up >= s[n].up
<1>1. s \in Seq(Node)
  BY DEF Tree
<1>2. Len(s) \in Nat /\ DOMAIN s = 1 .. Len(s)
  BY <1>1
<1>3. ASSUME NEW n \in 1 .. Len(s)
      PROVE  /\ s[n] \in Node /\ s[n].up \in Nat /\ s[n].up < n
             /\ \A k \in s[n].up + 1 .. n : s[k].up >= s[n].up
  <2>1. s[n] \in Node
    BY <1>1, <1>2
  <2>2. s[n].up \in Nat
    BY <2>1 DEF Node
  <2>3. s[n].up \in Above(s, n)
    BY <1>2 DEF Tree
  <2>4. QED
    BY <1>2, <2>1, <2>2, <2>3 DEF Above
<1>4. QED
  BY <1>2, <1>3

LEMMA AboveMember ==
  ASSUME NEW s, NEW n, NEW m
  PROVE  m \in Above(s, n) <=> m \in 0 .. n - 1 /\ \A k \in m + 1 .. n : s[k].up >= m
BY DEF Above

\* What is above a node above n is above n, and the other way round for what
\* is above n and before that node.
LEMMA AboveChain ==
  ASSUME NEW s, Tree(s), NEW n \in 1 .. Len(s), NEW m \in Above(s, n)
  PROVE  /\ m \in Nat /\ m < n
         /\ 0 \in Above(s, n)
         /\ \A k \in Above(s, m) : k \in Above(s, n) /\ k < m
         /\ \A k \in Above(s, n) : k < m => k \in Above(s, m)
         /\ s[m + 1].up = m /\ m + 1 \in 1 .. Len(s)
         /\ Kind(s, m) # "text"
<1>1. /\ Len(s) \in Nat /\ DOMAIN s = 1 .. Len(s)
      /\ \A k \in 1 .. Len(s) : s[k].up \in Nat /\ s[k].up < k
  BY TreeNode
<1>2. m \in Nat /\ m < n /\ n \in Nat /\ \A k \in m + 1 .. n : s[k].up >= m
  BY <1>1, AboveMember
<1>3. 0 \in Above(s, n)
  <2>1. \A k \in 0 + 1 .. n : k \in 1 .. Len(s)
    BY <1>1
  <2>2. \A k \in 0 + 1 .. n : s[k].up >= 0
    BY <1>1, <2>1
  <2>3. 0 \in 0 .. n - 1
    BY <1>1
  <2>4. QED
    BY <2>2, <2>3, AboveMember
<1>4. ASSUME NEW k \in Above(s, m)
      PROVE  k \in Above(s, n) /\ k < m
  <2>1. k \in 0 .. m - 1 /\ \A l \in k + 1 .. m : s[l].up >= k
    BY AboveMember
  <2>2. ASSUME NEW l \in k + 1 .. n
        PROVE  s[l].up >= k
    <3>1. CASE l <= m
      BY <1>2, <2>1, <3>1
    <3>2. CASE l > m
      <4>1. l \in m + 1 .. n /\ l \in 1 .. Len(s)
        BY <1>1, <1>2, <2>1, <3>2
      <4>2. s[l].up >= m /\ s[l].up \in Nat
        BY <1>1, <1>2, <4>1
      <4>3. QED
        BY <1>2, <2>1, <4>2
    <3>3. QED
      BY <1>2, <2>1, <3>1, <3>2
  <2>3. k \in 0 .. n - 1 /\ k < m
    BY <1>2, <2>1
  <2>4. QED
    BY <2>2, <2>3, AboveMember
<1>5. ASSUME NEW k \in Above(s, n), k < m
      PROVE  k \in Above(s, m)
  <2>1. k \in 0 .. n - 1 /\ \A l \in k + 1 .. n : s[l].up >= k
    BY AboveMember
  <2>2. k \in 0 .. m - 1 /\ \A l \in k + 1 .. m : l \in k + 1 .. n
    BY <1>2, <1>5, <2>1
  <2>3. QED
    BY <2>1, <2>2, AboveMember
<1>6. s[m + 1].up = m /\ m + 1 \in 1 .. Len(s)
  <2>1. m + 1 \in m + 1 .. n /\ m + 1 \in 1 .. Len(s)
    BY <1>1, <1>2
  <2>2. s[m + 1].up >= m /\ s[m + 1].up \in Nat /\ s[m + 1].up < m + 1
    BY <1>1, <1>2, <2>1
  <2>3. QED
    BY <1>2, <2>1, <2>2
<1>7. Kind(s, m) # "text"
  BY <1>1, <1>6 DEF Tree
<1>8. QED
  BY <1>2, <1>3, <1>4, <1>5, <1>6, <1>7

LEMMA AboveParent ==
  ASSUME NEW s, Tree(s), NEW n \in 1 .. Len(s)
  PROVE  /\ s[n].up \in Above(s, n)
         /\ \A m \in Above(s, n) : m <= s[n].up
         /\ Above(s, n) \subseteq 0 .. Len(s)
         /\ Above(s, n) = Above(s, s[n].up) \cup {s[n].up}
<1>1. /\ Len(s) \in Nat /\ DOMAIN s = 1 .. Len(s)
      /\ s[n].up \in Nat /\ s[n].up < n
  BY TreeNode
<1>2. s[n].up \in Above(s, n)
  BY <1>1 DEF Tree
<1>3. ASSUME NEW m \in Above(s, n)
      PROVE  m \in 0 .. Len(s) /\ m <= s[n].up
  <2>1. m \in 0 .. n - 1 /\ \A k \in m + 1 .. n : s[k].up >= m
    BY AboveMember
  <2>2. n \in m + 1 .. n /\ m \in 0 .. Len(s)
    BY <1>1, <2>1
  <2>3. QED
    BY <1>1, <2>1, <2>2
<1>4. \A m \in Above(s, s[n].up) : m \in Above(s, n)
  BY <1>2, AboveChain
<1>5. ASSUME NEW m \in Above(s, n), m # s[n].up
      PROVE  m \in Above(s, s[n].up)
  <2>1. m < s[n].up
    BY <1>1, <1>3, <1>5
  <2>2. QED
    BY <1>2, <2>1, AboveChain
<1>6. QED
  BY <1>2, <1>3, <1>4, <1>5

\* The nearest node above that is not passed through.
LEMMA NearestOf ==
  ASSUME NEW s, Tree(s), NEW n \in 1 .. Len(s), NEW through, None \notin through
  PROVE  LET q == Nearest(s, n, through)
         IN  /\ q \in Above(s, n) /\ Kind(s, q) \notin through
             /\ \A m \in Above(s, n) : Kind(s, m) \notin through => m <= q
<1> DEFINE T == {m \in Above(s, n) : Kind(s, m) \notin through}
<1>1. Len(s) \in Nat
  BY TreeNode
<1>2. T \in SUBSET Nat /\ \A m \in T : m <= Len(s)
  <2>1. Above(s, n) \subseteq 0 .. Len(s)
    BY AboveParent
  <2>2. QED
    BY <1>1, <2>1
<1>3. 0 \in T
  <2>1. 0 \in Above(s, n)
    BY AboveParent, AboveChain
  <2>2. Kind(s, 0) = None
    BY DEF Kind
  <2>3. QED
    BY <2>1, <2>2
<1> HIDE DEF T
<1>4. Max(T) \in T /\ \A m \in T : m <= Max(T)
  BY <1>1, <1>2, <1>3, GreatestOf
<1>5. Nearest(s, n, through) = Max(T)
  BY DEF Nearest, T
<1>6. QED
  BY <1>4, <1>5 DEF T

\* The elements an id names: those above n, and n.
Path(s, n) == (Above(s, n) \cap Elements(s)) \cup {n}

LEMMA ElementsOf ==
  ASSUME NEW s, Tree(s)
  PROVE  /\ Elements(s) \in SUBSET (1 .. Len(s)) /\ Len(s) \in Nat
         /\ \A n \in 1 .. Len(s) : n \in Elements(s) <=> s[n].kind = "element"
         /\ \A n \in Elements(s) : n \in Nat /\ n # 0 /\ Kind(s, n) = "element" /\ s[n].tag \in Tag
<1>1. Len(s) \in Nat /\ DOMAIN s = 1 .. Len(s)
  BY TreeNode
<1>2. /\ Elements(s) \in SUBSET (1 .. Len(s))
      /\ \A n \in 1 .. Len(s) : n \in Elements(s) <=> s[n].kind = "element"
  BY <1>1 DEF Elements, Nodes
<1>3. ASSUME NEW n \in Elements(s)
      PROVE  n \in Nat /\ n # 0 /\ Kind(s, n) = "element" /\ s[n].tag \in Tag
  <2>1. n \in 1 .. Len(s) /\ s[n].kind = "element"
    BY <1>2
  <2>2. n \in Nat /\ n # 0
    BY <1>1, <2>1
  <2>3. s[n].tag \in Tag
    BY <1>1, <2>1 DEF Tree
  <2>4. QED
    BY <2>1, <2>2, <2>3 DEF Kind
<1>4. QED
  BY <1>1, <1>2, <1>3

LEMMA PathOf ==
  ASSUME NEW s, Tree(s), NEW n \in Elements(s)
  PROVE  LET P    == Path(s, n)
             path == InOrder(P)
         IN  /\ P \in SUBSET (1 .. Len(s)) /\ P \subseteq Elements(s)
             /\ Cardinality(P) \in Nat /\ Cardinality(P) >= 1
             /\ path[Cardinality(P)] = n
             /\ \A m \in P : Before(P, m) = Above(s, m) \cap Elements(s)
             /\ GhostId(s, n) = [i \in 1 .. Cardinality(P) |-> Part(s, path[i])]
<1> DEFINE P == Path(s, n)
<1>0. /\ Len(s) \in Nat /\ Elements(s) \in SUBSET (1 .. Len(s)) /\ n \in 1 .. Len(s) /\ n \in Nat
  BY ElementsOf
<1>1. P \in SUBSET (1 .. Len(s)) /\ P \subseteq Elements(s) /\ n \in P
  BY <1>0 DEF Path
<1>2. \A m \in P : m \in Elements(s) /\ m \in 1 .. Len(s) /\ m \in Nat /\ (m = n \/ m \in Above(s, n))
  BY <1>0, <1>1 DEF Path
<1>3. ASSUME NEW m \in P, NEW k
      PROVE  k \in Before(P, m) <=> k \in Above(s, m) \cap Elements(s)
  <2>1. CASE m = n
    <3>1. \A l \in Above(s, n) : l < n
      BY <1>0, AboveChain
    <3>2. ~(n < n)
      BY <1>0
    <3>3. QED
      BY <2>1, <3>1, <3>2 DEF Before, Path
  <2>2. CASE m \in Above(s, n)
    <3>1. ASSUME k \in Before(P, m)
          PROVE  k \in Above(s, m) \cap Elements(s)
      <4>1. k \in P /\ k < m
        BY <3>1 DEF Before
      <4>2. k # n
        <5>1. m < n /\ m \in Nat
          BY <1>0, <2>2, AboveChain
        <5>2. QED
          BY <1>0, <4>1, <5>1
      <4>3. k \in Above(s, n) /\ k \in Elements(s)
        BY <1>2, <4>1, <4>2
      <4>4. QED
        BY <1>0, <2>2, <4>1, <4>3, AboveChain
    <3>2. ASSUME k \in Above(s, m) \cap Elements(s)
          PROVE  k \in Before(P, m)
      <4>1. k \in Above(s, n) /\ k < m
        BY <1>0, <2>2, <3>2, AboveChain
      <4>2. k \in P
        BY <3>2, <4>1 DEF Path
      <4>3. QED
        BY <4>1, <4>2 DEF Before
    <3>3. QED
      BY <3>1, <3>2
  <2>3. QED
    BY <1>2, <2>1, <2>2
<1>4. \A m \in P : Before(P, m) = Above(s, m) \cap Elements(s)
  BY <1>3
<1>5. Cardinality(P) = Cardinality(Before(P, n)) + 1
  <2>1. P = Before(P, n) \cup {n}
    BY <1>1, <1>4 DEF Path
  <2>2. n \notin Before(P, n)
    <3>1. ~(n < n)
      BY <1>0
    <3>2. QED
      BY <3>1 DEF Before
  <2>3. IsFiniteSet(Before(P, n))
    <3> HIDE DEF P
    <3>1. QED
      BY <1>0, <1>1, Places
  <2>4. QED
    BY <2>1, <2>2, <2>3, FS_AddElement
<1>6. /\ Cardinality(P) \in Nat /\ Cardinality(P) >= 1
      /\ InOrder(P)[Cardinality(P)] = n
      /\ DOMAIN InOrder(P) = 1 .. Cardinality(P)
  <2> HIDE DEF P
  <2>1. /\ Cardinality(P) \in Nat
        /\ DOMAIN InOrder(P) = 1 .. Cardinality(P)
        /\ Cardinality(Before(P, n)) + 1 \in 1 .. Cardinality(P)
        /\ InOrder(P)[Cardinality(Before(P, n)) + 1] = n
    BY <1>0, <1>1, InOrderOf
  <2>2. QED
    BY <1>5, <2>1
<1>7. GhostId(s, n) = [i \in 1 .. Cardinality(P) |-> Part(s, InOrder(P)[i])]
  BY <1>6 DEF GhostId, Path
<1>8. QED
  BY <1>1, <1>4, <1>6, <1>7

-----------------------------------------------------------------------------
(* The lookup: matchPath is defined for every number of parts.             *)

Body(s, id, f, m) ==
  IF m = 0 THEN [at \in Hits(s) |-> at]
  ELSE [at \in Hits(s) |-> Matched(s, id, Len(id) + 1 - m, at, f[m - 1])]

UpTo(s, id, f, n) == \A m \in 0 .. n : f[m] = Body(s, id, f, m)

LEMMA BodyLocal ==
  ASSUME NEW s, NEW id, NEW f, NEW g, NEW m \in Nat, m = 0 \/ f[m - 1] = g[m - 1]
  PROVE  Body(s, id, f, m) = Body(s, id, g, m)
BY DEF Body

LEMMA SomeUpTo ==
  ASSUME NEW s, NEW id, NEW n \in Nat
  PROVE  \E f : UpTo(s, id, f, n)
<1> DEFINE Bad == {m \in Nat : ~\E f : UpTo(s, id, f, m)}
<1>1. SUFFICES ASSUME Bad # {} PROVE FALSE
  OBVIOUS
<1>2. PICK b \in Bad : \A m \in Bad : b <= m
  <2>1. Bad \in SUBSET Nat
    OBVIOUS
  <2> HIDE DEF Bad
  <2>2. QED
    BY <1>1, <2>1, LeastOf
<1>3. b \in Nat /\ ~\E f : UpTo(s, id, f, b)
  OBVIOUS
<1>4. CASE b = 0
  <2> DEFINE f == [m \in {0} |-> [at \in Hits(s) |-> at]]
  <2>1. f[0] = Body(s, id, f, 0)
    BY DEF Body
  <2>2. UpTo(s, id, f, 0)
    <3> HIDE DEF f
    <3>1. QED
      BY <2>1 DEF UpTo
  <2>3. QED
    BY <1>3, <1>4, <2>2
<1>5. CASE b # 0
  <2>1. b - 1 \in Nat /\ b - 1 \notin Bad
    BY <1>2, <1>3, <1>5
  <2>2. PICK g : UpTo(s, id, g, b - 1)
    BY <2>1
  <2> DEFINE f == [m \in 0 .. b |-> IF m = b THEN Body(s, id, g, b) ELSE g[m]]
  <2>3. \A m \in 0 .. b : f[m] = IF m = b THEN Body(s, id, g, b) ELSE g[m]
    OBVIOUS
  <2> HIDE DEF f
  <2>4. ASSUME NEW m \in 0 .. b
        PROVE  f[m] = Body(s, id, f, m)
    <3>1. m = 0 \/ f[m - 1] = g[m - 1]
      <4>1. ASSUME m # 0
            PROVE  m - 1 \in 0 .. b /\ m - 1 # b
        BY <1>3, <4>1
      <4>2. QED
        BY <2>3, <4>1
    <3>2. Body(s, id, f, m) = Body(s, id, g, m)
      BY <1>3, <3>1, BodyLocal
    <3>3. CASE m = b
      BY <2>3, <3>2, <3>3
    <3>4. CASE m # b
      <4>1. m \in 0 .. b - 1
        BY <1>3, <3>4
      <4>2. g[m] = Body(s, id, g, m)
        BY <2>2, <4>1 DEF UpTo
      <4>3. QED
        BY <2>3, <3>2, <3>4, <4>2
    <3>5. QED
      BY <3>3, <3>4
  <2>5. UpTo(s, id, f, b)
    BY <2>4 DEF UpTo
  <2>6. QED
    BY <1>3, <2>5
<1>6. QED
  BY <1>4, <1>5

LEMMA UpToUnique ==
  ASSUME NEW s, NEW id, NEW f, NEW g, NEW n \in Nat, NEW k \in Nat,
         UpTo(s, id, f, n), UpTo(s, id, g, k), NEW m \in Nat, m <= n, m <= k
  PROVE  f[m] = g[m]
<1> DEFINE Bad == {l \in 0 .. m : f[l] # g[l]}
<1>1. SUFFICES ASSUME Bad # {} PROVE FALSE
  OBVIOUS
<1>2. PICK b \in Bad : \A l \in Bad : b <= l
  <2>1. Bad \in SUBSET Nat
    OBVIOUS
  <2> HIDE DEF Bad
  <2>2. QED
    BY <1>1, <2>1, LeastOf
<1>3. b \in 0 .. n /\ b \in 0 .. k /\ b \in 0 .. m /\ b \in Nat /\ f[b] # g[b]
  OBVIOUS
<1>4. b = 0 \/ f[b - 1] = g[b - 1]
  <2>1. ASSUME b # 0
        PROVE  b - 1 \in 0 .. m /\ ~(b <= b - 1)
    BY <1>3, <2>1
  <2>2. QED
    BY <1>2, <2>1
<1>5. Body(s, id, f, b) = Body(s, id, g, b)
  BY <1>3, <1>4, BodyLocal
<1>6. QED
  BY <1>3, <1>5 DEF UpTo

LEMMA MatchDef ==
  ASSUME NEW s, NEW id
  PROVE  /\ \A at \in Hits(s) : Match(s, id, 0)[at] = at
         /\ \A m \in Nat \ {0}, at \in Hits(s) :
              Match(s, id, m)[at] = Matched(s, id, Len(id) + 1 - m, at, Match(s, id, m - 1))
<1> DEFINE Is(f) == f = [m \in Nat |-> Body(s, id, f, m)]
           u(n) == CHOOSE f : UpTo(s, id, f, n)
           g == [n \in Nat |-> u(n)[n]]
<1>1. \A n \in Nat : UpTo(s, id, u(n), n)
  BY SomeUpTo
<1>2. ASSUME NEW m \in Nat
      PROVE  g[m] = Body(s, id, g, m)
  <2>1. g[m] = u(m)[m] /\ UpTo(s, id, u(m), m)
    BY <1>1
  <2>2. u(m)[m] = Body(s, id, u(m), m)
    <3> HIDE DEF u, g
    <3>1. QED
      BY <2>1 DEF UpTo
  <2>3. m = 0 \/ u(m)[m - 1] = g[m - 1]
    <3>1. ASSUME m # 0
          PROVE  u(m)[m - 1] = g[m - 1]
      <4>1. m - 1 \in Nat /\ m - 1 <= m /\ m - 1 <= m - 1
        BY <3>1
      <4>2. g[m - 1] = u(m - 1)[m - 1] /\ UpTo(s, id, u(m - 1), m - 1)
        BY <1>1, <4>1
      <4> HIDE DEF u, g
      <4>3. QED
        BY <2>1, <4>1, <4>2, UpToUnique
    <3>2. QED
      BY <3>1
  <2>4. QED
    <3> HIDE DEF u, g
    <3>1. QED
      BY <2>1, <2>2, <2>3, BodyLocal
<1>3. Is(g)
  <2>1. g = [m \in Nat |-> g[m]]
    OBVIOUS
  <2> HIDE DEF g
  <2>2. QED
    BY <1>2, <2>1
<1> DEFINE h == CHOOSE f : Is(f)
<1>4. Is(h)
  <2> HIDE DEF g, Is
  <2>1. QED
    BY <1>3
<1>5. \A m : Match(s, id, m) = h[m]
  BY DEF Match, Body
<1> HIDE DEF h
<1>6. \A m \in Nat : h[m] = Body(s, id, h, m)
  BY <1>4
<1>7. h[0] = [at \in Hits(s) |-> at]
  BY <1>6 DEF Body
<1>8. ASSUME NEW m \in Nat \ {0}
      PROVE  h[m] = [at \in Hits(s) |-> Matched(s, id, Len(id) + 1 - m, at, h[m - 1])]
  BY <1>6 DEF Body
<1>9. ASSUME NEW m \in Nat \ {0}, NEW at \in Hits(s)
      PROVE  Match(s, id, m)[at] = Matched(s, id, Len(id) + 1 - m, at, Match(s, id, m - 1))
  <2>1. Match(s, id, m) = h[m] /\ Match(s, id, m - 1) = h[m - 1]
    BY <1>5
  <2>2. QED
    BY <1>8, <2>1, ZenonT(30)
<1>10. \A at \in Hits(s) : Match(s, id, 0)[at] = at
  BY <1>5, <1>7
<1>11. QED
  BY <1>9, <1>10

-----------------------------------------------------------------------------
(* The lookup: what its hits have in common.                               *)

\* A set of hits that no step down leaves.
Closed(s, id, G) ==
  /\ G \subseteq Hits(s)
  /\ \A at \in G, k \in 1 .. Len(id) :
       LET reached == Reached(s, at.node)
           same    == SameTag(s, at.node, id[k].tag)
       IN  /\ \A p \in Tried(s, reached, id[k].idx) : HitBelow(s, at, reached[p]) \in G
           /\ id[k].idx < Len(same) => Hit(same[id[k].idx + 1], at.locked, "bare") \in G

\* An id as the page has them.
IsId(id) == Len(id) \in Nat /\ Len(id) >= 1 /\ \A k \in 1 .. Len(id) : id[k].idx \in Nat

LEMMA MatchedKeeps ==
  ASSUME NEW s, NEW id, IsId(id), NEW G, Closed(s, id, G), NEW k \in 1 .. Len(id),
         NEW at \in G, NEW rest, \A x \in G : rest[x] \in G \cup {NoHit}
  PROVE  Matched(s, id, k, at, rest) \in G \cup {NoHit}
<1> DEFINE reached == Reached(s, at.node)
           same    == SameTag(s, at.node, id[k].tag)
           good    == {p \in Tried(s, reached, id[k].idx) :
                         rest[HitBelow(s, at, reached[p])] # NoHit}
<1>1. /\ \A p \in Tried(s, reached, id[k].idx) : HitBelow(s, at, reached[p]) \in G
      /\ id[k].idx < Len(same) => Hit(same[id[k].idx + 1], at.locked, "bare") \in G
  BY DEF Closed
<1>2. good \in SUBSET Nat
  BY DEF Tried, IsId
<1>3. ASSUME good # {}
      PROVE  Min(good) \in Tried(s, reached, id[k].idx)
  <2>1. Min(good) \in good
    <3> HIDE DEF good
    <3>1. QED
      BY <1>2, <1>3, LeastOf
  <2>2. QED
    BY <2>1
<1>4. Matched(s, id, k, at, rest) =
        CASE id[k].tag \in Dotted -> NoHit
          [] id[k].tag \notin Dotted /\ good # {} -> rest[HitBelow(s, at, reached[Min(good)])]
          [] OTHER -> IF id[k].idx < Len(same)
                      THEN rest[Hit(same[id[k].idx + 1], at.locked, "bare")]
                      ELSE NoHit
  BY DEF Matched
<1> HIDE DEF reached, same, good
<1>5. CASE id[k].tag \in Dotted
  BY <1>4, <1>5
<1>6. CASE id[k].tag \notin Dotted /\ good # {}
  BY <1>1, <1>3, <1>4, <1>6
<1>7. CASE id[k].tag \notin Dotted /\ good = {}
  BY <1>1, <1>4, <1>7
<1>8. QED
  BY <1>5, <1>6, <1>7

LEMMA MatchKeeps ==
  ASSUME NEW s, NEW id, IsId(id), NEW G, Closed(s, id, G), NEW n \in 0 .. Len(id)
  PROVE  \A at \in G : Match(s, id, n)[at] \in G \cup {NoHit}
<1> DEFINE Bad == {m \in 0 .. Len(id) : ~\A at \in G : Match(s, id, m)[at] \in G \cup {NoHit}}
<1>0. Len(id) \in Nat /\ G \subseteq Hits(s)
  BY DEF IsId, Closed
<1>1. SUFFICES ASSUME Bad # {} PROVE FALSE
  OBVIOUS
<1>2. PICK b \in Bad : \A m \in Bad : b <= m
  <2>1. Bad \in SUBSET Nat
    BY <1>0
  <2> HIDE DEF Bad
  <2>2. QED
    BY <1>1, <2>1, LeastOf
<1>3. b \in 0 .. Len(id) /\ ~\A at \in G : Match(s, id, b)[at] \in G \cup {NoHit}
  OBVIOUS
<1>4. CASE b = 0
  <2>1. \A at \in G : Match(s, id, 0)[at] = at
    BY <1>0, MatchDef
  <2>2. QED
    BY <1>3, <1>4, <2>1
<1>5. CASE b # 0
  <2>1. b \in Nat \ {0} /\ b - 1 \in 0 .. Len(id) /\ ~(b <= b - 1)
    BY <1>0, <1>3, <1>5
  <2>2. \A x \in G : Match(s, id, b - 1)[x] \in G \cup {NoHit}
    BY <1>2, <2>1
  <2>3. ASSUME NEW at \in G
        PROVE  Match(s, id, b)[at] \in G \cup {NoHit}
    <3>1. Match(s, id, b)[at] = Matched(s, id, Len(id) + 1 - b, at, Match(s, id, b - 1))
      <4>1. at \in Hits(s)
        BY <1>0
      <4>2. QED
        BY <2>1, <4>1, MatchDef
    <3>2. Len(id) + 1 - b \in 1 .. Len(id)
      BY <1>0, <1>3, <2>1
    <3>3. QED
      BY <2>2, <3>1, <3>2, MatchedKeeps
  <2>4. QED
    BY <1>3, <2>3
<1>6. QED
  BY <1>4, <1>5

LEMMA LookupKeeps ==
  ASSUME NEW s, Tree(s), NEW id, IsId(id), NEW G, Closed(s, id, G),
         \A n \in Roots(s, id[1]) : Hit(n, FALSE, "path") \in G
  PROVE  Lookup(s, id) \in G \cup {NoHit}
<1> DEFINE hit(n) == Match(s, id, Len(id) - 1)[Hit(n, FALSE, "path")]
           good   == {n \in Roots(s, id[1]) : hit(n) # NoHit}
<1>1. Lookup(s, id) = IF good = {} THEN NoHit ELSE hit(Min(good))
  BY DEF Lookup
<1>2. ASSUME good # {}
      PROVE  Min(good) \in Roots(s, id[1])
  <2>1. good \in SUBSET Nat
    BY ElementsOf DEF Roots
  <2>2. Min(good) \in good
    <3> HIDE DEF good
    <3>1. QED
      BY <1>2, <2>1, LeastOf
  <2>3. QED
    BY <2>2
<1>3. \A n \in Roots(s, id[1]) : hit(n) \in G \cup {NoHit}
  <2>1. Len(id) - 1 \in 0 .. Len(id)
    BY DEF IsId
  <2>2. QED
    BY <2>1, MatchKeeps
<1> HIDE DEF hit, good
<1>4. QED
  BY <1>1, <1>2, <1>3

\* Elements reached from an element, and its children with a tag.
LEMMA ReachedOf ==
  ASSUME NEW s, Tree(s), NEW n
  PROVE  /\ Len(Reached(s, n)) \in Nat
         /\ \A p \in 1 .. Len(Reached(s, n)) :
              /\ Reached(s, n)[p] \in Elements(s)
              /\ Nearest(s, Reached(s, n)[p], {"fragment", "expr"}) = n
<1> DEFINE S == {m \in Elements(s) : Nearest(s, m, {"fragment", "expr"}) = n}
<1>1. Len(s) \in Nat /\ S \in SUBSET (1 .. Len(s)) /\ Reached(s, n) = InOrder(S)
  BY ElementsOf DEF Reached
<1>2. /\ Len(InOrder(S)) = Cardinality(S) /\ Cardinality(S) \in Nat
      /\ \A p \in 1 .. Cardinality(S) : InOrder(S)[p] \in S
  <2> HIDE DEF S
  <2>1. QED
    BY <1>1, InOrderOf
<1>3. QED
  BY <1>1, <1>2

LEMMA SameTagOf ==
  ASSUME NEW s, Tree(s), NEW n, NEW tag
  PROVE  /\ Len(SameTag(s, n, tag)) \in Nat
         /\ \A p \in 1 .. Len(SameTag(s, n, tag)) :
              /\ SameTag(s, n, tag)[p] \in Elements(s)
              /\ s[SameTag(s, n, tag)[p]].up = n
<1> DEFINE S == {m \in Children(s, n) \cap Elements(s) : s[m].tag = tag}
<1>1. Len(s) \in Nat /\ S \in SUBSET (1 .. Len(s)) /\ SameTag(s, n, tag) = InOrder(S)
  BY ElementsOf DEF SameTag
<1>2. /\ Len(InOrder(S)) = Cardinality(S) /\ Cardinality(S) \in Nat
      /\ \A p \in 1 .. Cardinality(S) : InOrder(S)[p] \in S
  <2> HIDE DEF S
  <2>1. QED
    BY <1>1, InOrderOf
<1>3. QED
  BY <1>1, <1>2 DEF Children

LEMMA HitsClosed ==
  ASSUME NEW s, Tree(s), NEW id, IsId(id)
  PROVE  Closed(s, id, Hits(s))
<1>1. ASSUME NEW at \in Hits(s), NEW k \in 1 .. Len(id),
             NEW p \in Tried(s, Reached(s, at.node), id[k].idx)
      PROVE  HitBelow(s, at, Reached(s, at.node)[p]) \in Hits(s)
  <2>1. p \in 1 .. Len(Reached(s, at.node))
    BY ReachedOf DEF Tried, IsId
  <2>2. Reached(s, at.node)[p] \in Elements(s)
    BY <2>1, ReachedOf
  <2>3. QED
    BY <2>2 DEF HitBelow, Hit, Hits
<1>2. ASSUME NEW at \in Hits(s), NEW k \in 1 .. Len(id),
             id[k].idx < Len(SameTag(s, at.node, id[k].tag))
      PROVE  Hit(SameTag(s, at.node, id[k].tag)[id[k].idx + 1], at.locked, "bare") \in Hits(s)
  <2>1. id[k].idx + 1 \in 1 .. Len(SameTag(s, at.node, id[k].tag))
    BY <1>2, SameTagOf DEF IsId
  <2>2. SameTag(s, at.node, id[k].tag)[id[k].idx + 1] \in Elements(s)
    BY <2>1, SameTagOf
  <2>3. at.locked \in BOOLEAN
    BY DEF Hits
  <2>4. QED
    BY <2>2, <2>3 DEF Hit, Hits
<1>3. QED
  BY <1>1, <1>2 DEF Closed

LEMMA IndexIsNat ==
  ASSUME NEW s, Tree(s), NEW n \in Elements(s)
  PROVE  IndexOf(s, n) \in Nat
<1>1. n \in 1 .. Len(s) /\ Len(s) \in Nat
  BY ElementsOf
<1>2. s[n].branch \in Nat
  BY <1>1, TreeNode DEF Node
<1> DEFINE S == {m \in Elements(s) : m < n /\ Nearest(s, m, {"fragment"}) = Nearest(s, n, {"fragment"})}
<1>3. Cardinality(S) \in Nat
  <2>1. S \in SUBSET (1 .. Len(s))
    BY ElementsOf
  <2> HIDE DEF S
  <2>2. QED
    BY <1>1, <2>1, Places
<1>4. IndexOf(s, n) \in {0, s[n].branch, Cardinality(S)}
  <2>1. CASE s[n].up = 0
    BY <2>1 DEF IndexOf
  <2>2. CASE s[n].up # 0
    BY <2>2 DEF IndexOf
  <2>3. QED
    BY <2>1, <2>2
<1>5. QED
  BY <1>2, <1>3, <1>4

LEMMA FunctionIsSeq ==
  ASSUME NEW T, NEW N \in Nat, NEW f \in [1 .. N -> T]
  PROVE  f \in Seq(T) /\ Len(f) = N
OBVIOUS

LEMMA GhostIdIsId ==
  ASSUME NEW s, Tree(s), NEW n \in Elements(s)
  PROVE  /\ IsId(GhostId(s, n))
         /\ Len(GhostId(s, n)) = Cardinality(Path(s, n))
         /\ \A k \in 1 .. Len(GhostId(s, n)) : GhostId(s, n)[k] = Part(s, InOrder(Path(s, n))[k])
<1> DEFINE P == Path(s, n)
           id == GhostId(s, n)
<1>1. /\ P \in SUBSET (1 .. Len(s)) /\ P \subseteq Elements(s) /\ Len(s) \in Nat
      /\ Cardinality(P) \in Nat /\ Cardinality(P) >= 1
      /\ id = [k \in 1 .. Cardinality(P) |-> Part(s, InOrder(P)[k])]
  BY PathOf, ElementsOf
<1> HIDE DEF id
<1>2. \A k \in 1 .. Cardinality(P) : InOrder(P)[k] \in Elements(s)
  <2> HIDE DEF P
  <2>1. QED
    BY <1>1, InOrderOf
<1>3. \A k \in 1 .. Cardinality(P) : id[k] = Part(s, InOrder(P)[k]) /\ id[k].idx \in Nat
  BY <1>1, <1>2, IndexIsNat DEF Part
<1>4. Len(id) = Cardinality(P)
  <2> HIDE DEF P
  <2> DEFINE T == {id[k] : k \in 1 .. Cardinality(P)}
             N == Cardinality(P)
  <2>1. id \in [1 .. N -> T] /\ N \in Nat
    BY <1>1
  <2> HIDE DEF T, N
  <2>2. Len(id) = N
    BY <2>1, FunctionIsSeq
  <2>3. QED
    BY <2>2 DEF N
<1>5. QED
  BY <1>1, <1>3, <1>4 DEF IsId, id

\* The lookup finds an element of the file, or nothing.
LEMMA LookupFinds ==
  ASSUME NEW s, Tree(s), NEW id, IsId(id)
  PROVE  Lookup(s, id) \in Hits(s) \cup {NoHit}
<1>1. \A n \in Roots(s, id[1]) : Hit(n, FALSE, "path") \in Hits(s)
  BY DEF Roots, Hit, Hits
<1>2. QED
  BY <1>1, HitsClosed, LookupKeeps

-----------------------------------------------------------------------------
(* The lock.                                                               *)

\* In a file of one root every element is below it, and the root is below
\* nothing.
LEMMA RootOfAll ==
  ASSUME NEW s, Tree(s), Children(s, 0) = {1}, NEW n \in Elements(s)
  PROVE  /\ 1 \in DOMAIN s /\ s[1].up = 0 /\ ~InLogic(s, 1)
         /\ InOrder(Path(s, n))[1] = 1 \/ s[1].kind # "element"
<1>0. /\ n \in 1 .. Len(s) /\ Len(s) \in Nat /\ DOMAIN s = 1 .. Len(s)
      /\ \A k \in 1 .. Len(s) : s[k].up \in Nat
  BY ElementsOf, TreeNode
<1>1. 1 \in DOMAIN s /\ s[1].up = 0 /\ \A m \in DOMAIN s : s[m].up = 0 => m = 1
  BY DEF Children
<1>2. ~InLogic(s, 1)
  <2>1. \A m \in Above(s, 1) : m = 0
    BY AboveMember
  <2>2. Kind(s, 0) # "expr"
    BY GhostIdsAssumption DEF Kind
  <2>3. QED
    BY <2>1, <2>2 DEF InLogic
<1>3. ASSUME s[1].kind = "element"
      PROVE  InOrder(Path(s, n))[1] = 1
  <2> DEFINE P == Path(s, n)
  <2>1. 1 \in P
    <3>1. CASE n = 1
      BY <3>1 DEF Path
    <3>2. CASE n # 1
      <4>1. \A k \in 1 + 1 .. n : s[k].up >= 1
        BY <1>0, <1>1
      <4>2. 1 \in Above(s, n)
        BY <1>0, <3>2, <4>1, AboveMember
      <4>3. QED
        BY <1>0, <1>3, <4>2, ElementsOf DEF Path
    <3>3. QED
      BY <3>1, <3>2
  <2>2. P \in SUBSET (1 .. Len(s))
    BY PathOf
  <2>3. Before(P, 1) = {}
    BY <2>2 DEF Before
  <2>4. Cardinality(Before(P, 1)) = 0
    BY <2>3, FS_EmptySet
  <2>5. InOrder(P)[Cardinality(Before(P, 1)) + 1] = 1
    <3> HIDE DEF P
    <3>1. QED
      BY <1>0, <2>1, <2>2, InOrderOf
  <2>6. QED
    BY <2>4, <2>5
<1>4. QED
  BY <1>1, <1>2, <1>3

\* The hits inside a dynamic block that are locked, and all hits outside one.
Guarded(s) == {at \in Hits(s) : InLogic(s, at.node) => at.locked}

LEMMA GuardedClosed ==
  ASSUME NEW s, Tree(s), NEW id, IsId(id)
  PROVE  Closed(s, id, Guarded(s))
<1>0. /\ None \notin {"fragment", "expr"} /\ Closed(s, id, Hits(s))
      /\ \A at \in Guarded(s) : at \in Hits(s) /\ (InLogic(s, at.node) => at.locked)
                                /\ at.node \in Elements(s) /\ at.locked \in BOOLEAN
  BY GhostIdsAssumption, HitsClosed DEF Guarded, Hits
<1>1. ASSUME NEW at \in Guarded(s), NEW k \in 1 .. Len(id),
             NEW p \in Tried(s, Reached(s, at.node), id[k].idx)
      PROVE  HitBelow(s, at, Reached(s, at.node)[p]) \in Guarded(s)
  <2> DEFINE m == Reached(s, at.node)[p]
  <2>1. p \in 1 .. Len(Reached(s, at.node))
    BY ReachedOf DEF Tried, IsId
  <2>2. m \in Elements(s)
    BY <2>1, ReachedOf
  <2>3. HitBelow(s, at, m) \in Hits(s)
    BY <1>0 DEF Closed
  <2> HIDE DEF m
  <2>4. ASSUME InLogic(s, m)
        PROVE  at.locked \/ Entered(s, at.node, m)
    <3>1. PICK e \in Above(s, m) : Kind(s, e) = "expr"
      BY <2>4 DEF InLogic
    <3>2. CASE e \in Above(s, at.node)
      BY <1>0, <3>1, <3>2 DEF InLogic
    <3>3. CASE e \notin Above(s, at.node)
      BY <3>1, <3>3 DEF Entered
    <3>4. QED
      BY <3>2, <3>3
  <2>5. /\ HitBelow(s, at, m).node = m
        /\ HitBelow(s, at, m).locked = (at.locked \/ Entered(s, at.node, m))
    BY DEF HitBelow, Hit
  <2>6. QED
    BY <2>3, <2>4, <2>5 DEF Guarded, m
<1>2. ASSUME NEW at \in Guarded(s), NEW k \in 1 .. Len(id),
             id[k].idx < Len(SameTag(s, at.node, id[k].tag))
      PROVE  Hit(SameTag(s, at.node, id[k].tag)[id[k].idx + 1], at.locked, "bare") \in Guarded(s)
  <2> DEFINE m == SameTag(s, at.node, id[k].tag)[id[k].idx + 1]
  <2>1. id[k].idx + 1 \in 1 .. Len(SameTag(s, at.node, id[k].tag))
    BY <1>2, SameTagOf DEF IsId
  <2>2. m \in Elements(s) /\ s[m].up = at.node
    BY <2>1, SameTagOf
  <2>3. Hit(m, at.locked, "bare") \in Hits(s)
    BY <1>0, <1>2 DEF Closed
  <2> HIDE DEF m
  <2>4. ASSUME InLogic(s, m)
        PROVE  at.locked
    <3>1. PICK e \in Above(s, m) : Kind(s, e) = "expr"
      BY <2>4 DEF InLogic
    <3>2. e = at.node \/ e \in Above(s, at.node)
      BY <2>2, <3>1, ElementsOf, AboveParent
    <3>3. Kind(s, at.node) = "element"
      BY <1>0, ElementsOf
    <3>4. QED
      BY <1>0, <3>1, <3>2, <3>3 DEF InLogic
  <2>5. Hit(m, at.locked, "bare").node = m /\ Hit(m, at.locked, "bare").locked = at.locked
    BY DEF Hit
  <2>6. QED
    BY <2>3, <2>4, <2>5 DEF Guarded, m
<1>3. QED
  BY <1>1, <1>2 DEF Closed, Guarded

LEMMA LockStep ==
  ASSUME NEW s, Tree(s), OneRoot(s), NEW n \in Injected(s)
  PROVE  LET hit == Lookup(s, GhostId(s, n))
         IN  hit = NoHit \/ Refused(s, hit) \/ ~InLogic(s, hit.node)
<1> DEFINE id == GhostId(s, n)
<1>1. n \in Elements(s)
  BY DEF Injected
<1>2. IsId(id) /\ id[1] = Part(s, InOrder(Path(s, n))[1])
  <2>1. /\ IsId(id)
        /\ \A k \in 1 .. Len(id) : id[k] = Part(s, InOrder(Path(s, n))[k])
    BY <1>1, GhostIdIsId
  <2>2. 1 \in 1 .. Len(id)
    BY <2>1 DEF IsId
  <2>3. QED
    BY <2>1, <2>2
<1>3. InOrder(Path(s, n))[1] = 1 /\ ~InLogic(s, 1)
  BY <1>1, RootOfAll DEF OneRoot
<1> HIDE DEF id
<1>4. \A m \in Roots(s, id[1]) : Hit(m, FALSE, "path") \in Guarded(s)
  <2> TAKE m \in Roots(s, id[1])
  <2>1. m = 1 /\ m \in Elements(s)
    BY <1>2, <1>3 DEF OneRoot, Roots
  <2>2. QED
    BY <1>3, <2>1 DEF Hit, Hits, Guarded
<1>5. Lookup(s, id) \in Guarded(s) \cup {NoHit}
  BY <1>2, <1>4, GuardedClosed, LookupKeeps
<1>6. QED
  BY <1>5 DEF Guarded, Refused, id

-----------------------------------------------------------------------------
(* Plain files: an id leads back to its element.                           *)

\* A node that is not returned itself is below one that is.
LEMMA RootAbove ==
  ASSUME NEW s, Tree(s), NEW n \in 1 .. Len(s), s[n].up # 0
  PROVE  \E r \in Above(s, n) : r \in 1 .. Len(s) /\ s[r].up = 0
<1> DEFINE T == Above(s, n) \ {0}
<1>1. Len(s) \in Nat /\ \A m \in 1 .. Len(s) : s[m].up \in Nat /\ s[m].up < m
  BY TreeNode
<1>2. T \in SUBSET Nat /\ T # {} /\ \A m \in T : m \in 1 .. Len(s)
  <2>1. Above(s, n) \subseteq 0 .. Len(s) /\ s[n].up \in Above(s, n)
    BY AboveParent
  <2>2. QED
    BY <1>1, <2>1
<1>3. PICK r \in T : \A m \in T : r <= m
  <2> HIDE DEF T
  <2>1. QED
    BY <1>2, LeastOf
<1>4. r \in 1 .. Len(s) /\ s[r].up \in Above(s, r) /\ r \in Above(s, n)
  BY <1>2, AboveParent
<1>5. s[r].up \in Above(s, n) /\ ~(r <= s[r].up)
  BY <1>1, <1>4, AboveChain
<1>6. s[r].up \notin T
  BY <1>3, <1>5
<1>7. QED
  BY <1>4, <1>5, <1>6

\* In a plain file nothing but fragments is passed through.
LEMMA PlainNearest ==
  ASSUME NEW s, Tree(s), Plain(s), NEW n \in Elements(s)
  PROVE  LET q == Nearest(s, n, {"fragment", "expr"})
         IN  /\ Nearest(s, n, {"fragment"}) = q
             /\ Kind(s, s[n].up) # "expr"
             /\ s[n].up # 0 => /\ q \in Above(s, n) \cap Elements(s)
                               /\ \A m \in Above(s, n) \cap Elements(s) : m <= q
<1> DEFINE q == Nearest(s, n, {"fragment", "expr"})
           p == Nearest(s, n, {"fragment"})
<1>0. /\ n \in 1 .. Len(s) /\ Len(s) \in Nat /\ DOMAIN s = 1 .. Len(s)
      /\ \A m \in 1 .. Len(s) : m \in Elements(s) <=> s[m].kind = "element"
      /\ \A m \in 1 .. Len(s) : s[m].kind \in {"element", "fragment", "expr", "text"}
      /\ None \notin {"fragment"} /\ None \notin {"fragment", "expr"} /\ None # "element"
  BY ElementsOf, TreeNode, GhostIdsAssumption DEF Node
<1>1. ASSUME NEW m \in Above(s, n)
      PROVE  m \in 0 .. Len(s) /\ Kind(s, m) \notin {"expr", "text"}
  <2>1. m \in 0 .. Len(s) /\ Kind(s, m) # "text"
    BY <1>0, AboveParent, AboveChain
  <2>2. Kind(s, m) # "expr"
    <3>1. CASE m = 0
      BY <1>0, <3>1 DEF Kind
    <3>2. CASE m # 0
      <4>1. m \in DOMAIN s
        BY <1>0, <2>1, <3>2
      <4>2. s[m].kind # "expr"
        BY <4>1 DEF Plain, Nodes
      <4>3. QED
        BY <3>2, <4>2 DEF Kind
    <3>3. QED
      BY <3>1, <3>2
  <2>3. QED
    BY <2>1, <2>2
<1>2. /\ q \in Above(s, n) /\ Kind(s, q) \notin {"fragment", "expr"}
      /\ \A m \in Above(s, n) : Kind(s, m) \notin {"fragment", "expr"} => m <= q
  BY <1>0, NearestOf
<1>3. /\ p \in Above(s, n) /\ Kind(s, p) \notin {"fragment"}
      /\ \A m \in Above(s, n) : Kind(s, m) \notin {"fragment"} => m <= p
  BY <1>0, NearestOf
<1>4. s[n].up \in Above(s, n)
  BY <1>0, AboveParent
<1> HIDE DEF p, q
<1>5. p = q
  <2>1. q <= p /\ p <= q
    BY <1>1, <1>2, <1>3
  <2>2. q \in 0 .. Len(s) /\ p \in 0 .. Len(s)
    BY <1>1, <1>2, <1>3
  <2>3. QED
    BY <1>0, <2>1, <2>2
<1>6. ASSUME NEW m \in Above(s, n) \cap Elements(s)
      PROVE  m <= q
  <2>1. Kind(s, m) = "element"
    BY ElementsOf
  <2>2. QED
    BY <1>2, <2>1
<1>7. ASSUME s[n].up # 0
      PROVE  q \in Elements(s)
  <2>1. PICK r \in Above(s, n) : r \in 1 .. Len(s) /\ s[r].up = 0
    BY <1>0, <1>7, RootAbove
  <2>2. r \in Elements(s)
    BY <1>0, <2>1 DEF Plain, Children
  <2>3. r <= q /\ q \in 0 .. Len(s)
    BY <1>1, <1>2, <1>6, <2>2
  <2>4. q \in 1 .. Len(s) /\ q # 0
    BY <1>0, <2>1, <2>3
  <2>5. s[q].kind = "element"
    BY <1>0, <1>1, <1>2, <2>4 DEF Kind
  <2>6. QED
    BY <1>0, <2>4, <2>5
<1>8. QED
  BY <1>1, <1>2, <1>4, <1>5, <1>6, <1>7 DEF p, q

\* From the second element on, each element of a path is reached from the one
\* before it, at its index.
LEMMA PathStep ==
  ASSUME NEW s, Tree(s), Plain(s), NEW n \in Elements(s),
         NEW k \in 2 .. Cardinality(Path(s, n))
  PROVE  LET path    == InOrder(Path(s, n))
             reached == Reached(s, path[k - 1])
             idx     == Part(s, path[k]).idx
         IN  /\ idx \in Nat /\ Part(s, path[k]).tag \notin Dotted
             /\ Tried(s, reached, idx) = {idx + 1} /\ reached[idx + 1] = path[k]
<1> DEFINE P == Path(s, n)
           path == InOrder(P)
           m == path[k]
           q == Nearest(s, m, {"fragment", "expr"})
           S == {x \in Elements(s) : Nearest(s, x, {"fragment", "expr"}) = q}
           idx == Part(s, m).idx
<1>0. Len(s) \in Nat /\ Elements(s) \in SUBSET (1 .. Len(s)) /\ \A x \in Elements(s) : x \in Nat /\ x # 0
  BY ElementsOf
<1>1. /\ P \in SUBSET (1 .. Len(s)) /\ P \subseteq Elements(s) /\ Cardinality(P) \in Nat
      /\ \A x \in P : Before(P, x) = Above(s, x) \cap Elements(s)
  BY PathOf
<1> HIDE DEF P
<1>2. /\ \A i \in 1 .. Cardinality(P) : path[i] \in P /\ Cardinality(Before(P, path[i])) = i - 1
      /\ \A x \in P : path[Cardinality(Before(P, x)) + 1] = x
  BY <1>0, <1>1, InOrderOf
<1>3. /\ k \in Nat /\ k >= 2 /\ k \in 1 .. Cardinality(P)
      /\ m \in P /\ m \in Elements(s) /\ Cardinality(Before(P, m)) = k - 1
  <2>1. k \in Nat /\ k >= 2 /\ k \in 1 .. Cardinality(P)
    BY <1>1 DEF P
  <2>2. QED
    BY <1>1, <1>2, <2>1
<1> HIDE DEF path
<1>4. s[m].up # 0
  <2>1. Before(P, m) # {}
    BY <1>3, FS_EmptySet
  <2>2. PICK e \in Above(s, m) : e \in Elements(s)
    BY <1>1, <1>3, <2>1
  <2>3. e <= s[m].up /\ e \in Nat /\ e # 0 /\ s[m].up \in Nat
    BY <1>0, <1>3, <2>2, AboveParent, TreeNode
  <2>4. QED
    BY <2>3
<1>5. /\ q \in Above(s, m) \cap Elements(s)
      /\ \A x \in Above(s, m) \cap Elements(s) : x <= q
      /\ Kind(s, s[m].up) # "expr"
  BY <1>3, <1>4, PlainNearest
<1>6. path[k - 1] = q
  <2>1. q \in P /\ q < m /\ q \in Before(P, m)
    BY <1>1, <1>3, <1>5 DEF Before
  <2> HIDE DEF m, q
  <2>2. q \in Nat /\ m \in Nat /\ \A x \in P : x \in Nat
    BY <1>0, <1>1, <1>3, <2>1
  <2>3. \A x \in P : x \in Before(P, m) <=> x \in Before(P, q) \/ x = q
    <3>1. \A x \in P : x < m => x < q \/ x = q
      <4> TAKE x \in P
      <4> HAVE x < m
      <4>1. x \in Before(P, m)
        BY DEF Before
      <4>2. x <= q
        BY <1>1, <1>3, <1>5, <4>1
      <4>3. QED
        BY <2>2, <4>2
    <3>2. \A x \in P : x < q \/ x = q => x < m
      BY <2>1, <2>2
    <3>3. QED
      BY <3>1, <3>2 DEF Before
  <2>4. Before(P, m) = Before(P, q) \cup {q} /\ q \notin Before(P, q)
    <3>1. ~(q < q)
      BY <2>2
    <3>2. Before(P, m) \subseteq P /\ Before(P, q) \subseteq P /\ q \notin Before(P, q)
      BY <3>1 DEF Before
    <3>3. QED
      BY <2>1, <2>3, <3>2
  <2>5. IsFiniteSet(Before(P, q)) /\ Cardinality(Before(P, q)) \in Nat
    BY <1>0, <1>1, <2>2, Places
  <2>6. Cardinality(Before(P, m)) = Cardinality(Before(P, q)) + 1
    BY <2>4, <2>5, FS_AddElement
  <2>7. Cardinality(Before(P, q)) + 1 = k - 1
    BY <1>3, <2>5, <2>6
  <2>8. QED
    BY <1>2, <2>1, <2>7 DEF path
<1>7. /\ idx = Cardinality(Before(S, m)) /\ m \in S
      /\ Part(s, m).tag \notin Dotted
  <2>1. Kind(s, Nearest(s, m, {"fragment"})) = "element"
    BY <1>3, <1>5, PlainNearest, ElementsOf
  <2>2. IndexOf(s, m) = Cardinality({x \in Elements(s) :
                          x < m /\ Nearest(s, x, {"fragment"}) = Nearest(s, m, {"fragment"})})
    BY <1>4, <2>1 DEF IndexOf
  <2>3. \A x \in Elements(s) : Nearest(s, x, {"fragment"}) = Nearest(s, x, {"fragment", "expr"})
    BY PlainNearest
  <2>4. {x \in Elements(s) : x < m /\ Nearest(s, x, {"fragment"}) = Nearest(s, m, {"fragment"})}
          = Before(S, m)
    BY <1>3, <2>3 DEF Before
  <2>5. m \in S
    BY <1>3
  <2>6. Part(s, m).tag \notin Dotted
    BY <1>3 DEF Part, Plain
  <2>7. QED
    BY <2>2, <2>4, <2>5, <2>6 DEF Part
<1>8. S \in SUBSET (1 .. Len(s)) /\ Reached(s, q) = InOrder(S)
  BY <1>0 DEF Reached
<1>9. /\ idx \in Nat
      /\ idx + 1 \in 1 .. Len(Reached(s, q)) /\ Len(Reached(s, q)) \in Nat
      /\ Reached(s, q)[idx + 1] = m
  <2> HIDE DEF S, m, idx
  <2>1. m \in Nat /\ Cardinality(Before(S, m)) \in Nat
    BY <1>0, <1>3, <1>8, Places
  <2>2. QED
    BY <1>0, <1>7, <1>8, <2>1, InOrderOf
<1> HIDE DEF idx, m
<1>10. Tried(s, Reached(s, q), idx) = {idx + 1}
  <2>1. \A p \in idx + 1 .. Len(Reached(s, q)) : p \in Tried(s, Reached(s, q), idx) => p = idx + 1
    <3> SUFFICES ASSUME NEW p \in idx + 1 .. Len(Reached(s, q)), p # idx + 1
                 PROVE  p \notin Tried(s, Reached(s, q), idx)
      OBVIOUS
    <3>1. idx + 1 \in idx + 1 .. p - 1
      BY <1>9
    <3>2. QED
      BY <1>5, <1>9, <3>1 DEF Tried
  <2>2. idx + 1 \in Tried(s, Reached(s, q), idx)
    BY <1>9 DEF Tried
  <2>3. QED
    BY <2>1, <2>2 DEF Tried
<1>11. QED
  BY <1>6, <1>7, <1>9, <1>10 DEF idx, m, path, P

LEMMA RoundTripBelow ==
  ASSUME NEW s, Tree(s), Plain(s), NEW n \in Elements(s), NEW m \in 0 .. Cardinality(Path(s, n)) - 1
  PROVE  \A at \in Hits(s) : at.node = InOrder(Path(s, n))[Cardinality(Path(s, n)) - m]
           => LET hit == Match(s, GhostId(s, n), m)[at] IN hit # NoHit /\ hit.node = n
<1> DEFINE path == InOrder(Path(s, n))
           L == Cardinality(Path(s, n))
           id == GhostId(s, n)
           Leads(l, at) == Match(s, id, l)[at] # NoHit /\ Match(s, id, l)[at].node = n
           Bad == {l \in 0 .. L - 1 : ~\A at \in Hits(s) : at.node = path[L - l] => Leads(l, at)}
<1>0. /\ L \in Nat /\ L >= 1 /\ path[L] = n
      /\ IsId(id) /\ Len(id) = L /\ \A k \in 1 .. Len(id) : id[k] = Part(s, path[k])
      /\ \A at \in Hits(s) : at.node # 0
      /\ NoHit.node = 0
  <2>1. IsId(id) /\ Len(id) = L /\ \A k \in 1 .. Len(id) : id[k] = Part(s, path[k])
    BY GhostIdIsId
  <2>2. \A at \in Hits(s) : at.node # 0
    BY ElementsOf DEF Hits
  <2>3. NoHit.node = 0
    BY DEF NoHit, Hit
  <2>4. L \in Nat /\ L >= 1 /\ path[L] = n
    BY PathOf
  <2>5. QED
    BY <2>1, <2>2, <2>3, <2>4
<1>1. SUFFICES ASSUME Bad # {} PROVE FALSE
  BY DEF Leads
<1> HIDE DEF path, L, id, Leads
<1>2. PICK b \in Bad : \A l \in Bad : b <= l
  <2>1. Bad \in SUBSET Nat
    BY <1>0
  <2> HIDE DEF Bad
  <2>2. QED
    BY <1>1, <2>1, LeastOf
<1>3. b \in 0 .. L - 1 /\ ~\A at \in Hits(s) : at.node = path[L - b] => Leads(b, at)
  OBVIOUS
<1>4. PICK at \in Hits(s) : at.node = path[L - b] /\ ~Leads(b, at)
  BY <1>3
<1>5. CASE b = 0
  <2>1. Match(s, id, 0)[at] = at
    BY MatchDef
  <2>2. at.node = n /\ at # NoHit
    BY <1>0, <1>4, <1>5
  <2>3. QED
    BY <1>4, <1>5, <2>1, <2>2 DEF Leads
<1>6. CASE b # 0
  <2> DEFINE k == L + 1 - b
             rest == Match(s, id, b - 1)
             reached == Reached(s, at.node)
             idx == id[k].idx
             below == HitBelow(s, at, reached[idx + 1])
             good == {p \in Tried(s, reached, idx) : rest[HitBelow(s, at, reached[p])] # NoHit}
  <2>1. /\ k \in 2 .. L /\ k \in 1 .. Len(id) /\ b \in Nat \ {0} /\ b - 1 \in 0 .. L - 1
        /\ ~(b <= b - 1) /\ k - 1 = L - b /\ L - (b - 1) = k
    BY <1>0, <1>3, <1>6
  <2>2. \A x \in Hits(s) : x.node = path[k] => Leads(b - 1, x)
    BY <1>2, <2>1
  <2>3. Match(s, id, b)[at] = Matched(s, id, k, at, rest)
    <3>1. Len(id) + 1 - b = k
      BY <1>0
    <3>2. Match(s, id, b)[at] = Matched(s, id, Len(id) + 1 - b, at, Match(s, id, b - 1))
      BY <2>1, MatchDef
    <3>3. QED
      BY <3>1, <3>2
  <2>4. id[k] = Part(s, path[k]) /\ at.node = path[k - 1]
    BY <1>0, <1>4, <2>1
  <2>5. /\ idx \in Nat /\ id[k].tag \notin Dotted
        /\ Tried(s, reached, idx) = {idx + 1} /\ reached[idx + 1] = path[k]
    <3> HIDE DEF k
    <3>1. k \in 2 .. Cardinality(Path(s, n))
      BY <2>1 DEF L
    <3>2. LET i == Part(s, path[k]).idx
              seen == Reached(s, path[k - 1])
          IN  /\ i \in Nat /\ Part(s, path[k]).tag \notin Dotted
              /\ Tried(s, seen, i) = {i + 1} /\ seen[i + 1] = path[k]
      BY <3>1, PathStep DEF path
    <3>3. QED
      BY <2>4, <3>2
  <2>6. below \in Hits(s) /\ below.node = path[k]
    <3>1. below \in Hits(s)
      BY <1>0, <2>1, <2>5, HitsClosed DEF Closed
    <3>2. below.node = path[k]
      BY <2>5 DEF HitBelow, Hit
    <3>3. QED
      BY <3>1, <3>2
  <2>7. rest[below] # NoHit /\ rest[below].node = n
    BY <2>2, <2>6 DEF Leads
  <2>8. good = {idx + 1}
    BY <2>5, <2>7
  <2>9. Min(good) = idx + 1
    <3>1. {idx + 1} \in SUBSET Nat /\ {idx + 1} # {}
      BY <2>5
    <3>2. Min({idx + 1}) \in {idx + 1}
      BY <3>1, LeastOf
    <3> HIDE DEF good
    <3>3. QED
      BY <2>8, <3>2
  <2>10. Matched(s, id, k, at, rest) =
           CASE id[k].tag \in Dotted -> NoHit
             [] id[k].tag \notin Dotted /\ good # {} -> rest[HitBelow(s, at, reached[Min(good)])]
             [] OTHER -> IF id[k].idx < Len(SameTag(s, at.node, id[k].tag))
                         THEN rest[Hit(SameTag(s, at.node, id[k].tag)[id[k].idx + 1], at.locked, "bare")]
                         ELSE NoHit
    BY DEF Matched
  <2>11. good # {}
    BY <2>8
  <2> HIDE DEF good, idx, reached, rest
  <2>12. Matched(s, id, k, at, rest) = rest[below]
    BY <2>5, <2>9, <2>10, <2>11
  <2>13. QED
    BY <1>4, <2>3, <2>7, <2>12 DEF Leads
<1>7. QED
  BY <1>5, <1>6

LEMMA RoundTripStep ==
  ASSUME NEW s, Tree(s), Plain(s), NEW n \in Injected(s)
  PROVE  Lookup(s, GhostId(s, n)).node = n
<1> DEFINE path == InOrder(Path(s, n))
           L == Cardinality(Path(s, n))
           id == GhostId(s, n)
           r == path[1]
           hit(m) == Match(s, id, Len(id) - 1)[Hit(m, FALSE, "path")]
           good == {m \in Roots(s, id[1]) : hit(m) # NoHit}
<1>1. n \in Elements(s)
  BY DEF Injected
<1>2. /\ L \in Nat /\ L >= 1 /\ Len(id) = L /\ id[1] = Part(s, r)
  <2>1. Len(id) = L /\ \A k \in 1 .. Len(id) : id[k] = Part(s, path[k])
    BY <1>1, GhostIdIsId
  <2>2. L \in Nat /\ L >= 1
    BY <1>1, PathOf
  <2>3. 1 \in 1 .. Len(id)
    BY <2>1, <2>2
  <2>4. QED
    BY <2>1, <2>2, <2>3
<1>3. Len(s) \in Nat /\ DOMAIN s = 1 .. Len(s) /\ Elements(s) \in SUBSET (1 .. Len(s))
  BY ElementsOf, TreeNode
<1>4. r \in Elements(s) /\ Above(s, r) \cap Elements(s) = {}
  <2>1. /\ Path(s, n) \in SUBSET (1 .. Len(s)) /\ Path(s, n) \subseteq Elements(s)
        /\ \A m \in Path(s, n) : Before(Path(s, n), m) = Above(s, m) \cap Elements(s)
    BY <1>1, PathOf
  <2>2. r \in Path(s, n) /\ Cardinality(Before(Path(s, n), r)) = 1 - 1
    <3>1. 1 \in 1 .. Cardinality(Path(s, n))
      BY <1>2
    <3>2. QED
      BY <1>3, <2>1, <3>1, InOrderOf
  <2>3. IsFiniteSet(Before(Path(s, n), r))
    <3>1. r \in Nat
      BY <1>3, <2>1, <2>2
    <3>2. QED
      BY <1>3, <2>1, <3>1, Places
  <2>4. Before(Path(s, n), r) = {}
    BY <2>2, <2>3, FS_EmptySet
  <2>5. QED
    BY <2>1, <2>2, <2>4
<1>5. ASSUME NEW m \in Elements(s), s[m].up = 0
      PROVE  Part(s, m) = [tag |-> s[m].tag, idx |-> s[m].branch] /\ m \in Children(s, 0)
  <2>1. m \in Children(s, 0)
    BY <1>3, <1>5 DEF Children
  <2>2. ~s[m].bare
    BY <2>1 DEF Plain
  <2>3. QED
    BY <1>5, <2>1, <2>2 DEF Part, IndexOf
<1>6. s[r].up = 0
  <2>1. SUFFICES ASSUME s[r].up # 0 PROVE FALSE
    OBVIOUS
  <2>2. Nearest(s, r, {"fragment", "expr"}) \in Above(s, r) \cap Elements(s)
    BY <1>4, <2>1, PlainNearest
  <2>3. QED
    BY <1>4, <2>2
<1> HIDE DEF r, id, L
<1>7. ASSUME NEW m \in Roots(s, id[1])
      PROVE  m = r
  <2>1. /\ m \in Elements(s) /\ Kind(s, s[m].up) \notin {"element", "fragment"}
        /\ s[m].tag = id[1].tag /\ (IF s[m].up = 0 THEN s[m].branch ELSE 0) = id[1].idx
    BY DEF Roots
  <2>2. s[m].up = 0
    <3>1. m \in 1 .. Len(s) /\ Kind(s, s[m].up) \notin {"expr", "text"}
      BY <1>3, <2>1, PlainNearest DEF Tree
    <3>2. SUFFICES ASSUME s[m].up # 0 PROVE FALSE
      OBVIOUS
    <3>3. s[m].up \in 1 .. Len(s)
      BY <1>3, <3>1, <3>2, TreeNode
    <3>4. s[s[m].up].kind \in {"element", "fragment", "expr", "text"}
      BY <3>3, TreeNode DEF Node
    <3>5. QED
      BY <2>1, <3>1, <3>2, <3>4 DEF Kind
  <2>3. Part(s, m) = Part(s, r) /\ m \in Children(s, 0) /\ r \in Children(s, 0)
    BY <1>2, <1>4, <1>5, <1>6, <2>1, <2>2
  <2>4. QED
    BY <2>3 DEF Plain
<1>8. r \in Roots(s, id[1])
  <2>1. Kind(s, s[r].up) \notin {"element", "fragment"}
    BY <1>6, GhostIdsAssumption DEF Kind
  <2>2. s[r].tag = id[1].tag /\ s[r].branch = id[1].idx /\ s[r].tag \notin Dotted
    BY <1>2, <1>4, <1>5, <1>6 DEF Plain
  <2>3. QED
    BY <1>4, <1>6, <2>1, <2>2 DEF Roots
<1>9. hit(r) # NoHit /\ hit(r).node = n
  <2>1. Hit(r, FALSE, "path") \in Hits(s) /\ Hit(r, FALSE, "path").node = path[L - (L - 1)]
    BY <1>2, <1>4 DEF Hit, Hits, r
  <2>2. L - 1 \in 0 .. L - 1
    BY <1>2
  <2>3. QED
    <3>1. \A at \in Hits(s) : at.node = path[L - (L - 1)]
            => Match(s, id, L - 1)[at] # NoHit /\ Match(s, id, L - 1)[at].node = n
      <4>1. L - 1 \in 0 .. Cardinality(Path(s, n)) - 1
        BY <2>2 DEF L
      <4> DEFINE j == L - 1
      <4> HIDE DEF j
      <4>2. j \in 0 .. Cardinality(Path(s, n)) - 1
        BY <4>1 DEF j
      <4>3. \A at \in Hits(s) : at.node = path[L - j]
              => Match(s, id, j)[at] # NoHit /\ Match(s, id, j)[at].node = n
        BY <1>1, <4>2, RoundTripBelow DEF L, id
      <4>4. QED
        BY <4>3 DEF j
    <3>2. QED
      BY <1>2, <2>1, <3>1
<1>10. good = {r}
  BY <1>7, <1>8, <1>9
<1>11. Min(good) = r
  <2>1. {r} \in SUBSET Nat /\ {r} # {}
    BY <1>4, ElementsOf
  <2>2. Min({r}) \in {r}
    BY <2>1, LeastOf
  <2> HIDE DEF good
  <2>3. QED
    BY <1>10, <2>2
<1>12. Lookup(s, id) = IF good = {} THEN NoHit ELSE hit(Min(good))
  BY DEF Lookup
<1> HIDE DEF good, hit
<1>13. Lookup(s, id) = hit(r)
  BY <1>10, <1>11, <1>12
<1>14. QED
  BY <1>9, <1>13 DEF id

-----------------------------------------------------------------------------
(* The edits.                                                              *)

Moved(node, j, d) == [node EXCEPT !.up = IF @ >= j THEN @ + d ELSE @]

LEMMA SpliceOf ==
  ASSUME NEW s \in Seq(Node), NEW new \in Seq(Node),
         NEW i \in 1 .. Len(s) + 1, NEW j \in i .. Len(s) + 1
  PROVE  LET t == Splice(s, i, j, new)
             d == Len(new) - (j - i)
         IN  /\ t \in Seq(Node) /\ Len(t) = Len(s) + d
             /\ d \in Int /\ i + Len(new) = j + d
             /\ \A k \in 1 .. i - 1 : t[k] = s[k]
             /\ \A k \in 1 .. Len(new) : t[i + k - 1] = new[k]
             /\ \A k \in j .. Len(s) : t[k + d] = Moved(s[k], j, d)
<1> DEFINE d == Len(new) - (j - i)
           a == SubSeq(s, 1, i - 1)
           c == [k \in 1 .. Len(s) - j + 1 |-> Moved(s[j + k - 1], j, d)]
           t == Splice(s, i, j, new)
<1>0. /\ Len(s) \in Nat /\ Len(new) \in Nat /\ i \in Nat /\ j \in Nat /\ d \in Int
      /\ i >= 1 /\ i <= j /\ j <= Len(s) + 1 /\ i + Len(new) = j + d
  OBVIOUS
<1>1. t = (a \o new) \o c
  BY DEF Splice, Moved
<1>2. a \in Seq(Node) /\ Len(a) = i - 1 /\ \A k \in 1 .. i - 1 : a[k] = s[k]
  BY <1>0
<1>3. \A k \in j .. Len(s) : Moved(s[k], j, d) \in Node
  <2> TAKE k \in j .. Len(s)
  <2>0. k \in 1 .. Len(s)
    BY <1>0
  <2>1. s[k] \in Node /\ s[k].up \in Nat
    <3>1. s[k] \in Node
      BY <2>0, ElementOfSeq
    <3>2. QED
      BY <3>1 DEF Node
  <2>2. (IF s[k].up >= j THEN s[k].up + d ELSE s[k].up) \in Nat
    BY <1>0, <2>1
  <2> DEFINE u == IF s[k].up >= j THEN s[k].up + d ELSE s[k].up
  <2>3. Moved(s[k], j, d) = [s[k] EXCEPT !.up = u]
    BY DEF Moved
  <2> HIDE DEF u
  <2>4. QED
    BY <2>1, <2>2, <2>3 DEF Node, u
<1> HIDE DEF a, d
<1>4. /\ c \in Seq(Node) /\ Len(c) = Len(s) - j + 1
      /\ \A k \in 1 .. Len(c) : c[k] = Moved(s[j + k - 1], j, d)
  <2>1. c \in [1 .. Len(s) - j + 1 -> Node]
    <3>1. \A k \in 1 .. Len(s) - j + 1 : j + k - 1 \in j .. Len(s)
      BY <1>0
    <3>2. QED
      BY <1>3, <3>1
  <2>2. Len(s) - j + 1 \in Nat
    BY <1>0
  <2>3. c \in Seq(Node) /\ Len(c) = Len(s) - j + 1
    <3> HIDE DEF c
    <3>1. QED
      BY <2>1, <2>2, IsASeq, LenProperties
  <2>4. QED
    BY <2>3
<1> HIDE DEF c, t
<1>5. /\ a \o new \in Seq(Node) /\ Len(a \o new) = i - 1 + Len(new)
      /\ \A k \in 1 .. i - 1 : (a \o new)[k] = s[k]
      /\ \A k \in 1 .. Len(new) : (a \o new)[i + k - 1] = new[k]
  <2>0. /\ a \o new \in Seq(Node)
        /\ Len(a \o new) = Len(a) + Len(new)
        /\ \A k \in 1 .. Len(a) + Len(new) :
             (a \o new)[k] = IF k <= Len(a) THEN a[k] ELSE new[k - Len(a)]
    BY <1>2, ConcatProperties
  <2>1. a \o new \in Seq(Node) /\ Len(a \o new) = i - 1 + Len(new)
    BY <1>0, <1>2, <2>0
  <2>2. \A k \in 1 .. i - 1 : (a \o new)[k] = s[k]
    BY <1>0, <1>2, <2>0
  <2>3. \A k \in 1 .. Len(new) : (a \o new)[i + k - 1] = new[k]
    <3> TAKE k \in 1 .. Len(new)
    <3>1. /\ i + k - 1 \in 1 .. Len(a) + Len(new)
          /\ ~(i + k - 1 <= Len(a)) /\ i + k - 1 - Len(a) = k
      BY <1>0, <1>2
    <3>2. QED
      BY <2>0, <3>1
  <2>4. QED
    BY <2>1, <2>2, <2>3
<1> DEFINE b == a \o new
<1> HIDE DEF b
<1>6. b \in Seq(Node) /\ Len(b) = i - 1 + Len(new) /\ t = b \o c
  BY <1>1, <1>5 DEF b
<1>62. /\ t \in Seq(Node)
       /\ Len(t) = Len(b) + Len(c)
       /\ \A k \in 1 .. Len(b) + Len(c) : t[k] = IF k <= Len(b) THEN b[k] ELSE c[k - Len(b)]
  <2>1. b \in Seq(Node) /\ c \in Seq(Node)
    BY <1>4, <1>6
  <2>2. /\ b \o c \in Seq(Node)
        /\ Len(b \o c) = Len(b) + Len(c)
        /\ \A k \in 1 .. Len(b) + Len(c) :
             (b \o c)[k] = IF k <= Len(b) THEN b[k] ELSE c[k - Len(b)]
    BY <2>1, ConcatProperties
  <2>3. QED
    BY <1>6, <2>2
<1>7. t \in Seq(Node) /\ Len(t) = Len(s) + d
  BY <1>0, <1>4, <1>6, <1>62 DEF d
<1>8. \A k \in 1 .. Len(b) : t[k] = b[k]
  BY <1>0, <1>4, <1>6, <1>62
<1>9. \A k \in 1 .. i - 1 : t[k] = s[k]
  <2> TAKE k \in 1 .. i - 1
  <2>1. k \in 1 .. Len(b) /\ b[k] = s[k]
    BY <1>0, <1>5, <1>6 DEF b
  <2>2. QED
    BY <1>8, <2>1
<1>10. \A k \in 1 .. Len(new) : t[i + k - 1] = new[k]
  <2> TAKE k \in 1 .. Len(new)
  <2>1. i + k - 1 \in 1 .. Len(b) /\ b[i + k - 1] = new[k]
    BY <1>0, <1>5, <1>6 DEF b
  <2>2. QED
    BY <1>8, <2>1
<1>11. \A k \in j .. Len(s) : t[k + d] = Moved(s[k], j, d)
  <2> TAKE k \in j .. Len(s)
  <2> DEFINE x == k + d
             y == k - j + 1
  <2>1. /\ x \in 1 .. Len(b) + Len(c) /\ ~(x <= Len(b)) /\ x - Len(b) = y
        /\ y \in 1 .. Len(c) /\ j + y - 1 = k
    BY <1>0, <1>4, <1>6 DEF d
  <2> HIDE DEF x, y
  <2>2. t[x] = c[y]
    BY <1>62, <2>1
  <2>4. c[y] = Moved(s[k], j, d)
    BY <1>4, <2>1
  <2>3. QED
    BY <2>2, <2>4 DEF x
<1>12. QED
  BY <1>0, <1>7, <1>9, <1>10, <1>11 DEF t, d

\* A splice of whole subtrees keeps the tree: what stays hangs where it hung,
\* and of what is new, the first from a node n such that everything between
\* hangs below n, and each other from the one before it.
LEMMA SpliceTree ==
  ASSUME NEW s, Tree(s), NEW new \in Seq(Node),
         NEW i \in 1 .. Len(s) + 1, NEW j \in i .. Len(s) + 1, NEW n \in 0 .. i - 1,
         \A m \in j .. Len(s) : s[m].up >= j \/ (s[m].up < i /\ s[m].up <= n),
         \A k \in n + 1 .. i - 1 : s[k].up >= n,
         Len(new) > 0 => Kind(s, n) # "text",
         \A x \in 1 .. Len(new) :
           /\ new[x].kind = "element" <=> new[x].tag \in Tag
           /\ x = 1 => new[x].up = n
           /\ x > 1 => new[x].up = i + x - 2 /\ new[x - 1].kind # "text"
  PROVE  Tree(Splice(s, i, j, new))
<1> DEFINE d == Len(new) - (j - i)
           t == Splice(s, i, j, new)
<1>1. /\ s \in Seq(Node) /\ Len(s) \in Nat /\ DOMAIN s = 1 .. Len(s)
      /\ \A k \in 1 .. Len(s) : /\ s[k] \in Node /\ s[k].up \in Nat /\ s[k].up < k
                                /\ \A q \in s[k].up + 1 .. k : s[q].up >= s[k].up
                                /\ Kind(s, s[k].up) # "text"
                                /\ s[k].kind = "element" <=> s[k].tag \in Tag
  BY TreeNode DEF Tree
<1>2. /\ t \in Seq(Node) /\ Len(t) = Len(s) + d
      /\ d \in Int /\ i + Len(new) = j + d
      /\ \A k \in 1 .. i - 1 : t[k] = s[k]
      /\ \A k \in 1 .. Len(new) : t[i + k - 1] = new[k]
      /\ \A k \in j .. Len(s) : t[k + d] = Moved(s[k], j, d)
  BY <1>1, SpliceOf
<1> HIDE DEF d, t
<1>3. /\ i \in Nat /\ j \in Nat /\ n \in Nat /\ Len(new) \in Nat /\ i >= 1 /\ i <= j /\ j <= Len(s) + 1
      /\ n <= i - 1 /\ Len(t) \in Nat /\ DOMAIN t = 1 .. Len(t)
  BY <1>1, <1>2
<1>4. \A k \in 1 .. i - 1 : t[k].up = s[k].up /\ t[k].kind = s[k].kind /\ t[k].tag = s[k].tag
  BY <1>2
<1>5. ASSUME NEW k \in j .. Len(s)
      PROVE  /\ t[k + d].kind = s[k].kind /\ t[k + d].tag = s[k].tag
             /\ t[k + d].up = IF s[k].up >= j THEN s[k].up + d ELSE s[k].up
             /\ s[k].up \in Nat /\ k \in Nat /\ k \in 1 .. Len(s)
  <2>1. k \in 1 .. Len(s) /\ k \in Nat
    BY <1>1, <1>3
  <2>2. t[k + d] = Moved(s[k], j, d) /\ s[k] \in Node /\ s[k].up \in Nat
    BY <1>1, <1>2, <2>1
  <2>3. QED
    BY <2>1, <2>2 DEF Moved, Node
\* A node stands before the splice, in it, or behind it.
<1>6. ASSUME NEW k \in 1 .. Len(t)
      PROVE  \/ k \in 1 .. i - 1
             \/ \E x \in 1 .. Len(new) : k = i + x - 1
             \/ \E q \in j .. Len(s) : k = q + d
  <2>1. CASE k <= i - 1
    BY <1>3, <2>1
  <2>2. CASE k > i - 1 /\ k <= i + Len(new) - 1
    <3>1. k - i + 1 \in 1 .. Len(new) /\ k = i + (k - i + 1) - 1
      BY <1>3, <2>2
    <3>2. QED
      BY <3>1
  <2>3. CASE k > i + Len(new) - 1
    <3>1. k - d \in j .. Len(s) /\ k = (k - d) + d
      BY <1>2, <1>3, <2>3
    <3>2. QED
      BY <3>1
  <2>4. QED
    BY <1>3, <2>1, <2>2, <2>3
<1> DEFINE Good(k) == /\ t[k].up \in Nat /\ t[k].up < k
                      /\ \A q \in 1 .. Len(t) : q > t[k].up /\ q <= k => t[q].up >= t[k].up
                      /\ Kind(t, t[k].up) # "text"
                      /\ t[k].kind = "element" <=> t[k].tag \in Tag
<1>7. ASSUME NEW k \in 1 .. i - 1 PROVE Good(k)
  <2>0. k \in 1 .. Len(s) /\ k \in Nat /\ k < i /\ s[k].up \in Nat /\ s[k].up < k
    BY <1>1, <1>3
  <2>1. t[k].up = s[k].up
    BY <1>4
  <2>2. ASSUME NEW q \in 1 .. Len(t), q > t[k].up, q <= k PROVE t[q].up >= t[k].up
    <3>1. q \in 1 .. i - 1 /\ q \in s[k].up + 1 .. k
      BY <1>3, <2>0, <2>1, <2>2
    <3>2. QED
      BY <1>1, <1>4, <2>0, <2>1, <3>1
  <2>3. Kind(t, t[k].up) # "text"
    <3>1. CASE s[k].up = 0
      BY <1>1, <2>0, <2>1, <3>1 DEF Kind
    <3>2. CASE s[k].up # 0
      <4>1. s[k].up \in 1 .. i - 1
        BY <1>3, <2>0, <3>2
      <4>2. t[s[k].up].kind = s[s[k].up].kind
        BY <1>4, <4>1
      <4>3. QED
        BY <1>1, <2>0, <2>1, <3>2, <4>2 DEF Kind
    <3>3. QED
      BY <3>1, <3>2
  <2>4. QED
    BY <1>1, <1>4, <2>0, <2>1, <2>2, <2>3
<1>8. ASSUME NEW x \in 1 .. Len(new) PROVE Good(i + x - 1)
  <2> DEFINE k == i + x - 1
  <2>0. x \in Nat /\ x >= 1 /\ k \in Nat /\ k >= i /\ t[k] = new[x] /\ Len(new) > 0
    BY <1>2, <1>3
  <2>1. t[k].kind = "element" <=> t[k].tag \in Tag
    BY <2>0
  <2> HIDE DEF k
  <2>2. CASE x = 1
    <3>1. k = i /\ t[k].up = n
      BY <1>3, <2>0, <2>2 DEF k
    <3>2. ASSUME NEW q \in 1 .. Len(t), q > n, q <= k PROVE t[q].up >= n
      <4>1. CASE q = k
        BY <1>3, <3>1, <4>1
      <4>2. CASE q # k
        <5>1. q \in 1 .. i - 1 /\ q \in n + 1 .. i - 1
          BY <1>3, <3>1, <3>2, <4>2
        <5>2. QED
          BY <1>4, <5>1
      <4>3. QED
        BY <4>1, <4>2
    <3>3. Kind(t, n) # "text"
      <4>1. CASE n = 0
        BY <2>0, <4>1 DEF Kind
      <4>2. CASE n # 0
        <5>1. n \in 1 .. i - 1
          BY <1>3, <4>2
        <5>2. QED
          BY <1>4, <2>0, <4>2, <5>1 DEF Kind
      <4>3. QED
        BY <4>1, <4>2
    <3>4. t[k].up \in Nat /\ t[k].up < k /\ Kind(t, t[k].up) # "text"
      BY <1>3, <3>1, <3>3
    <3>5. \A q \in 1 .. Len(t) : q > t[k].up /\ q <= k => t[q].up >= t[k].up
      BY <3>1, <3>2
    <3>6. QED
      BY <2>1, <3>4, <3>5 DEF k
  <2>3. CASE x > 1
    <3>0. k - 1 = i + x - 2
      BY <1>3, <2>0 DEF k
    <3>1. t[k].up = k - 1 /\ new[x - 1].kind # "text"
      <4>1. new[x].up = i + x - 2 /\ new[x - 1].kind # "text"
        BY <2>3
      <4>2. QED
        BY <2>0, <3>0, <4>1
    <3>2. \A q \in 1 .. Len(t) : q > k - 1 /\ q <= k => q = k
      BY <2>0
    <3>3. t[k - 1] = new[x - 1]
      <4> DEFINE y == x - 1
      <4>1. y \in 1 .. Len(new) /\ i + y - 1 = k - 1
        BY <1>3, <2>0, <2>3 DEF k
      <4> HIDE DEF y
      <4>2. t[i + y - 1] = new[y]
        BY <1>2, <4>1
      <4>3. QED
        BY <4>1, <4>2 DEF y
    <3>4. Kind(t, k - 1) # "text" /\ k - 1 \in Nat /\ k - 1 < k
      BY <1>3, <2>0, <2>3, <3>1, <3>3 DEF Kind, k
    <3>5. \A q \in 1 .. Len(t) : q > t[k].up /\ q <= k => t[q].up >= t[k].up
      BY <2>0, <3>1, <3>2
    <3>6. QED
      BY <2>1, <3>1, <3>4, <3>5 DEF k
  <2>4. QED
    BY <2>0, <2>2, <2>3
<1>9. ASSUME NEW m \in j .. Len(s) PROVE Good(m + d)
  <2> DEFINE k == m + d
             p == s[m].up
  <2>0. /\ m \in Nat /\ m \in 1 .. Len(s) /\ p \in Nat /\ p < m /\ k \in Int
        /\ t[k].kind = s[m].kind /\ t[k].tag = s[m].tag
        /\ t[k].up = IF p >= j THEN p + d ELSE p
    BY <1>1, <1>2, <1>5
  <2>1. t[k].kind = "element" <=> t[k].tag \in Tag
    BY <1>1, <2>0
  <2>2. /\ Kind(s, p) # "text"
        /\ \A q \in p + 1 .. m : s[q].up >= p
    BY <1>1, <2>0
  <2>3. p >= j \/ (p < i /\ p <= n)
    OBVIOUS
  <2>4. j + d >= i /\ k >= i
    BY <1>2, <1>3
  <2> HIDE DEF k, p
  <2>5. CASE p >= j
    <3>1. p \in j .. Len(s) /\ t[k].up = p + d /\ p + d \in Nat /\ p + d < k /\ p + d # 0 /\ p # 0
      BY <1>1, <1>2, <1>3, <2>0, <2>4, <2>5 DEF k
    <3>2. Kind(t, p + d) # "text"
      BY <1>5, <2>2, <3>1 DEF Kind
    <3>3. ASSUME NEW q \in 1 .. Len(t), q > p + d, q <= k PROVE t[q].up >= p + d
      <4> DEFINE z == q - d
      <4>1. z \in j .. Len(s) /\ z \in p + 1 .. m /\ q = z + d
        BY <1>2, <1>3, <2>0, <2>5, <3>3 DEF k
      <4> HIDE DEF z
      <4>2. s[z].up >= p /\ s[z].up \in Nat
        BY <1>5, <2>2, <4>1
      <4>3. s[z].up >= j
        BY <1>3, <2>0, <2>5, <4>2
      <4>4. t[q].up = s[z].up + d
        BY <1>5, <4>1, <4>3
      <4>5. QED
        BY <1>2, <2>0, <4>2, <4>4, SMTT(30)
    <3>4. QED
      BY <2>1, <3>1, <3>2, <3>3 DEF k
  <2>6. CASE p < i /\ p <= n
    <3>1. t[k].up = p /\ p < k
      BY <1>3, <2>0, <2>4, <2>6
    <3>2. Kind(t, p) # "text"
      <4>1. CASE p = 0
        BY <2>2, <4>1 DEF Kind
      <4>2. CASE p # 0
        <5>1. p \in 1 .. i - 1
          BY <1>3, <2>0, <2>6, <4>2
        <5>2. QED
          BY <1>4, <2>2, <4>2, <5>1 DEF Kind
      <4>3. QED
        BY <4>1, <4>2
    <3>3. ASSUME NEW q \in 1 .. Len(t), q > p, q <= k PROVE t[q].up >= p
      <4>1. CASE q \in 1 .. i - 1
        <5>1. q \in p + 1 .. m
          BY <1>3, <2>0, <3>3, <4>1
        <5>2. QED
          BY <1>4, <2>2, <4>1, <5>1
      <4>2. CASE \E x \in 1 .. Len(new) : q = i + x - 1
        <5>1. PICK x \in 1 .. Len(new) : q = i + x - 1
          BY <4>2
        <5>2. t[q] = new[x] /\ x \in Nat
          BY <1>2, <5>1
        <5>3. CASE x = 1
          BY <2>0, <2>6, <1>3, <5>2, <5>3
        <5>4. CASE x > 1
          BY <2>0, <2>6, <1>3, <5>2, <5>4, SMTT(30)
        <5>5. QED
          BY <5>1, <5>3, <5>4
      <4>3. CASE \E z \in j .. Len(s) : q = z + d
        <5>1. PICK z \in j .. Len(s) : q = z + d
          BY <4>3
        <5>2. z \in p + 1 .. m
          BY <1>2, <1>3, <2>0, <2>6, <3>3, <5>1 DEF k
        <5>3. s[z].up >= p /\ s[z].up \in Nat /\ t[q].up = IF s[z].up >= j THEN s[z].up + d ELSE s[z].up
          BY <1>5, <2>2, <5>1, <5>2
        <5>4. CASE s[z].up >= j
          <6>1. t[q].up = s[z].up + d /\ p < i
            BY <2>6, <5>3, <5>4
          <6>2. QED
            BY <1>2, <1>3, <2>0, <2>4, <5>3, <5>4, <6>1, SMTT(30)
        <5>5. CASE ~(s[z].up >= j)
          BY <5>3, <5>5
        <5>6. QED
          BY <5>4, <5>5
      <4>4. QED
        BY <1>6, <4>1, <4>2, <4>3
    <3>4. QED
      BY <2>0, <2>1, <3>1, <3>2, <3>3 DEF k
  <2>7. QED
    BY <2>3, <2>5, <2>6
<1>10. ASSUME NEW k \in DOMAIN t PROVE Good(k)
  <2>1. k \in 1 .. Len(t)
    BY <1>3
  <2> HIDE DEF Good
  <2>2. QED
    BY <1>6, <1>7, <1>8, <1>9, <2>1
<1>11. ASSUME NEW k \in DOMAIN t
       PROVE  /\ t[k].up \in Above(t, k)
              /\ Kind(t, t[k].up) # "text"
              /\ t[k].kind = "element" <=> t[k].tag \in Tag
  <2>1. Good(k) /\ k \in 1 .. Len(t) /\ k \in Nat
    BY <1>3, <1>10
  <2>2. \A q \in t[k].up + 1 .. k : q \in 1 .. Len(t) /\ q > t[k].up /\ q <= k
    BY <1>3, <2>1
  <2>3. t[k].up \in Above(t, k)
    BY <2>1, <2>2 DEF Above
  <2>4. QED
    BY <2>1, <2>3
<1>12. QED
  BY <1>2, <1>11 DEF Tree, t

\* Leave is where the subtree of a node ends.
LEMMA LeaveOf ==
  ASSUME NEW s, Tree(s), NEW n \in 1 .. Len(s)
  PROVE  LET L == Leave(s, n)
         IN  /\ L \in n + 1 .. Len(s) + 1
             /\ \A k \in n + 1 .. L - 1 : s[k].up >= n
             /\ \A m \in L .. Len(s) : s[m].up < n \/ s[m].up >= L
<1> DEFINE S == {m \in n + 1 .. Len(s) : s[m].up < n} \cup {Len(s) + 1}
           L == Leave(s, n)
<1>1. /\ Len(s) \in Nat /\ n \in Nat
      /\ \A k \in 1 .. Len(s) : s[k].up \in Nat /\ s[k].up < k
                                /\ \A q \in s[k].up + 1 .. k : s[q].up >= s[k].up
  BY TreeNode
<1>2. S \in SUBSET Nat /\ S # {} /\ \A m \in S : m \in n + 1 .. Len(s) + 1
  BY <1>1
<1> HIDE DEF S
<1>3. Min(S) \in S /\ \A m \in S : Min(S) <= m
  BY <1>2, LeastOf
<1>4. L = Min(S)
  BY DEF Leave, S
<1> HIDE DEF L
<1>5. L \in n + 1 .. Len(s) + 1 /\ L \in Nat
  BY <1>1, <1>2, <1>3, <1>4
<1>6. ASSUME NEW k \in n + 1 .. L - 1 PROVE s[k].up >= n
  <2>1. k \in n + 1 .. Len(s) /\ k < L /\ k \in 1 .. Len(s)
    BY <1>1, <1>5
  <2>2. k \notin S
    BY <1>1, <1>3, <1>4, <1>5, <2>1
  <2>3. QED
    BY <1>1, <2>1, <2>2 DEF S
<1>7. ASSUME NEW m \in L .. Len(s) PROVE s[m].up < n \/ s[m].up >= L
  <2>1. m \in 1 .. Len(s) /\ L <= Len(s) /\ s[m].up \in Nat
    BY <1>1, <1>5
  <2>2. s[L].up < n /\ s[L].up \in Nat
    BY <1>1, <1>3, <1>4, <1>5, <2>1 DEF S
  <2>3. CASE m = L
    BY <2>2, <2>3
  <2>4. CASE m > L /\ s[m].up < L
    <3>1. L \in s[m].up + 1 .. m
      BY <1>1, <1>5, <2>1, <2>4
    <3>2. s[L].up >= s[m].up
      BY <1>1, <2>1, <3>1
    <3>3. QED
      BY <1>1, <2>1, <2>2, <3>2
  <2>5. QED
    BY <1>1, <1>5, <2>1, <2>3, <2>4
<1>8. QED
  BY <1>5, <1>6, <1>7 DEF L

\* What stands behind a child of n hangs from n, from above n, or from the
\* child and what stands behind it.
LEMMA BehindChild ==
  ASSUME NEW s, Tree(s), NEW c \in 1 .. Len(s), NEW m \in c .. Len(s)
  PROVE  s[m].up \in Nat /\ (s[m].up >= c \/ (s[m].up < c /\ s[m].up <= s[c].up))
<1>1. /\ Len(s) \in Nat /\ c \in Nat /\ m \in Nat /\ m \in 1 .. Len(s)
      /\ \A k \in 1 .. Len(s) : s[k].up \in Nat /\ s[k].up < k
                                /\ \A q \in s[k].up + 1 .. k : s[q].up >= s[k].up
  BY TreeNode
<1>2. CASE s[m].up < c
  <2>1. c \in s[m].up + 1 .. m
    BY <1>1, <1>2
  <2>2. QED
    BY <1>1, <1>2, <2>1
<1>3. QED
  BY <1>1, <1>2

LEMMA NewNodeOf ==
  ASSUME NEW n \in Nat
  PROVE  /\ NewNode("text", None, n) \in Node /\ NewNode("element", NewTag, n) \in Node
         /\ NewNode("text", None, n).up = n /\ NewNode("element", NewTag, n).up = n
         /\ NewNode("text", None, n).kind = "text"
         /\ NewNode("element", NewTag, n).kind = "element"
         /\ NewNode("text", None, n).tag \notin Tag /\ NewNode("element", NewTag, n).tag \in Tag
<1>1. NewTag \in Tag /\ None \notin Tag
  BY GhostIdsAssumption
<1>2. QED
  BY <1>1 DEF NewNode, Node

\* One text node below n: everything between hangs below n.
LEMMA TextTree ==
  ASSUME NEW s, Tree(s), NEW n \in 1 .. Len(s), s[n].kind = "element",
         NEW i \in n + 1 .. Len(s) + 1, NEW j \in i .. Len(s) + 1,
         \A m \in j .. Len(s) : s[m].up >= j \/ (s[m].up < i /\ s[m].up <= n),
         \A k \in n + 1 .. i - 1 : s[k].up >= n
  PROVE  Tree(Splice(s, i, j, <<NewNode("text", None, n)>>))
<1> DEFINE new == <<NewNode("text", None, n)>>
<1>0. Len(s) \in Nat /\ n \in Nat /\ n # 0
  BY TreeNode
<1>1. i \in 1 .. Len(s) + 1 /\ n \in 0 .. i - 1
  BY <1>0
<1>2. Kind(s, n) # "text"
  BY <1>0 DEF Kind
<1>3. new \in Seq(Node) /\ Len(new) = 1 /\ new[1] = NewNode("text", None, n)
  BY <1>0, NewNodeOf
<1>4. \A x \in 1 .. Len(new) :
           /\ new[x].kind = "element" <=> new[x].tag \in Tag
           /\ x = 1 => new[x].up = n
           /\ x > 1 => new[x].up = i + x - 2 /\ new[x - 1].kind # "text"
  BY <1>0, <1>3, NewNodeOf
<1> HIDE DEF new
<1>5. Tree(Splice(s, i, j, new))
  BY <1>1, <1>2, <1>3, <1>4, SpliceTree
<1>6. QED
  BY <1>5 DEF new

LEMMA ChildrenOf ==
  ASSUME NEW s, Tree(s), NEW n \in 1 .. Len(s), NEW c \in Children(s, n)
  PROVE  /\ c \in n + 1 .. Len(s) /\ s[c].up = n /\ c \in 1 .. Len(s) /\ c \in Nat
         /\ \A k \in n + 1 .. c : s[k].up >= n
BY TreeNode DEF Children

LEMMA SetTextTree ==
  ASSUME NEW s, Tree(s), NEW n \in Elements(s)
  PROVE  Tree(SetText(s, n))
<1> DEFINE old == {c \in Children(s, n) : s[c].kind = "text"}
           text == <<NewNode("text", None, n)>>
<1>0. n \in 1 .. Len(s) /\ n \in Nat /\ Len(s) \in Nat /\ s[n].kind = "element"
  BY ElementsOf
<1>1. CASE ~Hybrid(s, n)
  <2> DEFINE L == Leave(s, n)
  <2>1. /\ L \in n + 1 .. Len(s) + 1
        /\ \A m \in L .. Len(s) : s[m].up < n \/ s[m].up >= L
    BY <1>0, LeaveOf
  <2> HIDE DEF L
  <2>2. \A m \in L .. Len(s) : s[m].up >= L \/ (s[m].up < n + 1 /\ s[m].up <= n)
    <3> TAKE m \in L .. Len(s)
    <3>1. s[m].up \in Nat
      BY <1>0, <2>1, TreeNode
    <3>2. QED
      BY <1>0, <2>1, <3>1
  <2>3. n + 1 \in n + 1 .. Len(s) + 1 /\ \A k \in n + 1 .. (n + 1) - 1 : s[k].up >= n
    BY <1>0
  <2> DEFINE i == n + 1
  <2> HIDE DEF i
  <2>4. Tree(Splice(s, i, L, text))
    BY <1>0, <2>1, <2>2, <2>3, TextTree DEF i
  <2>5. QED
    BY <1>1, <2>4 DEF SetText, L, i
<1>2. CASE Hybrid(s, n) /\ old # {}
  <2>1. old \in SUBSET Nat
    BY <1>0, ChildrenOf
  <2> DEFINE c == Min(old)
  <2>2. c \in old
    <3> HIDE DEF old
    <3>1. QED
      BY <1>2, <2>1, LeastOf
  <2>3. SetText(s, n) = Splice(s, c, c + 1, text)
    BY <1>2 DEF SetText
  <2> HIDE DEF c
  <2>4. /\ c \in n + 1 .. Len(s) /\ s[c].up = n /\ c \in 1 .. Len(s) /\ c \in Nat /\ s[c].kind = "text"
        /\ \A k \in n + 1 .. c : s[k].up >= n
    BY <1>0, <2>2, ChildrenOf
  <2>5. \A m \in c + 1 .. Len(s) : s[m].up >= c + 1 \/ (s[m].up < c /\ s[m].up <= n)
    <3> TAKE m \in c + 1 .. Len(s)
    <3>1. m \in c .. Len(s) /\ m \in 1 .. Len(s)
      BY <1>0, <2>4
    <3>2. s[m].up \in Nat /\ (s[m].up >= c \/ (s[m].up < c /\ s[m].up <= s[c].up))
      BY <2>4, <3>1, BehindChild
    <3>3. s[m].up # c
      <4>1. m \in DOMAIN s
        BY <3>1, TreeNode
      <4>2. Kind(s, s[m].up) # "text"
        BY <4>1 DEF Tree
      <4>3. Kind(s, c) = "text"
        BY <1>0, <2>4 DEF Kind
      <4>4. QED
        BY <4>2, <4>3
    <3>4. QED
      BY <2>4, <3>2, <3>3
  <2>6. c \in n + 1 .. Len(s) + 1 /\ c + 1 \in c .. Len(s) + 1 /\ \A k \in n + 1 .. c - 1 : s[k].up >= n
    BY <1>0, <2>4
  <2> DEFINE j == c + 1
  <2> HIDE DEF j
  <2>7. Tree(Splice(s, c, j, text))
    BY <1>0, <2>5, <2>6, TextTree DEF j
  <2>8. QED
    BY <2>3, <2>7 DEF j
<1>3. CASE Hybrid(s, n) /\ old = {}
  <2> DEFINE i == n + 1
  <2>1. i \in n + 1 .. Len(s) + 1 /\ i \in i .. Len(s) + 1 /\ \A k \in n + 1 .. i - 1 : s[k].up >= n
    BY <1>0
  <2>2. \A m \in i .. Len(s) : s[m].up >= i \/ (s[m].up < i /\ s[m].up <= n)
    <3> TAKE m \in i .. Len(s)
    <3>1. s[m].up \in Nat
      BY <1>0, TreeNode
    <3>2. QED
      BY <1>0, <3>1
  <2>3. SetText(s, n) = Splice(s, i, i, text)
    BY <1>3 DEF SetText
  <2> HIDE DEF i
  <2>4. QED
    BY <1>0, <2>1, <2>2, <2>3, TextTree
<1>4. QED
  BY <1>1, <1>2, <1>3

LEMMA DeleteTree ==
  ASSUME NEW s, Tree(s), NEW hit \in Hits(s)
  PROVE  Tree(Delete(s, hit))
<1> DEFINE n == hit.node
           L == Leave(s, n)
<1>0. /\ hit.via \in {"path", "list", "copy", "bare"} /\ n \in 1 .. Len(s) /\ n \in Nat /\ Len(s) \in Nat
  BY ElementsOf DEF Hits
<1>1. CASE hit.via \in {"path", "list"}
  <2>1. /\ L \in n + 1 .. Len(s) + 1
        /\ \A m \in L .. Len(s) : s[m].up < n \/ s[m].up >= L
    BY <1>0, LeaveOf
  <2>2. Delete(s, hit) = Splice(s, n, L, <<>>)
    BY <1>1 DEF Delete
  <2> HIDE DEF n, L
  <2>3. \A m \in L .. Len(s) : s[m].up >= L \/ (s[m].up < n /\ s[m].up <= n - 1)
    <3> TAKE m \in L .. Len(s)
    <3>1. s[m].up \in Nat
      BY <1>0, <2>1, TreeNode
    <3>2. QED
      BY <1>0, <2>1, <3>1
  <2> DEFINE new == <<>>
             b == n - 1
  <2>4. new \in Seq(Node) /\ Len(new) = 0
    OBVIOUS
  <2>5. /\ n \in 1 .. Len(s) + 1 /\ L \in n .. Len(s) + 1 /\ b \in 0 .. n - 1
        /\ \A k \in b + 1 .. n - 1 : s[k].up >= b
    BY <1>0, <2>1
  <2>6. ~(Len(new) > 0) /\ 1 .. Len(new) = {}
    BY <2>4
  <2> HIDE DEF new
  <2>7. \A m \in L .. Len(s) : s[m].up >= L \/ (s[m].up < n /\ s[m].up <= b)
    BY <2>3
  <2> HIDE DEF b
  <2>8. Tree(Splice(s, n, L, new))
    BY <2>4, <2>5, <2>6, <2>7, SpliceTree
  <2>9. QED
    BY <2>2, <2>8 DEF new
<1>2. CASE hit.via = "copy"
  BY <1>2 DEF Delete
<1>3. CASE hit.via = "bare"
  BY <1>3 DEF Delete, Tree
<1>4. QED
  BY <1>0, <1>1, <1>2, <1>3

LEMMA InsertTree ==
  ASSUME NEW s, Tree(s), NEW n \in Elements(s), NEW idx \in Nat
  PROVE  Tree(Insert(s, n, idx))
<1> DEFINE C == {c \in Children(s, n) : s[c].kind \in {"element", "fragment"}}
           at == IF idx < Len(InOrder(C)) THEN InOrder(C)[idx + 1] ELSE Leave(s, n)
<1>0. n \in 1 .. Len(s) /\ n \in Nat /\ Len(s) \in Nat /\ s[n].kind = "element" /\ n # 0
  BY ElementsOf
<1>1. /\ at \in n + 1 .. Len(s) + 1
      /\ \A k \in n + 1 .. at - 1 : s[k].up >= n
      /\ \A m \in at .. Len(s) : s[m].up >= at \/ (s[m].up < at /\ s[m].up <= n)
  <2>1. CASE idx < Len(InOrder(C))
    <3>0. C \in SUBSET (1 .. Len(s))
      BY <1>0, ChildrenOf
    <3> DEFINE c == InOrder(C)[idx + 1]
    <3>1. c \in C
      <4> HIDE DEF C
      <4>1. Len(InOrder(C)) = Cardinality(C) /\ Cardinality(C) \in Nat
            /\ \A i \in 1 .. Cardinality(C) : InOrder(C)[i] \in C
        BY <1>0, <3>0, InOrderOf
      <4>2. idx + 1 \in 1 .. Cardinality(C)
        BY <2>1, <4>1
      <4>3. QED
        BY <4>1, <4>2
    <3>2. at = c
      BY <2>1
    <3> HIDE DEF c, at
    <3>3. /\ c \in n + 1 .. Len(s) /\ s[c].up = n /\ c \in 1 .. Len(s) /\ c \in Nat
          /\ \A k \in n + 1 .. c : s[k].up >= n
      BY <1>0, <3>1, ChildrenOf
    <3>4. \A m \in c .. Len(s) : s[m].up >= c \/ (s[m].up < c /\ s[m].up <= n)
      BY <3>3, BehindChild
    <3>5. c \in n + 1 .. Len(s) + 1 /\ \A k \in n + 1 .. c - 1 : s[k].up >= n
      BY <1>0, <3>3
    <3>6. QED
      BY <3>2, <3>4, <3>5
  <2>2. CASE ~(idx < Len(InOrder(C)))
    <3> DEFINE L == Leave(s, n)
    <3>1. /\ L \in n + 1 .. Len(s) + 1
          /\ \A k \in n + 1 .. L - 1 : s[k].up >= n
          /\ \A m \in L .. Len(s) : s[m].up < n \/ s[m].up >= L
      BY <1>0, LeaveOf
    <3>2. at = L
      BY <2>2
    <3> HIDE DEF L, at
    <3>3. \A m \in L .. Len(s) : s[m].up >= L \/ (s[m].up < L /\ s[m].up <= n)
      <4> TAKE m \in L .. Len(s)
      <4>1. s[m].up \in Nat
        BY <1>0, <3>1, TreeNode
      <4>2. QED
        BY <1>0, <3>1, <4>1
    <3>4. QED
      BY <3>1, <3>2, <3>3
  <2>3. QED
    BY <2>1, <2>2
<1> DEFINE new == <<NewNode("element", NewTag, n), NewNode("text", None, at)>>
<1>2. Insert(s, n, idx) = Splice(s, at, at, new)
  BY DEF Insert
<1> HIDE DEF at
<1>3. at \in Nat /\ at \in 1 .. Len(s) + 1 /\ at \in at .. Len(s) + 1 /\ n \in 0 .. at - 1
  BY <1>0, <1>1
<1>4. /\ new \in Seq(Node) /\ Len(new) = 2
      /\ new[1] = NewNode("element", NewTag, n) /\ new[2] = NewNode("text", None, at)
  BY <1>0, <1>3, NewNodeOf
<1> HIDE DEF new
<1>5. \A x \in 1 .. Len(new) :
           /\ new[x].kind = "element" <=> new[x].tag \in Tag
           /\ x = 1 => new[x].up = n
           /\ x > 1 => new[x].up = at + x - 2 /\ new[x - 1].kind # "text"
  <2> TAKE x \in 1 .. Len(new)
  <2>1. x = 1 \/ x = 2
    BY <1>4
  <2>2. /\ new[1].kind = "element" /\ new[1].tag \in Tag /\ new[1].up = n
        /\ new[2].kind = "text" /\ new[2].tag \notin Tag /\ new[2].up = at
    BY <1>0, <1>3, <1>4, NewNodeOf
  <2>3. CASE x = 1
    BY <2>2, <2>3
  <2>4. CASE x = 2
    BY <1>3, <2>2, <2>4
  <2>5. QED
    BY <2>1, <2>3, <2>4
<1>6. Kind(s, n) # "text"
  BY <1>0 DEF Kind
<1>7. Tree(Splice(s, at, at, new))
  BY <1>1, <1>3, <1>4, <1>5, <1>6, SpliceTree
<1>8. QED
  BY <1>2, <1>7

\* A text set where elements are among the children: the nodes keep their
\* kinds, one text in the place of another or one more.
LEMMA TextKept ==
  ASSUME NEW s, Tree(s), NEW n \in Elements(s), Hybrid(s, n)
  PROVE  Cardinality(Elements(SetText(s, n))) = Cardinality(Elements(s))
<1> DEFINE old == {c \in Children(s, n) : s[c].kind = "text"}
           t == SetText(s, n)
           text == <<NewNode("text", None, n)>>
<1>0. n \in 1 .. Len(s) /\ n \in Nat /\ Len(s) \in Nat /\ s \in Seq(Node) /\ DOMAIN s = 1 .. Len(s)
  BY ElementsOf, TreeNode DEF Tree
<1>1. text \in Seq(Node) /\ Len(text) = 1 /\ text[1].kind = "text"
  BY <1>0, NewNodeOf
<1>2. Tree(t)
  BY SetTextTree
<1>3. CASE old # {}
  <2>1. old \in SUBSET Nat
    BY <1>0, ChildrenOf
  <2> DEFINE c == Min(old)
  <2>2. c \in old
    <3> HIDE DEF old
    <3>1. QED
      BY <1>3, <2>1, LeastOf
  <2>3. t = Splice(s, c, c + 1, text)
    BY <1>3 DEF SetText
  <2> HIDE DEF c, t, text
  <2>4. c \in 1 .. Len(s) /\ c \in Nat /\ s[c].kind = "text"
    BY <1>0, <2>2, ChildrenOf
  <2> DEFINE j == c + 1
  <2>5. c \in 1 .. Len(s) + 1 /\ j \in c .. Len(s) + 1 /\ Len(text) - (j - c) = 0
    BY <1>0, <1>1, <2>4
  <2> HIDE DEF j
  <2> DEFINE e == Len(text) - (j - c)
  <2>6. /\ Len(t) = Len(s) + e
        /\ \A k \in 1 .. c - 1 : t[k] = s[k]
        /\ \A k \in 1 .. Len(text) : t[c + k - 1] = text[k]
        /\ \A k \in j .. Len(s) : t[k + e] = Moved(s[k], j, e)
    BY <1>0, <1>1, <2>3, <2>5, SpliceOf DEF j
  <2>61. e = 0
    BY <2>5
  <2> HIDE DEF e
  <2>7. Len(t) = Len(s) /\ t[c].kind = "text" /\ \A k \in j .. Len(s) : t[k] = Moved(s[k], j, 0)
    <3>1. \A k \in j .. Len(s) : t[k] = Moved(s[k], j, 0)
      <4> TAKE k \in j .. Len(s)
      <4>1. k + e = k
        BY <1>0, <2>4, <2>61 DEF j
      <4>2. QED
        BY <2>6, <2>61, <4>1
    <3>2. t[c + 1 - 1] = text[1] /\ c + 1 - 1 = c
      BY <1>1, <2>4, <2>6
    <3>3. QED
      BY <1>0, <1>1, <2>6, <2>61, <3>1, <3>2
  <2>8. \A k \in 1 .. Len(s) : t[k].kind = s[k].kind
    <3> TAKE k \in 1 .. Len(s)
    <3>1. CASE k < c
      BY <1>0, <2>4, <2>6, <3>1
    <3>2. CASE k = c
      BY <2>4, <2>7, <3>2
    <3>3. CASE k > c
      <4>1. k \in j .. Len(s) /\ s[k] \in Node
        BY <1>0, <2>4, <3>3 DEF j
      <4>2. QED
        BY <2>7, <4>1 DEF Moved, Node
    <3>4. QED
      BY <1>0, <2>4, <3>1, <3>2, <3>3
  <2>9. \A k : k \in Elements(t) <=> k \in Elements(s)
    BY <1>0, <1>2, <2>7, <2>8, ElementsOf
  <2>10. QED
    BY <2>9 DEF t
<1>4. CASE old = {}
  <2> DEFINE i == n + 1
  <2>1. t = Splice(s, i, i, text)
    BY <1>4 DEF SetText
  <2>2. i \in 1 .. Len(s) + 1 /\ i \in i .. Len(s) + 1 /\ Len(text) - (i - i) = 1 /\ i \in Nat
    BY <1>0, <1>1
  <2> HIDE DEF i, t, text
  <2>3. /\ Len(t) = Len(s) + (Len(text) - (i - i))
        /\ \A k \in 1 .. i - 1 : t[k] = s[k]
        /\ \A k \in 1 .. Len(text) : t[i + k - 1] = text[k]
        /\ \A k \in i .. Len(s) : t[k + (Len(text) - (i - i))] = Moved(s[k], i, Len(text) - (i - i))
    BY <1>0, <1>1, <2>1, <2>2, SpliceOf
  <2>4. /\ Len(t) = Len(s) + 1
        /\ t[i].kind = "text"
        /\ \A k \in 1 .. Len(s) : k < i => t[k].kind = s[k].kind
        /\ \A k \in 1 .. Len(s) : k >= i => t[k + 1].kind = s[k].kind
    <3>1. t[i + 1 - 1] = text[1] /\ i + 1 - 1 = i
      BY <1>1, <2>2, <2>3
    <3>2. \A k \in 1 .. Len(s) : k < i => k \in 1 .. i - 1
      BY <2>2
    <3>3. ASSUME NEW k \in 1 .. Len(s), k >= i PROVE t[k + 1].kind = s[k].kind
      <4>1. k \in i .. Len(s) /\ s[k] \in Node
        BY <1>0, <2>2, <3>3
      <4>2. t[k + 1] = Moved(s[k], i, 1)
        BY <2>2, <2>3, <4>1
      <4>3. QED
        BY <4>1, <4>2 DEF Moved, Node
    <3>4. QED
      BY <1>1, <2>2, <2>3, <3>1, <3>2, <3>3
  <2> DEFINE f == [k \in Elements(s) |-> IF k < i THEN k ELSE k + 1]
  <2>5. \A k \in Elements(s) : k \in 1 .. Len(s) /\ k \in Nat /\ s[k].kind = "element"
    BY ElementsOf
  <2>6. \A k \in Elements(t) : k \in 1 .. Len(t) /\ k \in Nat /\ t[k].kind = "element" /\ k # i
    BY <1>2, <2>4, ElementsOf
  <2>7. \A k \in Elements(s) : f[k] \in Elements(t)
    <3> TAKE k \in Elements(s)
    <3>1. CASE k < i
      <4>1. k \in 1 .. Len(t) /\ t[k].kind = "element"
        BY <1>0, <2>4, <2>5, <3>1
      <4>2. QED
        BY <1>2, <3>1, <4>1, ElementsOf
    <3>2. CASE ~(k < i)
      <4>1. k + 1 \in 1 .. Len(t) /\ t[k + 1].kind = "element"
        BY <1>0, <2>2, <2>4, <2>5, <3>2
      <4>2. QED
        BY <1>2, <3>2, <4>1, ElementsOf
    <3>3. QED
      BY <3>1, <3>2
  <2>8. \A k, q \in Elements(s) : f[k] = f[q] => k = q
    BY <2>2, <2>5
  <2>9. \A k \in Elements(t) : \E q \in Elements(s) : f[q] = k
    <3> TAKE k \in Elements(t)
    <3>1. CASE k < i
      <4>1. k \in 1 .. Len(s) /\ s[k].kind = "element"
        BY <1>0, <2>2, <2>4, <2>6, <3>1 DEF i
      <4>2. k \in Elements(s) /\ f[k] = k
        BY <3>1, <4>1, ElementsOf
      <4>3. QED
        BY <4>2
    <3>2. CASE k > i
      <4> DEFINE q == k - 1
      <4>1. q \in 1 .. Len(s) /\ q >= i /\ q + 1 = k /\ ~(q < i)
        BY <1>0, <2>2, <2>4, <2>6, <3>2
      <4> HIDE DEF q
      <4>2. s[q].kind = "element"
        BY <2>4, <2>6, <4>1
      <4>3. q \in Elements(s)
        BY <4>1, <4>2, ElementsOf
      <4>4. QED
        BY <4>1, <4>3
    <3>3. QED
      BY <2>2, <2>6, <3>1, <3>2
  <2> HIDE DEF f
  <2>10. f \in [Elements(s) -> Elements(t)]
    BY <2>7 DEF f
  <2>11. f \in Bijection(Elements(s), Elements(t))
    BY <2>8, <2>9, <2>10 DEF Bijection, Injection, Surjection, IsInjective
  <2>12. IsFiniteSet(Elements(s))
    BY <1>0, ElementsOf, Places
  <2>13. QED
    BY <2>11, <2>12, FS_Bijection DEF ExistsBijection, t
<1>5. QED
  BY <1>3, <1>4

-----------------------------------------------------------------------------
(* The file.                                                               *)

LEMMA WriteTree ==
  ASSUME NEW s, Tree(s), NEW node \in Node,
         node.up \in {0, Len(s)} \cup Above(s, Len(s)),
         node.up # 0 => s[node.up].kind # "text",
         node.kind = "element" <=> node.tag \in Tag
  PROVE  Tree(Append(s, node))
<1> DEFINE i == Len(s) + 1
           n == node.up
           new == <<node>>
           t == Splice(s, i, i, new)
<1>0. Len(s) \in Nat /\ s \in Seq(Node) /\ \A k \in 1 .. Len(s) : s[k].up \in Nat
  BY TreeNode DEF Tree
<1>1. n \in 0 .. i - 1 /\ \A k \in n + 1 .. i - 1 : s[k].up >= n
  <2>1. CASE n = 0
    <3>1. \A k \in 0 + 1 .. i - 1 : k \in 1 .. Len(s)
      BY <1>0
    <3>2. QED
      BY <1>0, <2>1, <3>1
  <2>2. CASE n = Len(s)
    BY <1>0, <2>2
  <2>3. CASE n \in Above(s, Len(s))
    BY <1>0, <2>3, AboveMember
  <2>4. QED
    BY <2>1, <2>2, <2>3
<1>2. new \in Seq(Node) /\ Len(new) = 1 /\ new[1] = node
  OBVIOUS
<1>3. i \in 1 .. Len(s) + 1 /\ i \in i .. Len(s) + 1 /\ i \in Nat
  BY <1>0
<1>4. Kind(s, n) # "text"
  <2>1. None # "text"
    BY GhostIdsAssumption
  <2>2. QED
    BY <2>1 DEF Kind
<1>5. \A x \in 1 .. Len(new) :
           /\ new[x].kind = "element" <=> new[x].tag \in Tag
           /\ x = 1 => new[x].up = n
           /\ x > 1 => new[x].up = i + x - 2 /\ new[x - 1].kind # "text"
  BY <1>2
<1> HIDE DEF new, i
<1>6. \A m \in i .. Len(s) : FALSE
  BY <1>0 DEF i
<1>7. Tree(t)
  <2> HIDE DEF n
  <2>1. QED
    BY <1>0, <1>1, <1>2, <1>3, <1>4, <1>5, <1>6, SpliceTree
<1>8. /\ t \in Seq(Node) /\ Len(t) = Len(s) + 1
      /\ \A k \in 1 .. Len(s) : t[k] = s[k]
      /\ t[Len(s) + 1] = node
  <2>1. /\ t \in Seq(Node) /\ Len(t) = Len(s) + (Len(new) - (i - i))
        /\ \A k \in 1 .. i - 1 : t[k] = s[k]
        /\ \A k \in 1 .. Len(new) : t[i + k - 1] = new[k]
    BY <1>0, <1>2, <1>3, SpliceOf
  <2>2. t[i + 1 - 1] = new[1] /\ i + 1 - 1 = Len(s) + 1 /\ i - 1 = Len(s) /\ Len(new) - (i - i) = 1
    BY <1>0, <1>2, <1>3, <2>1 DEF i
  <2>3. QED
    BY <1>2, <2>1, <2>2
<1> DEFINE a == Append(s, node)
<1>9. /\ a \in Seq(Node) /\ Len(a) = Len(s) + 1
      /\ \A k \in 1 .. Len(s) : a[k] = s[k]
      /\ a[Len(s) + 1] = node
  BY <1>0, AppendProperties
<1> HIDE DEF a, t
<1>10. \A k \in 1 .. Len(a) : a[k] = t[k]
  <2> TAKE k \in 1 .. Len(a)
  <2>1. k \in 1 .. Len(s) \/ k = Len(s) + 1
    BY <1>0, <1>9
  <2>2. QED
    BY <1>8, <1>9, <2>1
<1>11. a = t
  BY <1>8, <1>9, <1>10, SeqEqual
<1>12. QED
  BY <1>7, <1>11 DEF a

LEMMA InitFile == FileInit => FileInv
<1> SUFFICES ASSUME FileInit PROVE FileInv
  OBVIOUS
<1>1. source = <<>> /\ page = <<>>
  BY DEF FileInit
<1>2. /\ source \in Seq(Node) /\ Len(source) = 0 /\ DOMAIN source = {}
      /\ page \in Seq(Node) /\ DOMAIN page = {}
  BY <1>1
<1>3. FileTypeOK
  BY <1>2, GhostIdsAssumption DEF FileTypeOK
<1>4. Tree(page)
  BY <1>2 DEF Tree
<1>5. QED
  BY <1>3, <1>4 DEF FileInv

LEMMA TypeIsTree == FileTypeOK <=> (Tree(source) /\ Len(source) <= MaxNodes)
BY DEF FileTypeOK, Tree

LEMMA WriteStep ==
  ASSUME FileInv,
         NEW kind \in {"element", "fragment", "expr", "text"}, NEW tag \in Tag \cup {None},
         NEW up \in 0 .. MaxNodes, NEW branch \in Branch, NEW bare \in BOOLEAN,
         Write(kind, tag, up, branch, bare)
  PROVE  FileInv'
<1> DEFINE node == [kind |-> kind, tag |-> tag, up |-> up, branch |-> branch, bare |-> bare]
<1>1. /\ Len(source) < MaxNodes /\ up \in {0, Len(source)} \cup Above(source, Len(source))
      /\ up # 0 => source[up].kind # "text"
      /\ kind = "element" <=> tag # None
      /\ source' = Append(source, node) /\ page' = page
  BY DEF Write
<1>2. Tree(source) /\ Tree(page)
  BY TypeIsTree DEF FileInv
<1>3. None \notin Tag /\ Branch \subseteq Nat /\ MaxNodes \in Nat
  BY GhostIdsAssumption
<1>4. node \in Node /\ node.up = up /\ node.kind = kind /\ node.tag = tag
  BY <1>3 DEF Node
<1>5. node.kind = "element" <=> node.tag \in Tag
  BY <1>1, <1>3, <1>4
<1> HIDE DEF node
<1>6. Tree(Append(source, node))
  BY <1>1, <1>2, <1>4, <1>5, WriteTree
<1>7. Tree(source') /\ Tree(page')
  BY <1>1, <1>2, <1>6
<1>8. Len(source') = Len(source) + 1 /\ Len(source) \in Nat
  <2>1. source \in Seq(Node)
    BY <1>2 DEF Tree
  <2>2. QED
    BY <1>1, <1>4, <2>1, AppendProperties
<1>9. Len(source') <= MaxNodes
  BY <1>1, <1>3, <1>8
<1>10. QED
  BY <1>7, <1>9 DEF FileInv, FileTypeOK, Tree

\* What an id of the page leads to is an element of the source, or nothing.
LEMMA ShownIsHit ==
  ASSUME FileInv, NEW hit \in Shown
  PROVE  hit \in Hits(source) \cup {NoHit}
<1>1. PICK n \in Injected(page) : hit = Lookup(source, GhostId(page, n))
  BY DEF Shown
<1>2. Tree(source) /\ Tree(page) /\ n \in Elements(page)
  BY <1>1, TypeIsTree DEF FileInv, Injected
<1>3. IsId(GhostId(page, n))
  BY <1>2, GhostIdIsId
<1>4. QED
  BY <1>1, <1>2, <1>3, LookupFinds

LEMMA PatchStep ==
  ASSUME FileInv, NEW hit \in Shown, NEW o \in Ops, Patch(hit, o)
  PROVE  FileInv'
<1>1. /\ source' = IF Result(source, hit, o) = "ok" THEN Edited(source, hit, o) ELSE source
      /\ Len(source') <= MaxNodes
      /\ page' = page
  BY DEF Patch
<1>2. Tree(source) /\ Tree(page)
  BY TypeIsTree DEF FileInv
<1>3. Tree(source')
  <2>1. CASE Result(source, hit, o) # "ok"
    BY <1>1, <1>2, <2>1
  <2>2. CASE Result(source, hit, o) = "ok"
    <3>1. hit \in Hits(source) /\ hit.node \in Elements(source)
      BY <2>2, ShownIsHit DEF Result, Hits
    <3>2. CASE o.op = "text"
      BY <1>1, <1>2, <2>2, <3>1, <3>2, SetTextTree DEF Edited
    <3>3. CASE o.op = "delete"
      BY <1>1, <1>2, <2>2, <3>1, <3>3, DeleteTree DEF Edited
    <3>4. CASE o.op = "insert"
      <4>1. o.idx \in Nat
        BY <3>4, GhostIdsAssumption DEF Ops
      <4>2. QED
        BY <1>1, <1>2, <2>2, <3>1, <3>4, <4>1, InsertTree DEF Edited
    <3>5. CASE o.op \notin {"text", "delete", "insert"}
      BY <1>1, <1>2, <2>2, <3>5 DEF Edited
    <3>6. QED
      BY <3>2, <3>3, <3>4, <3>5
  <2>3. QED
    BY <2>1, <2>2
<1>4. QED
  BY <1>1, <1>2, <1>3 DEF FileInv, FileTypeOK, Tree

LEMMA FileInvStep == FileInv /\ [FileNext]_fileVars => FileInv'
<1> SUFFICES ASSUME FileInv, [FileNext]_fileVars PROVE FileInv'
  OBVIOUS
<1>1. ASSUME NEW kind \in {"element", "fragment", "expr", "text"}, NEW tag \in Tag \cup {None},
             NEW up \in 0 .. MaxNodes, NEW branch \in Branch, NEW bare \in BOOLEAN,
             Write(kind, tag, up, branch, bare)
      PROVE  FileInv'
  BY <1>1, WriteStep
<1>2. CASE InjectGhostIds
  <2>1. source' = source /\ page' = source
    BY <1>2 DEF InjectGhostIds
  <2>2. QED
    BY <2>1, TypeIsTree DEF FileInv, FileTypeOK, Tree
<1>3. ASSUME NEW hit \in Shown, NEW o \in Ops, Patch(hit, o)
      PROVE  FileInv'
  BY <1>3, PatchStep
<1>4. CASE UNCHANGED fileVars
  BY <1>4 DEF fileVars, FileInv, FileTypeOK, Tree
<1>5. QED
  BY <1>1, <1>2, <1>3, <1>4 DEF FileNext

\* The two texts are preorders of forests all along.
THEOREM FileInductive == FileSpec => []FileInv
<1>1. FileInit => FileInv
  BY InitFile
<1>2. FileInv /\ [FileNext]_fileVars => FileInv'
  BY FileInvStep
<1>3. QED
  BY <1>1, <1>2, PTL DEF FileSpec

\* Every edit leaves a well-formed file: a splice that forgets to renumber, or
\* to take a whole subtree, does not (the edits of surgical.ts).
THEOREM FileTypeCorrect == FileSpec => []FileTypeOK
<1>1. FileInv => FileTypeOK
  BY DEF FileInv
<1>2. QED
  BY <1>1, FileInductive, PTL

\* In a plain file the lookup of an element's own id finds that element, for
\* files of every size and depth (injector.ts's ids, surgical.ts's lookup).
THEOREM IdsRoundTrip == FileSpec => []PlainRoundTrip
<1>1. FileInv => PlainRoundTrip
  BY TypeIsTree, RoundTripStep DEF FileInv, PlainRoundTrip
<1>2. QED
  BY <1>1, FileInductive, PTL

\* In a file of one root that nothing in a {...} looks like, no edit by a fresh
\* id but a structural one goes into a dynamic block (Logic-Lock).
THEOREM LogicLocked == FileSpec => []LockHolds
<1>1. ASSUME FileInv PROVE LockHolds
  <2> SUFFICES ASSUME OneRoot(source), NEW n \in Injected(source), NEW o \in Ops,
                      o.op \notin Unlocked,
                      Result(source, Lookup(source, GhostId(source, n)), o) = "ok"
               PROVE  ~InLogic(source, Lookup(source, GhostId(source, n)).node)
    BY DEF LockHolds
  <2> DEFINE hit == Lookup(source, GhostId(source, n))
  <2>1. Tree(source)
    BY <1>1, TypeIsTree DEF FileInv
  <2>2. hit = NoHit \/ Refused(source, hit) \/ ~InLogic(source, hit.node)
    BY <2>1, LockStep
  <2> HIDE DEF hit
  <2>3. Result(source, hit, o) = "ok"
    BY DEF hit
  <2>4. hit # NoHit /\ ~Refused(source, hit)
    BY <2>3 DEF Result
  <2>5. QED
    BY <2>2, <2>4 DEF hit
<1>2. FileInv => LockHolds
  BY <1>1
<1>3. QED
  BY <1>2, FileInductive, PTL

\* A text edit of an element with elements among its children keeps every
\* element of the file (updateTextContent).
THEOREM TextKeepsSiblings == FileSpec => []SiblingsKept
<1>1. FileInv => SiblingsKept
  BY TypeIsTree, TextKept DEF FileInv, SiblingsKept
<1>2. QED
  BY <1>1, FileInductive, PTL
=============================================================================
