--------------------------- MODULE HotPathProofs ---------------------------
(***************************************************************************)
(* Proofs about HotPath, for every ring size, channel capacity and bound:  *)
(* through laps, restarts and the slots an earlier session left behind,    *)
(* the consumer stays in step with the ring.                               *)
(***************************************************************************)
EXTENDS HotPath, Integers, TLAPS

\* A published slot carries a number that belongs to it.
SlotsNumbered ==
  \A s \in Slot : slots[s].seq # 0 => Index(slots[s].seq - 1) = s

\* In the first session every number is one the producer has used, and every
\* payload that it is not writing belongs to one event.
PayloadsWhole ==
  sessions = 1 =>
    /\ \A s \in Slot :
         /\ slots[s].seq < sequence
         /\ slots[s].element # slots[s].value => s = target /\ progress # "none"
    /\ progress = "element" => slots[target].element = events
    /\ progress = "payload" => slots[target].element = slots[target].value
    /\ reading.stage # "idle" => 0 < reading.seq /\ reading.seq < sequence

IInv ==
  TypeOK /\ SlotsNumbered /\ InStep /\ PayloadsWhole /\ TornOnlyWhenLapped

-----------------------------------------------------------------------------
\* A position names a slot.
LEMMA IndexType ==
  ASSUME NEW n \in Nat
  PROVE  Index(n) \in Slot
  BY HotPathAssumption DEF Index, Slot

\* The producer writes, and the consumer reads, a slot of the ring.
LEMMA SlotsInUse ==
  ASSUME TypeOK
  PROVE  target \in Slot /\ Index(read_pos) \in Slot
<1>1. sequence - 1 \in Nat /\ read_pos \in Nat
  BY DEF TypeOK
<1>2. QED
  BY <1>1, IndexType DEF target

\* A send into the channel, and a receive from it, keep it a channel.
LEMMA ChannelType ==
  ASSUME css \in Seq(Message), Len(css) <= CssCapacity
  PROVE  /\ \A m \in Message : Len(css) < CssCapacity
              => Append(css, m) \in Seq(Message)
                 /\ Len(Append(css, m)) <= CssCapacity
         /\ css # << >> => /\ Head(css) \in Message
                           /\ Tail(css) \in Seq(Message)
                           /\ Len(Tail(css)) <= CssCapacity
  BY HotPathAssumption

-----------------------------------------------------------------------------
LEMMA TypeStep ==
  ASSUME TypeOK, [Next]_vars
  PROVE  TypeOK'
<1>0. target \in Slot /\ Index(read_pos) \in Slot
  BY SlotsInUse
<1>1. CASE WriteElement
  <2>1. events + 1 \in 0..MaxEvents
    BY <1>1, HotPathAssumption DEF WriteElement, TypeOK
  <2>2. slots' \in [Slot -> [seq : Nat, element : 0..MaxEvents,
                             value : 0..MaxEvents]]
    BY <1>0, <1>1, <2>1 DEF WriteElement, TypeOK
  <2>3. QED
    BY <1>1, <2>1, <2>2 DEF WriteElement, TypeOK, consumer
<1>2. CASE WriteValue
  <2>1. slots' \in [Slot -> [seq : Nat, element : 0..MaxEvents,
                             value : 0..MaxEvents]]
    BY <1>0, <1>2 DEF WriteValue, TypeOK
  <2>2. QED
    BY <1>2, <2>1 DEF WriteValue, TypeOK, consumer
<1>3. CASE WriteSequence
  <2>1. slots' \in [Slot -> [seq : Nat, element : 0..MaxEvents,
                             value : 0..MaxEvents]]
    BY <1>0, <1>3 DEF WriteSequence, TypeOK
  <2>2. sequence' \in Nat \ {0} /\ progress' \in {"none", "element", "payload"}
    BY <1>3 DEF WriteSequence, TypeOK
  <2>3. UNCHANGED <<events, sessions, consumer, restarts>>
    BY <1>3 DEF WriteSequence
  <2>4. QED
    BY <2>1, <2>2, <2>3 DEF TypeOK, consumer
<1>4. CASE ReadSequence
  <2>1. current.seq \in Nat
    BY <1>0 DEF current, TypeOK
  <2>2. reading' \in [stage : {"idle", "sequence", "element"}, seq : Nat,
                      element : 0..MaxEvents]
    BY <1>4, <2>1, HotPathAssumption DEF ReadSequence
  <2>3. QED
    BY <1>4, <2>2 DEF ReadSequence, TypeOK, producer
<1>5. CASE ReadElement
  <2>1. current.element \in 0..MaxEvents
    BY <1>0 DEF current, TypeOK
  <2>2. reading' \in [stage : {"idle", "sequence", "element"}, seq : Nat,
                      element : 0..MaxEvents]
    BY <1>5, <2>1 DEF ReadElement, TypeOK
  <2>3. QED
    BY <1>5, <2>2 DEF ReadElement, TypeOK, producer
<1>6. CASE ReadValue
  <2> DEFINE m == [element |-> reading.element, value |-> current.value]
  <2>1. m \in Message /\ m.value \in 0..MaxEvents
    BY <1>0 DEF current, TypeOK, Message
  <2>2. reading' \in [stage : {"idle", "sequence", "element"}, seq : Nat,
                      element : 0..MaxEvents]
    BY <1>6, HotPathAssumption DEF ReadValue, Idle
  <2>3. read_pos' \in Nat
    BY <1>6 DEF ReadValue, PositionAfter, TypeOK
  <2>4. IF Len(css) < CssCapacity
          THEN css' = Append(css, m) /\ dropped' = dropped
          ELSE dropped' = dropped \cup {m.value} /\ css' = css
    BY <1>6 DEF ReadValue, HasRoom
  <2> HIDE DEF m
  <2>5. css' \in Seq(Message) /\ Len(css') <= CssCapacity
    BY <2>1, <2>4, ChannelType DEF TypeOK
  <2>6. dropped' \in SUBSET (0..MaxEvents)
    BY <2>1, <2>4 DEF TypeOK
  <2>7. QED
    BY <1>6, <2>2, <2>3, <2>5, <2>6 DEF ReadValue, TypeOK, producer
<1>7. CASE Forward
  BY <1>7, ChannelType DEF Forward, TypeOK, producer
<1>8. CASE ConsumerRestarts \/ NewSession
  <2>1. restarts + 1 \in 0..MaxRestarts
    BY <1>8, HotPathAssumption
       DEF ConsumerRestarts, NewSession, MayRestart, TypeOK
  <2>2. Idle \in [stage : {"idle", "sequence", "element"}, seq : Nat,
                  element : 0..MaxEvents]
    BY HotPathAssumption DEF Idle
  <2>3. << >> \in Seq(Message) /\ Len(<< >>) <= CssCapacity
    BY HotPathAssumption
  <2>4. CASE ConsumerRestarts
    BY <2>1, <2>2, <2>3, <2>4
       DEF ConsumerRestarts, MayRestart, TypeOK, producer
  <2>5. CASE NewSession
    BY <2>1, <2>2, <2>3, <2>5 DEF NewSession, MayRestart, TypeOK
  <2>6. QED
    BY <1>8, <2>4, <2>5
<1>9. CASE UNCHANGED vars
  BY <1>9 DEF vars, TypeOK, producer, consumer
<1>10. QED
  BY <1>1, <1>2, <1>3, <1>4, <1>5, <1>6, <1>7, <1>8, <1>9
     DEF Next, Produce, Consume

\* The producer numbers a slot by its place, and nobody else numbers slots.
LEMMA NumberedStep ==
  ASSUME TypeOK, SlotsNumbered, [Next]_vars
  PROVE  SlotsNumbered'
<1>0. target \in Slot
  BY SlotsInUse
<1>1. CASE WriteSequence
  <2> SUFFICES ASSUME NEW s \in Slot, slots'[s].seq # 0
               PROVE  Index(slots'[s].seq - 1) = s
    BY DEF SlotsNumbered
  <2>1. CASE s = target
    BY <1>0, <1>1, <2>1 DEF WriteSequence, TypeOK, target
  <2>2. CASE s # target
    BY <1>0, <1>1, <2>2 DEF WriteSequence, TypeOK, SlotsNumbered
  <2>3. QED
    BY <2>1, <2>2
<1>2. CASE WriteElement
  <2>1. \A s \in Slot : slots'[s].seq = slots[s].seq
    BY <1>0, <1>2 DEF WriteElement, TypeOK
  <2>2. QED
    BY <2>1 DEF SlotsNumbered
<1>3. CASE WriteValue
  <2>1. \A s \in Slot : slots'[s].seq = slots[s].seq
    BY <1>0, <1>3 DEF WriteValue, TypeOK
  <2>2. QED
    BY <2>1 DEF SlotsNumbered
<1>4. CASE UNCHANGED slots
  BY <1>4 DEF SlotsNumbered
<1>5. QED
  BY <1>1, <1>2, <1>3, <1>4
     DEF Next, Produce, Consume, ReadSequence, ReadElement, ReadValue, Forward,
         ConsumerRestarts, NewSession, vars

\* What the consumer takes from a slot belongs to it, and it lets go of the
\* number in the step that moves its position.
LEMMA InStepStep ==
  ASSUME TypeOK, SlotsNumbered, InStep, [Next]_vars
  PROVE  InStep'
<1>0. Index(read_pos) \in Slot
  BY SlotsInUse
<1>1. CASE ReadSequence
  <2>1. /\ reading'.seq = slots[Index(read_pos)].seq
        /\ read_pos' = read_pos
    BY <1>1 DEF ReadSequence, current
  <2>2. QED
    BY <1>0, <2>1 DEF SlotsNumbered, InStep
<1>2. CASE reading' = Idle
  BY <1>2 DEF Idle, InStep
<1>3. CASE ReadElement
  <2>1. reading'.seq = reading.seq /\ read_pos' = read_pos
    BY <1>3 DEF ReadElement, TypeOK
  <2>2. QED
    BY <2>1 DEF InStep
<1>4. CASE UNCHANGED <<reading, read_pos>>
  BY <1>4 DEF InStep
<1>5. QED
  BY <1>1, <1>2, <1>3, <1>4
     DEF Next, Produce, Consume, WriteElement, WriteValue, WriteSequence,
         ReadValue, Forward, ConsumerRestarts, NewSession, vars, consumer

\* Two numbers of one slot are a lap or more apart.
LEMMA LapsApart ==
  ASSUME NEW m \in Nat, NEW n \in Nat, m < n, Index(m) = Index(n)
  PROVE  n >= m + RING_SIZE
<1> DEFINE p == m \div RING_SIZE
           q == n \div RING_SIZE
<1>1. /\ m = RING_SIZE * (m \div RING_SIZE) + Index(m)
      /\ n = RING_SIZE * (n \div RING_SIZE) + Index(n)
  BY HotPathAssumption, SMT DEF Index
<1>2. p \in Int /\ q \in Int
  BY HotPathAssumption, SMT
<1>3. Index(m) \in Nat
  BY HotPathAssumption, SMT DEF Index
<1> HIDE DEF p, q
<1>4. n - m = RING_SIZE * (q - p)
  BY <1>1, <1>2, <1>3, HotPathAssumption, SMT DEF p, q
<1>5. q - p >= 1
  BY <1>2, <1>4, HotPathAssumption, SMT
<1>6. RING_SIZE * (q - p) >= RING_SIZE
  BY <1>2, <1>5, HotPathAssumption, SMT
<1>7. QED
  BY <1>2, <1>4, <1>6, HotPathAssumption, SMT

\* When the producer is about to write the slot the consumer reads, it has
\* lapped the number the consumer holds.
LEMMA LappedAtTarget ==
  ASSUME TypeOK, InStep, PayloadsWhole, sessions = 1, reading.stage # "idle",
         Index(read_pos) = target
  PROVE  sequence >= reading.seq + RING_SIZE
<1>1. /\ reading.seq \in Nat /\ sequence \in Nat
      /\ 0 < reading.seq /\ reading.seq < sequence
  BY DEF TypeOK, PayloadsWhole
<1>2. Index(reading.seq - 1) = Index(sequence - 1)
  BY <1>1 DEF InStep, target
<1>3. sequence - 1 >= reading.seq - 1 + RING_SIZE
  <2>1. reading.seq - 1 \in Nat /\ sequence - 1 \in Nat
        /\ reading.seq - 1 < sequence - 1
    BY <1>1
  <2>2. QED
    BY <1>2, <2>1, LapsApart
<1>4. QED
  BY <1>1, <1>3, HotPathAssumption

\* A payload is whole again before its number is published, and a number is
\* used before it is read.
LEMMA WholeStep ==
  ASSUME TypeOK, PayloadsWhole, [Next]_vars
  PROVE  PayloadsWhole'
<1> SUFFICES ASSUME sessions' = 1
             PROVE  PayloadsWhole'
  BY DEF PayloadsWhole
<1>0. target \in Slot /\ Index(read_pos) \in Slot
  BY SlotsInUse
<1>1. CASE WriteElement
  <2>1. /\ slots'[target].element = events'
        /\ \A s \in Slot : slots'[s].seq = slots[s].seq
        /\ \A s \in Slot \ {target} : slots'[s] = slots[s]
    BY <1>0, <1>1 DEF WriteElement, TypeOK
  <2>2. target' = target
    BY <1>1 DEF WriteElement, target
  <2>3. QED
    BY <1>0, <1>1, <2>1, <2>2 DEF WriteElement, PayloadsWhole, consumer
<1>2. CASE WriteValue
  <2>1. /\ slots'[target].value = events
        /\ slots'[target].element = slots[target].element
        /\ \A s \in Slot : slots'[s].seq = slots[s].seq
        /\ \A s \in Slot \ {target} : slots'[s] = slots[s]
    BY <1>0, <1>2 DEF WriteValue, TypeOK
  <2>2. target' = target
    BY <1>2 DEF WriteValue, target
  <2>3. QED
    BY <1>0, <1>2, <2>1, <2>2 DEF WriteValue, PayloadsWhole, consumer
<1>3. CASE WriteSequence
  <2>1. /\ slots'[target].seq = sequence
        /\ \A s \in Slot : /\ slots'[s].element = slots[s].element
                           /\ slots'[s].value = slots[s].value
        /\ \A s \in Slot \ {target} : slots'[s] = slots[s]
    BY <1>0, <1>3 DEF WriteSequence, TypeOK
  <2>2. /\ sequence \in Nat /\ sequence' = sequence + 1
        /\ \A s \in Slot : slots[s].seq \in Nat
        /\ reading.seq \in Nat /\ reading' = reading
    BY <1>3 DEF WriteSequence, TypeOK, consumer
  <2>3. /\ progress = "payload" /\ progress' = "none" /\ sessions = 1
    BY <1>3 DEF WriteSequence, Publishable
  <2>4. ASSUME NEW s \in Slot
        PROVE  slots'[s].seq < sequence' /\ slots'[s].element = slots'[s].value
    <3>1. CASE s = target
      BY <2>1, <2>2, <2>3, <3>1 DEF PayloadsWhole
    <3>2. CASE s # target
      BY <2>1, <2>2, <2>3, <3>2 DEF PayloadsWhole
    <3>3. QED
      BY <3>1, <3>2
  <2>5. QED
    BY <2>2, <2>3, <2>4 DEF PayloadsWhole
<1>4. CASE ReadSequence
  <2>1. /\ reading'.seq = slots[Index(read_pos)].seq
        /\ slots[Index(read_pos)].seq > read_pos
        /\ UNCHANGED <<slots, producer>>
    BY <1>4 DEF ReadSequence, current, IsNew
  <2>2. slots[Index(read_pos)].seq \in Nat /\ read_pos \in Nat
    BY <1>0 DEF TypeOK
  <2>3. QED
    BY <1>0, <2>1, <2>2 DEF PayloadsWhole, producer, target
<1>5. CASE reading' = Idle /\ UNCHANGED <<slots, producer>>
  BY <1>5 DEF Idle, PayloadsWhole, producer, target
<1>6. CASE ReadElement
  <2>1. /\ reading.stage = "sequence" /\ reading'.seq = reading.seq
        /\ UNCHANGED <<slots, producer>>
    BY <1>6 DEF ReadElement, TypeOK
  <2>2. QED
    BY <2>1 DEF PayloadsWhole, producer, target
<1>7. CASE UNCHANGED <<slots, producer, reading>>
  BY <1>7 DEF PayloadsWhole, producer, target
<1>8. CASE NewSession
  <2>1. sessions' # 1
    BY <1>8 DEF NewSession, TypeOK
  <2>2. QED
    BY <2>1
<1>9. QED
  BY <1>1, <1>2, <1>3, <1>4, <1>5, <1>6, <1>7, <1>8
     DEF Next, Produce, Consume, ReadValue, Forward, ConsumerRestarts, vars,
         consumer

\* What was read differs from what is there only where the producer has come
\* round to the slot.
LEMMA TornStep ==
  ASSUME TypeOK, InStep, PayloadsWhole, TornOnlyWhenLapped, [Next]_vars
  PROVE  TornOnlyWhenLapped'
<1> SUFFICES ASSUME sessions' = 1, reading'.stage = "element",
                    current'.value # reading'.element
             PROVE  sequence' >= reading'.seq + RING_SIZE
  BY DEF TornOnlyWhenLapped
<1>0. /\ target \in Slot /\ Index(read_pos) \in Slot
      /\ sequence \in Nat /\ reading.seq \in Nat
  BY SlotsInUse DEF TypeOK
<1>1. CASE WriteElement
  <2>1. \A s \in Slot : slots'[s].value = slots[s].value
    BY <1>0, <1>1 DEF WriteElement, TypeOK
  <2>2. UNCHANGED <<reading, read_pos, sequence, sessions>>
    BY <1>1 DEF WriteElement, consumer
  <2>3. QED
    BY <1>0, <2>1, <2>2 DEF TornOnlyWhenLapped, current
<1>2. CASE WriteValue
  <2>1. \A s \in Slot \ {target} : slots'[s] = slots[s]
    BY <1>0, <1>2 DEF WriteValue, TypeOK
  <2>2. UNCHANGED <<reading, read_pos, sequence, sessions>>
    BY <1>2 DEF WriteValue, consumer
  <2>3. CASE Index(read_pos) = target
    BY <2>2, <2>3, LappedAtTarget
  <2>4. CASE Index(read_pos) # target
    BY <1>0, <2>1, <2>2, <2>4 DEF TornOnlyWhenLapped, current
  <2>5. QED
    BY <2>3, <2>4
<1>3. CASE WriteSequence
  <2>1. \A s \in Slot : slots'[s].value = slots[s].value
    BY <1>0, <1>3 DEF WriteSequence, TypeOK
  <2>2. UNCHANGED <<reading, read_pos, sessions>> /\ sequence' = sequence + 1
    BY <1>3 DEF WriteSequence, consumer
  <2>3. sequence >= reading.seq + RING_SIZE
    BY <1>0, <2>1, <2>2 DEF TornOnlyWhenLapped, current
  <2>4. QED
    BY <1>0, <2>2, <2>3, HotPathAssumption
<1>4. CASE ReadElement
  <2>1. /\ reading.stage = "sequence"
        /\ reading'.seq = reading.seq
        /\ reading'.element = slots[Index(read_pos)].element
        /\ UNCHANGED <<slots, read_pos, sequence, sessions>>
    BY <1>4 DEF ReadElement, TypeOK, current, producer
  <2>2. slots[Index(read_pos)].value # slots[Index(read_pos)].element
    BY <2>1 DEF current
  <2>3. Index(read_pos) = target
    BY <1>0, <2>1, <2>2 DEF PayloadsWhole
  <2>4. QED
    BY <2>1, <2>3, LappedAtTarget
<1>5. CASE ReadSequence \/ reading' = Idle
  BY <1>5 DEF ReadSequence, Idle
<1>6. CASE UNCHANGED <<slots, producer, read_pos, reading>>
  BY <1>6 DEF TornOnlyWhenLapped, current, producer
<1>7. QED
  BY <1>1, <1>2, <1>3, <1>4, <1>5, <1>6
     DEF Next, Produce, Consume, ReadValue, Forward, ConsumerRestarts,
         NewSession, vars, consumer

-----------------------------------------------------------------------------
LEMMA InitIInv == Init => IInv
<1> SUFFICES ASSUME Init PROVE IInv
  OBVIOUS
<1>1. css \in Seq(Message) /\ Len(css) <= CssCapacity
  BY HotPathAssumption DEF Init
<1>2. TypeOK
  BY <1>1, HotPathAssumption DEF Init, TypeOK, Idle, Message
<1>3. SlotsNumbered /\ InStep
  BY DEF Init, SlotsNumbered, InStep, Idle
<1>4. PayloadsWhole /\ TornOnlyWhenLapped
  BY DEF Init, PayloadsWhole, TornOnlyWhenLapped, Idle
<1>5. QED
  BY <1>2, <1>3, <1>4 DEF IInv

LEMMA IInvStep == IInv /\ [Next]_vars => IInv'
BY TypeStep, NumberedStep, InStepStep, WholeStep, TornStep DEF IInv

\* Every step of HotPath, laps and restarts included, keeps the numbering of the slots
\* and the payloads whole.
THEOREM Inductive == Spec => []IInv
BY InitIInv, IInvStep, PTL DEF Spec

\* The hot path's variables keep their types: the channel never exceeds its
\* capacity and every position names a slot.
THEOREM HotPathTypeCorrect == Spec => []TypeOK
<1>1. IInv => TypeOK
  BY DEF IInv
<1>2. QED
  BY <1>1, Inductive, PTL

\* The consumer only ever decodes a slot under a number that belongs to it,
\* however often it is lapped and whatever restarts, so that its position always
\* names the slot after the one it read last.
THEOREM ConsumerInStep == Spec => []InStep
<1>1. IInv => InStep
  BY DEF IInv
<1>2. QED
  BY <1>1, Inductive, PTL

\* In the first session of a ring of any size, an override that mixes two events
\* needs a producer that has come round to the slot being read.
THEOREM TornNeedsLap == Spec => []TornOnlyWhenLapped
<1>1. IInv => TornOnlyWhenLapped
  BY DEF IInv
<1>2. QED
  BY <1>1, Inductive, PTL
-----------------------------------------------------------------------------
(* In order, and nothing mixed, while no slot is lapped under the reader.  *)

\* The producer is a lap or more ahead of the number the consumer holds.
Lapped == sequence >= reading.seq + RING_SIZE

\* In the first session number n is that of event n: every published slot holds
\* the event of its number, but for the one being written.
PayloadsNumbered ==
  sessions = 1 =>
    /\ events = IF progress = "none" THEN sequence - 1 ELSE sequence
    /\ \A s \in Slot :
         slots[s].seq # 0 /\ (progress = "none" \/ s # target)
           => slots[s].element = slots[s].seq /\ slots[s].value = slots[s].seq
    /\ progress # "none" => slots[target].element = sequence
    /\ progress = "payload" => slots[target].value = sequence

\* Until it is lapped, what the consumer decodes under number n is event n.
Undisturbed ==
  sessions = 1 /\ reading.stage # "idle" /\ ~Lapped =>
    /\ current.element = reading.seq /\ current.value = reading.seq
    /\ reading.stage = "element" => reading.element = reading.seq

\* The overrides on their way are whole events, in order, newer than the one
\* shown, and none is newer than the position.
QueueInOrder ==
  /\ sessions = 1
  /\ \A i, j \in DOMAIN css : i < j => css[i].value < css[j].value
  /\ \A i \in DOMAIN css : /\ shown.value < css[i].value
                           /\ css[i].value <= read_pos
                           /\ css[i].element = css[i].value
  /\ shown.value <= read_pos /\ read_pos < sequence
  /\ shown.element = shown.value
  /\ reading.stage # "idle" => read_pos < reading.seq

IInv2 == IInv /\ PayloadsNumbered /\ Undisturbed

\* A step of a session without restarts in which no message is completed from
\* a slot the producer came round to.
CalmStep ==
  Next /\ ~ConsumerRestarts /\ ~NewSession /\ (ReadValue => ~Lapped)

CalmSpec == Init /\ [][CalmStep]_vars

Overrides == INSTANCE Latest WITH newest <- events, sent <- shown.value

\* The numbers of a slot: what a write changes in it.
LEMMA NumberedPayloads ==
  ASSUME TypeOK, PayloadsWhole, PayloadsNumbered, [Next]_vars
  PROVE  PayloadsNumbered'
<1> SUFFICES ASSUME sessions' = 1
             PROVE  PayloadsNumbered'
  BY DEF PayloadsNumbered
<1>0. target \in Slot /\ sequence \in Nat \ {0} /\ events \in Nat
  BY SlotsInUse DEF TypeOK
<1>1. CASE WriteElement
  <2>1. /\ slots'[target].element = events + 1
        /\ \A s \in Slot : slots'[s].seq = slots[s].seq
        /\ \A s \in Slot \ {target} : slots'[s] = slots[s]
    BY <1>0, <1>1 DEF WriteElement, TypeOK
  <2>2. /\ target' = target /\ sequence' = sequence /\ sessions = 1
        /\ events' = events + 1 /\ progress = "none" /\ progress' = "element"
    BY <1>1 DEF WriteElement, target
  <2>3. events = sequence - 1
    BY <2>2 DEF PayloadsNumbered
  <2>4. \A s \in Slot : slots[s].seq # 0
          => slots[s].element = slots[s].seq /\ slots[s].value = slots[s].seq
    BY <2>2 DEF PayloadsNumbered
  <2>5. QED
    BY <1>0, <2>1, <2>2, <2>3, <2>4 DEF PayloadsNumbered
<1>2. CASE WriteValue
  <2>1. /\ slots'[target].value = events
        /\ slots'[target].element = slots[target].element
        /\ \A s \in Slot : slots'[s].seq = slots[s].seq
        /\ \A s \in Slot \ {target} : slots'[s] = slots[s]
    BY <1>0, <1>2 DEF WriteValue, TypeOK
  <2>2. /\ target' = target /\ sequence' = sequence /\ sessions = 1
        /\ events' = events /\ progress = "element" /\ progress' = "payload"
    BY <1>2 DEF WriteValue, target
  <2>3. events = sequence /\ slots[target].element = sequence
    BY <2>2 DEF PayloadsNumbered
  <2>4. \A s \in Slot : slots[s].seq # 0 /\ s # target
          => slots[s].element = slots[s].seq /\ slots[s].value = slots[s].seq
    BY <2>2 DEF PayloadsNumbered
  <2>5. QED
    BY <1>0, <2>1, <2>2, <2>3, <2>4 DEF PayloadsNumbered
<1>3. CASE WriteSequence
  <2>1. /\ slots'[target].seq = sequence
        /\ \A s \in Slot : /\ slots'[s].element = slots[s].element
                           /\ slots'[s].value = slots[s].value
        /\ \A s \in Slot \ {target} : slots'[s] = slots[s]
    BY <1>0, <1>3 DEF WriteSequence, TypeOK
  <2>2. /\ sequence' = sequence + 1 /\ sessions = 1 /\ events' = events
        /\ progress = "payload" /\ progress' = "none"
    BY <1>3 DEF WriteSequence, Publishable
  <2>3. /\ events = sequence /\ slots[target].element = sequence
        /\ slots[target].value = sequence
    BY <2>2 DEF PayloadsNumbered
  <2>4. \A s \in Slot : slots[s].seq # 0 /\ s # target
          => slots[s].element = slots[s].seq /\ slots[s].value = slots[s].seq
    BY <2>2 DEF PayloadsNumbered
  <2>5. ASSUME NEW s \in Slot, slots'[s].seq # 0
        PROVE  slots'[s].element = slots'[s].seq /\ slots'[s].value = slots'[s].seq
    <3>1. CASE s = target
      BY <2>1, <2>3, <3>1
    <3>2. CASE s # target
      BY <2>1, <2>4, <2>5, <3>2
    <3>3. QED
      BY <3>1, <3>2
  <2>6. QED
    BY <1>0, <2>2, <2>3, <2>5 DEF PayloadsNumbered
<1>4. CASE UNCHANGED <<slots, producer>>
  BY <1>4 DEF PayloadsNumbered, producer, target
<1>5. CASE NewSession
  BY <1>5 DEF NewSession, TypeOK
<1>6. QED
  BY <1>1, <1>2, <1>3, <1>4, <1>5
     DEF Next, Produce, Consume, ReadSequence, ReadElement, ReadValue, Forward,
         ConsumerRestarts, vars

\* The slot under the reader keeps its event until the producer comes round.
LEMMA UndisturbedStep ==
  ASSUME IInv, PayloadsNumbered, Undisturbed, [Next]_vars
  PROVE  Undisturbed'
<1> SUFFICES ASSUME sessions' = 1, reading'.stage # "idle", ~Lapped'
             PROVE  /\ current'.element = reading'.seq
                    /\ current'.value = reading'.seq
                    /\ reading'.stage = "element" => reading'.element = reading'.seq
  BY DEF Undisturbed
<1>0. /\ target \in Slot /\ Index(read_pos) \in Slot
      /\ sequence \in Nat /\ reading.seq \in Nat
      /\ TypeOK /\ SlotsNumbered /\ InStep /\ PayloadsWhole
  BY SlotsInUse DEF TypeOK, IInv
<1>1. CASE WriteElement \/ WriteValue
  <2>1. /\ \A s \in Slot \ {target} : slots'[s] = slots[s]
        /\ UNCHANGED <<reading, read_pos, sequence, sessions>>
    BY <1>0, <1>1 DEF WriteElement, WriteValue, TypeOK, consumer
  <2>2. ~Lapped /\ sessions = 1 /\ reading.stage # "idle"
    BY <2>1 DEF Lapped
  <2>3. Index(read_pos) # target
    BY <1>0, <2>2, LappedAtTarget DEF Lapped
  <2>4. QED
    BY <1>0, <2>1, <2>2, <2>3 DEF Undisturbed, current
<1>2. CASE WriteSequence
  <2>1. /\ \A s \in Slot : /\ slots'[s].element = slots[s].element
                           /\ slots'[s].value = slots[s].value
        /\ UNCHANGED <<reading, read_pos, sessions>> /\ sequence' = sequence + 1
    BY <1>0, <1>2 DEF WriteSequence, TypeOK, consumer
  <2>2. ~Lapped /\ sessions = 1 /\ reading.stage # "idle"
    BY <1>0, <2>1, HotPathAssumption DEF Lapped
  <2>3. QED
    BY <1>0, <2>1, <2>2 DEF Undisturbed, current
<1>3. CASE ReadSequence
  <2>1. /\ reading'.seq = slots[Index(read_pos)].seq
        /\ reading'.stage = "sequence"
        /\ slots[Index(read_pos)].seq > read_pos
        /\ UNCHANGED <<slots, read_pos, sequence, progress, sessions>>
    BY <1>3 DEF ReadSequence, current, IsNew, producer
  <2> DEFINE s == Index(read_pos)
             n == slots[s].seq
  <2>2. n \in Nat /\ read_pos \in Nat /\ n # 0
    BY <1>0, <2>1 DEF TypeOK
  <2>3. n < sequence /\ Index(n - 1) = s
    BY <1>0, <2>1, <2>2 DEF PayloadsWhole, SlotsNumbered
  <2>4. s # target
    <3>1. SUFFICES ASSUME s = target
                   PROVE  FALSE
      OBVIOUS
    <3>2. Index(n - 1) = Index(sequence - 1)
      BY <2>3, <3>1 DEF target
    <3>3. n - 1 \in Nat /\ sequence - 1 \in Nat /\ n - 1 < sequence - 1
      BY <1>0, <2>2, <2>3
    <3> HIDE DEF n, s
    <3>4. sequence - 1 >= n - 1 + RING_SIZE
      BY <3>2, <3>3, LapsApart
    <3>5. reading'.seq = n /\ sequence' = sequence
      BY <2>1 DEF n, s
    <3>6. QED
      BY <1>0, <2>2, <3>4, <3>5, HotPathAssumption DEF Lapped
  <2>5. slots[s].element = n /\ slots[s].value = n
    BY <1>0, <2>1, <2>2, <2>4 DEF PayloadsNumbered
  <2>6. QED
    BY <2>1, <2>5 DEF current
<1>4. CASE ReadElement
  <2>1. /\ reading.stage = "sequence" /\ reading'.seq = reading.seq
        /\ reading'.element = current.element
        /\ UNCHANGED <<slots, read_pos, sequence, sessions>>
    BY <1>4 DEF ReadElement, TypeOK, producer
  <2>2. ~Lapped /\ sessions = 1
    BY <2>1 DEF Lapped
  <2>3. QED
    BY <2>1, <2>2 DEF Undisturbed, current
<1>5. CASE reading' = Idle
  BY <1>5 DEF Idle
<1>6. CASE UNCHANGED <<slots, producer, read_pos, reading>>
  BY <1>6 DEF Undisturbed, Lapped, current, producer
<1>7. QED
  BY <1>1, <1>2, <1>3, <1>4, <1>5, <1>6
     DEF Next, Produce, Consume, ReadValue, Forward, ConsumerRestarts,
         NewSession, vars, consumer

\* A message joins the queue at its end, under the number the position moves
\* to, and leaves it at its head.
LEMMA QueueStep ==
  ASSUME IInv2, QueueInOrder, [CalmStep]_vars
  PROVE  QueueInOrder'
<1>0. /\ target \in Slot /\ Index(read_pos) \in Slot
      /\ sequence \in Nat /\ read_pos \in Nat /\ reading.seq \in Nat
      /\ css \in Seq(Message) /\ shown \in Message
      /\ TypeOK /\ PayloadsWhole /\ Undisturbed /\ sessions = 1
  BY SlotsInUse DEF TypeOK, IInv2, IInv, QueueInOrder
<1>1. CASE WriteElement \/ WriteValue
  BY <1>1 DEF WriteElement, WriteValue, QueueInOrder, consumer
<1>2. CASE WriteSequence
  <2>1. UNCHANGED <<consumer, sessions>> /\ sequence' = sequence + 1
    BY <1>2 DEF WriteSequence
  <2>2. QED
    BY <1>0, <2>1 DEF QueueInOrder, consumer
<1>3. CASE ReadSequence
  <2>1. /\ reading'.seq > read_pos
        /\ UNCHANGED <<read_pos, css, shown, sequence, sessions>>
    BY <1>3 DEF ReadSequence, current, IsNew, producer
  <2>2. reading'.seq \in Nat
    <3>1. reading'.seq = slots[Index(read_pos)].seq
      BY <1>3 DEF ReadSequence, current
    <3>2. QED
      BY <1>0, <3>1 DEF TypeOK
  <2>3. read_pos < reading'.seq
    BY <1>0, <2>1, <2>2
  <2>4. QED
    BY <2>1, <2>3 DEF QueueInOrder
<1>4. CASE ReadElement
  <2>1. /\ reading.stage = "sequence" /\ reading'.seq = reading.seq
        /\ UNCHANGED <<read_pos, css, shown, sequence, sessions>>
    BY <1>4 DEF ReadElement, TypeOK, producer
  <2>2. QED
    BY <2>1 DEF QueueInOrder
<1>5. CASE ReadValue
  <2> DEFINE m == [element |-> reading.element, value |-> current.value]
  <2>0. /\ reading.stage = "element"
        /\ read_pos' = reading.seq /\ reading' = Idle
        /\ css' = Append(css, m) \/ css' = css
        /\ UNCHANGED <<shown, sequence, sessions>>
    BY <1>5 DEF ReadValue, PositionAfter, producer
  <2>1. ~Lapped
    <3>1. vars' # vars
      BY <2>0 DEF vars, consumer, Idle
    <3>2. QED
      BY <1>5, <3>1 DEF CalmStep
  <2>2. m.element = reading.seq /\ m.value = reading.seq
    BY <1>0, <2>0, <2>1 DEF Undisturbed
  <2>3. read_pos < reading.seq /\ reading.seq < sequence
    BY <1>0, <2>0 DEF QueueInOrder, PayloadsWhole
  <2>4. reading'.stage = "idle"
    BY <2>0 DEF Idle
  <2>5. \A i \in DOMAIN css : css[i] \in Message /\ css[i].value \in Int
    <3>1. \A i \in DOMAIN css : css[i] \in Message
      BY <1>0
    <3>2. QED
      BY <3>1, HotPathAssumption DEF Message
  <2>6. shown.value \in Int
    BY <1>0 DEF Message
  <2> HIDE DEF m
  <2>7. CASE css' = css
    BY <1>0, <2>0, <2>3, <2>4, <2>5, <2>6, <2>7 DEF QueueInOrder
  <2>8. CASE css' = Append(css, m)
    <3>1. /\ DOMAIN css = 1 .. Len(css) /\ Len(css) \in Nat
          /\ DOMAIN css' = 1 .. Len(css) + 1
          /\ css'[Len(css) + 1] = m
          /\ \A i \in DOMAIN css : css'[i] = css[i]
      BY <1>0, <2>8
    <3>2. \A i \in DOMAIN css : css[i].value < m.value
      BY <1>0, <2>2, <2>3, <2>5 DEF QueueInOrder
    <3>3. \A i, j \in DOMAIN css' : i < j => css'[i].value < css'[j].value
      BY <3>1, <3>2 DEF QueueInOrder
    <3>4. \A i \in DOMAIN css' : /\ shown.value < css'[i].value
                                 /\ css'[i].value <= reading.seq
                                 /\ css'[i].element = css'[i].value
      <4>1. SUFFICES ASSUME NEW i \in DOMAIN css'
                     PROVE  /\ shown.value < css'[i].value
                            /\ css'[i].value <= reading.seq
                            /\ css'[i].element = css'[i].value
        OBVIOUS
      <4>2. CASE i = Len(css) + 1
        BY <1>0, <2>2, <2>3, <2>6, <3>1, <4>2 DEF QueueInOrder
      <4>3. CASE i \in DOMAIN css
        BY <1>0, <2>3, <2>5, <2>6, <3>1, <4>3 DEF QueueInOrder
      <4>4. QED
        BY <3>1, <4>2, <4>3
    <3>5. shown.value <= reading.seq /\ shown.element = shown.value
      BY <1>0, <2>3, <2>6 DEF QueueInOrder
    <3>6. QED
      BY <2>0, <2>3, <2>4, <3>3, <3>4, <3>5 DEF QueueInOrder
  <2>9. QED
    BY <2>0, <2>7, <2>8
<1>6. CASE Forward
  <2>1. /\ css # << >> /\ shown' = Head(css) /\ css' = Tail(css)
        /\ UNCHANGED <<read_pos, reading, sequence, sessions>>
    BY <1>6 DEF Forward, producer
  <2>2. /\ DOMAIN css = 1 .. Len(css) /\ Len(css) \in Nat \ {0}
        /\ DOMAIN css' = 1 .. Len(css) - 1
        /\ shown' = css[1]
        /\ \A i \in DOMAIN css' : css'[i] = css[i + 1]
    BY <1>0, <2>1
  <2>3. QED
    BY <1>0, <2>1, <2>2 DEF QueueInOrder
<1>7. CASE UNCHANGED vars
  BY <1>7 DEF vars, producer, consumer, QueueInOrder
<1>8. QED
  BY <1>1, <1>2, <1>3, <1>4, <1>5, <1>6, <1>7
     DEF CalmStep, Next, Produce, Consume

\* The producer puts a number into the channel, the forwarder takes one out.
LEMMA OverridesStep ==
  ASSUME IInv2, QueueInOrder, [CalmStep]_vars
  PROVE  \/ Overrides!Put
         \/ Overrides!Send
         \/ UNCHANGED <<events, shown.value>>
<1>0. /\ sequence \in Nat /\ read_pos \in Nat /\ events \in Nat
      /\ css \in Seq(Message) /\ shown \in Message
      /\ TypeOK /\ PayloadsNumbered
  BY DEF TypeOK, IInv2, IInv
<1>1. CASE WriteElement
  BY <1>0, <1>1 DEF WriteElement, Overrides!Put, consumer
<1>2. CASE Forward
  <2>1. /\ css # << >> /\ shown' = Head(css) /\ events' = events
    BY <1>2 DEF Forward, producer
  <2>2. shown' = css[1] /\ 1 \in DOMAIN css /\ css[1] \in Message
    BY <1>0, <2>1
  <2>3. shown.value < css[1].value /\ css[1].value <= read_pos /\ read_pos < sequence
    BY <2>2 DEF QueueInOrder
  <2>4. sequence - 1 <= events
    BY <1>0 DEF PayloadsNumbered, QueueInOrder
  <2>5. shown.value \in Nat /\ css[1].value \in Nat
    BY <1>0, <2>2 DEF Message
  <2>6. shown'.value \in shown.value + 1 .. events
    BY <1>0, <2>2, <2>3, <2>4, <2>5
  <2>7. QED
    BY <2>1, <2>6 DEF Overrides!Send
<1>3. CASE UNCHANGED <<events, shown>>
  BY <1>3
<1>4. QED
  BY <1>1, <1>2, <1>3
     DEF CalmStep, Next, Produce, Consume, WriteValue, WriteSequence, ReadSequence,
         ReadElement, ReadValue, vars, producer, consumer

LEMMA IInv2Inductive == Init /\ [][Next]_vars => []IInv2
<1>1. Init => IInv2
  <2> SUFFICES ASSUME Init PROVE IInv2
    OBVIOUS
  <2>1. IInv
    BY InitIInv
  <2>2. PayloadsNumbered /\ Undisturbed
    BY DEF Init, PayloadsNumbered, Undisturbed, Idle
  <2>3. QED
    BY <2>1, <2>2 DEF IInv2
<1>2. IInv2 /\ [Next]_vars => IInv2'
  BY IInvStep, NumberedPayloads, UndisturbedStep DEF IInv2, IInv
<1>3. QED
  BY <1>1, <1>2, PTL

LEMMA CalmInductive == CalmSpec => [](IInv2 /\ QueueInOrder)
<1>1. Init => QueueInOrder
  BY DEF Init, QueueInOrder, Idle
<1>2. IInv2 /\ QueueInOrder /\ [CalmStep]_vars => QueueInOrder'
  BY QueueStep
<1>3. [CalmStep]_vars => [Next]_vars
  BY DEF CalmStep
<1>4. QED
  BY <1>1, <1>2, <1>3, IInv2Inductive, PTL DEF CalmSpec

\* In the first session of a ring of any size, and whatever restarts the consumer,
\* the slot it decodes under number n holds event n, element and value, until the
\* producer is a lap ahead of n.
THEOREM DecodesItsEvent == Spec => []Undisturbed
<1>1. IInv2 => Undisturbed
  BY DEF IInv2
<1>2. QED
  BY <1>1, IInv2Inductive, PTL DEF Spec

\* While nothing restarts and no message is completed from a slot the producer came
\* round to, the overrides in the channel and the one shown are of one event each
\* and in the order of the events, whatever the full channel refused.
THEOREM OverridesWholeAndOrdered == CalmSpec => []QueueInOrder
BY CalmInductive, PTL

\* Under the same conditions the hot path is a channel as Latest describes it, but
\* for its fairness: what is shown is never older than what was shown before, and
\* never newer than the last event begun.
THEOREM ShownInOrder ==
  CalmSpec => /\ Overrides!Init
              /\ [][Overrides!Put \/ Overrides!Send \/ Overrides!Pass]_(Overrides!chan)
<1>1. Init => Overrides!Init
  BY DEF Init, Overrides!Init
<1>2. IInv2 /\ QueueInOrder /\ [CalmStep]_vars =>
        [Overrides!Put \/ Overrides!Send \/ Overrides!Pass]_(Overrides!chan)
  BY OverridesStep DEF Overrides!chan
<1>3. QED
  BY <1>1, <1>2, CalmInductive, PTL DEF CalmSpec
=============================================================================
