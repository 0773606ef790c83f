------------------------------ MODULE HotPath ------------------------------
(***************************************************************************)
(* The hot path: the extension's RingBufferProducer                        *)
(* (zenith-extension/src/hot_path.ts) writes slider scrub events into a    *)
(* memory-mapped ring, and the sidecar's RingBufferConsumer                *)
(* (zenith-sidecar/src/hot_path/ring_buffer.rs) polls it and sends CSS     *)
(* overrides to the webview through a bounded channel (main.rs).           *)
(*                                                                         *)
(* Producer and consumer share nothing but the file: a slot's payload and  *)
(* its sequence number are written by separate writes and read by separate *)
(* loads, so each of them is a step.  A payload is two fields, which stand *)
(* for the element and the value; each holds the number of the event it    *)
(* belongs to, so that a payload of two events can be told from one.       *)
(***************************************************************************)
EXTENDS Naturals, Sequences

CONSTANTS
  RING_SIZE,     \* slots of the ring
  CssCapacity,   \* capacity of the css_override channel
  Restarts,      \* subset of {"consumer", "session"}: what may restart
  MaxEvents,     \* bound: events written in a behaviour
  MaxRestarts    \* bound: restarts in a behaviour

ASSUME HotPathAssumption ==
  /\ RING_SIZE \in Nat \ {0}
  /\ CssCapacity \in Nat \ {0}
  /\ MaxEvents \in Nat
  /\ MaxRestarts \in Nat

Event == 1..MaxEvents
Slot  == 0..(RING_SIZE - 1)

VARIABLES
  slots,       \* the file: sequence number and payload of each slot
  sequence,    \* RingBufferProducer.sequence, the next number it will use
  progress,    \* how much of the current event the producer has written
  events,      \* history: events begun by all producers so far
  read_pos,    \* RingBufferConsumer.read_pos
  reading,     \* the slot the consumer is decoding, or what it has so far
  css,         \* the css_override channel
  shown,       \* history: the last event the webview was sent
  dropped,     \* history: events try_send refused
  sessions,    \* history: number of producers so far
  restarts     \* history: number of restarts

producer == <<sequence, progress, events, sessions>>
consumer == <<read_pos, reading, css, shown, dropped>>
vars     == <<slots, producer, consumer, restarts>>

\* What the consumer has decoded of a message, or a message in the channel.
\* Event 0 stands for the zeroed file.
Message == [element : 0..MaxEvents, value : 0..MaxEvents]
Idle    == [stage |-> "idle", seq |-> 0, element |-> 0]

Index(n) == n % RING_SIZE

-----------------------------------------------------------------------------
Init ==
  /\ slots = [s \in Slot |-> [seq |-> 0, element |-> 0, value |-> 0]]
  /\ sequence = 1
  /\ progress = "none"
  /\ events = 0
  /\ read_pos = 0
  /\ reading = Idle
  /\ css = <<>>
  /\ shown = [element |-> 0, value |-> 0]
  /\ dropped = {}
  /\ sessions = 1
  /\ restarts = 0

-----------------------------------------------------------------------------
(* The producer, writeScrub: the payload, then the sequence number.  The   *)
(* payload is one system call, but the reader may see the half of it.      *)

\* Mutant: number n goes to slot n, one too far.
TargetAhead == Index(sequence)

target == Index(sequence - 1)

WriteElement ==
  /\ progress = "none"
  /\ events < MaxEvents
  /\ events' = events + 1
  /\ slots' = [slots EXCEPT ![target].element = events + 1]
  /\ progress' = "element"
  /\ UNCHANGED <<sequence, sessions, consumer, restarts>>

WriteValue ==
  /\ progress = "element"
  /\ slots' = [slots EXCEPT ![target].value = events]
  /\ progress' = "payload"
  /\ UNCHANGED <<sequence, events, sessions, consumer, restarts>>

\* Mutant: the sequence number may be published before the whole payload.
PublishableEarly == progress \in {"element", "payload"}

Publishable == progress = "payload"

WriteSequence ==
  /\ Publishable
  /\ slots' = [slots EXCEPT ![target].seq = sequence]
  /\ sequence' = sequence + 1
  /\ progress' = "none"
  /\ UNCHANGED <<events, sessions, consumer, restarts>>

-----------------------------------------------------------------------------
(* The consumer, try_read_next and dispatch.                               *)

current == slots[Index(read_pos)]

\* Mutant: only the very next number counts as news.
IsNextOnly(seq) == seq = read_pos + 1

IsNew(seq) == seq > read_pos

ReadSequence ==
  /\ reading.stage = "idle"
  /\ IsNew(current.seq)
  /\ reading' = [stage |-> "sequence", seq |-> current.seq, element |-> 0]
  /\ UNCHANGED <<slots, producer, read_pos, css, shown, dropped, restarts>>

ReadElement ==
  /\ reading.stage = "sequence"
  /\ reading' = [reading EXCEPT !.stage = "element", !.element = current.element]
  /\ UNCHANGED <<slots, producer, read_pos, css, shown, dropped, restarts>>

\* Mutant: the position moves one further than the message just read.
PositionPast(seq) == seq + 1

PositionAfter(seq) == seq

\* Mutant: the send does not ask for room.
SendAnyway == TRUE

HasRoom == Len(css) < CssCapacity

\* The message is complete: the position moves on, and dispatch tries to send
\* the override without waiting for room.
ReadValue ==
  LET m == [element |-> reading.element, value |-> current.value]
  IN  /\ reading.stage = "element"
      /\ read_pos' = PositionAfter(reading.seq)
      /\ reading' = Idle
      /\ IF HasRoom
           THEN css' = Append(css, m) /\ UNCHANGED dropped
           ELSE dropped' = dropped \cup {m.value} /\ UNCHANGED css
      /\ UNCHANGED <<slots, producer, shown, restarts>>

\* The forwarder task hands the override to the webview.
Forward ==
  /\ css # <<>>
  /\ shown' = Head(css)
  /\ css' = Tail(css)
  /\ UNCHANGED <<slots, producer, read_pos, reading, dropped, restarts>>

-----------------------------------------------------------------------------
(* Restarts.  The file outlives both processes.                            *)

MayRestart(what) ==
  /\ what \in Restarts
  /\ restarts < MaxRestarts
  /\ restarts' = restarts + 1

\* The sidecar is started again and reads the ring from its first slot.
ConsumerRestarts ==
  /\ MayRestart("consumer")
  /\ read_pos' = 0
  /\ reading' = Idle
  /\ css' = <<>>
  /\ UNCHANGED <<slots, producer, shown, dropped>>

\* The extension starts a sidecar for the workspace again: the new producer
\* counts from 1, and SidecarManager keeps a file whose header is valid.
NewSession ==
  /\ MayRestart("session")
  /\ sessions' = sessions + 1
  /\ sequence' = 1
  /\ progress' = "none"
  /\ read_pos' = 0
  /\ reading' = Idle
  /\ css' = <<>>
  /\ UNCHANGED <<slots, events, shown, dropped>>

-----------------------------------------------------------------------------
Produce == WriteElement \/ WriteValue \/ WriteSequence

Consume == ReadSequence \/ ReadElement \/ ReadValue

Next == Produce \/ Consume \/ Forward \/ ConsumerRestarts \/ NewSession

\* The consumer thread polls without end and the forwarder task is scheduled;
\* nothing obliges the user to scrub or the producer to finish a write.
Fairness == WF_vars(Consume) /\ WF_vars(Forward)

Spec == Init /\ [][Next]_vars /\ Fairness

-----------------------------------------------------------------------------
(* Correctness.                                                            *)

TypeOK ==
  /\ slots \in [Slot -> [seq : Nat, element : 0..MaxEvents, value : 0..MaxEvents]]
  /\ sequence \in Nat \ {0}
  /\ progress \in {"none", "element", "payload"}
  /\ events \in 0..MaxEvents
  /\ read_pos \in Nat
  /\ reading \in [stage : {"idle", "sequence", "element"}, seq : Nat,
                  element : 0..MaxEvents]
  /\ css \in Seq(Message) /\ Len(css) <= CssCapacity
  /\ shown \in Message
  /\ dropped \in SUBSET (0..MaxEvents)
  /\ sessions \in Nat \ {0}
  /\ restarts \in 0..MaxRestarts

\* In the first session of a ring, a message comes out with the element of one
\* event and the value of another only when the producer has come round to the
\* slot being read.
TornOnlyWhenLapped ==
  sessions = 1 /\ reading.stage = "element" /\ current.value # reading.element
    => sequence >= reading.seq + RING_SIZE

\* The element and the value of an override belong to one event.  It does not
\* hold: a producer a lap ahead rewrites the slot being read (HotPathTorn.cfg).
NoTornMessage == \A n \in DOMAIN css : css[n].element = css[n].value

\* A consumer that is behind, lapped or restarted reaches every number the
\* producer published, or passes it, unless a new session begins.
CatchesUp ==
  \A n \in Event :
    (sequence > n /\ sessions = 1) ~> (read_pos >= n \/ sessions > 1)

\* The consumer always reads a slot under a number that belongs to the slot, so
\* that a jump over lost events, or into those of an earlier session, leaves it
\* in step with the ring.
InStep == reading.seq # 0 => Index(reading.seq - 1) = Index(read_pos)

\* The event the producer published last was sent to the webview last, or was
\* dispatched when the channel was full.
LastShown ==
  LET last == slots[Index(sequence - 2)].value
  IN  progress = "none" /\ sequence > 1 => shown.value = last \/ last \in dropped

\* When the scrubbing stops in the first session of a ring, the webview ends up
\* with the last event.
LastEventShown == <>[](sessions = 1 => LastShown)

\* When the scrubbing stops, the webview ends up with the last event, whatever
\* session of the ring this is.  It does not hold: the ring of a new session
\* has the old numbers, and the new ones start at 1 (HotPathSession.cfg).
LastEventOfAnySessionShown == <>[]LastShown
=============================================================================
