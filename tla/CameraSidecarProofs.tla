-------------------------- MODULE CameraSidecarProofs --------------------------
(***************************************************************************)
(* Proofs about CameraSidecar, for every number of layouts, ring size, pipe *)
(* capacity and bound, on Windows and on POSIX.  The safety invariants rest *)
(* on two facts about the lock: while a slot is being written nothing of    *)
(* the shared state changes (WritingHolds), and what a notification speaks  *)
(* of, the captured frames and the layouts of the segments, is never        *)
(* rewritten (PastIsKept).                                                  *)
(***************************************************************************)
EXTENDS CameraSidecar, TLAPS, SequenceTheorems

-----------------------------------------------------------------------------
(* The inductive invariant.                                                 *)

\* The lock: between the two halves of a write the ring and the camera are
\* those the capture was checked against.
WritingHolds ==
  spc = "writing" =>
    /\ CanStream /\ LayoutMatches
    /\ frames # <<>>
    /\ frames[Len(frames)] = [layout |-> layout, seg |-> shm]
    /\ segs[shm].slots[widx].head = Len(frames)

\* A process that is gone holds nothing.
GoneReleases == main = "exited" => shm = 0 /\ spc = "idle"

\* What is known of one notification: NotesTruthful, and its segment exists.
Truthful(n) ==
  /\ n.frame \in 1 .. Len(frames) /\ n.seg \in 1 .. Len(segs)
  /\ frames[n.frame] = [layout |-> n.layout, seg |-> n.seg]
  /\ segs[n.seg].layout = n.layout

\* How far behind the stream thread a notification is.
Lag(n) == seq - n.seq

\* Counted round the ring, a notification of the current ring is as far
\* behind the index as behind the sequence number; its frame is in its slot.
Placed(n) ==
  n.seg = shm =>
    /\ Lag(n) >= 1
    /\ Lag(n) <= RING =>
         n.index + Lag(n) = widx \/ n.index + Lag(n) = widx + RING
    /\ Lag(n) < RING \/ (Lag(n) = RING /\ spc # "writing") =>
         segs[shm].slots[n.index] = Holds(n.frame)

NotesTruthfulInv == \A n \in InFlight : Truthful(n)
NotesPlaced == \A n \in InFlight : Placed(n)

SidecarInv ==
  /\ SidecarTypeOK /\ RunningHasRing /\ RingMatchesLayout /\ ShutdownReleases
  /\ GoneReleases /\ WritingHolds /\ NotesTruthfulInv /\ NotesPlaced

-----------------------------------------------------------------------------
(* Elements of sequences.                                                   *)

LEMMA ElementsAppend ==
  ASSUME NEW S, NEW s \in Seq(S), NEW e \in S
  PROVE  Elements(Append(s, e)) = Elements(s) \cup {e}
BY DEF Elements

LEMMA ElementsTail ==
  ASSUME NEW S, NEW s \in Seq(S), s # <<>>
  PROVE  /\ Tail(s) \in Seq(S)
         /\ Elements(Tail(s)) \subseteq Elements(s)
BY HeadTailProperties DEF Elements

LEMMA ElementsPrefix ==
  ASSUME NEW S, NEW s \in Seq(S), NEW k \in 0 .. Len(s)
  PROVE  /\ SubSeq(s, 1, k) \in Seq(S)
         /\ Elements(SubSeq(s, 1, k)) \subseteq Elements(s)
BY DEF Elements

LEMMA ElementsEmpty == Elements(<<>>) = {}
BY DEF Elements

-----------------------------------------------------------------------------
(* Type correctness, one operator at a time.                                *)

\* Publishing adds at most the message published.
LEMMA PublishWire ==
  ASSUME wire \in Seq(Message), NEW m \in Message, Publish(m)
  PROVE  /\ wire' \in Seq(Message)
         /\ Elements(wire') \subseteq Elements(wire) \cup {m}
BY ElementsAppend DEF Publish

LEMMA ControlMessages == Status \in Message /\ Garbled \in Message
BY DEF Message

\* A write leaves every segment what it was, but for one slot of one ring.
LEMMA WithSlotType ==
  ASSUME NEW g \in Segment, NEW s \in Slot, widx \in Slots
  PROVE  /\ WithSlot(g, s) \in Segment
         /\ WithSlot(g, s).layout = g.layout
         /\ WithSlot(g, s).slots[widx] = s
         /\ \A i \in Slots : i # widx => WithSlot(g, s).slots[i] = g.slots[i]
BY DEF WithSlot, Segment

\* CreateRing appends a segment and points shm and the name at it.
LEMMA CreateRingType ==
  ASSUME SidecarTypeOK, NEW L \in Layouts, CreateRing(L)
  PROVE  /\ segs' \in Seq(Segment) /\ Len(segs') = Len(segs) + 1
         /\ \A i \in 1 .. Len(segs) : segs'[i] = segs[i]
         /\ segs'[Len(segs')].layout = L
         /\ shm' = Len(segs') /\ named' = Len(segs')
         /\ widx' \in Slots /\ layout' = L
<1> DEFINE g == [layout |-> L, slots |-> [i \in Slots |-> Holds(0)]]
<1>1. g \in Segment
  BY DEF Segment, Slot, Holds
<1>2. segs' = Append(segs, g) /\ segs \in Seq(Segment)
  BY DEF CreateRing, SidecarTypeOK, RingTypeOK
<1>3. 0 \in Slots
  BY SidecarAssumption DEF Slots
<1>4. g.layout = L
  OBVIOUS
<1> HIDE DEF g
<1> QED BY <1>1, <1>2, <1>3, <1>4 DEF CreateRing

LEMMA ReleasedType == SidecarTypeOK => Released \in 0 .. Len(segs)
BY DEF SidecarTypeOK, RingTypeOK, Released

LEMMA InitType == SidecarInit => SidecarTypeOK
<1> SUFFICES ASSUME SidecarInit PROVE SidecarTypeOK
  OBVIOUS
<1> USE DEF SidecarInit
<1>1. StateTypeOK
  <2>1. 0 \in Slots
    BY SidecarAssumption DEF Slots
  <2> QED BY <2>1 DEF StateTypeOK
<1>2. RingTypeOK
  BY DEF RingTypeOK
<1>3. ThreadTypeOK
  BY DEF ThreadTypeOK
<1>4. BusTypeOK
  BY EmptySeq DEF BusTypeOK
<1> QED BY <1>1, <1>2, <1>3, <1>4 DEF SidecarTypeOK

LEMMA OpenCameraType ==
  ASSUME SidecarTypeOK, NEW L \in Layouts, OpenCamera(L)
  PROVE  SidecarTypeOK'
<1> USE DEF SidecarTypeOK
<1>1. /\ cam' \in Device \cup {NoCam} /\ running' = FALSE
      /\ phase' \in {phase, "stopped"} /\ layout' \in Layouts \cup {NoLayout}
      /\ widx' \in Slots /\ seq' \in Nat
      /\ UNCHANGED <<main, mapped, subscribed, frames, restarts, spc, hand, wire>>
  <2>1. 0 \in Slots
    BY SidecarAssumption DEF Slots
  <2> QED BY <2>1 DEF OpenCamera, NextRequest, ControlFrame, CreateRing, StateTypeOK, Device
<1>2. RingTypeOK'
  <2>1. Released \in 0 .. Len(segs)
    BY ReleasedType
  <2>2. CASE segs' = segs /\ shm' = 0 /\ named' \in {0, Released}
    BY <1>1, <2>1, <2>2 DEF RingTypeOK
  <2>3. CASE CreateRing(L)
    BY <1>1, <2>3, CreateRingType DEF RingTypeOK
  <2> QED BY <2>2, <2>3 DEF OpenCamera, LoseRing
<1>3. StateTypeOK' /\ ThreadTypeOK' /\ BusTypeOK'
  BY <1>1 DEF StateTypeOK, ThreadTypeOK, BusTypeOK
<1> QED BY <1>2, <1>3

LEMMA ReconfigureType ==
  ASSUME SidecarTypeOK, NEW L \in Layouts, ReconfigureCamera(L)
  PROVE  SidecarTypeOK'
<1> USE DEF SidecarTypeOK
<1>1. /\ UNCHANGED <<running, seq, main, mapped, subscribed, frames, restarts>>
      /\ phase' \in {phase, "stopped"}
  BY DEF ReconfigureCamera, NextRequest, ControlFrame
<1>2. cam' \in Device
  BY DEF ReconfigureCamera, StateTypeOK, Device
<1>3. RingTypeOK' /\ widx' \in Slots /\ layout' \in Layouts \cup {NoLayout}
  <2>1. CASE CreateRing(L)
    BY <1>1, <2>1, CreateRingType DEF RingTypeOK
  <2>2. CASE UNCHANGED <<segs, shm, named, layout, widx>>
    BY <1>1, <2>2 DEF RingTypeOK, StateTypeOK
  <2> QED BY <2>1, <2>2 DEF ReconfigureCamera
<1>4. PublishStatus
  BY DEF ReconfigureCamera
<1>5. ThreadTypeOK'
  <2>1. \/ UNCHANGED <<spc, hand>>
        \/ spc' = "idle" /\ hand' = <<>>
    BY <1>4 DEF PublishStatus
  <2>2. <<>> \in Seq(Note) /\ Len(<<>>) = 0
    BY EmptySeq
  <2>3. CASE UNCHANGED <<spc, hand>>
    BY <1>1, <2>3 DEF ThreadTypeOK
  <2>4. CASE spc' = "idle" /\ hand' = <<>>
    <3>1. hand' \in Seq(Note) /\ Len(hand') = 0
      BY <2>2, <2>4
    <3> QED BY <1>1, <2>4, <3>1 DEF ThreadTypeOK
  <2> QED BY <2>1, <2>3, <2>4
<1>6. wire' \in Seq(Message)
  <2>1. wire \in Seq(Message)
    BY DEF BusTypeOK
  <2> QED BY <1>4, <2>1, PublishWire, ControlMessages DEF PublishStatus
<1>7. StateTypeOK' /\ BusTypeOK'
  BY <1>1, <1>2, <1>3, <1>6 DEF StateTypeOK, BusTypeOK
<1> QED BY <1>3, <1>5, <1>7

LEMMA ReconfigureFailsType ==
  ASSUME SidecarTypeOK, NEW L \in Layouts, ReconfigureFails(L)
  PROVE  SidecarTypeOK'
<1> USE DEF SidecarTypeOK
<1>1. /\ UNCHANGED <<layout, widx, seq, spc, hand, wire>> /\ running' = FALSE
      /\ UNCHANGED <<main, mapped, subscribed, frames, restarts>>
      /\ phase' \in {phase, "stopped"}
  BY DEF ReconfigureFails, NextRequest, ControlFrame
<1>2. cam' \in Device
  <2>1. cam \in Device
    BY DEF ReconfigureFails, StateTypeOK
  <2>2. cam.cfg \in Layouts
    BY <2>1 DEF Device
  <2>3. \/ cam' = cam
        \/ \E on \in BOOLEAN, cfg \in Layouts :
             cam' = [open |-> TRUE, capturing |-> on, cfg |-> cfg]
    BY <2>2 DEF ReconfigureFails
  <2>4. CASE cam' = cam
    BY <2>1, <2>4
  <2>5. CASE \E on \in BOOLEAN, cfg \in Layouts :
               cam' = [open |-> TRUE, capturing |-> on, cfg |-> cfg]
    BY <2>5 DEF Device
  <2> QED BY <2>3, <2>4, <2>5
<1>3. RingTypeOK'
  <2>1. segs' = segs /\ shm' \in {0, shm} /\ named' \in {0, named, Released}
    BY DEF ReconfigureFails, LoseRing
  <2> QED BY <1>1, <2>1, ReleasedType DEF RingTypeOK
<1>4. StateTypeOK' /\ ThreadTypeOK' /\ BusTypeOK'
  BY <1>1, <1>2 DEF StateTypeOK, ThreadTypeOK, BusTypeOK
<1> QED BY <1>3, <1>4

\* The common part of the requests and steps that give up the camera.
LEMMA ClosedType ==
  ASSUME SidecarTypeOK, CloseCameraLocked, mapped' = mapped
  PROVE  StateTypeOK' /\ RingTypeOK'
<1> USE DEF SidecarTypeOK, CloseCameraLocked
<1>1. StateTypeOK'
  BY DEF StateTypeOK
<1>2. RingTypeOK'
  BY ReleasedType DEF RingTypeOK
<1> QED BY <1>1, <1>2

LEMMA ControlType ==
  ASSUME SidecarTypeOK, ControlStep
  PROVE  SidecarTypeOK'
<1>1. CASE \E L \in Layouts : OpenCamera(L) \/ ReconfigureCamera(L) \/ ReconfigureFails(L)
  BY <1>1, OpenCameraType, ReconfigureType, ReconfigureFailsType
<1>2. CASE StartStream \/ StopStream
  <2>1. /\ UNCHANGED <<cam, shm, layout, widx, seq, spc, hand, segs, named, wire>>
        /\ UNCHANGED <<main, mapped, subscribed, frames, restarts>>
        /\ running' \in BOOLEAN /\ phase' \in {phase, "stopped"}
    BY <1>2 DEF StartStream, StopStream, NextRequest, ControlFrame
  <2>2. StateTypeOK' /\ RingTypeOK'
    BY <2>1 DEF SidecarTypeOK, StateTypeOK, RingTypeOK
  <2>3. ThreadTypeOK' /\ BusTypeOK'
    BY <2>1 DEF SidecarTypeOK, ThreadTypeOK, BusTypeOK
  <2> QED BY <2>2, <2>3 DEF SidecarTypeOK
<1>3. CASE CloseCamera \/ Shutdown
  <2>1. /\ CloseCameraLocked /\ UNCHANGED <<spc, hand, wire>>
        /\ UNCHANGED <<main, mapped, subscribed, frames, restarts>>
        /\ phase' \in {phase, "stopped", "shutdown"}
    BY <1>3 DEF CloseCamera, Shutdown, NextRequest, ControlFrame
  <2>2. ThreadTypeOK' /\ BusTypeOK'
    BY <2>1 DEF SidecarTypeOK, ThreadTypeOK, BusTypeOK
  <2> QED BY <2>1, <2>2, ClosedType DEF SidecarTypeOK
<1> QED BY <1>1, <1>2, <1>3 DEF ControlStep

\* Writing one slot of the ring in use: every other slot is what it was.
LEMMA WriteSlot ==
  ASSUME SidecarTypeOK, shm # 0, NEW s \in Slot,
         segs' = [segs EXCEPT ![shm] = WithSlot(segs[shm], s)]
  PROVE  /\ segs' \in Seq(Segment) /\ Len(segs') = Len(segs)
         /\ \A g \in 1 .. Len(segs) : segs'[g].layout = segs[g].layout
         /\ segs'[shm].slots[widx] = s
         /\ \A i \in Slots : i # widx => segs'[shm].slots[i] = segs[shm].slots[i]
<1> DEFINE w == WithSlot(segs[shm], s)
<1>1. shm \in 1 .. Len(segs) /\ segs \in Seq(Segment) /\ widx \in Slots
  BY DEF SidecarTypeOK, RingTypeOK, StateTypeOK
<1>2. segs[shm] \in Segment
  BY <1>1
<1>3. /\ w \in Segment /\ w.layout = segs[shm].layout /\ w.slots[widx] = s
      /\ \A i \in Slots : i # widx => w.slots[i] = segs[shm].slots[i]
  BY <1>1, <1>2, WithSlotType
<1>4. segs' = [segs EXCEPT ![shm] = w]
  OBVIOUS
<1> HIDE DEF w
<1> QED BY <1>1, <1>3, <1>4

\* What is in the slot the stream thread is about to write.
LEMMA CurrentSlot ==
  ASSUME SidecarTypeOK, shm # 0
  PROVE  segs[shm] \in Segment /\ segs[shm].slots[widx] \in Slot
<1>1. shm \in 1 .. Len(segs) /\ segs \in Seq(Segment) /\ widx \in Slots
  BY DEF SidecarTypeOK, RingTypeOK, StateTypeOK
<1>2. segs[shm] \in Segment
  BY <1>1
<1> QED BY <1>1, <1>2 DEF Segment

\* The two steps of a write, as WriteSlot sees them.
LEMMA CaptureWrites ==
  ASSUME SidecarTypeOK, StreamCapture
  PROVE  LET s == [head |-> Len(frames) + 1, tail |-> segs[shm].slots[widx].tail]
         IN  /\ shm # 0 /\ s \in Slot
             /\ segs' = [segs EXCEPT ![shm] = WithSlot(segs[shm], s)]
<1>1. shm # 0
  BY DEF StreamCapture, CanStream
<1>2. segs[shm].slots[widx] \in Slot
  BY <1>1, CurrentSlot
<1>3. Len(frames) \in Nat
  BY DEF SidecarTypeOK, BusTypeOK
<1> QED BY <1>1, <1>2, <1>3 DEF StreamCapture, WithHead, Slot

LEMMA WrittenWrites ==
  ASSUME SidecarTypeOK, WritingHolds, StreamWritten
  PROVE  /\ shm # 0 /\ Holds(Len(frames)) \in Slot
         /\ segs' = [segs EXCEPT ![shm] = WithSlot(segs[shm], Holds(Len(frames)))]
<1>1. shm # 0 /\ segs[shm].slots[widx].head = Len(frames)
  BY DEF StreamWritten, WritingHolds, CanStream
<1>2. Len(frames) \in Nat
  BY DEF SidecarTypeOK, BusTypeOK
<1>3. Holds(Len(frames)) \in Slot
  BY <1>2 DEF Holds, Slot
<1> QED BY <1>1, <1>3 DEF StreamWritten, WithTail, Holds

\* The notification of the frame just written.
LEMMA NewNote ==
  ASSUME SidecarTypeOK, WritingHolds, StreamWritten
  PROVE  /\ hand = <<>> /\ hand' = <<hand'[1]>> /\ hand'[1] \in Note
         /\ hand'[1] = [kind |-> "frame", frame |-> Len(frames), seg |-> shm,
                         layout |-> layout, index |-> widx, seq |-> seq]
<1>1. /\ layout \in Layouts /\ shm \in Nat /\ widx \in Slots /\ seq \in Nat
      /\ Len(frames) \in Nat
  BY DEF WritingHolds, CanStream, StreamWritten, SidecarTypeOK, StateTypeOK,
         RingTypeOK, BusTypeOK
<1>2. hand = <<>>
  BY EmptySeq DEF StreamWritten, SidecarTypeOK, ThreadTypeOK
<1> QED BY <1>1, <1>2 DEF StreamWritten, Note

LEMMA NextSlotInRing ==
  ASSUME widx \in Slots
  PROVE  /\ NextSlot \in Slots
         /\ NextSlot = IF widx + 1 < RING THEN widx + 1 ELSE 0
BY SidecarAssumption DEF NextSlot, Slots

LEMMA StreamType ==
  ASSUME SidecarTypeOK, WritingHolds, StreamStep
  PROVE  SidecarTypeOK'
<1>1. CASE StreamArm \/ StreamBackOff
  <2>1. /\ UNCHANGED <<stateVars, phase, main, hand, osVars, busVars, frames, restarts>>
        /\ spc' \in {"idle", "armed", "failed"} /\ spc \in {"idle", "armed"}
    BY <1>1 DEF StreamArm, StreamBackOff
  <2>2. StateTypeOK' /\ RingTypeOK' /\ BusTypeOK'
    BY <2>1 DEF SidecarTypeOK, StateTypeOK, RingTypeOK, BusTypeOK, stateVars, osVars, busVars
  <2>3. ThreadTypeOK'
    BY <2>1 DEF SidecarTypeOK, ThreadTypeOK
  <2> QED BY <2>2, <2>3 DEF SidecarTypeOK
<1>2. CASE StreamCapture
  <2>1. RingTypeOK'
    <3>1. segs' \in Seq(Segment) /\ Len(segs') = Len(segs)
      BY <1>2, CaptureWrites, WriteSlot
    <3> QED BY <1>2, <3>1 DEF StreamCapture, SidecarTypeOK, RingTypeOK, stateVars
  <2>2. StateTypeOK' /\ ThreadTypeOK'
    BY <1>2 DEF StreamCapture, SidecarTypeOK, StateTypeOK, ThreadTypeOK, stateVars
  <2>3. [layout |-> cam.cfg, seg |-> shm] \in [layout : Layouts, seg : Nat]
    BY <1>2 DEF StreamCapture, CanStream, LayoutMatches, SidecarTypeOK, StateTypeOK, RingTypeOK
  <2>4. frames' \in Seq([layout : Layouts, seg : Nat])
    BY <1>2, <2>3 DEF StreamCapture, SidecarTypeOK, BusTypeOK
  <2>5. BusTypeOK'
    BY <1>2, <2>4 DEF StreamCapture, SidecarTypeOK, BusTypeOK, busVars
  <2> QED BY <2>1, <2>2, <2>5 DEF SidecarTypeOK
<1>3. CASE StreamWritten
  <2>1. RingTypeOK'
    <3>1. segs' \in Seq(Segment) /\ Len(segs') = Len(segs)
      BY <1>3, WrittenWrites, WriteSlot
    <3> QED BY <1>3, <3>1 DEF StreamWritten, SidecarTypeOK, RingTypeOK
  <2>2. StateTypeOK'
    BY <1>3, NextSlotInRing DEF StreamWritten, SidecarTypeOK, StateTypeOK
  <2>3. hand' \in Seq(Note) /\ Len(hand') = 1
    BY <1>3, NewNote
  <2>4. ThreadTypeOK'
    BY <1>3, <2>3 DEF StreamWritten, SidecarTypeOK, ThreadTypeOK
  <2>5. BusTypeOK'
    BY <1>3 DEF StreamWritten, SidecarTypeOK, BusTypeOK, busVars
  <2> QED BY <2>1, <2>2, <2>4, <2>5 DEF SidecarTypeOK
<1>4. CASE StreamPublish \/ StreamReport
  <2>1. /\ UNCHANGED <<stateVars, phase, main, osVars, subscribed, frames, restarts>>
        /\ spc' = "idle"
    BY <1>4 DEF StreamPublish, StreamReport
  <2>2. StateTypeOK' /\ RingTypeOK'
    BY <2>1 DEF SidecarTypeOK, StateTypeOK, RingTypeOK, stateVars, osVars
  <2>3. hand' \in Seq(Note) /\ Len(hand') = 0
    BY <1>4, EmptySeq DEF StreamPublish, StreamReport, SidecarTypeOK, ThreadTypeOK
  <2>4. ThreadTypeOK'
    BY <2>1, <2>3 DEF SidecarTypeOK, ThreadTypeOK
  <2>5. wire' \in Seq(Message)
    <3>1. wire \in Seq(Message)
      BY DEF SidecarTypeOK, BusTypeOK
    <3>2. CASE StreamPublish
      <4>1. hand[1] \in Message
        BY <3>2 DEF StreamPublish, SidecarTypeOK, ThreadTypeOK, Message
      <4> QED BY <3>1, <3>2, <4>1, PublishWire DEF StreamPublish
    <3>3. CASE StreamReport
      BY <3>1, <3>3, PublishWire, ControlMessages DEF StreamReport
    <3> QED BY <1>4, <3>2, <3>3
  <2>6. BusTypeOK'
    BY <2>1, <2>5 DEF SidecarTypeOK, BusTypeOK
  <2> QED BY <2>2, <2>4, <2>6 DEF SidecarTypeOK
<1> QED BY <1>1, <1>2, <1>3, <1>4 DEF StreamStep

LEMMA ProcessGoneType ==
  ASSUME SidecarTypeOK, ProcessGone
  PROVE  SidecarTypeOK'
<1>1. /\ UNCHANGED <<widx, seq, phase, segs, mapped, subscribed, frames, restarts>>
      /\ cam' = NoCam /\ shm' = 0 /\ layout' = NoLayout /\ running' = FALSE
      /\ main' = "exited" /\ spc' = "idle" /\ hand' = <<>>
      /\ named' \in {0, shm, Released}
  BY DEF ProcessGone
<1>2. StateTypeOK'
  BY <1>1 DEF SidecarTypeOK, StateTypeOK
<1>3. RingTypeOK'
  BY <1>1, ReleasedType DEF SidecarTypeOK, RingTypeOK
<1>4. ThreadTypeOK'
  <2>1. hand' \in Seq(Note) /\ Len(hand') = 0
    BY <1>1, EmptySeq
  <2> QED BY <1>1, <2>1 DEF SidecarTypeOK, ThreadTypeOK
<1>5. BusTypeOK'
  <2>1. wire' \in Seq(Message)
    BY ElementsPrefix DEF ProcessGone, SidecarTypeOK, BusTypeOK
  <2> QED BY <1>1, <2>1 DEF SidecarTypeOK, BusTypeOK
<1> QED BY <1>2, <1>3, <1>4, <1>5 DEF SidecarTypeOK

\* Interrupt, MainCleanup, Restart and the reader's steps.
LEMMA ProcessType ==
  ASSUME SidecarTypeOK, Interrupt \/ MainCleanup \/ Exit \/ Crash \/ Restart
  PROVE  SidecarTypeOK'
<1>1. CASE Interrupt
  <2>1. StateTypeOK' /\ RingTypeOK' /\ BusTypeOK'
    BY <1>1 DEF Interrupt, SidecarTypeOK, StateTypeOK, RingTypeOK, BusTypeOK,
                stateVars, osVars, busVars
  <2>2. ThreadTypeOK'
    BY <1>1 DEF Interrupt, SidecarTypeOK, ThreadTypeOK
  <2> QED BY <2>1, <2>2 DEF SidecarTypeOK
<1>2. CASE MainCleanup
  <2>1. StateTypeOK' /\ RingTypeOK'
    BY <1>2, ClosedType DEF MainCleanup
  <2>2. ThreadTypeOK' /\ BusTypeOK'
    BY <1>2 DEF MainCleanup, SidecarTypeOK, ThreadTypeOK, BusTypeOK, busVars
  <2> QED BY <2>1, <2>2 DEF SidecarTypeOK
<1>3. CASE Exit \/ Crash
  BY <1>3, ProcessGoneType DEF Exit, Crash
<1>4. CASE Restart
  <2>1. 0 \in Slots
    BY SidecarAssumption DEF Slots
  <2>2. StateTypeOK' /\ RingTypeOK'
    BY <1>4, <2>1 DEF Restart, SidecarTypeOK, StateTypeOK, RingTypeOK, osVars
  <2>3. ThreadTypeOK' /\ BusTypeOK'
    BY <1>4 DEF Restart, SidecarTypeOK, ThreadTypeOK, BusTypeOK, busVars
  <2> QED BY <2>2, <2>3 DEF SidecarTypeOK
<1> QED BY <1>1, <1>2, <1>3, <1>4

LEMMA ReaderType ==
  ASSUME SidecarTypeOK, Subscribe \/ Attach \/ Detach \/ Take
  PROVE  SidecarTypeOK'
<1>1. /\ UNCHANGED <<stateVars, threadVars, segs, frames, restarts>>
      /\ named' \in {0, named} /\ mapped' \in {0, mapped, named}
      /\ subscribed' \in BOOLEAN
  BY DEF Subscribe, Attach, Detach, Take, osVars, busVars, NameAfterDetach,
         SidecarTypeOK, BusTypeOK
<1>2. wire' \in Seq(Message)
  BY ElementsTail, EmptySeq
     DEF Subscribe, Attach, Detach, Take, busVars, SidecarTypeOK, BusTypeOK
<1>3. StateTypeOK' /\ RingTypeOK'
  BY <1>1 DEF SidecarTypeOK, StateTypeOK, RingTypeOK, stateVars
<1>4. ThreadTypeOK' /\ BusTypeOK'
  BY <1>1, <1>2 DEF SidecarTypeOK, ThreadTypeOK, BusTypeOK, threadVars
<1> QED BY <1>3, <1>4 DEF SidecarTypeOK

LEMMA StutterType ==
  ASSUME SidecarTypeOK, UNCHANGED sidecarVars
  PROVE  SidecarTypeOK'
<1>1. StateTypeOK' /\ RingTypeOK'
  BY DEF SidecarTypeOK, StateTypeOK, RingTypeOK, sidecarVars, stateVars, osVars
<1>2. ThreadTypeOK' /\ BusTypeOK'
  BY DEF SidecarTypeOK, ThreadTypeOK, BusTypeOK, sidecarVars, threadVars, busVars
<1> QED BY <1>1, <1>2 DEF SidecarTypeOK

LEMMA NextType ==
  ASSUME SidecarTypeOK, WritingHolds, [SidecarNext]_sidecarVars
  PROVE  SidecarTypeOK'
BY ControlType, StreamType, ProcessType, ReaderType, StutterType
   DEF SidecarNext, SidecarStep

-----------------------------------------------------------------------------
(* The state of the camera, the ring and the threads.                       *)

\* What every request has in common.
LEMMA ControlEffect ==
  ASSUME ControlStep
  PROVE  /\ spc # "writing" /\ spc' \in {spc, "idle"} /\ phase # "shutdown"
         /\ main # "exited" /\ UNCHANGED <<main, mapped, frames>>
BY DEF ControlStep, OpenCamera, ReconfigureCamera, ReconfigureFails, StartStream,
       StopStream, CloseCamera, Shutdown, Serving, ControlFrame, PublishStatus

\* What a request may do to the ring: create one, give it up, or leave it.
LEMMA ControlRing ==
  ASSUME SidecarTypeOK, ControlStep
  PROVE  \/ \E L \in Layouts : CreateRing(L)
         \/ shm' = 0 /\ UNCHANGED segs
         \/ UNCHANGED <<shm, segs, named, layout, widx, seq>>
BY DEF ControlStep, OpenCamera, ReconfigureCamera, ReconfigureFails, StartStream,
       StopStream, CloseCamera, Shutdown, CloseCameraLocked, LoseRing

LEMMA RunningHasRingKept ==
  ASSUME SidecarTypeOK, RunningHasRing, [SidecarNext]_sidecarVars
  PROVE  RunningHasRing'
<1>1. CASE \E L \in Layouts : ReconfigureCamera(L)
  <2> PICK L \in Layouts : ReconfigureCamera(L)
    BY <1>1
  <2>1. cam' # NoCam
    <3>1. [open |-> TRUE, capturing |-> TRUE, cfg |-> L] \in Device
      BY DEF Device
    <3> QED BY <3>1, SidecarAssumption DEF ReconfigureCamera
  <2>2. CASE CreateRing(L)
    <3>1. Len(segs) \in Nat
      BY DEF SidecarTypeOK, RingTypeOK
    <3> QED BY <2>1, <2>2, <3>1, SidecarAssumption DEF RunningHasRing, CreateRing
  <2>3. CASE UNCHANGED <<segs, shm, named, layout, widx>>
    BY <2>1, <2>3 DEF RunningHasRing, ReconfigureCamera
  <2> QED BY <2>2, <2>3 DEF ReconfigureCamera
<1>2. CASE ControlStep /\ ~ \E L \in Layouts : ReconfigureCamera(L)
  <2>1. running' = FALSE \/ StartStream
    BY <1>2 DEF ControlStep, OpenCamera, ReconfigureFails, StopStream, CloseCamera,
                Shutdown, CloseCameraLocked
  <2> QED BY <2>1 DEF RunningHasRing, StartStream
<1>3. CASE ~ ControlStep
  <2>1. \/ UNCHANGED <<cam, shm, layout, running>>
        \/ running' = FALSE
    BY <1>3 DEF SidecarNext, SidecarStep, StreamStep, StreamArm, StreamBackOff,
                StreamCapture, StreamWritten, StreamPublish, StreamReport, Interrupt,
                MainCleanup, CloseCameraLocked, Exit, Crash, ProcessGone, Restart,
                Subscribe, Attach, Detach, Take, sidecarVars, stateVars
  <2> QED BY <2>1 DEF RunningHasRing
<1> QED BY <1>1, <1>2, <1>3

LEMMA RingMatchesLayoutKept ==
  ASSUME SidecarTypeOK, WritingHolds, RingMatchesLayout, [SidecarNext]_sidecarVars
  PROVE  RingMatchesLayout'
<1>1. CASE ControlStep
  <2>1. CASE \E L \in Layouts : CreateRing(L)
    BY <2>1, CreateRingType DEF RingMatchesLayout
  <2>2. CASE shm' = 0 \/ UNCHANGED <<shm, segs, named, layout, widx, seq>>
    BY <2>2 DEF RingMatchesLayout
  <2> QED BY <1>1, <2>1, <2>2, ControlRing
<1>2. CASE StreamCapture \/ StreamWritten
  <2>1. /\ UNCHANGED <<shm, named, layout>>
        /\ \A g \in 1 .. Len(segs) : segs'[g].layout = segs[g].layout
    BY <1>2, CaptureWrites, WrittenWrites, WriteSlot
       DEF StreamCapture, StreamWritten, stateVars
  <2> QED BY <2>1 DEF RingMatchesLayout, SidecarTypeOK, RingTypeOK
<1>3. CASE ~ (ControlStep \/ StreamCapture \/ StreamWritten)
  <2>1. \/ shm' = 0
        \/ UNCHANGED <<shm, layout, segs>> /\ (named' = named \/ Detach)
    BY <1>3 DEF SidecarNext, SidecarStep, StreamStep, StreamArm, StreamBackOff,
                StreamPublish, StreamReport, Interrupt, MainCleanup,
                CloseCameraLocked, Exit, Crash, ProcessGone, Restart, Subscribe,
                Attach, Detach, Take, sidecarVars, stateVars, osVars
  <2> QED BY <2>1 DEF RingMatchesLayout, Detach, NameAfterDetach
<1> QED BY <1>1, <1>2, <1>3

LEMMA ShutdownReleasesKept ==
  ASSUME SidecarTypeOK, ShutdownReleases, [SidecarNext]_sidecarVars
  PROVE  ShutdownReleases'
<1>1. CASE ControlStep
  <2>1. phase' # "shutdown" \/ (Shutdown /\ spc' = spc)
    BY <1>1 DEF ControlStep, OpenCamera, ReconfigureCamera, ReconfigureFails,
                StartStream, StopStream, CloseCamera, Shutdown, Serving, NextRequest
  <2> QED BY <2>1 DEF ShutdownReleases, Shutdown, CloseCameraLocked, Serving
<1>2. CASE ~ ControlStep
  <2>1. \/ phase' # "shutdown"
        \/ phase' = phase /\ cam' = NoCam /\ shm' = 0 /\ running' = FALSE
             /\ spc' # "writing"
        \/ /\ phase' = phase /\ UNCHANGED <<cam, shm, running>>
           /\ spc' # "writing" \/ spc' = spc \/ CanStream
    BY <1>2 DEF SidecarNext, SidecarStep, StreamStep, StreamArm, StreamBackOff,
                StreamCapture, StreamWritten, StreamPublish, StreamReport, Interrupt,
                MainCleanup, CloseCameraLocked, Exit, Crash, ProcessGone, Restart,
                Subscribe, Attach, Detach, Take, sidecarVars, stateVars, threadVars
  <2> QED BY <2>1 DEF ShutdownReleases, CanStream
<1> QED BY <1>1, <1>2

LEMMA GoneReleasesKept ==
  ASSUME SidecarTypeOK, GoneReleases, [SidecarNext]_sidecarVars
  PROVE  GoneReleases'
<1>1. CASE ControlStep
  BY <1>1, ControlEffect DEF GoneReleases
<1>2. CASE ~ ControlStep
  <2>1. \/ main' # "exited"
        \/ ProcessGone
        \/ main' = main /\ shm' = shm /\ (spc' = spc \/ spc # "idle" \/ main # "exited")
    BY <1>2 DEF SidecarNext, SidecarStep, StreamStep, StreamArm, StreamBackOff,
                StreamCapture, StreamWritten, StreamPublish, StreamReport, Interrupt,
                MainCleanup, Exit, Crash, Restart, Subscribe, Attach, Detach, Take,
                sidecarVars, stateVars, threadVars
  <2> QED BY <2>1 DEF GoneReleases, ProcessGone
<1> QED BY <1>1, <1>2

LEMMA WritingHoldsKept ==
  ASSUME SidecarTypeOK, GoneReleases, WritingHolds, [SidecarNext]_sidecarVars
  PROVE  WritingHolds'
<1>1. CASE StreamCapture
  <2>1. /\ shm # 0 /\ UNCHANGED <<cam, shm, layout, running, widx>>
        /\ CanStream /\ LayoutMatches
    BY <1>1 DEF StreamCapture, CanStream, stateVars
  <2>2. /\ Len(frames') = Len(frames) + 1 /\ frames' # <<>>
        /\ frames'[Len(frames')] = [layout |-> layout, seg |-> shm]
    BY <1>1 DEF StreamCapture, LayoutMatches, SidecarTypeOK, BusTypeOK
  <2>3. segs'[shm].slots[widx].head = Len(frames')
    BY <1>1, <2>2, CaptureWrites, WriteSlot
  <2> QED BY <2>1, <2>2, <2>3 DEF WritingHolds, CanStream, LayoutMatches
<1>2. CASE ~ StreamCapture
  <2>1. \/ spc' # "writing"
        \/ spc' = spc /\ UNCHANGED <<cam, shm, layout, running, widx, segs, frames>>
    BY <1>2, ControlEffect
       DEF SidecarNext, SidecarStep, StreamStep, StreamArm, StreamBackOff,
           StreamWritten, StreamPublish, StreamReport, Interrupt, MainCleanup, Exit,
           Crash, ProcessGone, Restart, Subscribe, Attach, Detach, Take, sidecarVars,
           stateVars, threadVars, osVars, GoneReleases
  <2> QED BY <2>1 DEF WritingHolds, CanStream, LayoutMatches
<1> QED BY <1>1, <1>2

-----------------------------------------------------------------------------
(* The notifications.                                                       *)

\* History is never rewritten.
PastIsKept ==
  /\ \A k \in 1 .. Len(frames) : k \in 1 .. Len(frames') /\ frames'[k] = frames[k]
  /\ \A g \in 1 .. Len(segs) : g \in 1 .. Len(segs') /\ segs'[g].layout = segs[g].layout

LEMMA PastKept ==
  ASSUME SidecarTypeOK, WritingHolds, [SidecarNext]_sidecarVars
  PROVE  PastIsKept
<1>0. segs \in Seq(Segment) /\ frames \in Seq([layout : Layouts, seg : Nat])
  BY DEF SidecarTypeOK, RingTypeOK, BusTypeOK
<1>1. CASE ControlStep
  <2>1. frames' = frames
    BY <1>1, ControlEffect
  <2>2. CASE \E L \in Layouts : CreateRing(L)
    BY <1>0, <2>1, <2>2, CreateRingType DEF PastIsKept
  <2>3. CASE segs' = segs
    BY <2>1, <2>3 DEF PastIsKept
  <2> QED BY <1>1, <2>2, <2>3, ControlRing
<1>2. CASE StreamCapture
  <2>1. /\ Len(segs') = Len(segs)
        /\ \A g \in 1 .. Len(segs) : segs'[g].layout = segs[g].layout
    BY <1>2, CaptureWrites, WriteSlot
  <2>2. \A k \in 1 .. Len(frames) : k \in 1 .. Len(frames') /\ frames'[k] = frames[k]
    BY <1>0, <1>2 DEF StreamCapture
  <2> QED BY <2>1, <2>2 DEF PastIsKept
<1>3. CASE StreamWritten
  <2>1. /\ Len(segs') = Len(segs)
        /\ \A g \in 1 .. Len(segs) : segs'[g].layout = segs[g].layout
    BY <1>3, WrittenWrites, WriteSlot
  <2> QED BY <1>3, <2>1 DEF PastIsKept, StreamWritten
<1>4. CASE ~ (ControlStep \/ StreamCapture \/ StreamWritten)
  <2>1. segs' = segs /\ frames' = frames
    BY <1>4 DEF SidecarNext, SidecarStep, StreamStep, StreamArm, StreamBackOff,
                StreamPublish, StreamReport, Interrupt, MainCleanup, CloseCameraLocked,
                Exit, Crash, ProcessGone, Restart, Subscribe, Attach, Detach, Take,
                sidecarVars, osVars
  <2> QED BY <2>1 DEF PastIsKept
<1> QED BY <1>1, <1>2, <1>3, <1>4

LEMMA InFlightAreNotes == SidecarTypeOK => InFlight \subseteq Note
<1> SUFFICES ASSUME SidecarTypeOK, NEW n \in InFlight PROVE n \in Note
  OBVIOUS
<1>1. CASE n \in Elements(hand)
  BY <1>1 DEF SidecarTypeOK, ThreadTypeOK, Elements
<1>2. CASE n \in Notes(wire)
  <2>1. n \in Message /\ n.kind = "frame"
    BY <1>2 DEF SidecarTypeOK, BusTypeOK, Notes, Elements
  <2>2. Status.kind = "status" /\ Garbled.kind = "garbled"
    BY DEF Status, Garbled
  <2> QED BY <2>1, <2>2 DEF Message
<1> QED BY <1>1, <1>2 DEF InFlight

\* Publishing a message that is no notification, or the one at hand.
LEMMA PublishKeeps ==
  ASSUME wire \in Seq(Message), NEW m \in Message, Publish(m)
  PROVE  Notes(wire') \subseteq Notes(wire) \cup {x \in {m} : x.kind = "frame"}
BY PublishWire DEF Notes

LEMMA NotesKept ==
  ASSUME SidecarTypeOK, [SidecarNext]_sidecarVars, ~ StreamWritten
  PROVE  InFlight' \subseteq InFlight
<1>0. wire \in Seq(Message) /\ hand \in Seq(Note) /\ Elements(<<>>) = {}
  BY ElementsEmpty DEF SidecarTypeOK, BusTypeOK, ThreadTypeOK
<1>1. CASE wire' = wire /\ hand' = hand
  BY <1>1 DEF InFlight
<1>2. CASE PublishStatus
  <2>1. Status.kind # "frame" /\ Garbled.kind # "frame"
    BY DEF Status, Garbled
  <2>2. Notes(wire') \subseteq Notes(wire)
    BY <1>0, <1>2, <2>1, PublishKeeps, ControlMessages DEF PublishStatus
  <2>3. hand' = hand \/ hand' = <<>>
    BY <1>2 DEF PublishStatus
  <2> QED BY <1>0, <2>2, <2>3 DEF InFlight
<1>3. CASE StreamPublish
  <2>1. hand[1] \in Message /\ hand[1] \in Elements(hand)
    <3>1. Len(hand) = 1
      BY <1>3 DEF StreamPublish, SidecarTypeOK, ThreadTypeOK
    <3>2. hand[1] \in Note /\ hand[1] \in Elements(hand)
      BY <1>0, <3>1 DEF Elements
    <3> QED BY <3>2 DEF Message
  <2>2. Notes(wire') \subseteq Notes(wire) \cup {hand[1]}
    BY <1>0, <1>3, <2>1, PublishKeeps DEF StreamPublish
  <2>3. hand' = <<>>
    BY <1>3 DEF StreamPublish
  <2> QED BY <1>0, <2>1, <2>2, <2>3 DEF InFlight
<1>4. CASE StreamReport
  <2>1. Notes(wire') \subseteq Notes(wire)
    <3>1. Status.kind # "frame"
      BY DEF Status
    <3> QED BY <1>0, <1>4, <3>1, PublishKeeps, ControlMessages DEF StreamReport
  <2> QED BY <1>4, <2>1 DEF InFlight, StreamReport
<1>5. CASE ProcessGone
  <2>1. hand' = <<>> /\ Elements(wire') \subseteq Elements(wire)
    BY <1>0, <1>5, ElementsPrefix DEF ProcessGone
  <2> QED BY <1>0, <2>1 DEF InFlight, Notes
<1>6. CASE Detach \/ Take
  <2>1. hand' = hand /\ Elements(wire') \subseteq Elements(wire)
    BY <1>0, <1>6, ElementsTail DEF Detach, Take, threadVars
  <2> QED BY <2>1 DEF InFlight, Notes
<1> QED
  BY <1>1, <1>2, <1>3, <1>4, <1>5, <1>6
     DEF SidecarNext, SidecarStep, ControlStep, OpenCamera, ReconfigureCamera,
         ReconfigureFails, StartStream, StopStream, CloseCamera, Shutdown, StreamStep,
         StreamArm, StreamBackOff, StreamCapture, Interrupt, MainCleanup, Exit, Crash,
         Restart, Subscribe, Attach, sidecarVars, threadVars, busVars

\* The one step that makes a notification.
LEMMA OneNoteAdded ==
  ASSUME SidecarTypeOK, WritingHolds, StreamWritten
  PROVE  InFlight' = InFlight \cup {hand'[1]}
<1>1. wire' = wire
  BY DEF StreamWritten, busVars
<1>2. hand = <<>> /\ hand' = <<hand'[1]>>
  BY NewNote
<1>3. Elements(<<hand'[1]>>) = {hand'[1]}
  BY DEF Elements
<1> QED BY <1>1, <1>2, <1>3, ElementsEmpty DEF InFlight

\* What is known of one notification stays true, wherever it is held.
LEMMA NoteTruthfulKept ==
  ASSUME SidecarTypeOK, WritingHolds, RingMatchesLayout, [SidecarNext]_sidecarVars,
         NEW n, Truthful(n)
  PROVE  Truthful(n)'
BY PastKept DEF Truthful, PastIsKept

LEMMA TruthfulKept ==
  ASSUME SidecarTypeOK, WritingHolds, RingMatchesLayout, NotesTruthfulInv,
         [SidecarNext]_sidecarVars
  PROVE  NotesTruthfulInv'
<1>1. \A n \in InFlight : Truthful(n)'
  BY NoteTruthfulKept DEF NotesTruthfulInv
<1>2. CASE StreamWritten
  <2> DEFINE n == hand'[1]
  <2>1. /\ n.frame = Len(frames) /\ n.seg = shm /\ n.layout = layout
    BY <1>2, NewNote
  <2>2. /\ frames[Len(frames)] = [layout |-> layout, seg |-> shm]
        /\ Len(frames) \in 1 .. Len(frames) /\ shm \in 1 .. Len(segs)
        /\ segs[shm].layout = layout
    BY <1>2 DEF StreamWritten, WritingHolds, CanStream, RingMatchesLayout,
                SidecarTypeOK, RingTypeOK, BusTypeOK
  <2>3. /\ n.frame \in 1 .. Len(frames') /\ n.seg \in 1 .. Len(segs')
        /\ frames'[n.frame] = [layout |-> n.layout, seg |-> n.seg]
        /\ segs'[n.seg].layout = n.layout
    BY <2>1, <2>2, PastKept DEF PastIsKept
  <2>4. InFlight' = InFlight \cup {n}
    BY <1>2, OneNoteAdded
  <2> HIDE DEF n
  <2> QED BY <1>1, <2>3, <2>4 DEF NotesTruthfulInv, Truthful
<1>3. CASE ~ StreamWritten
  BY <1>1, <1>3, NotesKept DEF NotesTruthfulInv
<1> QED BY <1>2, <1>3

\* What a step other than a write does to the ring and the indices.
LEMMA RingKept ==
  ASSUME SidecarTypeOK, GoneReleases, [SidecarNext]_sidecarVars,
         ~ (StreamCapture \/ StreamWritten)
  PROVE  \/ shm' = Len(segs) + 1
         \/ shm' = 0
         \/ /\ UNCHANGED <<shm, segs, widx, seq>>
            /\ (spc' # "writing" /\ spc # "writing") \/ spc' = spc
<1>1. CASE ControlStep
  BY <1>1, ControlRing, ControlEffect DEF CreateRing
<1>2. CASE ~ ControlStep
  BY <1>2 DEF SidecarNext, SidecarStep, StreamStep, StreamArm, StreamBackOff,
              StreamPublish, StreamReport, Interrupt, MainCleanup, CloseCameraLocked,
              Exit, Crash, ProcessGone, Restart, Subscribe, Attach, Detach, Take,
              sidecarVars, stateVars, threadVars, osVars, GoneReleases
<1> QED BY <1>1, <1>2

\* Going round the ring: d behind before the index advances, d + 1 after.
LEMMA RoundTheRing ==
  ASSUME NEW R \in Nat \ {0}, NEW w \in 0 .. R - 1, NEW v, NEW i \in 0 .. R - 1, NEW d \in Nat,
         d >= 1, d <= R => i + d = w \/ i + d = w + R,
         v = IF w + 1 < R THEN w + 1 ELSE 0
  PROVE  /\ d < R => i # w
         /\ d + 1 <= R => i + d + 1 = v \/ i + d + 1 = v + R
OBVIOUS

\* Placed, for a notification of the current ring.
LEMMA PlacedHere ==
  ASSUME NEW n, Placed(n), n.seg = shm
  PROVE  /\ Lag(n) >= 1
         /\ Lag(n) <= RING =>
              n.index + Lag(n) = widx \/ n.index + Lag(n) = widx + RING
         /\ Lag(n) < RING \/ (Lag(n) = RING /\ spc # "writing") =>
              segs[shm].slots[n.index] = Holds(n.frame)
BY DEF Placed

\* The same for its place in the ring.
LEMMA NotePlacedKept ==
  ASSUME SidecarTypeOK, GoneReleases, WritingHolds, [SidecarNext]_sidecarVars,
         NEW n, n.seq \in Nat, n.index \in Slots, n.seg \in 1 .. Len(segs), Placed(n)
  PROVE  Placed(n)'
<1>0. /\ RING \in Nat \ {0} /\ seq \in Nat /\ widx \in 0 .. RING - 1
      /\ Len(segs) \in Nat /\ Len(frames) \in Nat
  BY SidecarAssumption DEF SidecarTypeOK, StateTypeOK, RingTypeOK, BusTypeOK, Slots
<1>1. n.seq \in Nat /\ n.index \in Slots /\ n.index \in 0 .. RING - 1
  BY DEF Slots
<1>2. CASE StreamCapture
  <2>1. /\ UNCHANGED <<shm, seq, widx>> /\ spc' = "writing" /\ spc # "writing"
        /\ \A i \in Slots : i # widx => segs'[shm].slots[i] = segs[shm].slots[i]
    BY <1>2, CaptureWrites, WriteSlot DEF StreamCapture, stateVars
  <2>2. CASE n.seg = shm
    <3>1. /\ Lag(n) >= 1 /\ Lag(n) \in Nat /\ Lag(n)' = Lag(n) /\ Placed(n)
      BY <1>0, <1>1, <2>1, <2>2, PlacedHere DEF Lag
    <3>2. /\ Lag(n) <= RING =>
               n.index + Lag(n) = widx \/ n.index + Lag(n) = widx + RING
          /\ Lag(n) < RING => segs[shm].slots[n.index] = Holds(n.frame)
      BY <1>0, <2>1, <2>2, <3>1, PlacedHere
    <3>3. Lag(n) < RING => n.index # widx
      BY <1>0, <1>1, <3>1, <3>2
    <3>4. Lag(n) < RING => segs'[shm].slots[n.index] = Holds(n.frame)
      BY <1>1, <2>1, <3>2, <3>3
    <3> QED BY <2>1, <3>1, <3>2, <3>4 DEF Placed
  <2>3. CASE n.seg # shm
    BY <2>1, <2>3 DEF Placed
  <2> QED BY <2>2, <2>3
<1>3. CASE StreamWritten
  <2>1. /\ shm' = shm /\ seq' = seq + 1 /\ spc' = "publish" /\ spc = "writing"
        /\ widx' = IF widx + 1 < RING THEN widx + 1 ELSE 0
        /\ \A i \in Slots : i # widx => segs'[shm].slots[i] = segs[shm].slots[i]
    BY <1>3, WrittenWrites, WriteSlot, NextSlotInRing
       DEF StreamWritten, SidecarTypeOK, StateTypeOK
  <2>2. CASE n.seg = shm
    <3>1. Lag(n) >= 1 /\ Lag(n) \in Nat /\ Lag(n)' = Lag(n) + 1 /\ Placed(n)
      BY <1>0, <1>1, <2>1, <2>2, PlacedHere DEF Lag
    <3>2. /\ Lag(n) <= RING =>
               n.index + Lag(n) = widx \/ n.index + Lag(n) = widx + RING
          /\ Lag(n) < RING => segs[shm].slots[n.index] = Holds(n.frame)
      BY <1>0, <2>1, <2>2, <3>1, PlacedHere
    <3>3. /\ Lag(n) < RING => n.index # widx
          /\ Lag(n) + 1 <= RING =>
               \/ n.index + Lag(n) + 1 = widx'
               \/ n.index + Lag(n) + 1 = widx' + RING
      BY <1>0, <1>1, <2>1, <3>1, <3>2, RoundTheRing
    <3>4. Lag(n) < RING => segs'[shm].slots[n.index] = Holds(n.frame)
      BY <1>1, <2>1, <3>2, <3>3
    <3>5. Lag(n)' >= 1 /\ (Lag(n)' < RING \/ Lag(n)' = RING => Lag(n) < RING)
      BY <1>0, <3>1
    <3>6. Lag(n)' <= RING =>
            \/ n.index + Lag(n)' = widx'
            \/ n.index + Lag(n)' = widx' + RING
      BY <1>0, <1>1, <3>1, <3>3
    <3> QED BY <2>1, <3>4, <3>5, <3>6 DEF Placed
  <2>3. CASE n.seg # shm
    BY <2>1, <2>3 DEF Placed
  <2> QED BY <2>2, <2>3
<1>4. CASE ~ (StreamCapture \/ StreamWritten)
  <2>1. CASE shm' = Len(segs) + 1 \/ shm' = 0
    <3>1. n.seg # shm'
      BY <1>0, <2>1
    <3> QED BY <3>1 DEF Placed
  <2>2. CASE /\ UNCHANGED <<shm, segs, widx, seq>>
             /\ (spc' # "writing" /\ spc # "writing") \/ spc' = spc
    BY <2>2 DEF Placed, Lag
  <2> QED BY <1>4, <2>1, <2>2, RingKept
<1> QED BY <1>2, <1>3, <1>4

\* The notification just made is one behind, and its frame is whole.
LEMMA NewNotePlaced ==
  ASSUME SidecarTypeOK, WritingHolds, StreamWritten, NEW m, m = hand'[1]
  PROVE  Placed(m)'
<1>1. /\ RING \in Nat \ {0} /\ seq \in Nat /\ widx \in 0 .. RING - 1
  BY SidecarAssumption DEF SidecarTypeOK, StateTypeOK, Slots
<1>2. /\ shm' = shm /\ seq' = seq + 1
      /\ widx' = IF widx + 1 < RING THEN widx + 1 ELSE 0
      /\ segs'[shm].slots[widx] = Holds(Len(frames))
  BY WrittenWrites, WriteSlot, NextSlotInRing DEF StreamWritten, SidecarTypeOK, StateTypeOK
<1>3. m.frame = Len(frames) /\ m.seq = seq /\ m.index = widx /\ m.seg = shm
  BY NewNote
<1>4. Lag(m)' = 1
  BY <1>1, <1>2, <1>3 DEF Lag
<1>5. \/ m.index + Lag(m)' = widx'
      \/ m.index + Lag(m)' = widx' + RING
  BY <1>1, <1>2, <1>3, <1>4
<1>6. segs'[shm'].slots[m.index] = Holds(m.frame)
  BY <1>2, <1>3
<1> QED BY <1>4, <1>5, <1>6 DEF Placed

LEMMA PlacedKept ==
  ASSUME SidecarTypeOK, GoneReleases, WritingHolds, NotesTruthfulInv, NotesPlaced,
         [SidecarNext]_sidecarVars
  PROVE  NotesPlaced'
<1>1. \A n \in InFlight : n.seq \in Nat /\ n.index \in Slots /\ n.seg \in 1 .. Len(segs)
  BY InFlightAreNotes DEF Note, NotesTruthfulInv, Truthful
<1>2. \A n \in InFlight : Placed(n)'
  BY <1>1, NotePlacedKept DEF NotesPlaced
<1>3. CASE StreamWritten
  <2>1. PICK m : m = hand'[1]
    OBVIOUS
  <2>2. InFlight' = InFlight \cup {m} /\ Placed(m)'
    BY <1>3, <2>1, OneNoteAdded, NewNotePlaced
  <2> QED BY <1>2, <2>2 DEF NotesPlaced
<1>4. CASE ~ StreamWritten
  BY <1>2, <1>4, NotesKept DEF NotesPlaced
<1> QED BY <1>3, <1>4

-----------------------------------------------------------------------------
(* The theorems.                                                            *)

LEMMA InitInv == SidecarInit => SidecarInv
<1> SUFFICES ASSUME SidecarInit PROVE SidecarInv
  OBVIOUS
<1>1. SidecarTypeOK
  BY InitType
<1>2. /\ RunningHasRing /\ RingMatchesLayout /\ ShutdownReleases
      /\ GoneReleases /\ WritingHolds
  BY DEF SidecarInit, RunningHasRing, RingMatchesLayout, ShutdownReleases,
         GoneReleases, WritingHolds
<1>3. InFlight = {}
  BY ElementsEmpty DEF SidecarInit, InFlight, Notes
<1> QED BY <1>1, <1>2, <1>3 DEF SidecarInv, NotesTruthfulInv, NotesPlaced

LEMMA NextInv == SidecarInv /\ [SidecarNext]_sidecarVars => SidecarInv'
<1> SUFFICES ASSUME SidecarInv, [SidecarNext]_sidecarVars PROVE SidecarInv'
  OBVIOUS
<1>1. /\ SidecarTypeOK /\ RunningHasRing /\ RingMatchesLayout /\ ShutdownReleases
      /\ GoneReleases /\ WritingHolds /\ NotesTruthfulInv /\ NotesPlaced
  BY DEF SidecarInv
<1>2. SidecarTypeOK'
  BY <1>1, NextType
<1>3. RunningHasRing'
  BY <1>1, RunningHasRingKept
<1>4. RingMatchesLayout'
  BY <1>1, RingMatchesLayoutKept
<1>5. ShutdownReleases'
  BY <1>1, ShutdownReleasesKept
<1>6. GoneReleases'
  BY <1>1, GoneReleasesKept
<1>7. WritingHolds'
  BY <1>1, WritingHoldsKept
<1>8. NotesTruthfulInv'
  BY <1>1, TruthfulKept
<1>9. NotesPlaced'
  BY <1>1, PlacedKept
<1> QED BY <1>2, <1>3, <1>4, <1>5, <1>6, <1>7, <1>8, <1>9 DEF SidecarInv

(* Whatever requests, failures, interrupts, kills and restarts meet the two *)
(* threads: what the lock protects is as the code relies on it to be, and a *)
(* notification is as far behind in the ring as in the count of frames.     *)
THEOREM SidecarInvariant == SidecarSpec => []SidecarInv
BY InitInv, NextInv, PTL DEF SidecarSpec

(* The variables keep their types and the ring its bounds, whatever fails   *)
(* between the calls of a request (camera_service_impl.py:74-91).           *)
THEOREM SidecarTypeCorrect == SidecarSpec => []SidecarTypeOK
<1>1. SidecarInv => SidecarTypeOK
  BY DEF SidecarInv
<1> QED BY SidecarInvariant, <1>1, PTL

(* No partly failed request leaves the stream running without a camera, a   *)
(* ring or a layout (camera_service_impl.py:292-345, 413-509).              *)
THEOREM RunningStreamHasItsRing == SidecarSpec => []RunningHasRing
<1>1. SidecarInv => RunningHasRing
  BY DEF SidecarInv
<1> QED BY SidecarInvariant, <1>1, PTL

(* The name always leads a reader to a segment of the layout the frames are *)
(* checked against (camera_service_impl.py:94-129, 697-700).                *)
THEOREM NameLeadsToRing == SidecarSpec => []RingMatchesLayout
<1>1. SidecarInv => RingMatchesLayout
  BY DEF SidecarInv
<1> QED BY SidecarInvariant, <1>1, PTL

(* After an acknowledged Shutdown nothing is opened or captured again       *)
(* (camera_service_impl.py:655-668, 752-765).                               *)
THEOREM ShutdownIsFinal == SidecarSpec => []ShutdownReleases
<1>1. SidecarInv => ShutdownReleases
  BY DEF SidecarInv
<1> QED BY SidecarInvariant, <1>1, PTL

(* A notification names the layout and the segment its frame was captured   *)
(* with, however long it waited (camera_service_impl.py:716-735).           *)
THEOREM NotificationsAreTruthful == SidecarSpec => []NotesTruthful
<1>1. SidecarInv => NotesTruthful
  BY DEF SidecarInv, NotesTruthfulInv, NotesTruthful, Truthful
<1> QED BY SidecarInvariant, <1>1, PTL

(* The slot of a notification keeps its frame until the ring has gone       *)
(* round once, for a ring of any size (camera_service_impl.py:702-731).     *)
THEOREM RecentFramesAreIntact == SidecarSpec => []RecentFramesIntact
<1>1. SidecarInv => RecentFramesIntact
  <2> SUFFICES ASSUME SidecarInv, NEW n \in InFlight, n.seg = shm,
                      \/ Lag(n) < RING
                      \/ Lag(n) = RING /\ spc # "writing"
               PROVE  segs[shm].slots[n.index] = Holds(n.frame)
    BY DEF RecentFramesIntact, Lag
  <2>1. Placed(n)
    BY DEF SidecarInv, NotesPlaced
  <2> QED BY <2>1, PlacedHere
<1> QED BY SidecarInvariant, <1>1, PTL

=============================================================================
