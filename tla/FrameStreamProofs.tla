--------------------------- MODULE FrameStreamProofs ---------------------------
(***************************************************************************)
(* Proofs about FrameStream: the sidecar and its reader together, for every *)
(* ring size, high-water mark and bound.  Whatever the reader does is a     *)
(* step the sidecar's own specification allows (StreamIsSidecar), so the    *)
(* invariants proved there hold here too.  To them is added what holds of a *)
(* notification once the reader has taken it over - it stays truthful and   *)
(* in its place in the ring, and all notifications stay in the order of     *)
(* their frames - and what is known of the slots a copy may find: how many  *)
(* frames of the same ring can be younger than the one whose first half is  *)
(* there (SlotsRecent).                                                     *)
(***************************************************************************)
EXTENDS FrameStream, CameraSidecarProofs, FiniteSetTheorems

-----------------------------------------------------------------------------
(* The inductive invariant.                                                 *)

\* Notifications the reader has taken off the wire.
Held == Notes(inbox) \cup Elements(meta)

HeldIsKnown == \A n \in Held : Truthful(n) /\ Placed(n)

\* On Windows a mapping keeps its name.
MappingKeepsName == Windows /\ mapped # 0 => named = mapped

\* The frames of segment g captured between frame f and frame t.
Between(f, t, g) == {i \in f + 1 .. t : frames[i].seg = g}

Younger(f) == Between(f, Len(frames), frames[f].seg)

\* The first half of slot j of segment g is of frame h.  Counted round the
\* ring in use, it is as far behind the index as frames were captured since.
HeadFits(h, g, j) ==
  /\ h \in 1 .. Len(frames) /\ frames[h].seg = g
  /\ Cardinality(Younger(h)) < RING
  /\ g = shm =>
       LET n == Cardinality(Younger(h)) + IF spc = "writing" THEN 0 ELSE 1
       IN  j + n = widx \/ j + n = widx + RING

SlotsRecent ==
  \A g \in 1 .. Len(segs), j \in Slots :
    segs[g].slots[j].head # 0 => HeadFits(segs[g].slots[j].head, g, j)

\* What a copy that is half done has found.
CopyRecent ==
  cpc = "half" /\ half # 0 =>
    /\ half \in 1 .. Len(frames) /\ seen <= Len(frames)
    /\ Cardinality(Between(half, seen, frames[half].seg)) < RING

\* Neither the slot of n has been written again nor its ring replaced.
Fresh(n) == n.seg = shm /\ (Lag(n) < RING \/ (Lag(n) = RING /\ spc # "writing"))

FreshIsFound ==
  Windows =>
    /\ cpc = "half" /\ Fresh(meta[1]) => half = meta[1].frame
    /\ cpc = "retry" => ~ Fresh(meta[1])

LastInPast == last # NoPacket => last.seen <= Len(frames)

\* Notifications come in the order of their frames, and later than the last
\* packet; a frame that is being written has no notification yet.
Ascending(s) ==
  \A i, j \in 1 .. Len(s) :
    i < j /\ s[i].kind = "frame" /\ s[j].kind = "frame" => s[i].frame < s[j].frame
Ahead(A, B) == \A a \in A, b \in B : a.frame < b.frame

InOrder ==
  /\ Ascending(inbox) /\ Ascending(wire)
  /\ Ahead(Elements(meta), Notes(inbox) \cup InFlight)
  /\ Ahead(Notes(inbox), InFlight)
  /\ Ahead(Notes(wire), Elements(hand))

LastIsBehind ==
  /\ \A n \in Held \cup InFlight :
       last.frame < n.frame /\ (spc = "writing" => n.frame < Len(frames))
  /\ last.frame <= Len(frames) /\ (spc = "writing" => last.frame < Len(frames))

StreamInv ==
  /\ SidecarInv /\ StreamTypeOK /\ HeldIsKnown /\ MappingKeepsName
  /\ SlotsRecent /\ CopyRecent /\ FreshIsFound
  /\ LastInPast /\ DeliveredWhole /\ BoundedStaleness
  /\ InOrder /\ LastIsBehind

-----------------------------------------------------------------------------
(* The reader's steps are steps of the sidecar's specification.             *)

LEMMA ReaderIsSidecarStep == ReaderStep => [SidecarNext]_sidecarVars
<1> SUFFICES ASSUME ReaderStep PROVE [SidecarNext]_sidecarVars
  OBVIOUS
<1>1. CASE Transfer
  BY <1>1 DEF Transfer, Take, SidecarNext
<1>2. CASE RecvFrame
  BY <1>2 DEF RecvFrame, Subscribe, SidecarNext, sidecarVars, busVars
<1>3. CASE Tick \/ Timeout \/ ReadNotification \/ Drain \/ CopyFirst \/ CopySecond
  BY <1>3 DEF Tick, Timeout, ReadNotification, Drain, CopyFirst, CopySecond
<1>4. CASE EnsureShm
  BY <1>4 DEF EnsureShm, Attach, SidecarNext, sidecarVars, osVars
<1>5. CASE Close
  BY <1>5 DEF Close, SidecarNext
<1> QED BY <1>1, <1>2, <1>3, <1>4, <1>5 DEF ReaderStep, RecvStep

LEMMA StreamIsSidecarStep == [StreamNext]_streamVars => [SidecarNext]_sidecarVars
<1>1. SidecarStep => SidecarNext
  BY DEF SidecarNext
<1> QED BY <1>1, ReaderIsSidecarStep DEF StreamNext, streamVars

(***************************************************************************)
(* The sidecar and the reader together do nothing that the sidecar's own   *)
(* specification does not allow: all that is proved of CameraSidecar holds *)
(* of the composition.                                                     *)
(***************************************************************************)
THEOREM StreamIsSidecar == StreamSpec => SidecarSpec
<1>1. StreamInit => SidecarInit
  BY DEF StreamInit
<1> QED BY <1>1, StreamIsSidecarStep, PTL DEF StreamSpec, SidecarSpec

-----------------------------------------------------------------------------
(* Types.                                                                   *)

PacketType == [raw : Nat \X Nat, frame : Nat, layout : Layouts \cup {NoLayout},
               seg : Nat, seen : Nat]

ReaderTypeOK ==
  /\ inbox \in Seq(Message)
  /\ cpc \in {"idle", "wait", "retry", "drain", "copy", "half"}
  /\ meta \in Seq(Note)
  /\ Len(meta) = IF cpc \in {"retry", "drain", "copy", "half"} THEN 1 ELSE 0
  /\ cpc \in {"copy", "half", "retry"} => mapped # 0
  /\ half \in Nat /\ seen \in Nat
  /\ expired \in BOOLEAN
  /\ last \in PacketType

LEMMA StreamTypes == StreamTypeOK <=> SidecarTypeOK /\ ReaderTypeOK
BY DEF StreamTypeOK, ReaderTypeOK, PacketType

\* A notification in hand.
LEMMA InHand ==
  ASSUME ReaderTypeOK, cpc \in {"retry", "drain", "copy", "half"}
  PROVE  /\ meta = <<meta[1]>> /\ meta[1] \in Note /\ Elements(meta) = {meta[1]}
<1>1. meta \in Seq(Note) /\ Len(meta) = 1
  BY DEF ReaderTypeOK
<1>2. meta = <<meta[1]>> /\ meta[1] \in Note
  BY <1>1
<1>3. Elements(meta) = {meta[1]}
  BY <1>1 DEF Elements
<1> QED BY <1>2, <1>3

LEMMA OneNote ==
  ASSUME NEW n \in Note
  PROVE  <<n>> \in Seq(Note) /\ Len(<<n>>) = 1 /\ Elements(<<n>>) = {n} /\ <<n>>[1] = n
BY DEF Elements

\* A message taken off a queue.
LEMMA FirstIsElement ==
  ASSUME NEW S, NEW s \in Seq(S), s # <<>>
  PROVE  /\ Head(s) \in S /\ Head(s) \in Elements(s)
         /\ Tail(s) \in Seq(S) /\ Elements(Tail(s)) \subseteq Elements(s)
<1>1. 1 \in 1 .. Len(s) /\ Head(s) = s[1]
  OBVIOUS
<1> QED BY <1>1, ElementsTail DEF Elements

LEMMA MessageIsNote ==
  ASSUME NEW m \in Message, m.kind = "frame"
  PROVE  m \in Note
<1>1. Status.kind = "status" /\ Garbled.kind = "garbled"
  BY DEF Status, Garbled
<1> QED BY <1>1 DEF Message

\* A notification taken into hand.
LEMMA TakenInHand ==
  ASSUME inbox \in Seq(Message), inbox # <<>>, Head(inbox).kind = "frame", meta' = <<Head(inbox)>>
  PROVE  /\ Head(inbox) \in Note /\ Head(inbox) \in Notes(inbox)
         /\ meta' \in Seq(Note) /\ Len(meta') = 1
         /\ Elements(meta') = {Head(inbox)} /\ meta'[1] = Head(inbox)
<1>1. PICK n : n = Head(inbox)
  OBVIOUS
<1>2. n \in Note /\ n \in Notes(inbox)
  BY <1>1, FirstIsElement, MessageIsNote DEF Notes
<1>3. meta' = <<n>>
  BY <1>1
<1> QED BY <1>1, <1>2, <1>3, OneNote

\* What a slot of the mapped segment holds.
LEMMA CopiedType ==
  ASSUME StreamTypeOK, cpc \in {"copy", "half"}
  PROVE  Copied \in Slot /\ mapped \in 1 .. Len(segs) /\ meta[1].index \in Slots
<1>1. mapped \in 1 .. Len(segs) /\ segs[mapped] \in Segment
  BY DEF StreamTypeOK, SidecarTypeOK, RingTypeOK
<1>2. meta[1].index \in Slots
  BY InHand, StreamTypes DEF Note
<1>3. Holds(0) \in Slot
  BY DEF Holds, Slot
<1> QED BY <1>1, <1>2, <1>3 DEF Copied, Segment

LEMMA ReturnType ==
  ASSUME Return
  PROVE  /\ cpc' = "idle" /\ meta' \in Seq(Note) /\ Len(meta') = 0
         /\ half' = 0 /\ seen' = 0 /\ expired' = FALSE
BY EmptySeq DEF Return

LEMMA ReaderTypeStep ==
  ASSUME StreamTypeOK, ReaderStep
  PROVE  ReaderTypeOK'
<1>0. SidecarTypeOK /\ ReaderTypeOK
  BY StreamTypes
<1> USE <1>0
<1>1. CASE Transfer
  <2>1. inbox' \in Seq(Message)
    BY <1>1, FirstIsElement DEF Transfer, ReaderTypeOK, SidecarTypeOK, BusTypeOK
  <2> QED BY <1>1, <2>1 DEF Transfer, ReaderTypeOK, osVars
<1>2. CASE RecvFrame
  BY <1>2 DEF RecvFrame, ReaderTypeOK, osVars
<1>3. CASE Tick
  BY <1>3 DEF Tick, ReaderTypeOK, sidecarVars, osVars
<1>4. CASE Timeout
  BY <1>4, ReturnType DEF Timeout, ReaderTypeOK
<1>5. CASE ReadNotification
  <2>1. inbox' \in Seq(Message) /\ Head(inbox) \in Message
    BY <1>5, FirstIsElement DEF ReadNotification, ReaderTypeOK
  <2>2. CASE Head(inbox).kind = "frame"
    <3>1. meta' \in Seq(Note) /\ Len(meta') = 1
      BY <1>5, <2>2, TakenInHand DEF ReadNotification, ReaderTypeOK
    <3> QED BY <1>5, <2>1, <2>2, <3>1 DEF ReadNotification, ReaderTypeOK
  <2>3. CASE Head(inbox).kind # "frame"
    BY <1>5, <2>1, <2>3, ReturnType DEF ReadNotification, ReaderTypeOK
  <2> QED BY <2>2, <2>3
<1>6. CASE Drain
  <2>1. inbox' \in Seq(Message) /\ Head(inbox) \in Message
    BY <1>6, FirstIsElement DEF Drain, ReaderTypeOK
  <2>2. CASE Head(inbox).kind = "frame" /\ ~ expired
    <3>1. meta' \in Seq(Note) /\ Len(meta') = 1
      BY <1>6, <2>2, TakenInHand DEF Drain, ReaderTypeOK
    <3> QED BY <1>6, <2>1, <2>2, <3>1 DEF Drain, ReaderTypeOK
  <2>3. CASE ~ (Head(inbox).kind = "frame" /\ ~ expired)
    <3>1. Return /\ UNCHANGED <<mapped, last>>
      BY <1>6, <2>3 DEF Drain, sidecarVars, osVars
    <3> QED BY <2>1, <3>1, ReturnType DEF ReaderTypeOK
  <2> QED BY <2>2, <2>3
<1>7. CASE EnsureShm
  <2>1. UNCHANGED <<inbox, last>> /\ mapped' \in Nat
    BY <1>7 DEF EnsureShm, SidecarTypeOK, RingTypeOK
  <2>2. CASE Return
    BY <2>1, <2>2, ReturnType DEF ReaderTypeOK
  <2>3. CASE mapped' # 0 /\ cpc' = "copy" /\ UNCHANGED <<meta, half, seen, expired>>
    BY <1>7, <2>1, <2>3 DEF EnsureShm, ReaderTypeOK
  <2> QED BY <1>7, <2>2, <2>3 DEF EnsureShm
<1>8. CASE CopyFirst
  <2>1. Copied.head \in Nat /\ Len(frames) \in Nat /\ mapped' = mapped
    BY <1>8, CopiedType DEF CopyFirst, Slot, SidecarTypeOK, BusTypeOK, sidecarVars, osVars
  <2>2. CASE Return
    BY <1>8, <2>2, ReturnType DEF CopyFirst, ReaderTypeOK
  <2>3. CASE cpc' = "half"
    BY <1>8, <2>1, <2>3 DEF CopyFirst, Return, ReaderTypeOK
  <2> QED BY <1>8, <2>2, <2>3 DEF CopyFirst
<1>9. CASE CopySecond
  <2>1. CASE DigestMatches(<<half, Copied.tail>>)
    <3>1. Copied.tail \in Nat /\ meta[1] \in Note
      BY <1>9, CopiedType, InHand DEF CopySecond, Slot
    <3>2. last' \in PacketType
      BY <1>9, <2>1, <3>1 DEF CopySecond, PacketType, Note, ReaderTypeOK
    <3> QED BY <1>9, <2>1, <3>2, ReturnType DEF CopySecond, ReaderTypeOK
  <2>2. CASE ~ DigestMatches(<<half, Copied.tail>>)
    BY <1>9, <2>2 DEF CopySecond, ReaderTypeOK, sidecarVars, osVars
  <2> QED BY <2>1, <2>2
<1>10. CASE Close
  BY <1>10, EmptySeq DEF Close, Detach, ReaderTypeOK
<1> QED BY <1>1, <1>2, <1>3, <1>4, <1>5, <1>6, <1>7, <1>8, <1>9, <1>10 DEF ReaderStep, RecvStep

\* No step of the sidecar changes what the reader has mapped.
LEMMA SidecarKeepsMapping ==
  ASSUME SidecarStep
  PROVE  mapped' = mapped
BY DEF SidecarStep, ControlStep, OpenCamera, ReconfigureCamera, ReconfigureFails, StartStream, StopStream,
       CloseCamera, Shutdown, ControlFrame, StreamStep, StreamArm, StreamBackOff, StreamCapture, StreamWritten,
       StreamPublish, StreamReport, Interrupt, MainCleanup, Exit, Crash, ProcessGone, Restart, osVars

LEMMA StreamTypeStep ==
  ASSUME StreamInv, [StreamNext]_streamVars
  PROVE  StreamTypeOK'
<1>1. SidecarTypeOK'
  BY StreamIsSidecarStep, NextInv DEF StreamInv, SidecarInv
<1>2. ReaderTypeOK'
  <2>1. CASE ReaderStep
    BY <2>1, ReaderTypeStep DEF StreamInv
  <2>2. CASE UNCHANGED readerVars /\ UNCHANGED mapped
    BY <2>2, StreamTypes DEF StreamInv, readerVars, ReaderTypeOK
  <2> QED BY <2>1, <2>2, SidecarKeepsMapping DEF StreamNext, streamVars, sidecarVars, osVars
<1> QED BY <1>1, <1>2 DEF StreamTypeOK, ReaderTypeOK, PacketType

-----------------------------------------------------------------------------
(* The notifications the reader has taken over.                             *)

\* Whatever is held was held before or has come off the wire.
LEMMA HeldFrom ==
  ASSUME StreamTypeOK, [StreamNext]_streamVars
  PROVE  Held' \subseteq Held \cup InFlight
<1>0. /\ SidecarTypeOK /\ ReaderTypeOK /\ inbox \in Seq(Message) /\ wire \in Seq(Message)
      /\ Elements(<<>>) = {}
  BY StreamTypes, ElementsEmpty DEF ReaderTypeOK, SidecarTypeOK, BusTypeOK
<1>1. CASE UNCHANGED <<inbox, meta>>
  BY <1>1 DEF Held
<1>2. CASE Transfer
  <2>1. /\ Elements(inbox') = Elements(inbox) \cup {Head(wire)} /\ Head(wire) \in Elements(wire)
        /\ meta' = meta
    BY <1>0, <1>2, FirstIsElement, ElementsAppend DEF Transfer
  <2> QED BY <2>1 DEF Held, InFlight, Notes
<1>3. CASE Return /\ inbox' \in {inbox, Tail(inbox), <<>>} /\ (inbox # <<>> \/ inbox' = inbox)
  <2>1. meta' = <<>> /\ Elements(inbox') \subseteq Elements(inbox)
    BY <1>0, <1>3, FirstIsElement DEF Return
  <2> QED BY <1>0, <2>1 DEF Held, Notes
<1>4. CASE inbox # <<>> /\ inbox' = Tail(inbox) /\ meta' = <<Head(inbox)>> /\ Head(inbox).kind = "frame"
  <2>1. Elements(meta') = {Head(inbox)} /\ Head(inbox) \in Notes(inbox)
    BY <1>0, <1>4, TakenInHand
  <2>2. Elements(inbox') \subseteq Elements(inbox)
    BY <1>0, <1>4, FirstIsElement
  <2> QED BY <2>1, <2>2 DEF Held, Notes
<1>5. CASE Close
  <2>1. Elements(inbox') = {} /\ meta' = meta
    BY <1>0, <1>5 DEF Close
  <2> QED BY <2>1 DEF Held, Notes
<1>6. CASE ReadNotification \/ Drain
  BY <1>6, <1>3, <1>4 DEF ReadNotification, Drain
<1>7. CASE Timeout \/ EnsureShm \/ CopyFirst \/ CopySecond
  BY <1>7, <1>1, <1>3 DEF Timeout, EnsureShm, CopyFirst, CopySecond
<1> QED BY <1>1, <1>2, <1>5, <1>6, <1>7
        DEF StreamNext, ReaderStep, RecvStep, RecvFrame, Tick, readerVars, streamVars

LEMMA HeldAreNotes == ReaderTypeOK => Held \subseteq Note
<1> SUFFICES ASSUME ReaderTypeOK, NEW n \in Held PROVE n \in Note
  OBVIOUS
<1>1. CASE n \in Notes(inbox)
  BY <1>1, MessageIsNote DEF ReaderTypeOK, Notes, Elements
<1>2. CASE n \in Elements(meta)
  BY <1>2 DEF ReaderTypeOK, Elements
<1> QED BY <1>1, <1>2 DEF Held

\* All notifications: truthful, and in their places.
LEMMA KnownNotes ==
  ASSUME StreamInv, NEW n \in Held \cup InFlight
  PROVE  /\ n \in Note /\ n.seq \in Nat /\ n.index \in Slots /\ n.seg \in 1 .. Len(segs)
         /\ n.frame \in 1 .. Len(frames) /\ Truthful(n) /\ Placed(n)
<1>1. n \in Note
  BY HeldAreNotes, InFlightAreNotes, StreamTypes DEF StreamInv
<1>2. Truthful(n) /\ Placed(n)
  BY DEF StreamInv, HeldIsKnown, SidecarInv, NotesTruthfulInv, NotesPlaced
<1> QED BY <1>1, <1>2 DEF Note, Truthful

LEMMA HeldKnownStep ==
  ASSUME StreamInv, [StreamNext]_streamVars
  PROVE  HeldIsKnown'
<1>1. ASSUME NEW n \in Held' PROVE Truthful(n)' /\ Placed(n)'
  <2>1. n \in Held \cup InFlight
    BY <1>1, HeldFrom DEF StreamInv
  <2>2. /\ n.seq \in Nat /\ n.index \in Slots /\ n.seg \in 1 .. Len(segs)
        /\ Truthful(n) /\ Placed(n)
    BY <2>1, KnownNotes
  <2>3. [SidecarNext]_sidecarVars /\ SidecarTypeOK /\ WritingHolds /\ RingMatchesLayout /\ GoneReleases
    BY StreamIsSidecarStep DEF StreamInv, SidecarInv
  <2> QED BY <2>2, <2>3, NoteTruthfulKept, NotePlacedKept
<1> QED BY <1>1 DEF HeldIsKnown

\* On Windows the name stays with the segment the reader has mapped: no ring
\* can take it over.
LEMMA MappingStep ==
  ASSUME StreamInv, [StreamNext]_streamVars
  PROVE  MappingKeepsName'
<1> SUFFICES ASSUME Windows, mapped' # 0 PROVE named' = mapped'
  BY DEF MappingKeepsName
<1>1. CASE SidecarStep
  <2>1. mapped' = mapped /\ named = mapped /\ mapped # 0
    BY <1>1, SidecarKeepsMapping DEF StreamInv, MappingKeepsName
  <2>2. Released = named
    BY <2>1 DEF Released, StreamInv, SidecarInv, RingMatchesLayout
  <2>3. \A L \in Layouts : ~ CreateRing(L)
    BY <2>1, <2>2 DEF CreateRing
  <2>4. CASE ControlStep
    BY <2>1, <2>2, <2>3, <2>4 DEF ControlStep, OpenCamera, ReconfigureCamera, ReconfigureFails, StartStream,
       StopStream, CloseCamera, Shutdown, CloseCameraLocked, LoseRing
  <2>5. CASE ~ ControlStep
    BY <1>1, <2>1, <2>2, <2>5
       DEF SidecarStep, StreamStep, StreamArm, StreamBackOff, StreamCapture, StreamWritten, StreamPublish,
           StreamReport, Interrupt, MainCleanup, CloseCameraLocked, Exit, Crash, ProcessGone, Restart, osVars
  <2> QED BY <2>4, <2>5
<1>2. CASE EnsureShm
  BY <1>2 DEF EnsureShm, StreamInv, MappingKeepsName
<1>3. CASE Close
  BY <1>3 DEF Close, Detach
<1>4. CASE UNCHANGED osVars
  BY <1>4 DEF osVars, StreamInv, MappingKeepsName
<1> QED BY <1>1, <1>2, <1>3, <1>4
        DEF StreamNext, ReaderStep, RecvStep, Transfer, RecvFrame, Tick, Timeout, ReadNotification, Drain,
            CopyFirst, CopySecond, streamVars, sidecarVars

-----------------------------------------------------------------------------
(* The slots a copy may find.                                               *)

LEMMA BetweenFinite ==
  ASSUME NEW f \in Nat, NEW t \in Nat, NEW g
  PROVE  /\ IsFiniteSet(Between(f, t, g)) /\ Cardinality(Between(f, t, g)) \in Nat
         /\ f = t => Cardinality(Between(f, t, g)) = 0
<1>1. IsFiniteSet(f + 1 .. t) /\ Between(f, t, g) \in SUBSET (f + 1 .. t)
  BY FS_Interval DEF Between
<1>2. IsFiniteSet(Between(f, t, g))
  BY <1>1, FS_Subset
<1>3. f = t => Between(f, t, g) = {}
  BY DEF Between
<1> QED BY <1>2, <1>3, FS_CardinalityType, FS_EmptySet

\* History grows at its end.
LEMMA FramesGrow ==
  ASSUME StreamInv, [StreamNext]_streamVars
  PROVE  /\ Len(frames) \in Nat /\ Len(frames') \in Nat /\ Len(frames) <= Len(frames')
         /\ \A k \in 1 .. Len(frames) : k \in 1 .. Len(frames') /\ frames'[k] = frames[k]
<1>1. [SidecarNext]_sidecarVars /\ SidecarTypeOK /\ WritingHolds /\ SidecarTypeOK'
  BY StreamIsSidecarStep, NextInv DEF StreamInv, SidecarInv
<1>2. Len(frames) \in Nat /\ Len(frames') \in Nat
  BY <1>1 DEF SidecarTypeOK, BusTypeOK
<1>3. \A k \in 1 .. Len(frames) : k \in 1 .. Len(frames') /\ frames'[k] = frames[k]
  BY <1>1, PastKept DEF PastIsKept
<1>4. Len(frames) = 0 \/ Len(frames) \in 1 .. Len(frames)
  BY <1>2
<1> QED BY <1>2, <1>3, <1>4

\* A capture makes the earlier frames of its segment one older.
LEMMA YoungerByOne ==
  ASSUME StreamInv, StreamCapture, NEW h \in 1 .. Len(frames)
  PROVE  /\ frames'[h] = frames[h] /\ h \in 1 .. Len(frames') /\ Cardinality(Younger(h)) \in Nat
         /\ Cardinality(Younger(h))' =
              Cardinality(Younger(h)) + IF frames[h].seg = shm THEN 1 ELSE 0
<1>1. /\ frames \in Seq([layout : Layouts, seg : Nat]) /\ Len(frames) \in Nat
      /\ frames' = Append(frames, [layout |-> cam.cfg, seg |-> shm])
  BY DEF StreamCapture, StreamInv, SidecarInv, SidecarTypeOK, BusTypeOK
<1>2. /\ Len(frames') = Len(frames) + 1 /\ frames'[Len(frames) + 1].seg = shm
      /\ \A k \in 1 .. Len(frames) : frames'[k] = frames[k]
  BY <1>1
<1>3. Younger(h)' = Younger(h) \cup (IF frames[h].seg = shm THEN {Len(frames) + 1} ELSE {})
  BY <1>1, <1>2 DEF Younger, Between
<1>4. IsFiniteSet(Younger(h)) /\ Cardinality(Younger(h)) \in Nat
  BY <1>1, BetweenFinite DEF Younger
<1>5. Len(frames) + 1 \notin Younger(h)
  BY <1>1 DEF Younger, Between
<1>6. CASE frames[h].seg = shm
  <2>1. Younger(h)' = Younger(h) \cup {Len(frames) + 1}
    BY <1>3, <1>6
  <2>2. Cardinality(Younger(h) \cup {Len(frames) + 1}) = Cardinality(Younger(h)) + 1
    BY <1>4, <1>5, FS_AddElement
  <2> QED BY <1>1, <1>2, <1>4, <1>6, <2>1, <2>2
<1>7. CASE frames[h].seg # shm
  BY <1>1, <1>2, <1>3, <1>4, <1>7
<1> QED BY <1>6, <1>7

LEMMA YoungerKept ==
  ASSUME frames' = frames, NEW h
  PROVE  Younger(h)' = Younger(h)
BY DEF Younger, Between

\* The first halves a step leaves, clears or writes.
LEMMA HeadsAfter ==
  ASSUME SidecarTypeOK, WritingHolds, [SidecarNext]_sidecarVars,
         NEW g \in 1 .. Len(segs'), NEW j \in Slots
  PROVE  \/ /\ g \in 1 .. Len(segs) /\ segs'[g].slots[j].head = segs[g].slots[j].head
            /\ ~ (StreamCapture /\ g = shm /\ j = widx)
         \/ segs'[g].slots[j].head = 0
         \/ /\ StreamCapture /\ g = shm /\ j = widx
            /\ segs'[g].slots[j].head = Len(frames) + 1
<1>0. segs \in Seq(Segment) /\ Len(segs) \in Nat
  BY DEF SidecarTypeOK, RingTypeOK
<1>1. CASE \E L \in Layouts : CreateRing(L)
  <2>1. PICK L \in Layouts : CreateRing(L)
    BY <1>1
  <2>2. CASE g \in 1 .. Len(segs)
    <3>1. segs'[g] = segs[g]
      BY <2>1, <2>2, CreateRingType
    <3>2. ~ StreamCapture
      BY <1>0, <2>1, CaptureWrites, WriteSlot, CreateRingType
    <3> QED BY <2>2, <3>1, <3>2
  <2>3. CASE g = Len(segs) + 1
    <3> DEFINE new == [layout |-> L, slots |-> [i \in Slots |-> Holds(0)]]
    <3>1. segs' = Append(segs, new) /\ new.slots[j].head = 0
      BY <2>1 DEF CreateRing, Holds
    <3> HIDE DEF new
    <3>2. segs'[g] = new
      BY <1>0, <2>3, <3>1
    <3> QED BY <3>1, <3>2
  <2> QED BY <1>0, <2>1, <2>2, <2>3, CreateRingType
<1>2. CASE StreamCapture
  <2>1. /\ Len(segs') = Len(segs) /\ segs'[shm].slots[widx].head = Len(frames) + 1
        /\ \A i \in Slots : i # widx => segs'[shm].slots[i] = segs[shm].slots[i]
    BY <1>2, CaptureWrites, WriteSlot
  <2>2. g # shm => segs'[g] = segs[g]
    BY <1>0, <1>2, <2>1 DEF StreamCapture
  <2> QED BY <1>2, <2>1, <2>2
<1>3. CASE StreamWritten
  <2>1. /\ Len(segs') = Len(segs) /\ segs'[shm].slots[widx] = Holds(Len(frames))
        /\ segs[shm].slots[widx].head = Len(frames)
        /\ \A i \in Slots : i # widx => segs'[shm].slots[i] = segs[shm].slots[i]
    BY <1>3, WrittenWrites, WriteSlot DEF StreamWritten, WritingHolds
  <2>2. g # shm => segs'[g] = segs[g]
    BY <1>0, <1>3, <2>1 DEF StreamWritten
  <2>3. ~ StreamCapture
    BY <1>3 DEF StreamCapture, StreamWritten
  <2> QED BY <2>1, <2>2, <2>3 DEF Holds
<1>4. CASE segs' = segs /\ ~ StreamCapture
  BY <1>4
<1>5. CASE ControlStep
  <2>1. ~ StreamCapture
    BY <1>5, ControlEffect DEF StreamCapture, SidecarTypeOK, BusTypeOK
  <2> QED BY <1>1, <1>4, <1>5, <2>1, ControlRing
<1>6. ~ (ControlStep \/ StreamCapture \/ StreamWritten) => segs' = segs
  BY DEF SidecarNext, SidecarStep, StreamStep, StreamArm, StreamBackOff, StreamPublish, StreamReport,
         Interrupt, MainCleanup, CloseCameraLocked, Exit, Crash, ProcessGone, Restart, Subscribe, Attach,
         Detach, Take, sidecarVars, osVars
<1> QED BY <1>2, <1>3, <1>4, <1>5, <1>6

LEMMA OneMoreStep ==
  ASSUME NEW R \in Nat \ {0}, NEW w \in 0 .. R - 1, NEW v, NEW i \in 0 .. R - 1, NEW c \in Nat, c < R,
         i + c = w \/ i + c = w + R, v = IF w + 1 < R THEN w + 1 ELSE 0
  PROVE  i + (c + 1) = v \/ i + (c + 1) = v + R
OBVIOUS

\* A first half that is not written again stays as recent as its ring asks.
LEMMA FitsKept ==
  ASSUME StreamInv, [StreamNext]_streamVars, NEW h, NEW g, NEW j \in Slots, HeadFits(h, g, j),
         g \in 1 .. Len(segs), ~ (StreamCapture /\ g = shm /\ j = widx)
  PROVE  HeadFits(h, g, j)'
<1>0. /\ [SidecarNext]_sidecarVars /\ SidecarTypeOK /\ WritingHolds /\ GoneReleases
      /\ RING \in Nat \ {0} /\ widx \in 0 .. RING - 1 /\ j \in 0 .. RING - 1
      /\ h \in 1 .. Len(frames) /\ frames[h].seg = g /\ Len(frames) \in Nat /\ Len(segs) \in Nat
      /\ Cardinality(Younger(h)) \in Nat /\ Cardinality(Younger(h)) < RING
  <2>1. SidecarTypeOK /\ WritingHolds /\ GoneReleases /\ h \in 1 .. Len(frames) /\ frames[h].seg = g
    BY DEF StreamInv, SidecarInv, HeadFits
  <2>2. Len(frames) \in Nat /\ Len(segs) \in Nat
    BY <2>1 DEF SidecarTypeOK, BusTypeOK, RingTypeOK
  <2>3. Cardinality(Younger(h)) \in Nat
    BY <2>1, <2>2, BetweenFinite DEF Younger
  <2> QED BY <2>1, <2>2, <2>3, StreamIsSidecarStep, SidecarAssumption
          DEF SidecarTypeOK, StateTypeOK, Slots, HeadFits
<1>1. frames'[h] = frames[h] /\ h \in 1 .. Len(frames')
  BY <1>0, FramesGrow
<1>2. CASE StreamCapture
  <2>1. Cardinality(Younger(h))' = Cardinality(Younger(h)) + IF g = shm THEN 1 ELSE 0
    BY <1>0, <1>2, YoungerByOne
  <2>2. UNCHANGED <<shm, widx>> /\ spc' = "writing" /\ spc # "writing"
    BY <1>2 DEF StreamCapture, stateVars
  <2>3. CASE g = shm
    <3>1. j + Cardinality(Younger(h)) + 1 = widx \/ j + Cardinality(Younger(h)) + 1 = widx + RING
      BY <1>0, <2>2, <2>3 DEF HeadFits
    <3>2. j # widx
      BY <1>2, <2>3
    <3>3. Cardinality(Younger(h))' < RING
      BY <1>0, <2>1, <2>3, <3>1, <3>2
    <3>4. j + Cardinality(Younger(h))' = widx' \/ j + Cardinality(Younger(h))' = widx' + RING
      BY <1>0, <2>1, <2>2, <2>3, <3>1
    <3>5. Cardinality(Younger(h))' + 0 = Cardinality(Younger(h))'
      BY <1>0, <2>1, <2>3
    <3> QED BY <1>0, <1>1, <2>2, <3>3, <3>4, <3>5 DEF HeadFits
  <2>4. CASE g # shm
    BY <1>0, <1>1, <2>1, <2>2, <2>4 DEF HeadFits
  <2> QED BY <2>3, <2>4
<1>3. CASE StreamWritten
  <2>1. frames' = frames /\ shm' = shm /\ spc = "writing" /\ spc' = "publish" /\ widx' = NextSlot
    BY <1>3 DEF StreamWritten
  <2>2. Cardinality(Younger(h))' = Cardinality(Younger(h))
    BY <2>1, YoungerKept
  <2>3. widx' = IF widx + 1 < RING THEN widx + 1 ELSE 0
    BY <1>0, <2>1, NextSlotInRing DEF SidecarTypeOK, StateTypeOK
  <2>4. CASE g = shm
    <3>1. j + Cardinality(Younger(h)) = widx \/ j + Cardinality(Younger(h)) = widx + RING
      BY <1>0, <2>1, <2>4 DEF HeadFits
    <3>2. \/ j + (Cardinality(Younger(h)) + 1) = widx'
          \/ j + (Cardinality(Younger(h)) + 1) = widx' + RING
      BY <1>0, <2>3, <3>1, OneMoreStep
    <3> QED BY <1>0, <1>1, <2>1, <2>2, <3>2 DEF HeadFits
  <2>5. CASE g # shm
    BY <1>0, <1>1, <2>1, <2>2, <2>5 DEF HeadFits
  <2> QED BY <2>4, <2>5
<1>4. CASE ~ (StreamCapture \/ StreamWritten)
  <2>1. frames' = frames
    BY <1>0, <1>4, ControlEffect
       DEF SidecarNext, SidecarStep, StreamStep, StreamArm, StreamBackOff, StreamPublish, StreamReport,
           Interrupt, MainCleanup, Exit, Crash, ProcessGone, Restart, Subscribe, Attach, Detach, Take, sidecarVars
  <2>2. Cardinality(Younger(h))' = Cardinality(Younger(h))
    BY <2>1, YoungerKept
  <2>3. CASE shm' = Len(segs) + 1 \/ shm' = 0
    BY <1>0, <1>1, <2>2, <2>3 DEF HeadFits
  <2>4. CASE /\ UNCHANGED <<shm, segs, widx, seq>>
             /\ (spc' # "writing" /\ spc # "writing") \/ spc' = spc
    BY <1>0, <1>1, <2>2, <2>4 DEF HeadFits
  <2> QED BY <1>0, <1>4, <2>3, <2>4, RingKept
<1> QED BY <1>2, <1>3, <1>4

LEMMA SlotsRecentStep ==
  ASSUME StreamInv, [StreamNext]_streamVars
  PROVE  SlotsRecent'
<1> SUFFICES ASSUME NEW g \in 1 .. Len(segs'), NEW j \in Slots, segs'[g].slots[j].head # 0
             PROVE  HeadFits(segs[g].slots[j].head, g, j)'
  BY DEF SlotsRecent, Slots
<1>1. PICK h : h = segs'[g].slots[j].head
  OBVIOUS
<1>2. [SidecarNext]_sidecarVars /\ SidecarTypeOK /\ WritingHolds
  BY StreamIsSidecarStep DEF StreamInv, SidecarInv
<1>3. CASE /\ g \in 1 .. Len(segs) /\ h = segs[g].slots[j].head
           /\ ~ (StreamCapture /\ g = shm /\ j = widx)
  <2>1. HeadFits(h, g, j)
    BY <1>1, <1>3 DEF StreamInv, SlotsRecent
  <2>2. HeadFits(h, g, j)'
    BY <1>3, <2>1, FitsKept
  <2> QED BY <1>1, <2>2 DEF HeadFits, Younger, Between
<1>4. CASE StreamCapture /\ g = shm /\ j = widx /\ h = Len(frames) + 1
  <2>1. /\ frames' = Append(frames, [layout |-> cam.cfg, seg |-> shm])
        /\ frames \in Seq([layout : Layouts, seg : Nat]) /\ Len(frames) \in Nat
        /\ UNCHANGED <<shm, widx>> /\ spc' = "writing" /\ widx \in 0 .. RING - 1 /\ RING \in Nat \ {0}
    BY <1>2, <1>4, SidecarAssumption
       DEF StreamCapture, stateVars, SidecarTypeOK, StateTypeOK, BusTypeOK, Slots
  <2>2. Len(frames') = h /\ h \in 1 .. Len(frames') /\ frames'[h].seg = shm
    BY <1>4, <2>1
  <2>3. Younger(h)' = {}
    BY <2>1, <2>2 DEF Younger, Between
  <2>4. Cardinality(Younger(h))' = 0
    BY <2>3, FS_EmptySet
  <2>5. HeadFits(h, g, j)'
    BY <1>4, <2>1, <2>2, <2>4 DEF HeadFits
  <2> QED BY <1>1, <2>5 DEF HeadFits, Younger, Between
<1> QED BY <1>1, <1>2, <1>3, <1>4, HeadsAfter

-----------------------------------------------------------------------------
(* A copy, and the packet made of it.                                       *)

\* Where a call of recv_frame may go.
LEMMA CallSteps ==
  ASSUME [StreamNext]_streamVars
  PROVE  \/ UNCHANGED <<cpc, half, seen, meta, last>>
         \/ cpc' \notin {"half", "retry"} /\ UNCHANGED last
         \/ CopyFirst /\ cpc' = "half"
         \/ CopySecond
BY DEF StreamNext, ReaderStep, RecvStep, Transfer, RecvFrame, Tick, Timeout, ReadNotification, Drain, EnsureShm,
       CopyFirst, Close, Return, readerVars, streamVars

\* The notification a copy works on.
LEMMA InHandKnown ==
  ASSUME StreamInv, cpc \in {"retry", "drain", "copy", "half"}
  PROVE  /\ meta[1] \in Held /\ meta[1] \in Note /\ meta[1].frame \in 1 .. Len(frames)
         /\ meta[1].seg \in 1 .. Len(segs) /\ meta[1].seq \in Nat
         /\ Truthful(meta[1]) /\ Placed(meta[1])
<1>1. meta[1] \in Held
  BY InHand, StreamTypes DEF StreamInv, Held
<1> QED BY <1>1, KnownNotes

LEMMA CopyRecentStep ==
  ASSUME StreamInv, [StreamNext]_streamVars
  PROVE  CopyRecent'
<1> SUFFICES ASSUME cpc' = "half", half' # 0
             PROVE  /\ half' \in 1 .. Len(frames') /\ seen' <= Len(frames')
                    /\ Cardinality(Between(half, seen, frames[half].seg))' < RING
  BY DEF CopyRecent
<1>0. half \in Nat /\ seen \in Nat /\ Len(frames) \in Nat
  BY DEF StreamInv, StreamTypeOK, SidecarTypeOK, BusTypeOK
<1>1. CASE UNCHANGED <<cpc, half, seen, meta, last>>
  <2>1. /\ half \in 1 .. Len(frames) /\ seen <= Len(frames)
        /\ Cardinality(Between(half, seen, frames[half].seg)) < RING
    BY <1>1 DEF StreamInv, CopyRecent
  <2>2. /\ half \in 1 .. Len(frames') /\ seen <= Len(frames') /\ frames'[half] = frames[half]
    BY <1>0, <2>1, FramesGrow
  <2>3. Between(half, seen, frames[half].seg)' = Between(half, seen, frames[half].seg)
    BY <1>0, <1>1, <2>1, <2>2, FramesGrow DEF Between
  <2> QED BY <1>1, <2>1, <2>2, <2>3
<1>2. CASE CopyFirst
  <2>1. half' = Copied.head /\ seen' = Len(frames) /\ UNCHANGED <<frames, segs>>
    BY <1>2 DEF CopyFirst, Return, sidecarVars, osVars
  <2>2. Copied.head = segs[mapped].slots[meta[1].index].head
    BY <2>1 DEF Copied, Holds
  <2>3. mapped \in 1 .. Len(segs) /\ meta[1].index \in Slots
    BY <1>2, CopiedType DEF CopyFirst, StreamInv
  <2>4. HeadFits(half', mapped, meta[1].index)
    BY <2>1, <2>2, <2>3 DEF StreamInv, SlotsRecent
  <2> QED BY <1>0, <2>1, <2>4 DEF HeadFits, Younger, Between
<1>3. CASE CopySecond
  BY <1>3 DEF CopySecond, Return
<1> QED BY <1>1, <1>2, <1>3, CallSteps

\* A notification that is fresh after a step was fresh before it.
LEMMA FreshBefore ==
  ASSUME SidecarTypeOK, GoneReleases, [SidecarNext]_sidecarVars,
         NEW n, n.seq \in Nat, n.seg \in 1 .. Len(segs), Fresh(n)'
  PROVE  Fresh(n)
<1>0. RING \in Nat \ {0} /\ seq \in Nat /\ Len(segs) \in Nat
  BY SidecarAssumption DEF SidecarTypeOK, StateTypeOK, RingTypeOK
<1>1. CASE StreamCapture
  BY <1>0, <1>1 DEF StreamCapture, stateVars, Fresh, Lag
<1>2. CASE StreamWritten
  <2>1. seq' = seq + 1 /\ shm' = shm
    BY <1>2 DEF StreamWritten
  <2>2. n.seg = shm /\ seq + 1 - n.seq <= RING
    BY <1>0, <2>1 DEF Fresh, Lag
  <2> QED BY <1>0, <2>2 DEF Fresh, Lag
<1>3. CASE ~ (StreamCapture \/ StreamWritten)
  BY <1>0, <1>3, RingKept DEF Fresh, Lag
<1> QED BY <1>1, <1>2, <1>3

\* On Windows the mapped segment is the ring in use as long as anything fresh
\* speaks of it, and a fresh slot holds its frame.
LEMMA FreshCopied ==
  ASSUME StreamInv, Windows, cpc \in {"copy", "half"}, Fresh(meta[1])
  PROVE  Copied = Holds(meta[1].frame)
<1>1. /\ meta[1].seg \in 1 .. Len(segs) /\ meta[1].seg = shm /\ Truthful(meta[1]) /\ Placed(meta[1])
  BY InHandKnown DEF Fresh
<1>2. mapped = shm
  BY <1>1 DEF StreamInv, StreamTypeOK, SidecarInv, RingMatchesLayout, MappingKeepsName
<1>3. ~ Foreign
  BY <1>1, <1>2 DEF Foreign, Truthful
<1>4. segs[shm].slots[meta[1].index] = Holds(meta[1].frame)
  BY <1>1, PlacedHere DEF Fresh
<1> QED BY <1>2, <1>3, <1>4 DEF Copied

LEMMA FreshIsFoundStep ==
  ASSUME StreamInv, [StreamNext]_streamVars
  PROVE  FreshIsFound'
<1> SUFFICES ASSUME Windows, cpc' \in {"half", "retry"}, Fresh(meta[1])'
             PROVE  cpc' = "half" /\ half' = meta'[1].frame
  BY DEF FreshIsFound
<1>0. [SidecarNext]_sidecarVars /\ SidecarTypeOK /\ GoneReleases
  BY StreamIsSidecarStep DEF StreamInv, SidecarInv
<1>1. PICK n : n = meta'[1]
  OBVIOUS
<1>2. Fresh(n)'
  BY <1>1 DEF Fresh, Lag
<1>3. CASE UNCHANGED <<cpc, half, seen, meta, last>>
  <2>1. n = meta[1] /\ n.seq \in Nat /\ n.seg \in 1 .. Len(segs)
    BY <1>1, <1>3, InHandKnown
  <2>2. Fresh(n)
    BY <1>0, <1>2, <2>1, FreshBefore
  <2> QED BY <1>1, <1>3, <2>1, <2>2 DEF StreamInv, FreshIsFound
<1>4. CASE CopyFirst
  <2>1. /\ cpc = "copy" /\ cpc' = "half" /\ UNCHANGED <<meta, sidecarVars>> /\ half' = Copied.head
    BY <1>4 DEF CopyFirst, Return
  <2>2. Fresh(meta[1])
    BY <1>1, <1>2, <2>1 DEF Fresh, Lag, sidecarVars, stateVars, threadVars
  <2> QED BY <2>1, <2>2, FreshCopied DEF Holds
<1>5. CASE CopySecond
  <2>1. /\ cpc = "half" /\ UNCHANGED <<meta, sidecarVars>> /\ ~ DigestMatches(<<half, Copied.tail>>)
    BY <1>5 DEF CopySecond, Return
  <2>2. Fresh(meta[1])
    BY <1>1, <1>2, <2>1 DEF Fresh, Lag, sidecarVars, stateVars, threadVars
  <2>3. half = meta[1].frame /\ Copied.tail = meta[1].frame
    BY <2>1, <2>2, FreshCopied DEF StreamInv, FreshIsFound, Holds
  <2> QED BY <2>1, <2>3 DEF DigestMatches
<1> QED BY <1>3, <1>4, <1>5, CallSteps

\* A packet is made only of a copy that matches its notification.
LEMMA PacketMade ==
  ASSUME StreamInv, [StreamNext]_streamVars
  PROVE  \/ UNCHANGED last
         \/ /\ cpc = "half" /\ UNCHANGED sidecarVars /\ half = meta[1].frame
            /\ last' = [raw |-> <<half, half>>, frame |-> half, layout |-> meta[1].layout,
                         seg |-> meta[1].seg, seen |-> seen]
<1>1. CASE CopySecond
  BY <1>1 DEF CopySecond, DigestMatches
<1> QED BY <1>1, CallSteps DEF CopyFirst

LEMMA PacketStep ==
  ASSUME StreamInv, [StreamNext]_streamVars
  PROVE  LastInPast' /\ DeliveredWhole' /\ BoundedStaleness'
<1>1. CASE UNCHANGED last
  <2> SUFFICES ASSUME last # NoPacket
               PROVE  /\ last.seen <= Len(frames')
                      /\ last.frame \in 1 .. Len(frames') /\ last.raw = <<last.frame, last.frame>>
                      /\ last.layout = frames'[last.frame].layout
                      /\ Cardinality({i \in last.frame + 1 .. last.seen : frames'[i].seg = last.seg}) < RING
    BY <1>1 DEF LastInPast, DeliveredWhole, BoundedStaleness
  <2>1. /\ last.seen <= Len(frames) /\ last.frame \in 1 .. Len(frames)
        /\ last.raw = <<last.frame, last.frame>> /\ last.layout = frames[last.frame].layout
        /\ Cardinality({i \in last.frame + 1 .. last.seen : frames[i].seg = last.seg}) < RING
    BY DEF StreamInv, LastInPast, DeliveredWhole, BoundedStaleness
  <2>2. last.seen \in Nat /\ last.frame \in Nat
    BY DEF StreamInv, StreamTypeOK
  <2>3. {i \in last.frame + 1 .. last.seen : frames'[i].seg = last.seg}
          = {i \in last.frame + 1 .. last.seen : frames[i].seg = last.seg}
    BY <2>1, <2>2, FramesGrow
  <2>4. last.frame \in 1 .. Len(frames') /\ frames'[last.frame] = frames[last.frame]
    BY <2>1, FramesGrow
  <2>5. last.seen <= Len(frames')
    BY <2>1, <2>2, FramesGrow
  <2> QED BY <2>1, <2>3, <2>4, <2>5
<1>2. CASE /\ cpc = "half" /\ UNCHANGED sidecarVars /\ half = meta[1].frame
           /\ last' = [raw |-> <<half, half>>, frame |-> half, layout |-> meta[1].layout,
                        seg |-> meta[1].seg, seen |-> seen]
  <2>1. /\ half \in 1 .. Len(frames) /\ frames[half].layout = meta[1].layout /\ frames[half].seg = meta[1].seg
    BY <1>2, InHandKnown DEF Truthful
  <2>2. seen <= Len(frames) /\ Cardinality(Between(half, seen, meta[1].seg)) < RING
    BY <1>2, <2>1 DEF StreamInv, CopyRecent, SidecarInv, SidecarTypeOK, BusTypeOK
  <2>3. UNCHANGED frames
    BY <1>2 DEF sidecarVars
  <2>4. LastInPast' /\ DeliveredWhole'
    BY <1>2, <2>1, <2>2, <2>3 DEF LastInPast, DeliveredWhole
  <2>5. {i \in last'.frame + 1 .. last'.seen : frames'[i].seg = last'.seg} = Between(half, seen, meta[1].seg)
    BY <1>2, <2>3 DEF Between
  <2> QED BY <2>2, <2>4, <2>5 DEF BoundedStaleness
<1> QED BY <1>1, <1>2, PacketMade

-----------------------------------------------------------------------------
(* The order of notifications.                                              *)

LEMMA AscendingTail ==
  ASSUME NEW s \in Seq(Message), s # <<>>, Ascending(s)
  PROVE  /\ Ascending(Tail(s))
         /\ Head(s).kind = "frame" => \A n \in Notes(Tail(s)) : Head(s).frame < n.frame
<1>1. /\ Len(s) \in Nat /\ Len(s) > 0 /\ Head(s) = s[1] /\ Len(Tail(s)) = Len(s) - 1
      /\ \A i \in 1 .. Len(Tail(s)) : Tail(s)[i] = s[i + 1]
  BY HeadTailProperties, EmptySeq
<1>2. Ascending(Tail(s))
  BY <1>1 DEF Ascending
<1>3. ASSUME Head(s).kind = "frame", NEW n \in Notes(Tail(s))
      PROVE  Head(s).frame < n.frame
  <2>1. PICK i \in 1 .. Len(Tail(s)) : n = Tail(s)[i] /\ n.kind = "frame"
    BY <1>3 DEF Notes, Elements
  <2>2. i + 1 \in 1 .. Len(s) /\ 1 \in 1 .. Len(s) /\ n = s[i + 1] /\ 1 < i + 1
    BY <1>1, <2>1
  <2> QED BY <1>1, <1>3, <2>1, <2>2 DEF Ascending
<1> QED BY <1>2, <1>3

LEMMA AscendingAppend ==
  ASSUME NEW s \in Seq(Message), NEW m \in Message, Ascending(s),
         m.kind = "frame" => \A n \in Notes(s) : n.frame < m.frame
  PROVE  Ascending(Append(s, m))
<1>1. /\ Len(s) \in Nat /\ Len(Append(s, m)) = Len(s) + 1 /\ Append(s, m)[Len(s) + 1] = m
      /\ \A i \in 1 .. Len(s) : Append(s, m)[i] = s[i]
  OBVIOUS
<1>2. \A i \in 1 .. Len(s) : s[i].kind = "frame" => s[i] \in Notes(s)
  BY DEF Notes, Elements
<1> SUFFICES ASSUME NEW i \in 1 .. Len(s) + 1, NEW j \in 1 .. Len(s) + 1, i < j,
                    Append(s, m)[i].kind = "frame", Append(s, m)[j].kind = "frame"
             PROVE  Append(s, m)[i].frame < Append(s, m)[j].frame
  BY <1>1 DEF Ascending
<1>3. i \in 1 .. Len(s)
  BY <1>1
<1>4. CASE j \in 1 .. Len(s)
  BY <1>1, <1>3, <1>4 DEF Ascending
<1>5. CASE j = Len(s) + 1
  BY <1>1, <1>2, <1>3, <1>5
<1> QED BY <1>1, <1>4, <1>5

LEMMA AscendingPrefix ==
  ASSUME NEW s \in Seq(Message), Ascending(s), NEW k \in 0 .. Len(s)
  PROVE  Ascending(SubSeq(s, 1, k))
<1>1. Len(SubSeq(s, 1, k)) = k /\ \A i \in 1 .. k : SubSeq(s, 1, k)[i] = s[i]
  OBVIOUS
<1>2. Len(s) \in Nat
  OBVIOUS
<1> QED BY <1>1, <1>2 DEF Ascending

LEMMA AscendingEmpty == Ascending(<<>>)
BY DEF Ascending

LEMMA PublishAscends ==
  ASSUME wire \in Seq(Message), Ascending(wire), NEW m \in Message, Publish(m),
         m.kind = "frame" => \A n \in Notes(wire) : n.frame < m.frame
  PROVE  Ascending(wire')
BY AscendingAppend DEF Publish

\* What a step of the sidecar does to the wire and the notification at hand.
LEMMA WireStep ==
  ASSUME StreamInv, SidecarStep, ~ StreamWritten
  PROVE  /\ Ascending(wire') /\ InFlight' \subseteq InFlight /\ Ahead(Notes(wire'), Elements(hand'))
<1>0. /\ wire \in Seq(Message) /\ hand \in Seq(Note) /\ Elements(<<>>) = {}
      /\ Ascending(wire) /\ Ahead(Notes(wire), Elements(hand)) /\ SidecarTypeOK
  BY ElementsEmpty DEF StreamInv, SidecarInv, SidecarTypeOK, BusTypeOK, ThreadTypeOK, InOrder
<1>1. InFlight' \subseteq InFlight
  BY <1>0, NotesKept DEF SidecarNext
<1>2. Status.kind # "frame" /\ Garbled.kind # "frame"
  BY DEF Status, Garbled
<1>3. CASE UNCHANGED wire /\ hand' \in {hand, <<>>}
  BY <1>0, <1>1, <1>3 DEF Ahead
<1>4. CASE (Publish(Status) /\ hand' = hand) \/ (Publish(Garbled) /\ hand' = <<>>)
  <2>1. Ascending(wire') /\ Notes(wire') \subseteq Notes(wire)
    BY <1>0, <1>2, <1>4, ControlMessages, PublishAscends, PublishKeeps
  <2> QED BY <1>0, <1>1, <1>4, <2>1 DEF Ahead
<1>5. CASE StreamPublish
  <2>1. hand[1] \in Message /\ hand[1] \in Elements(hand)
    <3>1. Len(hand) = 1
      BY <1>0, <1>5 DEF StreamPublish, SidecarTypeOK, ThreadTypeOK
    <3>2. hand[1] \in Note /\ hand[1] \in Elements(hand)
      BY <1>0, <3>1 DEF Elements
    <3> QED BY <3>2 DEF Message
  <2>2. Ascending(wire')
    BY <1>0, <1>5, <2>1, PublishAscends DEF StreamPublish, Ahead
  <2> QED BY <1>0, <1>1, <1>5, <2>2 DEF StreamPublish, Ahead
<1>6. CASE ProcessGone
  <2>1. Ascending(wire') /\ hand' = <<>>
    BY <1>0, <1>6, AscendingPrefix DEF ProcessGone
  <2> QED BY <1>0, <1>1, <2>1 DEF Ahead
<1>7. \/ UNCHANGED wire /\ hand' \in {hand, <<>>}
      \/ Publish(Status) /\ hand' = hand
      \/ Publish(Garbled) /\ hand' = <<>>
      \/ StreamPublish \/ ProcessGone
  BY DEF SidecarStep, ControlStep, OpenCamera, ReconfigureCamera, PublishStatus, ReconfigureFails, StartStream,
         StopStream, CloseCamera, Shutdown, StreamStep, StreamArm, StreamBackOff, StreamCapture, StreamReport,
         Interrupt, MainCleanup, Exit, Crash, Restart, threadVars, busVars
<1> QED BY <1>1, <1>3, <1>4, <1>5, <1>6, <1>7

\* Only a capture starts a write, and history grows only then.
LEMMA WritingBefore ==
  ASSUME SidecarTypeOK, GoneReleases, SidecarStep, ~ StreamCapture
  PROVE  frames' = frames /\ (spc' = "writing" => spc = "writing")
BY ControlEffect
   DEF SidecarStep, StreamStep, StreamArm, StreamBackOff, StreamWritten, StreamPublish, StreamReport,
       Interrupt, MainCleanup, Exit, Crash, ProcessGone, Restart, GoneReleases

LEMMA OrderOfSidecar ==
  ASSUME StreamInv, SidecarStep, UNCHANGED readerVars
  PROVE  InOrder' /\ LastIsBehind'
<1>0. /\ UNCHANGED <<inbox, meta, last>> /\ Held' = Held
      /\ SidecarTypeOK /\ WritingHolds /\ GoneReleases /\ InOrder /\ LastIsBehind /\ Len(frames) \in Nat
  BY DEF readerVars, StreamInv, SidecarInv, Held, SidecarTypeOK, BusTypeOK
<1>1. CASE StreamWritten
  <2>1. PICK m : m = hand'[1]
    OBVIOUS
  <2>2. /\ m.frame = Len(frames) /\ hand = <<>> /\ hand' = <<m>> /\ wire' = wire
        /\ spc = "writing" /\ spc' = "publish" /\ frames' = frames
    BY <1>0, <1>1, <2>1, NewNote DEF StreamWritten, busVars
  <2>3. InFlight' = InFlight \cup {m} /\ Elements(hand') = {m}
    BY <1>0, <1>1, <2>1, <2>2, OneNoteAdded DEF Elements
  <2>4. \A n \in Held \cup InFlight : n.frame < m.frame
    BY <1>0, <2>2 DEF LastIsBehind
  <2>5. InOrder'
    BY <1>0, <2>2, <2>3, <2>4 DEF InOrder, Ahead, Held, InFlight
  <2>6. LastIsBehind'
    BY <1>0, <2>2, <2>3 DEF LastIsBehind
  <2> QED BY <2>5, <2>6
<1>2. CASE ~ StreamWritten
  <2>1. Ascending(wire') /\ InFlight' \subseteq InFlight /\ Ahead(Notes(wire'), Elements(hand'))
    BY <1>2, WireStep
  <2>2. InOrder'
    BY <1>0, <2>1 DEF InOrder, Ahead
  <2>3. CASE StreamCapture
    <3>1. Len(frames') = Len(frames) + 1
      BY <2>3, <1>0 DEF StreamCapture, SidecarTypeOK, BusTypeOK
    <3>2. \A n \in Held \cup InFlight : n.frame \in 1 .. Len(frames)
      BY KnownNotes
    <3>3. last.frame \in Nat /\ last.frame <= Len(frames)
      BY <1>0 DEF LastIsBehind, StreamInv, StreamTypeOK
    <3> QED BY <1>0, <2>1, <2>2, <3>1, <3>2, <3>3 DEF LastIsBehind
  <2>4. CASE ~ StreamCapture
    BY <1>0, <2>1, <2>2, <2>4, WritingBefore DEF LastIsBehind
  <2> QED BY <2>3, <2>4
<1> QED BY <1>1, <1>2

LEMMA OrderOfReader ==
  ASSUME StreamInv, ReaderStep
  PROVE  InOrder' /\ LastIsBehind'
<1>0. /\ inbox \in Seq(Message) /\ wire \in Seq(Message) /\ Elements(<<>>) = {} /\ Notes(<<>>) = {}
      /\ InOrder /\ LastIsBehind /\ UNCHANGED <<hand, spc, frames>>
  <2>1. UNCHANGED <<hand, spc, frames>>
    BY DEF ReaderStep, RecvStep, Transfer, RecvFrame, Tick, Timeout, ReadNotification, Drain, EnsureShm,
           CopyFirst, CopySecond, Close, Detach, sidecarVars, threadVars
  <2> QED BY <2>1, ElementsEmpty DEF StreamInv, StreamTypeOK, SidecarTypeOK, BusTypeOK, InOrder, Notes
<1>1. CASE UNCHANGED <<inbox, meta, wire, last>>
  BY <1>0, <1>1 DEF InOrder, LastIsBehind, Held, InFlight
<1>2. CASE Transfer
  <2> DEFINE m == Head(wire)
  <2>1. /\ m \in Message /\ m \in Elements(wire) /\ Elements(wire') \subseteq Elements(wire)
        /\ inbox' = Append(inbox, m) /\ Elements(inbox') = Elements(inbox) \cup {m}
        /\ wire' = Tail(wire) /\ wire # <<>> /\ UNCHANGED <<meta, last>>
    BY <1>0, <1>2, FirstIsElement, ElementsAppend DEF Transfer
  <2>2. Ascending(wire') /\ (m.kind = "frame" => \A n \in Notes(wire') : m.frame < n.frame)
    BY <1>0, <2>1, AscendingTail DEF InOrder
  <2> HIDE DEF m
  <2>3. m.kind = "frame" => m \in Notes(wire)
    BY <2>1 DEF Notes
  <2>4. Ascending(inbox')
    BY <1>0, <2>1, <2>3, AscendingAppend DEF InOrder, Ahead, InFlight
  <2>5. /\ Notes(wire') \subseteq Notes(wire)
        /\ Notes(inbox') = Notes(inbox) \cup (IF m.kind = "frame" THEN {m} ELSE {})
    BY <2>1 DEF Notes
  <2>6. InOrder'
    BY <1>0, <2>1, <2>2, <2>3, <2>4, <2>5 DEF InOrder, Ahead, InFlight
  <2>7. LastIsBehind'
    BY <1>0, <2>1, <2>3, <2>5 DEF LastIsBehind, Held, InFlight
  <2> QED BY <2>6, <2>7
<1>3. CASE UNCHANGED <<wire, last>> /\ meta' = <<>>
           /\ (inbox' = inbox \/ (inbox # <<>> /\ inbox' = Tail(inbox)))
  <2>1. Elements(inbox') \subseteq Elements(inbox) /\ Ascending(inbox')
    BY <1>0, <1>3, FirstIsElement, AscendingTail DEF InOrder
  <2>2. Notes(inbox') \subseteq Notes(inbox) /\ Elements(meta') = {}
    BY <1>0, <1>3, <2>1 DEF Notes
  <2> QED BY <1>0, <1>3, <2>1, <2>2 DEF InOrder, LastIsBehind, Ahead, Held, InFlight
<1>4. CASE /\ UNCHANGED <<wire, last>> /\ inbox # <<>> /\ inbox' = Tail(inbox)
           /\ meta' = <<Head(inbox)>> /\ Head(inbox).kind = "frame"
  <2> DEFINE m == Head(inbox)
  <2>1. Elements(meta') = {m} /\ m \in Notes(inbox)
    BY <1>0, <1>4, TakenInHand
  <2>2. /\ Elements(inbox') \subseteq Elements(inbox) /\ Ascending(inbox')
        /\ \A n \in Notes(inbox') : m.frame < n.frame
    BY <1>0, <1>4, FirstIsElement, AscendingTail DEF InOrder
  <2> HIDE DEF m
  <2>3. Notes(inbox') \subseteq Notes(inbox)
    BY <2>2 DEF Notes
  <2> QED BY <1>0, <1>4, <2>1, <2>2, <2>3 DEF InOrder, LastIsBehind, Ahead, Held, InFlight
<1>5. CASE CopySecond
  <2>1. CASE UNCHANGED last
    BY <1>0, <1>1, <1>3, <1>5, <2>1 DEF CopySecond, Return, sidecarVars, busVars
  <2>2. CASE last' # last
    <3>1. /\ last'.frame = meta[1].frame /\ cpc = "half" /\ meta' = <<>> /\ UNCHANGED <<inbox, wire>>
      BY <1>5, <2>2 DEF CopySecond, Return, sidecarVars, busVars
    <3>2. meta[1] \in Held /\ Elements(meta) = {meta[1]} /\ meta[1].frame \in 1 .. Len(frames)
      BY <3>1, InHand, InHandKnown, StreamTypes DEF StreamInv
    <3>3. \A n \in Notes(inbox) \cup InFlight : meta[1].frame < n.frame
      BY <1>0, <3>2 DEF InOrder, Ahead
    <3>4. Held' = Notes(inbox) /\ InFlight' = InFlight /\ Elements(meta') = {}
      BY <1>0, <3>1 DEF Held, InFlight
    <3>5. LastIsBehind'
      <4>1. meta[1].frame <= Len(frames)
        BY <3>2
      <4>2. spc = "writing" => meta[1].frame < Len(frames)
        BY <1>0, <3>2 DEF LastIsBehind
      <4> QED BY <1>0, <3>1, <3>3, <3>4, <4>1, <4>2 DEF LastIsBehind, Held
    <3>6. InOrder'
      BY <1>0, <3>1, <3>4 DEF InOrder, Ahead, InFlight
    <3> QED BY <3>5, <3>6
  <2> QED BY <2>1, <2>2
<1>6. CASE Close
  <2>1. wire' = <<>> /\ inbox' = <<>> /\ UNCHANGED <<meta, last>>
    BY <1>6 DEF Close, Detach
  <2> QED BY <1>0, <2>1, AscendingEmpty DEF InOrder, LastIsBehind, Ahead, Held, InFlight
<1>7. CASE ReadNotification \/ Drain
  BY <1>3, <1>4, <1>7 DEF ReadNotification, Drain, Return, sidecarVars, busVars
<1>8. CASE RecvFrame \/ Tick \/ Timeout \/ EnsureShm \/ CopyFirst
  BY <1>1, <1>3, <1>8 DEF RecvFrame, Tick, Timeout, EnsureShm, CopyFirst, Return, sidecarVars, busVars
<1> QED BY <1>2, <1>5, <1>6, <1>7, <1>8 DEF ReaderStep, RecvStep

LEMMA OrderStep ==
  ASSUME StreamInv, [StreamNext]_streamVars
  PROVE  InOrder' /\ LastIsBehind'
<1>1. CASE UNCHANGED streamVars
  BY <1>1 DEF StreamInv, InOrder, LastIsBehind, Held, InFlight, streamVars, sidecarVars, threadVars, busVars,
              readerVars
<1> QED BY <1>1, OrderOfSidecar, OrderOfReader DEF StreamNext

-----------------------------------------------------------------------------
(* The theorems.                                                            *)

LEMMA StreamInitially == StreamInit => StreamInv
<1> SUFFICES ASSUME StreamInit PROVE StreamInv
  OBVIOUS
<1>1. /\ inbox = <<>> /\ meta = <<>> /\ cpc = "idle" /\ half = 0 /\ seen = 0 /\ expired = FALSE
      /\ last = NoPacket /\ SidecarInit
  BY DEF StreamInit
<1>2. /\ wire = <<>> /\ hand = <<>> /\ segs = <<>> /\ frames = <<>> /\ mapped = 0 /\ spc = "idle"
  BY <1>1 DEF SidecarInit
<1>3. SidecarInv /\ SidecarTypeOK
  BY <1>1, InitInv DEF SidecarInv
<1>4. last \in PacketType
  BY <1>1 DEF PacketType, NoPacket
<1>5. StreamTypeOK
  <2>1. ReaderTypeOK
    BY <1>1, <1>4, EmptySeq DEF ReaderTypeOK
  <2> QED BY <1>3, <2>1, StreamTypes
<1>6. Held = {} /\ InFlight = {} /\ Elements(meta) = {} /\ Notes(inbox) = {} /\ Notes(wire) = {}
  BY <1>1, <1>2, ElementsEmpty DEF Held, InFlight, Notes
<1>7. HeldIsKnown /\ MappingKeepsName /\ CopyRecent /\ FreshIsFound
  BY <1>1, <1>2, <1>6 DEF HeldIsKnown, MappingKeepsName, CopyRecent, FreshIsFound
<1>8. SlotsRecent
  BY <1>2 DEF SlotsRecent
<1>9. LastInPast /\ DeliveredWhole /\ BoundedStaleness
  BY <1>1 DEF LastInPast, DeliveredWhole, BoundedStaleness
<1>10. InOrder /\ LastIsBehind
  BY <1>1, <1>2, <1>6, AscendingEmpty DEF InOrder, LastIsBehind, Ahead, NoPacket
<1> QED BY <1>3, <1>5, <1>7, <1>8, <1>9, <1>10 DEF StreamInv

LEMMA StreamInductive == StreamInv /\ [StreamNext]_streamVars => StreamInv'
<1> SUFFICES ASSUME StreamInv, [StreamNext]_streamVars PROVE StreamInv'
  OBVIOUS
<1>1. SidecarInv'
  BY StreamIsSidecarStep, NextInv DEF StreamInv
<1>2. StreamTypeOK' /\ HeldIsKnown' /\ MappingKeepsName'
  BY StreamTypeStep, HeldKnownStep, MappingStep
<1>3. SlotsRecent' /\ CopyRecent' /\ FreshIsFound'
  BY SlotsRecentStep, CopyRecentStep, FreshIsFoundStep
<1>4. LastInPast' /\ DeliveredWhole' /\ BoundedStaleness' /\ InOrder' /\ LastIsBehind'
  BY PacketStep, OrderStep
<1> QED BY <1>1, <1>2, <1>3, <1>4 DEF StreamInv

(* Sidecar and reader together, with crashes, restarts, lost and mixed      *)
(* messages: all of the above is an invariant.                              *)
THEOREM StreamInvariance == StreamSpec => []StreamInv
BY StreamInitially, StreamInductive, PTL DEF StreamSpec

(* The reader's variables keep their types: a notification is in hand, and  *)
(* a segment mapped, wherever recv_frame uses one (frame_stream.py:202-248).*)
THEOREM StreamTypeCorrect == StreamSpec => []StreamTypeOK
<1>1. StreamInv => StreamTypeOK
  BY DEF StreamInv
<1> QED BY StreamInvariance, <1>1, PTL

(* A returned packet is one captured frame, whole, with its layout, although*)
(* the slot is copied without a lock (frame_stream.py:231-248).             *)
THEOREM PacketsAreWhole == StreamSpec => []DeliveredWhole
<1>1. StreamInv => DeliveredWhole
  BY DEF StreamInv
<1> QED BY StreamInvariance, <1>1, PTL

(* A packet is at most a ring old when its copy begins, for a ring of any   *)
(* size and however many notifications have queued up                       *)
(* (frame_stream.py:217-223, 240-244).                                      *)
THEOREM PacketsAreRecent == StreamSpec => []BoundedStaleness
<1>1. StreamInv => BoundedStaleness
  BY DEF StreamInv
<1> QED BY StreamInvariance, <1>1, PTL

(* On Windows a copy is rejected only when the producer has come round to   *)
(* its slot or replaced its ring, as the comment on the mismatch says       *)
(* (frame_stream.py:240-243); on POSIX a run shows that it is not so.       *)
THEOREM RejectionsAreReuse == StreamSpec => [](Windows => RejectedOnlyIfReused)
<1>1. StreamInv => (Windows => RejectedOnlyIfReused)
  <2> SUFFICES ASSUME StreamInv, Windows, cpc = "retry" PROVE RejectedOnlyIfReused
    BY DEF RejectedOnlyIfReused
  <2>1. ~ Fresh(meta[1]) /\ meta[1].seq \in Nat
    BY InHandKnown DEF StreamInv, FreshIsFound
  <2>2. seq \in Nat /\ RING \in Nat
    BY SidecarAssumption DEF StreamInv, StreamTypeOK, SidecarTypeOK, StateTypeOK
  <2> QED BY <2>1, <2>2 DEF Fresh, Lag, RejectedOnlyIfReused
<1> QED BY StreamInvariance, <1>1, PTL

-----------------------------------------------------------------------------
(* The transport implements FrameDelivery.                                  *)

Produced == [i \in 1 .. Len(frames) |-> frames[i].layout]
Received == [raw |-> last.raw, frame |-> last.frame, layout |-> last.layout]

LEMMA DeliveryInitially == StreamInit => Delivery!DeliveryInit
<1> SUFFICES ASSUME StreamInit PROVE Delivery!DeliveryInit
  OBVIOUS
<1>1. frames = <<>> /\ last = NoPacket
  BY DEF StreamInit, SidecarInit
<1>2. Produced = <<>>
  BY <1>1 DEF Produced
<1>3. Received = [raw |-> <<0, 0>>, frame |-> 0, layout |-> NoLayout]
  BY <1>1 DEF Received, NoPacket
<1> QED BY <1>2, <1>3 DEF Delivery!DeliveryInit, Delivery!NoPacket, Produced, Received

\* A capture produces a frame, a matching copy delivers one that is later than
\* the last; everything else is a stutter.
LEMMA DeliveryStep ==
  ASSUME StreamInv, [StreamNext]_streamVars
  PROVE  [Delivery!Produce \/ Delivery!Deliver]_(Delivery!deliveryVars)
<1>0. /\ frames \in Seq([layout : Layouts, seg : Nat]) /\ Len(frames) \in Nat /\ SidecarTypeOK /\ GoneReleases
  BY DEF StreamInv, SidecarInv, SidecarTypeOK, BusTypeOK
<1>1. CASE UNCHANGED last
  <2>1. UNCHANGED Received
    BY <1>1 DEF Received
  <2>2. CASE StreamCapture
    <3>1. cam.cfg \in Layouts
      BY <2>2 DEF StreamCapture, CanStream, StreamInv, SidecarInv, SidecarTypeOK, StateTypeOK, Device
    <3>2. frames' = Append(frames, [layout |-> cam.cfg, seg |-> shm])
      BY <2>2 DEF StreamCapture
    <3>3. Produced' = Append(Produced, cam.cfg)
      <4>1. Produced \in Seq(Layouts) /\ Len(Produced) = Len(frames)
        <5>1. ASSUME NEW i \in 1 .. Len(frames) PROVE frames[i].layout \in Layouts
          <6>1. frames[i] \in [layout : Layouts, seg : Nat]
            BY <1>0, ElementOfSeq
          <6> QED BY <6>1
        <5>2. Produced \in Seq(Layouts)
          BY <1>0, <5>1 DEF Produced
        <5> QED BY <1>0, <5>2 DEF Produced
      <4>2. /\ Len(frames') = Len(frames) + 1 /\ frames'[Len(frames) + 1].layout = cam.cfg
            /\ \A i \in 1 .. Len(frames) : frames'[i] = frames[i]
        BY <1>0, <3>2
      <4> QED BY <1>0, <3>1, <4>1, <4>2 DEF Produced
    <3> QED BY <2>1, <3>1, <3>3 DEF Delivery!Produce, Produced, Received
  <2>3. CASE ~ StreamCapture
    <3>1. frames' = frames
      BY <1>0, <2>3, WritingBefore
         DEF StreamNext, ReaderStep, RecvStep, Transfer, RecvFrame, Tick, Timeout, ReadNotification, Drain,
             EnsureShm, CopyFirst, CopySecond, Close, Detach, streamVars, sidecarVars
    <3>2. UNCHANGED Produced
      BY <3>1 DEF Produced
    <3> QED BY <2>1, <3>2 DEF Delivery!deliveryVars, Produced, Received
  <2> QED BY <2>2, <2>3
<1>2. CASE /\ cpc = "half" /\ UNCHANGED sidecarVars /\ half = meta[1].frame
           /\ last' = [raw |-> <<half, half>>, frame |-> half, layout |-> meta[1].layout,
                        seg |-> meta[1].seg, seen |-> seen]
  <2>1. /\ half \in 1 .. Len(frames) /\ frames[half].layout = meta[1].layout /\ meta[1] \in Held
    BY <1>2, InHandKnown DEF Truthful
  <2>2. last.frame < half /\ last.frame \in Nat
    BY <1>2, <2>1 DEF StreamInv, LastIsBehind, StreamTypeOK
  <2>3. Len(Produced) = Len(frames) /\ Produced[half] = meta[1].layout
    BY <1>0, <2>1 DEF Produced
  <2>4. half \in Received.frame + 1 .. Len(Produced)
    BY <1>0, <2>1, <2>2, <2>3 DEF Received
  <2>5. Received' = [raw |-> <<half, half>>, frame |-> half, layout |-> Produced[half]]
    BY <1>2, <2>3 DEF Received
  <2>6. UNCHANGED Produced
    BY <1>2 DEF Produced, sidecarVars
  <2> QED BY <2>4, <2>5, <2>6 DEF Delivery!Deliver, Delivery!Whole, Produced, Received
<1> QED BY <1>1, <1>2, PacketMade

(***************************************************************************)
(* The transport - slots overwritten during a copy, notifications dropped, *)
(* mixed or late, rings replaced, processes killed - delivers whole frames *)
(* in capture order and none twice, as FrameDelivery promises.             *)
(***************************************************************************)
THEOREM StreamImplementsDelivery == StreamSpec => ImplementsDelivery
<1>1. StreamInit => Delivery!DeliveryInit
  BY DeliveryInitially
<1>2. StreamInv /\ [StreamNext]_streamVars =>
        [Delivery!Produce \/ Delivery!Deliver]_(Delivery!deliveryVars)
  BY DeliveryStep
<1> QED BY <1>1, <1>2, StreamInvariance, PTL
        DEF StreamSpec, ImplementsDelivery, Delivery!DeliverySpec
=============================================================================
