----------------------------- MODULE CameraSidecar -----------------------------
(***************************************************************************)
(* The camera sidecar process (devices/camera_service_impl.py): a control   *)
(* thread that serves one request at a time, a stream thread that captures  *)
(* frames into a shared-memory ring and publishes one notification per      *)
(* frame, and the main thread that tears both down.  The two threads share  *)
(* CameraServiceState under one lock; the notification is sent after the    *)
(* lock is released.                                                        *)
(*                                                                          *)
(* Frames are numbered by capture: frame k is the k-th one the device       *)
(* delivered to the stream thread, and stands for its bytes and for their   *)
(* SHA-256 alike.  A slot holds two halves, so that a write (or a copy) of  *)
(* it takes two steps.  Shared-memory segments are numbered by creation;    *)
(* they all carry one name, SHM_NAME.                                       *)
(***************************************************************************)
EXTENDS Integers, Sequences

CONSTANTS
  Layouts,      \* the frame layouts the device can be configured for
  NoLayout,     \* state.layout is None
  NoCam,        \* state.cam is None
  RING,         \* slots of the ring
  Windows,      \* TRUE: a segment's name lives until its last handle is closed
                \* FALSE: unlink frees the name at once (POSIX)
  PipeCap,      \* notifications the PUB pipe and the socket buffers hold
  MaxFrames,    \* bound: frames captured in a behaviour
  MaxSegments,  \* bound: segments created in a behaviour
  MaxRestarts   \* bound: restarts of the process

Device == [open : BOOLEAN, capturing : BOOLEAN, cfg : Layouts]

ASSUME SidecarAssumption ==
  /\ RING \in Nat \ {0}
  /\ PipeCap \in Nat \ {0}
  /\ MaxFrames \in Nat /\ MaxSegments \in Nat /\ MaxRestarts \in Nat
  /\ Windows \in BOOLEAN
  /\ NoLayout \notin Layouts
  /\ NoCam \notin Device

VARIABLES
  cam, shm, layout, running, widx, seq,   \* CameraServiceState
  phase,      \* stop_event and whether the control thread still serves
  main,       \* the main thread: "running", "cleaned" or "exited"
  spc, hand,  \* the stream thread: where it is, the notification it holds
  segs,       \* every segment created, by number
  named,      \* the segment SHM_NAME refers to, 0 when the name is free
  mapped,     \* the segment a reader process has mapped, 0 when none
  subscribed, \* a SUB socket is connected
  wire,       \* messages on their way to it, oldest first
  frames,     \* history: layout and segment of every captured frame
  restarts

stateVars == <<cam, shm, layout, running, widx, seq>>
threadVars == <<phase, main, spc, hand>>
osVars == <<segs, named, mapped>>
busVars == <<subscribed, wire>>
sidecarVars == <<stateVars, threadVars, osVars, busVars, frames, restarts>>

Slots == 0 .. RING - 1
Slot == [head : Nat, tail : Nat]
Segment == [layout : Layouts, slots : [Slots -> Slot]]
Note == [kind : {"frame"}, frame : Nat, seg : Nat, layout : Layouts,
         index : Slots, seq : Nat]
Status == [kind |-> "status"]   \* topic b"status": an error or a reconfiguration
Garbled == [kind |-> "garbled"] \* two multipart sends interleaved part by part
Message == Note \cup {Status, Garbled}

-----------------------------------------------------------------------------
(* The halves of a slot are written one after the other.                    *)
Holds(f) == [head |-> f, tail |-> f]
WithHead(s, f) == [head |-> f, tail |-> s.tail]
WithTail(s, f) == [head |-> s.head, tail |-> f]
WithSlot(g, s) == [layout |-> g.layout, slots |-> [g.slots EXCEPT ![widx] = s]]

(* Publication.  A PUB socket drops what its pipe has no room for, and      *)
(* everything while nobody is subscribed.                                   *)

Publish(m) ==
  wire' = IF subscribed /\ Len(wire) < PipeCap THEN Append(wire, m) ELSE wire

(* Shared memory.  Released is what the name refers to once the sidecar has *)
(* closed and unlinked its segment.                                         *)

Released ==
  IF shm = 0 THEN named
  ELSE IF Windows /\ mapped = shm THEN shm ELSE 0

\* Mutation of CreateRing: state.layout is not replaced with the segment.
CreateRingKeepsLayout(L) ==
  /\ ~ (Windows /\ Released # 0)
  /\ Len(segs) < MaxSegments
  /\ segs' = Append(segs, [layout |-> L, slots |-> [i \in Slots |-> Holds(0)]])
  /\ shm' = Len(segs) + 1 /\ named' = Len(segs) + 1
  /\ UNCHANGED layout
  /\ widx' = 0

\* _replace_shm_locked, succeeding: on POSIX a left-over name is unlinked
\* first, on Windows it cannot be and the second create fails as the first.
CreateRing(L) ==
  /\ ~ (Windows /\ Released # 0)
  /\ Len(segs) < MaxSegments
  /\ segs' = Append(segs, [layout |-> L, slots |-> [i \in Slots |-> Holds(0)]])
  /\ shm' = Len(segs) + 1
  /\ named' = Len(segs) + 1
  /\ layout' = L
  /\ widx' = 0

\* _replace_shm_locked, raising: the old segment is gone and state.shm is None.
LoseRing ==
  /\ shm' = 0
  /\ named' \in IF Windows THEN {Released} ELSE {Released, 0}
  /\ UNCHANGED segs

\* Mutation of CloseCameraLocked: state.running is left as it is.
CloseKeepsRunning ==
  /\ cam' = NoCam /\ shm' = 0 /\ named' = Released /\ layout' = NoLayout
  /\ UNCHANGED <<running, widx, seq, segs>>

\* _close_camera_locked
CloseCameraLocked ==
  /\ cam' = NoCam
  /\ running' = FALSE
  /\ shm' = 0
  /\ named' = Released
  /\ layout' = NoLayout
  /\ UNCHANGED <<widx, seq, segs>>

-----------------------------------------------------------------------------
(* The control thread.  A handler runs with the lock held from its first    *)
(* change to its last, so it is one step; it waits while the stream thread  *)
(* holds the lock.  A request that is refused before it changes anything is *)
(* a stutter.                                                               *)

\* Mutation of Serving: the control loop never looks at stop_event.
ServingAfterStop == main # "exited" /\ spc # "writing"

Serving ==
  /\ main # "exited"
  /\ phase \in {"serving", "interrupted"}
  /\ spc # "writing"

\* stop_event is looked at between requests: one more is served when it is
\* set while the thread waits for a request.
NextRequest == phase' = IF phase = "interrupted" THEN "stopped" ELSE phase

ControlFrame == UNCHANGED <<main, mapped, subscribed, frames, restarts>>

\* The reconfiguration status is sent by the control thread.  The stream
\* thread may be sending a notification or a status on the same socket: the
\* parts of the two then mix into one message of the wrong number of parts.
PublishStatus ==
  \/ Publish(Status) /\ UNCHANGED <<spc, hand>>
  \/ /\ spc \in {"publish", "failed"}
     /\ Publish(Garbled)
     /\ spc' = "idle"
     /\ hand' = <<>>

OpenCamera(L) ==
  /\ Serving /\ NextRequest /\ ControlFrame
  /\ running' = FALSE
  /\ \/ /\ cam' = NoCam                          \* the device does not open
        /\ shm' = 0
        /\ layout' = NoLayout
        /\ named' = Released
        /\ UNCHANGED <<segs, widx, seq>>
     \/ /\ cam' = [open |-> FALSE, capturing |-> FALSE, cfg |-> L]
        /\ LoseRing                              \* no segment: closed again
        /\ layout' = NoLayout
        /\ widx' = 0 /\ seq' = 0
     \/ \E ok \in BOOLEAN :                      \* ~ok: no camera info, closed
          /\ cam' = [open |-> ok, capturing |-> ok, cfg |-> L]
          /\ CreateRing(L)
          /\ seq' = 0
  /\ UNCHANGED <<spc, hand, wire>>

StartStream ==
  /\ Serving /\ NextRequest /\ ControlFrame
  /\ cam # NoCam /\ shm # 0 /\ layout # NoLayout
  /\ running' = TRUE
  /\ UNCHANGED <<cam, shm, layout, widx, seq, spc, hand, segs, named, wire>>

StopStream ==
  /\ Serving /\ NextRequest /\ ControlFrame
  /\ running' = FALSE
  /\ UNCHANGED <<cam, shm, layout, widx, seq, spc, hand, segs, named, wire>>

\* SetPixelFormat, SetROI, SetGrabTimeout and ReconfigureCamera, past the
\* validation, when every call to the device and to the OS succeeds.
ReconfigureCamera(L) ==
  /\ Serving /\ NextRequest /\ ControlFrame
  /\ cam # NoCam /\ cam.open
  /\ cam' = [open |-> TRUE, capturing |-> TRUE, cfg |-> L]
  /\ IF L # layout THEN CreateRing(L)
                   ELSE UNCHANGED <<segs, shm, named, layout, widx>>
  /\ UNCHANGED <<running, seq>>
  /\ PublishStatus

\* The same request when a call raises: stop_capture, apply_config (before or
\* after the setting that changes the layout), start_capture, the first read,
\* or the replacement of the ring.  The stream stays stopped.
ReconfigureFails(L) ==
  /\ Serving /\ NextRequest /\ ControlFrame
  /\ cam # NoCam
  /\ running' = FALSE
  /\ \/ /\ \/ cam' = cam
           \/ /\ cam.open
              /\ \E on \in BOOLEAN, cfg \in {cam.cfg, L} :
                   cam' = [open |-> TRUE, capturing |-> on, cfg |-> cfg]
        /\ UNCHANGED <<segs, shm, named>>
     \/ /\ cam.open
        /\ L # layout
        /\ cam' = [open |-> TRUE, capturing |-> TRUE, cfg |-> L]
        /\ LoseRing
  /\ UNCHANGED <<layout, widx, seq, spc, hand, wire>>

CloseCamera ==
  /\ Serving /\ NextRequest /\ ControlFrame
  /\ CloseCameraLocked
  /\ UNCHANGED <<spc, hand, wire>>

Shutdown ==
  /\ Serving /\ ControlFrame
  /\ CloseCameraLocked
  /\ phase' = "shutdown"
  /\ UNCHANGED <<spc, hand, wire>>

-----------------------------------------------------------------------------
(* The stream thread.                                                       *)

CanStream == running /\ cam # NoCam /\ shm # 0 /\ layout # NoLayout

\* Mutation of LayoutMatches: frames of any layout are written.
AnyLayout == TRUE

LayoutMatches == cam.cfg = layout

\* Mutations of NextSlot: the index is not wrapped, or never advances.
NextSlotUnwrapped == widx + 1
NextSlotStuck == widx

NextSlot == (widx + 1) % RING

\* The checks at the top of the loop, the first outside the capture's lock.
StreamArm ==
  /\ main # "exited" /\ spc = "idle"
  /\ phase = "serving"
  /\ CanStream
  /\ spc' = "armed"
  /\ UNCHANGED <<stateVars, phase, main, hand, osVars, busVars, frames, restarts>>

\* The second check fails, or the device, or a check of its frame.
StreamBackOff ==
  /\ spc = "armed"
  /\ spc' \in IF CanStream THEN {"failed"} ELSE {"idle"}
  /\ UNCHANGED <<stateVars, phase, main, hand, osVars, busVars, frames, restarts>>

\* capture() returns a frame that fits; the first half of the slot is written.
StreamCapture ==
  /\ spc = "armed"
  /\ CanStream
  /\ cam.open /\ cam.capturing
  /\ LayoutMatches
  /\ Len(frames) < MaxFrames
  /\ frames' = Append(frames, [layout |-> cam.cfg, seg |-> shm])
  /\ segs' = [segs EXCEPT ![shm] = WithSlot(@, WithHead(@.slots[widx], Len(frames) + 1))]
  /\ spc' = "writing"
  /\ UNCHANGED <<stateVars, phase, main, hand, named, mapped, busVars, restarts>>

\* The rest of the write, the metadata and the indices; the lock is released.
StreamWritten ==
  /\ spc = "writing"
  /\ segs' = [segs EXCEPT ![shm] = WithSlot(@, WithTail(@.slots[widx], Len(frames)))]
  /\ hand' = <<[kind |-> "frame", frame |-> Len(frames), seg |-> shm,
                layout |-> layout, index |-> widx, seq |-> seq]>>
  /\ widx' = NextSlot
  /\ seq' = seq + 1
  /\ spc' = "publish"
  /\ UNCHANGED <<cam, shm, layout, running, phase, main, named, mapped,
                 busVars, frames, restarts>>

StreamPublish ==
  /\ spc = "publish"
  /\ Publish(hand[1])
  /\ hand' = <<>>
  /\ spc' = "idle"
  /\ UNCHANGED <<stateVars, phase, main, osVars, subscribed, frames, restarts>>

\* The exception handler: at most one status a second.
StreamReport ==
  /\ spc = "failed"
  /\ Publish(Status) \/ UNCHANGED wire
  /\ spc' = "idle"
  /\ UNCHANGED <<stateVars, phase, main, hand, osVars, subscribed, frames, restarts>>

StreamStep == StreamArm \/ StreamBackOff \/ StreamCapture \/ StreamWritten
                \/ StreamPublish \/ StreamReport

-----------------------------------------------------------------------------
(* The process: KeyboardInterrupt, the main thread's cleanup, its end, a    *)
(* kill at any moment, and a new process started on the same ports.         *)

Interrupt ==
  /\ main = "running" /\ phase = "serving"
  /\ phase' = "interrupted"
  /\ UNCHANGED <<stateVars, main, spc, hand, osVars, busVars, frames, restarts>>

MainCleanup ==
  /\ main = "running" /\ phase # "serving"
  /\ spc # "writing"
  /\ CloseCameraLocked
  /\ main' = "cleaned"
  /\ UNCHANGED <<phase, spc, hand, mapped, busVars, frames, restarts>>

\* What the end of the process leaves behind: messages already on their way
\* may still arrive; on POSIX the name of a segment not unlinked may survive.
ProcessGone ==
  /\ main' = "exited"
  /\ cam' = NoCam /\ shm' = 0 /\ layout' = NoLayout /\ running' = FALSE
  /\ named' \in IF Windows \/ shm = 0 THEN {Released} ELSE {0, shm}
  /\ spc' = "idle" /\ hand' = <<>>
  /\ \E k \in 0 .. Len(wire) : wire' = SubSeq(wire, 1, k)
  /\ UNCHANGED <<widx, seq, phase, segs, mapped, subscribed, frames, restarts>>

Exit == main = "cleaned" /\ ProcessGone

Crash == main # "exited" /\ ProcessGone

Restart ==
  /\ main = "exited"
  /\ restarts < MaxRestarts
  /\ main' = "running" /\ phase' = "serving"
  /\ widx' = 0 /\ seq' = 0
  /\ restarts' = restarts + 1
  /\ UNCHANGED <<cam, shm, layout, running, spc, hand, osVars, busVars, frames>>

ControlStep ==
  \/ \E L \in Layouts : OpenCamera(L) \/ ReconfigureCamera(L) \/ ReconfigureFails(L)
  \/ StartStream \/ StopStream \/ CloseCamera \/ Shutdown

SidecarStep == ControlStep \/ StreamStep \/ Interrupt \/ MainCleanup
                 \/ Exit \/ Crash \/ Restart

-----------------------------------------------------------------------------
(* The reader process as the sidecar sees it; FrameStream.tla is the code.  *)

Subscribe ==
  /\ ~ subscribed
  /\ subscribed' = TRUE
  /\ UNCHANGED <<stateVars, threadVars, osVars, wire, frames, restarts>>

Attach ==
  /\ mapped = 0 /\ named # 0
  /\ mapped' = named
  /\ UNCHANGED <<stateVars, threadVars, segs, named, busVars, frames, restarts>>

\* What the name refers to once the reader has closed its handle.
NameAfterDetach == IF Windows /\ mapped # shm /\ mapped = named THEN 0 ELSE named

Detach ==
  /\ subscribed \/ mapped # 0
  /\ mapped' = 0
  /\ named' = NameAfterDetach
  /\ subscribed' = FALSE
  /\ wire' = <<>>
  /\ UNCHANGED <<stateVars, threadVars, segs, frames, restarts>>

Take ==
  /\ wire # <<>>
  /\ wire' = Tail(wire)
  /\ UNCHANGED <<stateVars, threadVars, osVars, subscribed, frames, restarts>>

SidecarInit ==
  /\ cam = NoCam /\ shm = 0 /\ layout = NoLayout /\ running = FALSE
  /\ widx = 0 /\ seq = 0
  /\ phase = "serving" /\ main = "running" /\ spc = "idle" /\ hand = <<>>
  /\ segs = <<>> /\ named = 0 /\ mapped = 0
  /\ subscribed = FALSE /\ wire = <<>>
  /\ frames = <<>> /\ restarts = 0

SidecarNext == SidecarStep \/ Subscribe \/ Attach \/ Detach \/ Take

SidecarSpec == SidecarInit /\ [][SidecarNext]_sidecarVars

-----------------------------------------------------------------------------
StateTypeOK ==
  /\ cam \in Device \cup {NoCam} /\ layout \in Layouts \cup {NoLayout}
  /\ running \in BOOLEAN /\ widx \in Slots /\ seq \in Nat

RingTypeOK ==
  /\ segs \in Seq(Segment)
  /\ shm \in 0 .. Len(segs) /\ named \in 0 .. Len(segs) /\ mapped \in 0 .. Len(segs)

ThreadTypeOK ==
  /\ phase \in {"serving", "interrupted", "stopped", "shutdown"}
  /\ main \in {"running", "cleaned", "exited"}
  /\ spc \in {"idle", "armed", "writing", "publish", "failed"}
  /\ hand \in Seq(Note) /\ Len(hand) = IF spc = "publish" THEN 1 ELSE 0

BusTypeOK ==
  /\ subscribed \in BOOLEAN /\ wire \in Seq(Message)
  /\ frames \in Seq([layout : Layouts, seg : Nat]) /\ restarts \in Nat

SidecarTypeOK == StateTypeOK /\ RingTypeOK /\ ThreadTypeOK /\ BusTypeOK

Elements(s) == {s[i] : i \in 1 .. Len(s)}
Notes(s) == {m \in Elements(s) : m.kind = "frame"}
InFlight == Notes(wire) \cup Elements(hand)

(* A running stream has everything it writes with: a camera object, a ring  *)
(* and its layout.  A reconfiguration or an open that fails half-way must   *)
(* not leave the stream running over what it has already given up           *)
(* (camera_service_impl.py:297, 343-345, 420).                              *)
RunningHasRing == running => cam # NoCam /\ shm # 0 /\ layout # NoLayout

(* The ring in use is the one its name refers to, and its slots have the    *)
(* size of the layout that frames are checked against; a reader opens the   *)
(* name and computes offsets from that layout                               *)
(* (camera_service_impl.py:122-129, 697-704).                               *)
RingMatchesLayout == shm # 0 => named = shm /\ segs[shm].layout = layout

(* A notification tells the truth about the frame it is for: the layout the *)
(* device captured it with, which is that of the segment it lies in, even   *)
(* when it is sent after the lock is released and the camera has been       *)
(* reconfigured since (camera_service_impl.py:716-735).                     *)
NotesTruthful ==
  \A n \in InFlight :
    /\ n.frame \in 1 .. Len(frames)
    /\ frames[n.frame] = [layout |-> n.layout, seg |-> n.seg]
    /\ segs[n.seg].layout = n.layout

(* A reader less than a ring behind finds its frame whole: the slot named   *)
(* by a notification of the current ring still holds exactly that frame     *)
(* until RING further frames have been captured                             *)
(* (camera_service_impl.py:702-714, 730-731).                               *)
RecentFramesIntact ==
  \A n \in InFlight :
    n.seg = shm /\ (seq - n.seq < RING \/ (seq - n.seq = RING /\ spc # "writing"))
      => segs[shm].slots[n.index] = Holds(n.frame)

(* Shutdown is final: once it is acknowledged no request reopens the camera *)
(* or the ring, and no frame is captured, until a new process starts        *)
(* (camera_service_impl.py:655-668, 752-754).                               *)
ShutdownReleases ==
  phase = "shutdown" => cam = NoCam /\ shm = 0 /\ ~ running /\ spc # "writing"

=============================================================================
