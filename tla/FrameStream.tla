------------------------------ MODULE FrameStream ------------------------------
(***************************************************************************)
(* FrameStreamClient (devices/frame_stream.py) against the sidecar: one     *)
(* consumer thread that subscribes to the notifications, drains those that  *)
(* queued up, maps the shared ring by name, copies the slot without any     *)
(* lock and keeps the copy only when its digest is the one announced.       *)
(***************************************************************************)
EXTENDS CameraSidecar, FiniteSets

CONSTANTS
  Hwm,         \* high-water mark of the SUB socket (1 in the code)
  HasTimeout   \* recv_timeout_ms is given

ASSUME ReaderAssumption == Hwm \in Nat \ {0} /\ HasTimeout \in BOOLEAN

VARIABLES
  inbox,    \* messages the SUB socket has queued
  cpc,      \* where recv_frame is; "idle" between calls
  meta,     \* the notification it works on
  half,     \* the first half of its copy
  seen,     \* history: frames captured when the copy began
  expired,  \* the deadline of the call has passed
  last      \* the packet returned last

readerVars == <<inbox, cpc, meta, half, seen, expired, last>>
streamVars == <<sidecarVars, readerVars>>

NoPacket == [raw |-> <<0, 0>>, frame |-> 0, layout |-> NoLayout, seg |-> 0, seen |-> 0]

\* The call ends: with an exception, zmq.Again, or the packet in last.
Return ==
  /\ cpc' = "idle" /\ meta' = <<>> /\ half' = 0 /\ seen' = 0 /\ expired' = FALSE

-----------------------------------------------------------------------------
(* The I/O thread of the SUB socket.                                        *)
Transfer ==
  /\ wire # <<>> /\ Len(inbox) < Hwm
  /\ inbox' = Append(inbox, Head(wire))
  /\ wire' = Tail(wire)
  /\ UNCHANGED <<stateVars, threadVars, osVars, subscribed, frames, restarts,
                 cpc, meta, half, seen, expired, last>>

\* recv_frame is called; the socket is created by the first call.
RecvFrame ==
  /\ cpc = "idle"
  /\ cpc' = "wait"
  /\ subscribed' = TRUE
  /\ UNCHANGED <<stateVars, threadVars, osVars, wire, frames, restarts,
                 inbox, meta, half, seen, expired, last>>

Tick ==
  /\ HasTimeout /\ cpc # "idle" /\ ~ expired
  /\ expired' = TRUE
  /\ UNCHANGED <<sidecarVars, inbox, cpc, meta, half, seen, last>>

\* The deadline is looked at before every attempt but the first, which polls
\* at least once.
Timeout ==
  /\ expired
  /\ cpc = "retry" \/ (cpc = "wait" /\ inbox = <<>>)
  /\ Return
  /\ UNCHANGED <<sidecarVars, inbox, last>>

\* Mutation of ReadNotification: after a mismatch the loop goes on whatever the
\* time is.
ReadAfterDeadline ==
  /\ cpc \in {"wait", "retry"}
  /\ inbox # <<>>
  /\ inbox' = Tail(inbox)
  /\ IF Head(inbox).kind = "frame"
     THEN /\ cpc' = "drain"
          /\ meta' = <<Head(inbox)>>
          /\ UNCHANGED <<half, seen, expired>>
     ELSE Return
  /\ UNCHANGED <<sidecarVars, last>>

\* read_notification raises on a status and on a message of the wrong shape.
ReadNotification ==
  /\ cpc = "wait" \/ (cpc = "retry" /\ ~ expired)
  /\ inbox # <<>>
  /\ inbox' = Tail(inbox)
  /\ IF Head(inbox).kind = "frame"
     THEN /\ cpc' = "drain"
          /\ meta' = <<Head(inbox)>>
          /\ UNCHANGED <<half, seen, expired>>
     ELSE Return
  /\ UNCHANGED <<sidecarVars, last>>

\* A newer notification replaces the one in hand.
Drain ==
  /\ cpc = "drain" /\ inbox # <<>>
  /\ inbox' = Tail(inbox)
  /\ IF Head(inbox).kind = "frame" /\ ~ expired
     THEN /\ meta' = <<Head(inbox)>>
          /\ UNCHANGED <<cpc, half, seen, expired>>
     ELSE Return
  /\ UNCHANGED <<sidecarVars, last>>

\* _ensure_shm: the mapping is kept as long as the name stays the same, and
\* the name is always SHM_NAME.
EnsureShm ==
  /\ cpc = "drain" /\ inbox = <<>>
  /\ mapped' = IF mapped = 0 THEN named ELSE mapped
  /\ IF mapped' = 0 THEN Return
     ELSE cpc' = "copy" /\ UNCHANGED <<meta, half, seen, expired>>
  /\ UNCHANGED <<stateVars, threadVars, segs, named, busVars, frames, restarts,
                 inbox, last>>

(* The copy.  Offsets come from the notification; in a segment made for     *)
(* another layout they name bytes of no single frame, or lie beyond its end.*)

Foreign == segs[mapped].layout # meta[1].layout

Copied == IF Foreign THEN Holds(0) ELSE segs[mapped].slots[meta[1].index]

\* Mutations of DigestMatches: nothing, or only part of the copy, is verified.
NothingVerified(raw) == TRUE
FirstHalfVerified(raw) == raw[1] = meta[1].frame

DigestMatches(raw) == raw = <<meta[1].frame, meta[1].frame>>

CopyFirst ==
  /\ cpc = "copy"
  /\ \/ /\ cpc' = "half"
        /\ half' = Copied.head
        /\ seen' = Len(frames)
        /\ UNCHANGED <<meta, expired>>
     \/ Foreign /\ Return
  /\ UNCHANGED <<sidecarVars, inbox, last>>

CopySecond ==
  /\ cpc = "half"
  /\ IF DigestMatches(<<half, Copied.tail>>)
     THEN /\ last' = [raw |-> <<half, Copied.tail>>, frame |-> meta[1].frame,
                      layout |-> meta[1].layout, seg |-> meta[1].seg, seen |-> seen]
          /\ Return
     ELSE /\ cpc' = "retry"
          /\ half' = 0 /\ seen' = 0
          /\ UNCHANGED <<meta, expired, last>>
  /\ UNCHANGED <<sidecarVars, inbox>>

Close ==
  /\ cpc = "idle"
  /\ Detach
  /\ inbox' = <<>>
  /\ UNCHANGED <<cpc, meta, half, seen, expired, last>>

-----------------------------------------------------------------------------
StreamInit ==
  /\ SidecarInit
  /\ inbox = <<>> /\ cpc = "idle" /\ meta = <<>> /\ half = 0 /\ seen = 0
  /\ expired = FALSE /\ last = NoPacket

RecvStep == Timeout \/ ReadNotification \/ Drain \/ EnsureShm \/ CopyFirst \/ CopySecond

ReaderStep == Transfer \/ RecvFrame \/ Tick \/ RecvStep \/ Close

StreamNext == (SidecarStep /\ UNCHANGED readerVars) \/ ReaderStep

StreamSpec == StreamInit /\ [][StreamNext]_streamVars

(* The consumer's thread and the clock keep running; frames, requests and   *)
(* new calls are not promised.                                              *)
ReaderFairness == WF_streamVars(RecvStep) /\ WF_streamVars(Tick)

-----------------------------------------------------------------------------
StreamTypeOK ==
  /\ SidecarTypeOK
  /\ inbox \in Seq(Message)
  /\ cpc \in {"idle", "wait", "retry", "drain", "copy", "half"}
  /\ meta \in Seq(Note)
  /\ Len(meta) = IF cpc \in {"retry", "drain", "copy", "half"} THEN 1 ELSE 0
  /\ cpc \in {"copy", "half", "retry"} => mapped # 0
  /\ half \in Nat /\ seen \in Nat
  /\ expired \in BOOLEAN
  /\ last \in [raw : Nat \X Nat, frame : Nat, layout : Layouts \cup {NoLayout},
               seg : Nat, seen : Nat]

(* A returned packet is one captured frame: both halves of its pixels are   *)
(* that frame's, and the layout it was decoded with is the one the device   *)
(* captured it with.  The slot may be overwritten during the copy, and the  *)
(* ring replaced between notification and copy (frame_stream.py:231-248).   *)
DeliveredWhole ==
  last # NoPacket =>
    /\ last.frame \in 1 .. Len(frames)
    /\ last.raw = <<last.frame, last.frame>>
    /\ last.layout = frames[last.frame].layout

(* However long the consumer pauses and however many notifications queue up *)
(* between it and the sidecar, the packet it gets is one of the last RING   *)
(* frames of its ring at the moment the copy began: this is the delay a     *)
(* capture must allow for after it changes the display                      *)
(* (frame_stream.py:217-223, 240-244).                                      *)
BoundedStaleness ==
  last # NoPacket =>
    Cardinality({i \in last.frame + 1 .. last.seen : frames[i].seg = last.seg}) < RING

(* "The producer reused this slot, possibly during our copy": the comment   *)
(* on a digest mismatch (frame_stream.py:240-243).  A copy is rejected only *)
(* when its slot has been written again, or its ring replaced, since the    *)
(* notification.                                                            *)
RejectedOnlyIfReused ==
  cpc = "retry" =>
    \/ meta[1].seg # shm
    \/ seq - meta[1].seq > RING
    \/ seq - meta[1].seq = RING /\ spc = "writing"

(* With a receive timeout every call of recv_frame returns, whatever the    *)
(* sidecar does: stops, dies, or overwrites every slot before it is copied, *)
(* for as long as it likes (frame_stream.py:195-214, 222-223).              *)
RecvReturns == (cpc # "idle") ~> (cpc = "idle")

(* The transport delivers frames as FrameDelivery promises.                 *)
Delivery == INSTANCE FrameDelivery WITH
  produced <- [i \in 1 .. Len(frames) |-> frames[i].layout],
  received <- [raw |-> last.raw, frame |-> last.frame, layout |-> last.layout]

ImplementsDelivery == Delivery!DeliverySpec

=============================================================================
