--------------------------- MODULE MCFrameStreamLive ---------------------------
(***************************************************************************)
(* FrameStream for TLC with a producer that never stops: the frames nothing  *)
(* refers to any more are forgotten at once and the others keep their order  *)
(* under smaller numbers, so that the device can deliver for ever.  A        *)
(* frame's number only names it; what no action reads (the packet returned   *)
(* last, the counts of captures, the segment a frame was captured into, the  *)
(* contents of one that nobody can open or has mapped) is forgotten with it. *)
(***************************************************************************)
EXTENDS FrameStream

Held(s) == s \in {shm, named, mapped}

InNotes == {m.frame : m \in InFlight \cup Notes(inbox) \cup Notes(meta)}

InSlots == UNION {UNION {{segs[s].slots[i].head, segs[s].slots[i].tail} : i \in Slots}
                  : s \in {t \in DOMAIN segs : Held(t)}}

Referred == (InNotes \cup InSlots \cup {half}) \ {0}

Rank(f) == Cardinality({g \in Referred : g <= f})

Kept == [k \in 1 .. Cardinality(Referred) |->
           [frames[CHOOSE f \in Referred : Rank(f) = k] EXCEPT !.seg = 1]]

Renamed(m) ==
  IF m.kind = "frame" THEN [m EXCEPT !.frame = Rank(@), !.seg = 1, !.seq = 0] ELSE m
RenamedAll(msgs) == [i \in 1 .. Len(msgs) |-> Renamed(msgs[i])]
RenamedSlot(s, slot) ==
  IF Held(s) THEN [head |-> Rank(slot.head), tail |-> Rank(slot.tail)] ELSE Holds(0)
RenamedSegs ==
  [s \in 1 .. Len(segs) |->
     [segs[s] EXCEPT !.slots = [i \in Slots |-> RenamedSlot(s, @[i])]]]

Remembered == <<Kept, RenamedSegs, RenamedAll(hand), RenamedAll(wire),
                RenamedAll(inbox), RenamedAll(meta), Rank(half), 0, 0, NoPacket>>
Known == <<frames, segs, hand, wire, inbox, meta, half, seq, seen, last>>

Forget ==
  /\ Known # Remembered
  /\ frames' = Kept /\ segs' = RenamedSegs
  /\ hand' = RenamedAll(hand) /\ wire' = RenamedAll(wire)
  /\ inbox' = RenamedAll(inbox) /\ meta' = RenamedAll(meta)
  /\ half' = Rank(half)
  /\ seq' = 0 /\ seen' = 0 /\ last' = NoPacket
  /\ UNCHANGED <<cam, shm, layout, running, widx, phase, main, spc, named, mapped,
                 subscribed, restarts, cpc, expired>>

LiveNext == Forget \/ (Known = Remembered /\ StreamNext)

LiveSpec == StreamInit /\ [][LiveNext]_streamVars /\ ReaderFairness

=============================================================================
