------------------------ MODULE SidecarLifecycleProofs ------------------------
(***************************************************************************)
(* Proofs about SidecarLifecycle, for any number of GUIs, scripts, Python   *)
(* commands, sidecar processes and waiting requests.                        *)
(*                                                                         *)
(* Ownership: a client that waits for a launch has no handle and one that   *)
(* does not wait has no process under way (ClientShape), so handle and cur  *)
(* never both matter and none is overwritten.                               *)
(*                                                                         *)
(* The camera: a camera that is open, or can be made to stream by a request *)
(* that waits, has a program that has yet to close it (Responsible).  The   *)
(* argument rests on there being one sidecar that serves, on what a waiting *)
(* request says of its sender (LiveFits), and on abandoned requests opening *)
(* no camera unless an OpenCamera was given up (OrphansOpenNothing).        *)
(***************************************************************************)
EXTENDS SidecarLifecycle, TLAPS

Asking == {"open", "info", "stream", "command", "stop", "close"}
Places == {"idle", "request", "ping", "launch", "await", "poll", "giveup"}
Sockets == {"closed", "out", "in", "ok", "refused"}

\* Of client c: where it can be while its program is at a step, what it holds.
ClientShape(c) ==
  /\ at[c] # "idle" => step[c] \in Asking
  /\ at[c] \in {"ping", "launch", "await", "poll", "giveup"} => handle[c] = NoHandle
  /\ cur[c] # 0 <=> at[c] \in {"await", "poll", "giveup"}
  /\ sock[c] # "closed" <=> at[c] \in {"request", "ping", "poll"}
  /\ at[c] \in {"await", "poll", "giveup"} => try[c] <= Candidates

\* One sidecar serves at a time; others have no camera, and without one no
\* request has arrived anywhere.
OneServes ==
  /\ \A p, q \in Serving : p = q
  /\ \A p \in Procs : procs[p].st # "serving" => procs[p].cam = "closed"
  /\ Serving = {} => inbox = Nothing

\* A request whose sender waits is the one it waits for; it has no other.
LiveAt(i) ==
  inbox[i].live =>
    /\ inbox[i].from \in Programs
    /\ sock[inbox[i].from] = "in" /\ inbox[i].op = Wanted(inbox[i].from)
    /\ \A j \in Slots : inbox[j].live /\ inbox[j].from = inbox[i].from => j = i

LiveFits == \A i \in Slots : LiveAt(i)

OrphansOpenNothing ==
  \A i \in Slots : inbox[i].op = "OpenCamera" /\ ~ inbox[i].live => lost

\* What a session has recorded, and a CloseCamera that was answered.
SessionFits(c) ==
  /\ step[c] = "exit" => ~ flags[c].camera
  /\ c \in Guis /\ step[c] \in {"info", "stream"} => flags[c].camera
  /\ step[c] = "close" /\ at[c] = "request" => sock[c] # "refused"

\* Program c has yet to close the camera.
ClosingAnswered(c) == step[c] = "close" /\ at[c] = "request" /\ sock[c] = "ok"
Responsible(c) ==
  \/ step[c] = "open" /\ at[c] = "request" /\ sock[c] = "ok"
  \/ c \in Guis /\ flags[c].camera /\ step[c] # "release" /\ ~ ClosingAnswered(c)
  \/ c \in Scripts /\ step[c] \in {"stream", "running", "command", "stop", "close"}
     /\ ~ ClosingAnswered(c)

\* The camera of p is open, or a request that waits would make it stream.
Hot(p) ==
  \/ procs[p].cam \in {"open", "streaming"}
  \/ procs[p].cam = "left" /\ \E i \in Slots : inbox[i].op = "StartStream"

HotIsOwned == (\E p \in Procs : Hot(p)) /\ ~ lost => \E c \in Programs : Responsible(c)

LifeInv ==
  /\ LifeTypeOK /\ (\A c \in Programs : ClientShape(c)) /\ OwnedIsAccounted
  /\ OneServes /\ LiveFits /\ OrphansOpenNothing
  /\ (\A c \in Programs : SessionFits(c)) /\ HotIsOwned

-----------------------------------------------------------------------------
(* What the model's operators do to processes and to the inbox.             *)

LEMMA ProcessStarts ==
  ASSUME procs \in [Procs -> Process], NEW p \in Procs, NEW by \in Programs \cup {Nobody},
         procs' = Started(p, by)
  PROVE  /\ procs' \in [Procs -> Process]
         /\ procs'[p].by = by /\ procs'[p].st = "starting" /\ procs'[p].cam = "closed"
         /\ \A q \in Procs : q # p => procs'[q] = procs[q]
BY DEF Started, Process

LEMMA ProcessEnds ==
  ASSUME procs \in [Procs -> Process], NEW p \in Procs, NEW st \in {"gone", "killed"},
         procs' = Ended(p, st)
  PROVE  /\ procs' \in [Procs -> Process]
         /\ procs'[p].st = st /\ procs'[p].cam = "closed"
         /\ \A q \in Procs : q # p => procs'[q] = procs[q]
<1> DEFINE m == [by |-> IF st = "gone" THEN Nobody ELSE procs[p].by, st |-> st, cam |-> "closed"]
<1>1. m \in Process /\ m.st = st /\ m.cam = "closed"
  BY DEF Process
<1>2. procs' = [procs EXCEPT ![p] = m]
  BY DEF Ended
<1> HIDE DEF m
<1> QED BY <1>1, <1>2

\* Terminate ends the process it is given, when that lives.
LEMMA Terminates ==
  ASSUME LifeTypeOK, NEW p, Terminate(p)
  PROVE  /\ procs' \in [Procs -> Process] /\ inbox' \in {inbox, Nothing}
         /\ \/ UNCHANGED <<procs, inbox>> /\ (p \in Procs => ~ Alive(p))
            \/ /\ p \in Procs /\ Alive(p)
               /\ procs'[p].st \in {"gone", "killed"} /\ procs'[p].cam = "closed"
               /\ \A q \in Procs : q # p => procs'[q] = procs[q]
               /\ inbox' = InboxWithout(p)
<1>1. procs \in [Procs -> Process]
  BY DEF LifeTypeOK
<1>2. CASE p \in Procs /\ Alive(p)
  <2>1. PICK st \in {"gone", "killed"} : procs' = Ended(p, st) /\ inbox' = InboxWithout(p)
    BY <1>2 DEF Terminate
  <2> QED BY <1>1, <1>2, <2>1, ProcessEnds DEF InboxWithout
<1>3. CASE ~ (p \in Procs /\ Alive(p))
  BY <1>1, <1>3 DEF Terminate
<1> QED BY <1>2, <1>3

Cams == {"closed", "open", "streaming", "left"}

\* What serving a request does to the camera: an OpenCamera that succeeds opens
\* it, a StartStream may make one stream that is not closed, a CloseCamera
\* cannot fail, and nothing else opens it.
LEMMA AnswersAre ==
  ASSUME NEW op \in Ops, NEW cam \in Cams, NEW a \in Answers(op, cam)
  PROVE  /\ a.cam \in Cams /\ a.good \in BOOLEAN
         /\ op = "CloseCamera" => a.good /\ a.cam = "closed"
         /\ op = "OpenCamera" => (a.good /\ a.cam = "open") \/ (~ a.good /\ a.cam = "closed")
         /\ op = "StartStream" => a.cam = cam \/ (a.cam = "streaming" /\ cam # "closed")
         /\ op \notin {"OpenCamera", "StartStream", "CloseCamera"} =>
              a.cam = cam \/ (a.cam = "open" /\ cam = "streaming")
<1> USE DEF Cams
<1>1. CASE op = "Ping"
  <2>1. a = [good |-> TRUE, cam |-> cam]
    BY <1>1 DEF Answers
  <2>2. a.good = TRUE /\ a.cam = cam
    BY <2>1
  <2> QED BY <1>1, <2>2
<1>2. CASE op = "OpenCamera"
  <2>1. a = [good |-> TRUE, cam |-> "open"] \/ a = [good |-> FALSE, cam |-> "closed"]
    BY <1>2 DEF Answers
  <2>2. (a.good = TRUE /\ a.cam = "open") \/ (a.good = FALSE /\ a.cam = "closed")
    BY <2>1
  <2> QED BY <1>2, <2>2
<1>3. CASE op = "StartStream"
  <2>1. a \in {IF cam = "closed" THEN [good |-> FALSE, cam |-> cam]
                                 ELSE [good |-> TRUE, cam |-> "streaming"],
              [good |-> FALSE, cam |-> cam]}
    BY <1>3 DEF Answers
  <2>2. a = [good |-> FALSE, cam |-> cam] \/ (cam # "closed" /\ a = [good |-> TRUE, cam |-> "streaming"])
    BY <2>1
  <2>3. \/ a.good = FALSE /\ a.cam = cam
        \/ cam # "closed" /\ a.good = TRUE /\ a.cam = "streaming"
    BY <2>2
  <2> QED BY <1>3, <2>3
<1>4. CASE op = "StopStream"
  <2>1. a = [good |-> TRUE, cam |-> IF cam = "streaming" THEN "open" ELSE cam]
    BY <1>4 DEF Answers
  <2>2. a.good = TRUE /\ a.cam = IF cam = "streaming" THEN "open" ELSE cam
    BY <2>1
  <2> QED BY <1>4, <2>2
<1>5. CASE op = "CloseCamera"
  <2>1. a = [good |-> TRUE, cam |-> "closed"]
    BY <1>5 DEF Answers
  <2>2. a.good = TRUE /\ a.cam = "closed"
    BY <2>1
  <2> QED BY <1>5, <2>2
<1>6. CASE op \notin {"Ping", "OpenCamera", "StartStream", "StopStream", "CloseCamera"}
  <2>1. a \in {[good |-> g, cam |-> cam] : g \in IF cam = "closed" THEN {FALSE} ELSE BOOLEAN}
    BY <1>6 DEF Answers
  <2>2. PICK g \in BOOLEAN : a = [good |-> g, cam |-> cam]
    BY <2>1
  <2>3. a.good \in BOOLEAN /\ a.cam = cam
    BY <2>2
  <2> QED BY <1>6, <2>3
<1> QED BY <1>1, <1>2, <1>3, <1>4, <1>5, <1>6

LEMMA NothingTyped ==
  /\ NoRequest \in Requests /\ NoRequest.op = "Ping" /\ NoRequest.live = FALSE
  /\ NoRequest.from = Nobody /\ Nobody \notin Programs
  /\ Nothing \in [Slots -> Requests] /\ \A i \in Slots : Nothing[i] = NoRequest
BY LifecycleAssumption DEF NoRequest, Requests, Nothing, Ops

\* A request with its sender gone.
LEMMA OrphanTyped ==
  ASSUME NEW r \in Requests
  PROVE  /\ [r EXCEPT !.live = FALSE] \in Requests
         /\ [r EXCEPT !.live = FALSE].live = FALSE
         /\ [r EXCEPT !.live = FALSE].op = r.op
BY DEF Requests

\* Abandoning keeps what other clients have sent and makes orphans of the rest.
LEMMA Abandons ==
  ASSUME inbox \in [Slots -> Requests], NEW c \in Programs, inbox' = Abandoned(c)
  PROVE  /\ inbox' \in [Slots -> Requests]
         /\ \A i \in Slots :
              /\ inbox'[i].live => inbox'[i] = inbox[i] /\ inbox[i].from # c
              /\ inbox'[i].op # "Ping" => inbox'[i].op = inbox[i].op
              /\ inbox'[i].op = "OpenCamera" /\ ~ inbox'[i].live =>
                   ~ inbox[i].live \/ inbox[i].from = c
         /\ inbox = Nothing => inbox' = Nothing
<1>1. inbox' = [i \in Slots |-> IF inbox[i].from # c THEN inbox[i]
                               ELSE IF inbox[i].op \in Changing THEN [inbox[i] EXCEPT !.live = FALSE]
                               ELSE NoRequest]
  BY DEF Abandoned
<1>2. ASSUME NEW i \in Slots
      PROVE  /\ inbox'[i] \in Requests
             /\ inbox'[i].live => inbox'[i] = inbox[i] /\ inbox[i].from # c
             /\ inbox'[i].op # "Ping" => inbox'[i].op = inbox[i].op
             /\ inbox'[i].op = "OpenCamera" /\ ~ inbox'[i].live =>
                  ~ inbox[i].live \/ inbox[i].from = c
             /\ inbox[i] = NoRequest => inbox'[i] = NoRequest
  <2>1. inbox[i] \in Requests
    OBVIOUS
  <2>2. CASE inbox[i].from # c
    <3>1. inbox'[i] = inbox[i]
      BY <1>1, <2>2
    <3> QED BY <2>1, <2>2, <3>1
  <2>3. CASE inbox[i].from = c /\ inbox[i].op \in Changing
    <3>1. inbox'[i] = [inbox[i] EXCEPT !.live = FALSE]
      BY <1>1, <2>3
    <3>2. inbox'[i] \in Requests /\ inbox'[i].live = FALSE /\ inbox'[i].op = inbox[i].op
      BY <2>1, <3>1, OrphanTyped
    <3>3. inbox[i] # NoRequest
      BY <2>3, NothingTyped
    <3> QED BY <2>3, <3>2, <3>3
  <2>4. CASE inbox[i].from = c /\ inbox[i].op \notin Changing
    <3>1. inbox'[i] = NoRequest
      BY <1>1, <2>4
    <3> QED BY <3>1, NothingTyped
  <2> QED BY <2>2, <2>3, <2>4
<1>3. inbox' \in [Slots -> Requests]
  <2>1. inbox' = [i \in Slots |-> inbox'[i]]
    BY <1>1
  <2> QED BY <1>2, <2>1
<1>4. ASSUME inbox = Nothing PROVE inbox' = Nothing
  <2>1. \A i \in Slots : inbox'[i] = NoRequest
    BY <1>2, <1>4, NothingTyped
  <2> QED BY <1>1, <2>1 DEF Nothing
<1> QED BY <1>2, <1>3, <1>4

\* A program stays at a step, and records flags of their type.
LEMMA StepsTyped ==
  ASSUME LifeTypeOK, NEW c \in Programs, NEW good \in BOOLEAN, Proceed(c, good)
  PROVE  /\ step' \in [Programs -> Steps] /\ at' \in [Programs -> Places]
         /\ flags' \in [Programs -> [camera : BOOLEAN, stream : BOOLEAN]]
         /\ step'[c] = IF good THEN AfterSuccess(c, step[c]) ELSE AfterFailure(c, step[c])
         /\ flags'[c].camera = (flags[c].camera \/ (good /\ c \in Guis /\ step[c] = "open"))
         /\ at'[c] = "idle" /\ quit' = quit
<1>1. /\ step \in [Programs -> Steps] /\ at \in [Programs -> Places]
      /\ flags \in [Programs -> [camera : BOOLEAN, stream : BOOLEAN]]
  BY DEF LifeTypeOK, Places
<1> DEFINE s == IF good THEN AfterSuccess(c, step[c]) ELSE AfterFailure(c, step[c])
           f == IF good THEN Recorded(c, step[c]) ELSE flags[c]
<1>2. s \in Steps
  <2>1. \A u : AfterFailure(c, u) \in Steps
    BY DEF AfterFailure, ShutdownFrom, Steps
  <2> QED BY <2>1 DEF AfterSuccess, Steps
<1>3. f \in [camera : BOOLEAN, stream : BOOLEAN]
  BY <1>1 DEF Recorded
<1>4. f.camera = (flags[c].camera \/ (good /\ c \in Guis /\ step[c] = "open"))
  BY <1>1 DEF Recorded
<1>5. /\ step' = [step EXCEPT ![c] = s] /\ at' = [at EXCEPT ![c] = "idle"] /\ quit' = quit
      /\ flags' = IF good THEN [flags EXCEPT ![c] = Recorded(c, step[c])] ELSE flags
  BY DEF Proceed
<1>6. flags' = [flags EXCEPT ![c] = f]
  BY <1>1, <1>5
<1>7. step'[c] = s /\ at'[c] = "idle"
  BY <1>1, <1>5
<1> HIDE DEF s, f
<1>8. step' \in [Programs -> Steps] /\ at' \in [Programs -> Places] /\ flags'[c] = f
      /\ flags' \in [Programs -> [camera : BOOLEAN, stream : BOOLEAN]]
  BY <1>1, <1>2, <1>3, <1>5, <1>6 DEF Places
<1> QED BY <1>4, <1>5, <1>7, <1>8 DEF s

-----------------------------------------------------------------------------
(* Types.                                                                   *)

ProcessStep == \E p \in Procs : ByHand(p) \/ Bind(p) \/ ProcDies(p)
ServeStep == \E i \in Slots : Serve(i)
ProgramStep(c) == ClientStep(c) \/ Deliver(c) \/ Launch(c) \/ Command(c) \/ EndSession(c) \/ Interrupt(c)

\* What processes do of themselves.
LEMMA ProcessesTyped ==
  ASSUME LifeTypeOK, NEW p \in Procs, ByHand(p) \/ Bind(p) \/ ProcDies(p)
  PROVE  /\ procs' \in [Procs -> Process] /\ inbox' \in [Slots -> Requests]
         /\ \A q \in Procs : q # p => procs'[q] = procs[q]
         /\ \/ procs'[p].by = Nobody
            \/ procs'[p].st \in {"gone", "killed"}
            \/ Alive(p) /\ procs'[p].by = procs[p].by
         /\ UNCHANGED <<clientVars, progVars, lost>>
<1>1. procs \in [Procs -> Process] /\ inbox \in [Slots -> Requests]
      /\ Nobody \in Programs \cup {Nobody}
  BY DEF LifeTypeOK
<1>2. CASE ByHand(p)
  <2>1. CASE procs' = Started(p, Nobody)
    BY <1>1, <1>2, <2>1, ProcessStarts DEF ByHand
  <2>2. CASE procs' = [procs EXCEPT ![p] = [by |-> Nobody, st |-> "serving", cam |-> "left"]]
    BY <1>1, <1>2, <2>2 DEF ByHand, Process
  <2> QED BY <1>2, <2>1, <2>2 DEF ByHand
<1>3. CASE Bind(p)
  <2>1. CASE procs' = [procs EXCEPT ![p].st = "serving"]
    BY <1>1, <1>3, <2>1 DEF Bind, Process, Alive
  <2>2. CASE procs' = Ended(p, "gone")
    BY <1>1, <1>3, <2>2, ProcessEnds DEF Bind
  <2> QED BY <1>3, <2>1, <2>2 DEF Bind
<1>4. CASE ProcDies(p)
  BY <1>1, <1>4, ProcessEnds, NothingTyped DEF ProcDies, InboxWithout
<1> QED BY <1>2, <1>3, <1>4

\* A request is served.
LEMMA ServedTyped ==
  ASSUME LifeTypeOK, LiveFits, NEW i \in Slots, Serve(i)
  PROVE  /\ UNCHANGED <<at, handle, try, cur, progVars, lost>>
         /\ \E p \in Serving : \E a \in Answers(inbox[i].op, procs[p].cam) :
              /\ procs' \in [Procs -> Process]
              /\ procs'[p].cam = a.cam /\ procs'[p].st = procs[p].st /\ procs'[p].by = procs[p].by
              /\ \A q \in Procs : q # p => procs'[q] = procs[q]
              /\ sock' \in [Programs -> Sockets]
              /\ \A c \in Programs : sock'[c] =
                   IF inbox[i].live /\ c = inbox[i].from
                   THEN (IF a.good THEN "ok" ELSE "refused") ELSE sock[c]
         /\ inbox' \in [Slots -> Requests] /\ inbox'[i] = NoRequest
         /\ \A j \in Slots : j # i => inbox'[j] = inbox[j]
<1>1. /\ procs \in [Procs -> Process] /\ inbox \in [Slots -> Requests]
      /\ sock \in [Programs -> Sockets]
  BY DEF LifeTypeOK, Sockets
<1>2. PICK p \in Serving : \E a \in Answers(inbox[i].op, procs[p].cam) :
        /\ procs' = [procs EXCEPT ![p].cam = a.cam]
        /\ sock' = IF inbox[i].live
                   THEN [sock EXCEPT ![inbox[i].from] = IF a.good THEN "ok" ELSE "refused"]
                   ELSE sock
  BY DEF Serve
<1>3. PICK a \in Answers(inbox[i].op, procs[p].cam) :
        /\ procs' = [procs EXCEPT ![p].cam = a.cam]
        /\ sock' = IF inbox[i].live
                   THEN [sock EXCEPT ![inbox[i].from] = IF a.good THEN "ok" ELSE "refused"]
                   ELSE sock
  BY <1>2
<1>4. inbox' = [inbox EXCEPT ![i] = NoRequest] /\ UNCHANGED <<at, handle, try, cur, progVars, lost>>
  BY DEF Serve
<1>5. p \in Procs /\ procs[p] \in Process
  BY <1>1 DEF Serving
<1>6. a.cam \in {"closed", "open", "streaming", "left"}
  BY <1>1, <1>5, AnswersAre DEF Cams, Process, Requests
<1>7. /\ procs' \in [Procs -> Process]
      /\ procs'[p].cam = a.cam /\ procs'[p].st = procs[p].st /\ procs'[p].by = procs[p].by
      /\ \A q \in Procs : q # p => procs'[q] = procs[q]
  BY <1>1, <1>3, <1>5, <1>6 DEF Process
<1>8. /\ sock' \in [Programs -> Sockets]
      /\ \A c \in Programs : sock'[c] =
           IF inbox[i].live /\ c = inbox[i].from
           THEN (IF a.good THEN "ok" ELSE "refused") ELSE sock[c]
  <2> DEFINE v == IF a.good THEN "ok" ELSE "refused"
  <2>1. v \in Sockets
    BY DEF Sockets
  <2>2. inbox[i].live => inbox[i].from \in Programs
    BY DEF LiveFits, LiveAt
  <2>3. sock' = IF inbox[i].live THEN [sock EXCEPT ![inbox[i].from] = v] ELSE sock
    BY <1>3
  <2> HIDE DEF v
  <2>4. /\ sock' \in [Programs -> Sockets]
        /\ \A c \in Programs : sock'[c] = IF inbox[i].live /\ c = inbox[i].from THEN v ELSE sock[c]
    BY <1>1, <2>1, <2>2, <2>3
  <2> QED BY <2>4 DEF v
<1>9. /\ inbox' \in [Slots -> Requests] /\ inbox'[i] = NoRequest
      /\ \A j \in Slots : j # i => inbox'[j] = inbox[j]
  BY <1>1, <1>4, NothingTyped
<1> QED BY <1>2, <1>3, <1>4, <1>7, <1>8, <1>9

\* A step of a program leaves the other programs alone.
Others(c) ==
  \A d \in Programs : d # c =>
    /\ at'[d] = at[d] /\ sock'[d] = sock[d] /\ handle'[d] = handle[d] /\ try'[d] = try[d]
    /\ cur'[d] = cur[d] /\ step'[d] = step[d] /\ flags'[d] = flags[d] /\ quit'[d] = quit[d]

ProgramsTyped ==
  /\ step \in [Programs -> Steps] /\ at \in [Programs -> Places]
  /\ sock \in [Programs -> Sockets] /\ handle \in [Programs -> {NoHandle, External} \cup Procs]
  /\ try \in [Programs -> 0 .. Candidates + 1] /\ cur \in [Programs -> {0} \cup Procs]
  /\ flags \in [Programs -> [camera : BOOLEAN, stream : BOOLEAN]]
  /\ quit \in [Programs -> BOOLEAN] /\ lost \in BOOLEAN

LEMMA SidecarOnly ==
  ASSUME LifeTypeOK
  PROVE  ProgramsTyped
BY DEF LifeTypeOK, ProgramsTyped, Places, Sockets

LEMMA ProgramsStayTyped ==
  ASSUME LifeTypeOK, NEW c \in Programs, ClientShape(c), ProgramStep(c)
  PROVE  ProgramsTyped' /\ Others(c)
<1>1. ProgramsTyped
  BY SidecarOnly
<1>2. Candidates \in Nat \ {0} /\ NoHandle = -1 /\ External = 0
  BY LifecycleAssumption DEF NoHandle, External
<1> USE DEF ProgramsTyped, Others
<1>3. CASE Request(c) \/ Poll(c) \/ Deliver(c)
  BY <1>1, <1>3 DEF Request, Poll, Deliver, Send, progVars, Places, Sockets
<1>4. CASE Answered(c) \/ TimedOut(c) \/ EnsureRaises(c)
  <2>1. PICK good \in BOOLEAN : Proceed(c, good)
    BY <1>4 DEF Answered, TimedOut, EnsureRaises
  <2>2. /\ step' \in [Programs -> Steps] /\ at' \in [Programs -> Places] /\ quit' = quit
        /\ flags' \in [Programs -> [camera : BOOLEAN, stream : BOOLEAN]]
    BY <2>1, StepsTyped
  <2>3. \A d \in Programs : d # c => at'[d] = at[d] /\ step'[d] = step[d] /\ flags'[d] = flags[d]
    BY <1>1, <2>1 DEF Proceed
  <2>4. sock' = sock \/ sock' = [sock EXCEPT ![c] = "closed"]
    BY <1>4 DEF Answered, TimedOut, EnsureRaises
  <2>5. try' = try \/ try' = [try EXCEPT ![c] = 0]
    BY <1>4 DEF Answered, TimedOut, EnsureRaises
  <2>6. UNCHANGED <<handle, cur>> /\ lost' \in BOOLEAN
    BY <1>1, <1>4 DEF Answered, TimedOut, EnsureRaises, GivenUp
  <2>7. /\ sock' \in [Programs -> Sockets]
        /\ \A d \in Programs : d # c => sock'[d] = sock[d]
    BY <1>1, <2>4 DEF Sockets
  <2>8. /\ try' \in [Programs -> 0 .. Candidates + 1]
        /\ \A d \in Programs : d # c => try'[d] = try[d]
    BY <1>1, <1>2, <2>5
  <2> QED BY <1>1, <2>2, <2>3, <2>6, <2>7, <2>8
<1>5. CASE Pong(c)
  <2>1. IF at[c] = "ping" THEN External \in {NoHandle, External} \cup Procs
        ELSE cur[c] \in {NoHandle, External} \cup Procs
    BY <1>1, <1>2
  <2>2. PICK h \in {NoHandle, External} \cup Procs : Ensured(c, h)
    BY <1>5, <2>1 DEF Pong
  <2> QED BY <1>1, <1>2, <1>5, <2>2 DEF Pong, Ensured, Send, progVars, Places, Sockets
<1>6. CASE NoPong(c)
  BY <1>1, <1>2, <1>6 DEF NoPong, progVars, Places, Sockets
<1>7. CASE Popen(c)
  BY <1>1, <1>7 DEF Popen, progVars, Places
<1>8. CASE PopenFails(c)
  BY <1>1, <1>2, <1>8 DEF PopenFails, progVars
<1>9. CASE GiveUp(c)
  <2>1. try[c] <= Candidates
    BY <1>9 DEF GiveUp, ClientShape
  <2> QED BY <1>1, <1>2, <1>9, <2>1 DEF GiveUp, progVars, Places
<1>10. CASE Release(c)
  BY <1>1, <1>10 DEF Release, Steps, NoFlags
<1>11. CASE Launch(c) \/ Command(c)
  <2>1. PICK q \in BOOLEAN : quit' = [quit EXCEPT ![c] = q] \/ quit' = quit
    <3> DEFINE own == c \in Scripts
    <3>1. own \in BOOLEAN
      OBVIOUS
    <3>2. quit' = [quit EXCEPT ![c] = own] \/ quit' = quit
      BY <1>11 DEF Launch, Command
    <3> HIDE DEF own
    <3> QED BY <3>1, <3>2
  <2>2. step' = [step EXCEPT ![c] = "open"] \/ step' = [step EXCEPT ![c] = "command"]
    BY <1>11 DEF Launch, Command
  <2>3. UNCHANGED <<clientVars, flags, lost>>
    BY <1>11 DEF Launch, Command
  <2> QED BY <1>1, <2>1, <2>2, <2>3 DEF clientVars, Steps
<1>12. CASE EndSession(c)
  <2>1. PICK q \in BOOLEAN : quit' = [quit EXCEPT ![c] = q]
    BY <1>12 DEF EndSession
  <2>2. /\ step' = [step EXCEPT ![c] = IF c \in Scripts THEN "stop" ELSE ShutdownFrom(flags[c])]
        /\ UNCHANGED <<clientVars, flags, lost>>
    BY <1>12 DEF EndSession
  <2>3. (IF c \in Scripts THEN "stop" ELSE ShutdownFrom(flags[c])) \in Steps
    BY DEF ShutdownFrom, Steps
  <2> QED BY <1>1, <2>1, <2>2, <2>3 DEF clientVars
<1>13. CASE Interrupt(c)
  <2>1. /\ sock' = [sock EXCEPT ![c] = "closed"] /\ at' = [at EXCEPT ![c] = "idle"]
        /\ cur' = [cur EXCEPT ![c] = 0] /\ step' = [step EXCEPT ![c] = "stop"]
        /\ try' = [try EXCEPT ![c] = 0] /\ UNCHANGED <<handle, flags, quit>>
    BY <1>13 DEF Interrupt
  <2>2. lost' \in BOOLEAN
    BY <1>13 DEF Interrupt
  <2>3. /\ "closed" \in Sockets /\ "idle" \in Places /\ "stop" \in Steps
        /\ 0 \in 0 .. Candidates + 1
    BY <1>2 DEF Sockets, Places, Steps
  <2> QED BY <1>1, <2>1, <2>2, <2>3
<1> QED BY <1>3, <1>4, <1>5, <1>6, <1>7, <1>8, <1>9, <1>10, <1>11, <1>12, <1>13
        DEF ProgramStep, ClientStep

-----------------------------------------------------------------------------
(* Clients and what they own.                                               *)

LEMMA ClientKeepsShape ==
  ASSUME LifeTypeOK, NEW c \in Programs, ClientShape(c), ProgramStep(c)
  PROVE  ClientShape(c)'
<1>1. ProgramsTyped
  BY SidecarOnly
<1>2. Candidates \in Nat \ {0} /\ NoHandle = -1 /\ External = 0 /\ 0 \notin Procs
  BY LifecycleAssumption DEF NoHandle, External, Procs
<1> USE DEF ProgramsTyped, ClientShape
<1>3. CASE Request(c) \/ Poll(c) \/ Deliver(c)
  BY <1>1, <1>3 DEF Request, Poll, Deliver, Send, progVars, Asking
<1>4. CASE Answered(c) \/ TimedOut(c) \/ EnsureRaises(c)
  <2>1. PICK good \in BOOLEAN : Proceed(c, good)
    BY <1>4 DEF Answered, TimedOut, EnsureRaises
  <2>2. at'[c] = "idle"
    BY <2>1, StepsTyped
  <2>3. cur'[c] = 0 /\ sock'[c] = "closed"
    BY <1>1, <1>4 DEF Answered, TimedOut, EnsureRaises
  <2> QED BY <2>2, <2>3
<1>5. CASE Pong(c)
  <2>1. at'[c] = "request" /\ cur'[c] = 0 /\ sock'[c] = "out" /\ step'[c] = step[c] /\ at[c] # "idle"
    BY <1>1, <1>5 DEF Pong, Ensured, Send, progVars
  <2> QED BY <2>1
<1>6. CASE NoPong(c)
  BY <1>1, <1>2, <1>6 DEF NoPong, progVars
<1>7. CASE Popen(c)
  <2>1. PICK p \in Procs : cur' = [cur EXCEPT ![c] = p]
    BY <1>7 DEF Popen
  <2>2. /\ at[c] = "launch" /\ try[c] <= Candidates /\ at' = [at EXCEPT ![c] = "await"]
        /\ UNCHANGED <<sock, handle, try, progVars>>
    BY <1>7 DEF Popen
  <2> QED BY <1>1, <1>2, <2>1, <2>2 DEF progVars
<1>8. CASE PopenFails(c)
  BY <1>1, <1>8 DEF PopenFails, progVars
<1>9. CASE GiveUp(c)
  BY <1>1, <1>9 DEF GiveUp, progVars
<1>10. CASE Release(c) \/ Launch(c) \/ Command(c) \/ EndSession(c)
  <2>1. step[c] \notin Asking
    BY <1>10 DEF Release, Launch, Command, EndSession, Asking
  <2>2. at[c] = "idle" /\ UNCHANGED <<at, sock, try, cur>>
    BY <1>10, <2>1 DEF Release, Launch, Command, EndSession, clientVars
  <2> QED BY <2>2
<1>11. CASE Interrupt(c)
  BY <1>1, <1>11 DEF Interrupt
<1> QED BY <1>3, <1>4, <1>5, <1>6, <1>7, <1>8, <1>9, <1>10, <1>11 DEF ProgramStep, ClientStep

LEMMA ShapeStep ==
  ASSUME LifeTypeOK, \A c \in Programs : ClientShape(c), LiveFits, LifeNext
  PROVE  \A c \in Programs : ClientShape(c)'
<1>1. CASE ProcessStep
  BY <1>1, ProcessesTyped DEF ProcessStep, ClientShape, clientVars, progVars
<1>2. CASE ServeStep
  <2>1. PICK i \in Slots : Serve(i)
    BY <1>2 DEF ServeStep
  <2>2. UNCHANGED <<at, handle, try, cur, step>>
    BY <2>1, ServedTyped DEF progVars
  <2>3. ASSUME NEW c \in Programs PROVE sock'[c] # "closed" <=> sock[c] # "closed"
    BY <2>1, ServedTyped DEF LiveFits, LiveAt
  <2> QED BY <2>2, <2>3 DEF ClientShape
<1>3. ASSUME NEW c \in Programs, ProgramStep(c)
      PROVE  \A d \in Programs : ClientShape(d)'
  <2>1. ClientShape(c)' /\ Others(c)
    BY <1>3, ClientKeepsShape, ProgramsStayTyped
  <2>2. ASSUME NEW d \in Programs, d # c PROVE ClientShape(d)'
    BY <2>1, <2>2 DEF Others, ClientShape
  <2> QED BY <2>1, <2>2
<1> QED BY <1>1, <1>2, <1>3 DEF LifeNext, ProcessStep, ServeStep, ProgramStep

\* What a step of a program does to the processes.
LEMMA ProgramsProcesses ==
  ASSUME LifeTypeOK, NEW c \in Programs, ClientShape(c), ProgramStep(c)
  PROVE  /\ procs' \in [Procs -> Process]
         /\ \A p \in Procs :
              \/ procs'[p] = procs[p]
              \/ /\ Popen(c) /\ Free(p) /\ p = cur'[c]
                 /\ procs'[p].by = c /\ procs'[p].st = "starting" /\ procs'[p].cam = "closed"
              \/ /\ GiveUp(c) \/ Release(c) \/ Interrupt(c)
                 /\ Alive(p)
                 /\ procs'[p].st \in {"gone", "killed"} /\ procs'[p].cam = "closed"
<1>1. procs \in [Procs -> Process] /\ cur \in [Programs -> {0} \cup Procs]
  BY DEF LifeTypeOK
<1>2. CASE Popen(c)
  <2>1. PICK p \in Procs : Free(p) /\ procs' = Started(p, c) /\ cur' = [cur EXCEPT ![c] = p]
    BY <1>2 DEF Popen
  <2> QED BY <1>1, <1>2, <2>1, ProcessStarts
<1>3. CASE GiveUp(c) \/ Release(c)
  <2>1. PICK p : Terminate(p)
    BY <1>3 DEF GiveUp, Release
  <2> QED BY <1>1, <1>3, <2>1, Terminates
<1>4. CASE Interrupt(c)
  <2>1. procs' = [p \in Procs |-> IF procs[p].by = c /\ Alive(p)
                    THEN [procs[p] EXCEPT !.st = "killed", !.cam = "closed"] ELSE procs[p]]
    BY <1>4 DEF Interrupt
  <2>2. ASSUME NEW p \in Procs
        PROVE  /\ procs'[p] \in Process
               /\ \/ procs'[p] = procs[p]
                  \/ Alive(p) /\ procs'[p].st = "killed" /\ procs'[p].cam = "closed"
    <3>1. procs[p] \in Process
      BY <1>1
    <3>2. CASE procs[p].by = c /\ Alive(p)
      <4>1. procs'[p] = [procs[p] EXCEPT !.st = "killed", !.cam = "closed"]
        BY <2>1, <3>2
      <4> QED BY <3>1, <3>2, <4>1 DEF Process
    <3>3. CASE ~ (procs[p].by = c /\ Alive(p))
      BY <2>1, <3>1, <3>3
    <3> QED BY <3>2, <3>3
  <2> QED BY <1>4, <2>1, <2>2
<1>5. CASE UNCHANGED procs
  BY <1>1, <1>5
<1> QED BY <1>2, <1>3, <1>4, <1>5
        DEF ProgramStep, ClientStep, Request, Answered, TimedOut, Pong, NoPong, PopenFails, Poll,
            EnsureRaises, Deliver, Launch, Command, EndSession, clientVars

\* A program loses no process it has started: what it no longer remembers has ended.
LEMMA OwnKept ==
  ASSUME LifeTypeOK, NEW c \in Programs, ClientShape(c), ProgramStep(c), NEW p \in Procs,
         procs[p].by = c, p \in {handle[c], cur[c]}, procs'[p] = procs[p], Alive(p)
  PROVE  p \in {handle'[c], cur'[c]}
<1>1. ProgramsTyped /\ procs \in [Procs -> Process]
  BY SidecarOnly DEF LifeTypeOK
<1>2. NoHandle \notin Procs /\ 0 \notin Procs
  BY DEF NoHandle, Procs
<1> USE DEF ProgramsTyped
<1>3. CASE Pong(c)
  <2>1. handle[c] \notin Procs
    BY <1>2, <1>3 DEF Pong, ClientShape
  <2>2. p = cur[c] /\ at[c] = "poll"
    BY <1>2, <1>3, <2>1 DEF Pong, ClientShape
  <2>3. handle' = [handle EXCEPT ![c] = cur[c]]
    BY <1>3, <2>2 DEF Pong, Ensured
  <2> QED BY <1>1, <2>2, <2>3
<1>4. CASE Popen(c)
  <2>1. cur[c] = 0 /\ UNCHANGED handle
    BY <1>4 DEF Popen, ClientShape
  <2> QED BY <1>2, <2>1
<1>5. CASE GiveUp(c)
  <2>1. handle' = handle /\ handle[c] \notin Procs /\ Terminate(cur[c])
    BY <1>2, <1>5 DEF GiveUp, ClientShape
  <2>2. p = cur[c]
    BY <1>2, <2>1
  <2>3. procs'[p].st \in {"gone", "killed"}
    BY <2>1, <2>2, Terminates
  <2> QED BY <2>3 DEF Alive
<1>6. CASE Release(c)
  <2>1. at[c] = "idle" /\ Terminate(handle[c])
    BY <1>6 DEF Release, ClientShape, Asking
  <2>2. p = handle[c]
    BY <1>2, <2>1 DEF ClientShape
  <2>3. procs'[p].st \in {"gone", "killed"}
    BY <2>1, <2>2, Terminates
  <2> QED BY <2>3 DEF Alive
<1>7. CASE Interrupt(c)
  <2>1. procs'[p] = [procs[p] EXCEPT !.st = "killed", !.cam = "closed"]
    BY <1>7 DEF Interrupt
  <2>2. procs'[p].st = "killed"
    BY <1>1, <2>1 DEF Process
  <2> QED BY <2>2 DEF Alive
<1>8. CASE UNCHANGED <<handle, cur>>
  BY <1>8
<1> QED BY <1>3, <1>4, <1>5, <1>6, <1>7, <1>8
        DEF ProgramStep, ClientStep, Request, Answered, TimedOut, NoPong, PopenFails, Poll,
            EnsureRaises, Deliver, Launch, Command, EndSession, clientVars

LEMMA OwnedStep ==
  ASSUME LifeTypeOK, \A c \in Programs : ClientShape(c), LiveFits, OwnedIsAccounted, LifeNext
  PROVE  OwnedIsAccounted'
<1>1. Nobody \notin Programs
  BY LifecycleAssumption
<1>2. CASE ProcessStep
  BY <1>1, <1>2, ProcessesTyped DEF ProcessStep, OwnedIsAccounted, Alive, clientVars
<1>3. CASE ServeStep
  <2>1. PICK i \in Slots : Serve(i)
    BY <1>3 DEF ServeStep
  <2>2. UNCHANGED <<handle, cur>> /\ \A p \in Procs : procs'[p].by = procs[p].by /\ procs'[p].st = procs[p].st
    BY <2>1, ServedTyped
  <2> QED BY <2>2 DEF OwnedIsAccounted, Alive
<1>4. ASSUME NEW c \in Programs, ProgramStep(c) PROVE OwnedIsAccounted'
  <2>1. Others(c)
    BY <1>4, ProgramsStayTyped
  <2> SUFFICES ASSUME NEW p \in Procs, procs'[p].by \in Programs, Alive(p)'
               PROVE  p \in {handle'[procs'[p].by], cur'[procs'[p].by]}
    BY DEF OwnedIsAccounted
  <2>2. \/ procs'[p] = procs[p]
        \/ procs'[p].by = c /\ p = cur'[c]
    BY <1>4, ProgramsProcesses DEF Alive
  <2>3. CASE procs'[p] = procs[p]
    <3>1. p \in {handle[procs[p].by], cur[procs[p].by]} /\ Alive(p)
      BY <2>3 DEF OwnedIsAccounted, Alive
    <3>2. CASE procs[p].by = c
      BY <1>4, <2>3, <3>1, <3>2, OwnKept
    <3>3. CASE procs[p].by # c
      BY <2>1, <2>3, <3>1, <3>3 DEF Others
    <3> QED BY <3>2, <3>3
  <2> QED BY <2>2, <2>3
<1> QED BY <1>2, <1>3, <1>4 DEF LifeNext, ProcessStep, ServeStep, ProgramStep

-----------------------------------------------------------------------------
(* The inbox and the sidecar that serves.                                   *)

\* What a step of a program does to the inbox.
LEMMA ProgramsInbox ==
  ASSUME LifeTypeOK, NEW c \in Programs, ClientShape(c), ProgramStep(c)
  PROVE  /\ inbox' \in [Slots -> Requests]
         /\ \/ inbox' = inbox /\ (sock[c] = "in" => Interrupt(c))
            \/ inbox' = Nothing
            \/ /\ TimedOut(c) \/ NoPong(c) \/ Interrupt(c)
               /\ inbox' = Abandoned(c)
            \/ Deliver(c)
<1>1. inbox \in [Slots -> Requests]
  BY DEF LifeTypeOK
<1>2. CASE Deliver(c)
  <2>1. Wanted(c) \in Ops
    <3>1. step[c] \in Asking
      BY <1>2 DEF Deliver, ClientShape
    <3> QED BY <3>1 DEF Wanted, OpOf, Ops, Asking
  <2>2. [from |-> c, op |-> Wanted(c), live |-> TRUE] \in Requests
    BY <2>1 DEF Requests
  <2>3. \E i \in Slots : inbox' = [inbox EXCEPT ![i] = [from |-> c, op |-> Wanted(c), live |-> TRUE]]
    BY <1>2 DEF Deliver
  <2> QED BY <1>1, <1>2, <2>2, <2>3
<1>3. CASE TimedOut(c) \/ NoPong(c)
  <2>1. inbox' = Abandoned(c)
    BY <1>3 DEF TimedOut, NoPong
  <2> QED BY <1>1, <1>3, <2>1, Abandons
<1>4. CASE Interrupt(c)
  <2>1. inbox' = Nothing \/ inbox' = Abandoned(c)
    BY <1>4 DEF Interrupt
  <2> QED BY <1>1, <1>4, <2>1, Abandons, NothingTyped
<1>5. CASE GiveUp(c) \/ Release(c)
  <2>1. PICK p : Terminate(p)
    BY <1>5 DEF GiveUp, Release
  <2>2. inbox' \in {inbox, Nothing}
    BY <2>1, Terminates
  <2>3. sock[c] = "closed"
    BY <1>5 DEF GiveUp, Release, ClientShape, Asking
  <2> QED BY <1>1, <2>2, <2>3, NothingTyped
<1>6. CASE Request(c) \/ Answered(c) \/ Pong(c) \/ Popen(c) \/ PopenFails(c) \/ Poll(c)
           \/ EnsureRaises(c)
  <2>1. inbox' = inbox /\ sock[c] # "in"
    BY <1>6 DEF Request, Answered, Pong, Popen, PopenFails, Poll, EnsureRaises, ClientShape
  <2> QED BY <1>1, <2>1
<1>7. CASE Launch(c) \/ Command(c) \/ EndSession(c)
  <2>1. inbox' = inbox /\ step[c] \notin Asking
    BY <1>7 DEF Launch, Command, EndSession, Asking
  <2>2. sock[c] = "closed"
    BY <2>1 DEF ClientShape
  <2> QED BY <1>1, <2>1, <2>2
<1> QED BY <1>2, <1>3, <1>4, <1>5, <1>6, <1>7 DEF ProgramStep, ClientStep

LEMMA OneServesStep ==
  ASSUME LifeTypeOK, \A c \in Programs : ClientShape(c), LiveFits, OneServes, LifeNext
  PROVE  OneServes'
<1>1. /\ procs \in [Procs -> Process] /\ inbox \in [Slots -> Requests]
  BY DEF LifeTypeOK
<1>2. ASSUME NEW p \in Procs, ByHand(p) \/ Bind(p) \/ ProcDies(p) PROVE OneServes'
  <2>1. \A q \in Procs : q # p => procs'[q] = procs[q]
    BY <1>2, ProcessesTyped
  <2>2. CASE ByHand(p)
    <3>1. CASE procs' = Started(p, Nobody)
      <4>1. procs[p].st = "gone" /\ inbox' = inbox
        BY <2>2 DEF ByHand, Free
      <4>2. procs'[p].st = "starting" /\ procs'[p].cam = "closed"
        BY <1>1, <3>1, ProcessStarts
      <4>3. Serving' = Serving
        BY <2>1, <4>1, <4>2 DEF Serving
      <4> QED BY <2>1, <4>1, <4>2, <4>3 DEF OneServes
    <3>2. CASE Serving = {} /\ procs' = [procs EXCEPT ![p] = [by |-> Nobody, st |-> "serving", cam |-> "left"]]
      <4>1. procs'[p].st = "serving"
        BY <1>1, <3>2
      <4>2. Serving' = {p}
        BY <2>1, <3>2, <4>1 DEF Serving
      <4> QED BY <2>1, <4>1, <4>2 DEF OneServes
    <3> QED BY <2>2, <3>1, <3>2 DEF ByHand
  <2>3. CASE Bind(p)
    <3>1. CASE Serving = {} /\ procs' = [procs EXCEPT ![p].st = "serving"]
      <4>1. procs'[p].st = "serving"
        BY <1>1, <3>1 DEF Process
      <4>2. Serving' = {p}
        BY <2>1, <3>1, <4>1 DEF Serving
      <4> QED BY <2>1, <4>1, <4>2 DEF OneServes
    <3>2. CASE procs' = Ended(p, "gone")
      <4>1. procs[p].st = "starting" /\ inbox' = inbox
        BY <2>3 DEF Bind
      <4>2. procs'[p].st = "gone" /\ procs'[p].cam = "closed"
        BY <1>1, <3>2, ProcessEnds
      <4>3. Serving' = Serving
        BY <2>1, <4>1, <4>2 DEF Serving
      <4> QED BY <2>1, <4>1, <4>2, <4>3 DEF OneServes
    <3> QED BY <2>3, <3>1, <3>2 DEF Bind
  <2>4. CASE ProcDies(p)
    <3>1. procs'[p].st = "gone" /\ procs'[p].cam = "closed" /\ inbox' = InboxWithout(p)
      BY <1>1, <2>4, ProcessEnds DEF ProcDies
    <3>2. Serving' = Serving \ {p}
      BY <2>1, <3>1 DEF Serving
    <3>3. Serving' = {} => inbox' = Nothing
      BY <3>1, <3>2 DEF OneServes, Serving, InboxWithout
    <3> QED BY <2>1, <3>1, <3>2, <3>3 DEF OneServes
  <2> QED BY <1>2, <2>2, <2>3, <2>4
<1>3. ASSUME NEW i \in Slots, Serve(i) PROVE OneServes'
  <2>1. PICK p \in Serving :
          /\ procs'[p].st = procs[p].st
          /\ \A q \in Procs : q # p => procs'[q] = procs[q]
    BY <1>3, ServedTyped
  <2>2. Serving' = Serving
    BY <2>1 DEF Serving
  <2> QED BY <2>1, <2>2 DEF OneServes, Serving
<1>4. ASSUME NEW c \in Programs, ProgramStep(c) PROVE OneServes'
  <2>1. ASSUME NEW p \in Procs
        PROVE  \/ procs'[p] = procs[p]
               \/ procs'[p].st # "serving" /\ procs'[p].cam = "closed"
    BY <1>4, ProgramsProcesses
  <2>2. Serving' \subseteq Serving
    BY <2>1 DEF Serving
  <2>3. ASSUME Serving = {} PROVE inbox' = Nothing
    <3>1. inbox = Nothing /\ ~ Deliver(c)
      BY <2>3 DEF OneServes, Deliver
    <3> QED BY <1>1, <1>4, <3>1, ProgramsInbox, Abandons
  <2>4. ASSUME NEW p \in Serving, p \notin Serving' PROVE inbox' = Nothing
    <3>1. p \in Procs /\ procs[p].st = "serving" /\ procs'[p].st # "serving"
      BY <2>4 DEF Serving
    <3>2. GiveUp(c) \/ Release(c) \/ Interrupt(c)
      BY <1>4, <3>1, ProgramsProcesses DEF Free
    <3>3. CASE GiveUp(c) \/ Release(c)
      <4>1. PICK x : Terminate(x)
        BY <3>3 DEF GiveUp, Release
      <4>2. x = p /\ inbox' = InboxWithout(x)
        BY <3>1, <4>1, Terminates
      <4> QED BY <3>1, <4>2 DEF InboxWithout
    <3>4. CASE Interrupt(c)
      <4>1. procs[p].by = c
        BY <3>1, <3>4 DEF Interrupt
      <4> QED BY <2>4, <3>4, <4>1 DEF Interrupt
    <3> QED BY <3>2, <3>3, <3>4
  <2> QED BY <2>1, <2>2, <2>3, <2>4 DEF OneServes
<1> QED BY <1>2, <1>3, <1>4 DEF LifeNext, ProgramStep

LEMMA LiveStep ==
  ASSUME LifeTypeOK, \A c \in Programs : ClientShape(c), LiveFits, LifeNext
  PROVE  LiveFits'
<1>1. inbox \in [Slots -> Requests] /\ ProgramsTyped
  BY SidecarOnly DEF LifeTypeOK
<1>2. inbox' = Nothing => LiveFits'
  BY NothingTyped DEF LiveFits, LiveAt
<1>3. ASSUME NEW p \in Procs, ByHand(p) \/ Bind(p) \/ ProcDies(p) PROVE LiveFits'
  <2>1. inbox' \in {inbox, Nothing}
    BY <1>3 DEF ByHand, Bind, ProcDies, InboxWithout
  <2>2. UNCHANGED <<sock, at, step>>
    BY <1>3, ProcessesTyped DEF clientVars, progVars
  <2> QED BY <1>2, <2>1, <2>2 DEF LiveFits, LiveAt, Wanted
<1>4. ASSUME NEW i \in Slots, Serve(i) PROVE LiveFits'
  <2>1. /\ UNCHANGED <<at, step>> /\ inbox'[i] = NoRequest
        /\ \A j \in Slots : j # i => inbox'[j] = inbox[j]
    BY <1>4, ServedTyped DEF progVars
  <2>2. \A c \in Programs : ~ (inbox[i].live /\ c = inbox[i].from) => sock'[c] = sock[c]
    BY <1>4, ServedTyped
  <2>3. ASSUME NEW j \in Slots, inbox'[j].live PROVE j # i /\ inbox'[j] = inbox[j]
    BY <2>1, <2>3, NothingTyped
  <2>4. ASSUME NEW j \in Slots, inbox'[j].live PROVE LiveAt(j)'
    <3>1. inbox'[j] = inbox[j] /\ j # i
      BY <2>3, <2>4
    <3>2. inbox[j].from \in Programs /\ sock[inbox[j].from] = "in"
          /\ inbox[j].op = Wanted(inbox[j].from)
      BY <2>4, <3>1 DEF LiveFits, LiveAt
    <3>3. ~ (inbox[i].live /\ inbox[j].from = inbox[i].from)
      BY <2>4, <3>1 DEF LiveFits, LiveAt
    <3>4. PICK d : d = inbox[j].from
      OBVIOUS
    <3>7. Wanted(d)' = Wanted(d)
      BY <2>1 DEF Wanted
    <3>5. sock'[inbox[j].from] = "in"
      BY <2>2, <3>2, <3>3
    <3>6. ASSUME NEW k \in Slots, inbox'[k].live, inbox'[k].from = inbox'[j].from PROVE k = j
      BY <2>3, <2>4, <3>1, <3>6 DEF LiveFits, LiveAt
    <3> QED BY <3>1, <3>2, <3>4, <3>5, <3>6, <3>7 DEF LiveAt, Wanted
  <2> QED BY <2>4 DEF LiveFits, LiveAt
<1>5. ASSUME NEW c \in Programs, ProgramStep(c) PROVE LiveFits'
  <2>1. Others(c)
    BY <1>5, ProgramsStayTyped
  <2>2. ASSUME NEW d \in Programs, d # c PROVE sock'[d] = sock[d] /\ Wanted(d)' = Wanted(d)
    BY <2>1, <2>2 DEF Others, Wanted
  \* What is left of the inbox holds nothing of c.
  <2>3. ASSUME \A j \in Slots : inbox'[j].live => inbox'[j] = inbox[j] /\ inbox[j].from # c
        PROVE  LiveFits'
    <3>1. ASSUME NEW j \in Slots, inbox'[j].live PROVE LiveAt(j)'
      <4>1. PICK d \in Programs : /\ d = inbox[j].from /\ d # c /\ inbox'[j] = inbox[j]
                                  /\ sock[d] = "in" /\ inbox[j].op = Wanted(d)
        BY <2>3, <3>1 DEF LiveFits, LiveAt
      <4>2. sock'[d] = "in" /\ inbox'[j].op = Wanted(d)'
        BY <2>2, <4>1
      <4>3. ASSUME NEW k \in Slots, inbox'[k].live, inbox'[k].from = inbox'[j].from PROVE k = j
        BY <2>3, <3>1, <4>3 DEF LiveFits, LiveAt
      <4> QED BY <4>1, <4>2, <4>3 DEF LiveAt, Wanted
    <3> QED BY <3>1 DEF LiveFits, LiveAt
  <2>4. CASE TimedOut(c) \/ NoPong(c) \/ Interrupt(c)
    <3>1. inbox' = Nothing \/ inbox' = Abandoned(c)
      BY <2>4 DEF TimedOut, NoPong, Interrupt
    <3>2. CASE inbox' = Abandoned(c)
      BY <1>1, <2>3, <3>2, Abandons
    <3> QED BY <1>2, <3>1, <3>2
  <2>5. CASE inbox' = inbox /\ sock[c] # "in"
    BY <2>3, <2>5 DEF LiveFits, LiveAt
  <2>6. CASE Deliver(c)
    <3>1. /\ sock[c] = "out" /\ sock'[c] = "in" /\ UNCHANGED <<at, step>>
      BY <1>1, <2>6 DEF Deliver, progVars, ProgramsTyped
    <3>2. PICK i \in Slots : /\ inbox'[i] = [from |-> c, op |-> Wanted(c), live |-> TRUE]
                             /\ \A j \in Slots : j # i => inbox'[j] = inbox[j]
      BY <1>1, <2>6 DEF Deliver
    <3>3. inbox'[i].from = c /\ inbox'[i].op = Wanted(c)
      BY <3>2
    <3>4. Wanted(c)' = Wanted(c)
      BY <3>1 DEF Wanted
    <3>5. ASSUME NEW j \in Slots, inbox[j].live PROVE inbox[j].from # c
      BY <3>1, <3>5 DEF LiveFits, LiveAt
    <3>6. ASSUME NEW j \in Slots, inbox'[j].live PROVE LiveAt(j)'
      <4>1. CASE j = i
        <5>1. \A k \in Slots : inbox'[k].live /\ inbox'[k].from = c => k = i
          BY <3>2, <3>5
        <5> QED BY <3>1, <3>3, <3>4, <4>1, <5>1 DEF LiveAt, Wanted
      <4>2. CASE j # i
        <5>1. PICK d \in Programs : /\ d = inbox[j].from /\ d # c /\ inbox'[j] = inbox[j]
                                    /\ sock[d] = "in" /\ inbox[j].op = Wanted(d)
          BY <3>2, <3>5, <3>6, <4>2 DEF LiveFits, LiveAt
        <5>2. sock'[d] = "in" /\ inbox'[j].op = Wanted(d)'
          BY <2>2, <5>1
        <5>3. ASSUME NEW k \in Slots, inbox'[k].live, inbox'[k].from = inbox'[j].from PROVE k = j
          BY <3>2, <3>3, <3>6, <4>2, <5>1, <5>3 DEF LiveFits, LiveAt
        <5> QED BY <5>1, <5>2, <5>3 DEF LiveAt, Wanted
      <4> QED BY <4>1, <4>2
    <3> QED BY <3>6 DEF LiveFits, LiveAt
  <2> QED BY <1>2, <1>5, <2>4, <2>5, <2>6, ProgramsInbox
<1> QED BY <1>3, <1>4, <1>5 DEF LifeNext, ProgramStep

-----------------------------------------------------------------------------
(* Sessions and the camera.                                                 *)

LEMMA LostStays ==
  ASSUME LifeTypeOK, LifeNext
  PROVE  lost => lost'
BY DEF LifeNext, ByHand, Bind, ProcDies, Serve, ClientStep, Request, Answered, TimedOut, Pong,
       NoPong, Popen, PopenFails, Poll, GiveUp, EnsureRaises, Release, Deliver, Launch, Command,
       EndSession, Interrupt, GivenUp, progVars

\* A client that sends OpenCamera is at that step of its program.
LEMMA WantedStep ==
  ASSUME NEW c \in Programs, ClientShape(c), sock[c] # "closed"
  PROVE  /\ at[c] \in {"request", "ping", "poll"} /\ step[c] \in Asking
         /\ Wanted(c) = "OpenCamera" => at[c] = "request" /\ step[c] = "open"
         /\ Wanted(c) = "StartStream" => at[c] = "request" /\ step[c] = "stream"
         /\ at[c] = "request" /\ step[c] = "close" => Wanted(c) = "CloseCamera"
BY DEF ClientShape, Wanted, OpOf, Asking

LEMMA OrphansStep ==
  ASSUME LifeTypeOK, \A c \in Programs : ClientShape(c), LiveFits, OrphansOpenNothing, LifeNext
  PROVE  OrphansOpenNothing'
<1>1. inbox \in [Slots -> Requests] /\ (lost => lost')
  BY LostStays DEF LifeTypeOK
<1>2. CASE inbox' = Nothing
  BY <1>2, NothingTyped DEF OrphansOpenNothing
<1>3. CASE inbox' = inbox
  BY <1>1, <1>3 DEF OrphansOpenNothing
<1>4. ASSUME NEW p \in Procs, ByHand(p) \/ Bind(p) \/ ProcDies(p) PROVE OrphansOpenNothing'
  <2>1. inbox' \in {inbox, Nothing}
    BY <1>4 DEF ByHand, Bind, ProcDies, InboxWithout
  <2> QED BY <1>2, <1>3, <2>1
<1>5. ASSUME NEW i \in Slots, Serve(i) PROVE OrphansOpenNothing'
  <2>1. inbox'[i] = NoRequest /\ \A j \in Slots : j # i => inbox'[j] = inbox[j]
    BY <1>5, ServedTyped
  <2> QED BY <1>1, <2>1, NothingTyped DEF OrphansOpenNothing
<1>6. ASSUME NEW c \in Programs, ProgramStep(c) PROVE OrphansOpenNothing'
  <2>1. CASE Deliver(c)
    <3>1. PICK i \in Slots : inbox' = [inbox EXCEPT ![i] = [from |-> c, op |-> Wanted(c), live |-> TRUE]]
      BY <2>1 DEF Deliver
    <3>2. inbox'[i].live = TRUE /\ \A j \in Slots : j # i => inbox'[j] = inbox[j]
      BY <1>1, <3>1
    <3> QED BY <1>1, <3>2 DEF OrphansOpenNothing
  <2>2. CASE inbox' = Abandoned(c) /\ (TimedOut(c) \/ NoPong(c) \/ Interrupt(c))
    <3> SUFFICES ASSUME NEW i \in Slots, inbox'[i].op = "OpenCamera", ~ inbox'[i].live
                 PROVE  lost'
      BY DEF OrphansOpenNothing
    <3>1. inbox[i].op = "OpenCamera" /\ (~ inbox[i].live \/ inbox[i].from = c)
      BY <1>1, <2>2, Abandons
    <3>2. CASE ~ inbox[i].live
      BY <1>1, <3>1, <3>2 DEF OrphansOpenNothing
    <3>3. CASE inbox[i].live
      <4>1. sock[c] = "in" /\ Wanted(c) = "OpenCamera"
        BY <3>1, <3>3 DEF LiveFits, LiveAt
      <4>2. at[c] = "request" /\ step[c] = "open"
        BY <4>1, WantedStep
      <4>3. ~ NoPong(c)
        BY <4>2 DEF NoPong
      <4>4. CASE TimedOut(c)
        BY <4>2, <4>4 DEF TimedOut, GivenUp, OpOf
      <4>5. CASE Interrupt(c)
        BY <4>2, <4>5 DEF Interrupt
      <4> QED BY <2>2, <4>3, <4>4, <4>5
    <3> QED BY <3>2, <3>3
  <2> QED BY <1>2, <1>3, <1>6, <2>1, <2>2, ProgramsInbox
<1> QED BY <1>4, <1>5, <1>6 DEF LifeNext, ProgramStep

LEMMA ProgramKeepsSession ==
  ASSUME LifeTypeOK, NEW c \in Programs, ClientShape(c), SessionFits(c), ProgramStep(c)
  PROVE  SessionFits(c)'
<1>1. ProgramsTyped /\ Guis \cap Scripts = {}
  BY SidecarOnly, LifecycleAssumption
<1> USE DEF ProgramsTyped, SessionFits
<1>2. CASE Answered(c) \/ TimedOut(c) \/ EnsureRaises(c)
  <2>1. PICK good \in BOOLEAN : Proceed(c, good)
    BY <1>2 DEF Answered, TimedOut, EnsureRaises
  <2>2. /\ step'[c] = IF good THEN AfterSuccess(c, step[c]) ELSE AfterFailure(c, step[c])
        /\ flags'[c].camera = (flags[c].camera \/ (good /\ c \in Guis /\ step[c] = "open"))
        /\ at'[c] = "idle"
    BY <2>1, StepsTyped
  <2>3. \A u : AfterFailure(c, u) \in {"release", "close", "stop", "running", "idle"}
    BY <1>1 DEF AfterFailure, ShutdownFrom
  <2>4. step'[c] # "exit"
    BY <2>2, <2>3 DEF AfterSuccess
  <2>5. ASSUME c \in Guis, step'[c] \in {"info", "stream"} PROVE flags'[c].camera
    <3>1. good
      BY <2>2, <2>3, <2>5
    <3>2. step'[c] = AfterSuccess(c, step[c])
      BY <2>2, <3>1
    <3>3. step[c] \in {"open", "info"}
      BY <2>3, <2>5, <3>2 DEF AfterSuccess
    <3> QED BY <2>2, <2>5, <3>1, <3>3
  <2> QED BY <2>2, <2>4, <2>5
<1>3. CASE Release(c)
  <2>1. flags'[c] = NoFlags /\ step'[c] \in {"exit", "idle"}
    BY <1>1, <1>3 DEF Release
  <2>2. ~ flags'[c].camera
    BY <2>1 DEF NoFlags
  <2> QED BY <2>1, <2>2
<1>4. CASE Launch(c) \/ Command(c) \/ EndSession(c)
  <2>1. step'[c] \in {"open", "command", "stop", "close", "release"} /\ step[c] \notin Asking
    BY <1>1, <1>4 DEF Launch, Command, EndSession, ShutdownFrom, Asking
  <2>2. at'[c] = "idle"
    BY <1>4, <2>1 DEF Launch, Command, EndSession, ClientShape, clientVars
  <2> QED BY <2>1, <2>2
<1>5. CASE Interrupt(c)
  <2>1. step'[c] = "stop"
    BY <1>1, <1>5 DEF Interrupt
  <2> QED BY <2>1
<1>6. CASE Request(c) \/ Poll(c) \/ Deliver(c) \/ Pong(c)
  <2>1. sock'[c] \in {"out", "in"}
    BY <1>1, <1>6 DEF Request, Poll, Deliver, Pong, Ensured, Send
  <2>2. UNCHANGED <<step, flags>>
    BY <1>6 DEF Request, Poll, Deliver, Pong, Ensured, progVars
  <2> QED BY <2>1, <2>2
<1>7. CASE NoPong(c) \/ Popen(c) \/ PopenFails(c) \/ GiveUp(c)
  <2>1. at'[c] # "request"
    BY <1>1, <1>7 DEF NoPong, Popen, PopenFails, GiveUp
  <2>2. UNCHANGED <<step, flags>>
    BY <1>7 DEF NoPong, Popen, PopenFails, GiveUp, progVars
  <2> QED BY <2>1, <2>2
<1> QED BY <1>2, <1>3, <1>4, <1>5, <1>6, <1>7 DEF ProgramStep, ClientStep

LEMMA SessionsStep ==
  ASSUME LifeTypeOK, \A c \in Programs : ClientShape(c), LiveFits,
         \A c \in Programs : SessionFits(c), LifeNext
  PROVE  \A c \in Programs : SessionFits(c)'
<1>1. CASE ProcessStep
  BY <1>1, ProcessesTyped DEF ProcessStep, SessionFits, clientVars, progVars
<1>2. ASSUME NEW i \in Slots, Serve(i), NEW c \in Programs PROVE SessionFits(c)'
  <2>1. UNCHANGED <<at, step, flags>>
    BY <1>2, ServedTyped DEF progVars
  <2>2. CASE ~ (inbox[i].live /\ c = inbox[i].from)
    <3>1. sock'[c] = sock[c]
      BY <1>2, <2>2, ServedTyped
    <3> QED BY <2>1, <3>1 DEF SessionFits
  <2>3. CASE inbox[i].live /\ c = inbox[i].from
    <3>1. sock[c] = "in" /\ inbox[i].op = Wanted(c)
      BY <2>3 DEF LiveFits, LiveAt
    <3>2. PICK p \in Serving : \E a \in Answers(inbox[i].op, procs[p].cam) :
            sock'[c] = IF a.good THEN "ok" ELSE "refused"
      BY <1>2, <2>3, ServedTyped
    <3>3. procs[p].cam \in Cams /\ inbox[i].op \in Ops
      BY DEF LifeTypeOK, Process, Cams, Requests, Serving
    <3>4. inbox[i].op = "CloseCamera" => sock'[c] = "ok"
      BY <3>2, <3>3, AnswersAre
    <3>5. step[c] = "close" /\ at[c] = "request" => sock'[c] = "ok"
      BY <3>1, <3>4, WantedStep
    <3> QED BY <2>1, <3>5 DEF SessionFits
  <2> QED BY <2>2, <2>3
<1>3. ASSUME NEW c \in Programs, ProgramStep(c)
      PROVE  \A d \in Programs : SessionFits(d)'
  <2>1. SessionFits(c)' /\ Others(c)
    BY <1>3, ProgramKeepsSession, ProgramsStayTyped
  <2>2. ASSUME NEW d \in Programs, d # c PROVE SessionFits(d)'
    BY <2>1, <2>2 DEF Others, SessionFits
  <2> QED BY <2>1, <2>2
<1> QED BY <1>1, <1>2, <1>3 DEF LifeNext, ProcessStep, ProgramStep

\* Who is responsible stays so, unless its CloseCamera is given up.
LEMMA StillResponsible ==
  ASSUME LifeTypeOK, NEW c \in Programs, ClientShape(c), SessionFits(c), ProgramStep(c),
         Responsible(c), ~ lost'
  PROVE  Responsible(c)'
<1>1. ProgramsTyped /\ Guis \cap Scripts = {} /\ c \in Guis \cup Scripts
  BY SidecarOnly, LifecycleAssumption DEF Programs
<1> USE DEF ProgramsTyped, Responsible, ClosingAnswered
<1>2. CASE Answered(c)
  <2>1. /\ at[c] = "request" /\ sock[c] \in {"ok", "refused"} /\ Proceed(c, sock[c] = "ok")
    BY <1>2 DEF Answered
  <2>2. PICK good \in BOOLEAN : good = (sock[c] = "ok") /\ Proceed(c, good)
    BY <2>1
  <2>3. /\ step'[c] = IF good THEN AfterSuccess(c, step[c]) ELSE AfterFailure(c, step[c])
        /\ flags'[c].camera = (flags[c].camera \/ (good /\ c \in Guis /\ step[c] = "open"))
        /\ at'[c] = "idle"
    BY <2>2, StepsTyped
  <2>4. step[c] # "close" /\ step[c] \in Asking
    BY <2>1 DEF SessionFits, ClientShape, Asking
  <2>5. CASE c \in Scripts
    <3>1. step'[c] \in {"stream", "running", "command", "stop", "close"}
      BY <1>1, <2>2, <2>3, <2>4, <2>5 DEF AfterSuccess, AfterFailure, Asking
    <3> QED BY <2>3, <2>5, <3>1
  <2>6. CASE c \in Guis
    <3>1. flags'[c].camera
      BY <1>1, <2>2, <2>3, <2>6
    <3>2. flags[c].camera \/ (good /\ step[c] = "open")
      BY <2>3, <3>1
    <3>3. step'[c] # "release"
      BY <1>1, <2>3, <2>4, <2>6, <3>2 DEF AfterSuccess, AfterFailure, ShutdownFrom, Asking
    <3> QED BY <2>3, <2>6, <3>1, <3>3
  <2> QED BY <1>1, <2>5, <2>6
<1>3. CASE TimedOut(c) \/ EnsureRaises(c)
  <2>1. /\ Proceed(c, FALSE) /\ lost' = GivenUp(OpOf(step[c])) /\ at[c] # "idle"
    BY <1>3 DEF TimedOut, EnsureRaises
  <2>2. /\ step'[c] = AfterFailure(c, step[c]) /\ at'[c] = "idle"
        /\ flags'[c].camera = flags[c].camera
    BY <1>1, <2>1, StepsTyped
  <2>3. step[c] \in Asking \ {"open", "close"}
    BY <2>1 DEF GivenUp, OpOf, ClientShape, Asking
  <2>4. CASE c \in Scripts
    BY <1>1, <2>2, <2>3, <2>4 DEF AfterFailure, Asking
  <2>5. CASE c \in Guis
    <3>1. flags[c].camera
      BY <1>1, <2>3, <2>5
    <3>2. step'[c] # "release"
      BY <1>1, <2>2, <2>3, <2>5, <3>1 DEF AfterFailure, ShutdownFrom, Asking
    <3> QED BY <2>2, <2>5, <3>1, <3>2
  <2> QED BY <1>1, <2>4, <2>5
<1>4. CASE Release(c)
  BY <1>4 DEF Release
<1>5. CASE Launch(c) \/ Command(c) \/ EndSession(c)
  <2>1. /\ step[c] \notin Asking /\ UNCHANGED <<at, flags>>
    BY <1>5 DEF Launch, Command, EndSession, Asking, clientVars
  <2>2. at'[c] = "idle"
    BY <2>1 DEF ClientShape
  <2>3. CASE c \in Scripts
    <3>1. step'[c] \in {"command", "stop"}
      BY <1>1, <1>5, <2>1, <2>3 DEF Launch, Command, EndSession, Asking
    <3> QED BY <2>2, <2>3, <3>1
  <2>4. CASE c \in Guis
    <3>1. flags[c].camera
      BY <1>1, <2>1, <2>4 DEF Asking
    <3>2. step'[c] # "release"
      BY <1>1, <1>5, <2>4, <3>1 DEF Launch, Command, EndSession, ShutdownFrom
    <3> QED BY <2>1, <2>2, <2>4, <3>1, <3>2
  <2> QED BY <1>1, <2>3, <2>4
<1>6. CASE Interrupt(c)
  <2>1. c \in Scripts /\ step'[c] = "stop"
    BY <1>1, <1>6 DEF Interrupt
  <2> QED BY <2>1
<1>7. CASE Request(c) \/ Poll(c) \/ Deliver(c) \/ Pong(c)
  <2>1. sock'[c] \in {"out", "in"}
    BY <1>1, <1>7 DEF Request, Poll, Deliver, Pong, Ensured, Send
  <2>2. UNCHANGED <<step, flags>>
    BY <1>7 DEF Request, Poll, Deliver, Pong, Ensured, progVars
  <2>3. ~ (at[c] = "request" /\ sock[c] = "ok")
    BY <1>7 DEF Request, Poll, Deliver, Pong
  <2> QED BY <2>1, <2>2, <2>3
<1>8. CASE NoPong(c) \/ Popen(c) \/ PopenFails(c) \/ GiveUp(c)
  <2>1. at'[c] # "request" /\ at[c] # "request"
    BY <1>1, <1>8 DEF NoPong, Popen, PopenFails, GiveUp
  <2>2. UNCHANGED <<step, flags>>
    BY <1>8 DEF NoPong, Popen, PopenFails, GiveUp, progVars
  <2> QED BY <2>1, <2>2
<1> QED BY <1>2, <1>3, <1>4, <1>5, <1>6, <1>7, <1>8 DEF ProgramStep, ClientStep

\* Serving anything but a CloseCamera leaves the responsible ones responsible.
LEMMA ServedResponsible ==
  ASSUME LifeTypeOK, LiveFits, NEW i \in Slots, Serve(i), NEW c \in Programs, ClientShape(c),
         Responsible(c), inbox[i].op # "CloseCamera"
  PROVE  Responsible(c)'
<1>1. UNCHANGED <<at, step, flags>>
  BY ServedTyped DEF progVars
<1>2. CASE ~ (inbox[i].live /\ c = inbox[i].from)
  <2>1. sock'[c] = sock[c]
    BY <1>2, ServedTyped
  <2> QED BY <1>1, <2>1 DEF Responsible, ClosingAnswered
<1>3. CASE inbox[i].live /\ c = inbox[i].from
  <2>1. sock[c] = "in" /\ inbox[i].op = Wanted(c)
    BY <1>3 DEF LiveFits, LiveAt
  <2>2. ~ (step[c] = "close" /\ at[c] = "request")
    BY <2>1, WantedStep
  <2> QED BY <1>1, <2>1, <2>2 DEF Responsible, ClosingAnswered
<1> QED BY <1>2, <1>3

LEMMA HotStep ==
  ASSUME LifeInv, LifeNext
  PROVE  HotIsOwned'
<1>1. /\ LifeTypeOK /\ LiveFits /\ OneServes /\ OrphansOpenNothing /\ HotIsOwned
      /\ procs \in [Procs -> Process] /\ inbox \in [Slots -> Requests]
      /\ \A c \in Programs : ClientShape(c) /\ SessionFits(c)
      /\ lost => lost'
  BY LostStays DEF LifeInv, LifeTypeOK
<1> SUFFICES ASSUME NEW p \in Procs, Hot(p)', ~ lost'
             PROVE  \E c \in Programs : Responsible(c)'
  BY DEF HotIsOwned
<1>2. ASSUME NEW q \in Procs, Hot(q) PROVE \E c \in Programs : Responsible(c)
  BY <1>1, <1>2 DEF HotIsOwned
<1>3. ASSUME NEW q \in Procs, ByHand(q) \/ Bind(q) \/ ProcDies(q)
      PROVE  \E c \in Programs : Responsible(c)'
  <2>1. /\ \A r \in Procs : r # q => procs'[r] = procs[r]
        /\ UNCHANGED <<at, sock, step, flags>>
    BY <1>1, <1>3, ProcessesTyped DEF clientVars, progVars
  <2>2. inbox' \in {inbox, Nothing}
    BY <1>3 DEF ByHand, Bind, ProcDies, InboxWithout
  <2>3. \A j \in Slots : inbox'[j].op = "StartStream" => inbox[j].op = "StartStream"
    BY <2>2, NothingTyped
  <2>4. procs'[q].cam = "closed" \/ (procs'[q].cam = "left" /\ inbox' = Nothing)
    <3>1. CASE ByHand(q)
      <4>1. CASE procs' = Started(q, Nobody)
        BY <1>1, <4>1, ProcessStarts
      <4>2. CASE Serving = {} /\ procs' = [procs EXCEPT ![q] = [by |-> Nobody, st |-> "serving", cam |-> "left"]]
        <5>1. procs'[q].cam = "left"
          BY <1>1, <4>2
        <5>2. inbox' = Nothing
          BY <1>1, <3>1, <4>2 DEF ByHand, OneServes
        <5> QED BY <5>1, <5>2
      <4> QED BY <3>1, <4>1, <4>2 DEF ByHand
    <3>2. CASE Bind(q)
      <4>1. procs[q].cam = "closed"
        BY <1>1, <3>2 DEF Bind, OneServes
      <4>2. CASE procs' = [procs EXCEPT ![q].st = "serving"]
        BY <1>1, <4>1, <4>2 DEF Process
      <4>3. CASE procs' = Ended(q, "gone")
        BY <1>1, <4>3, ProcessEnds
      <4> QED BY <3>2, <4>2, <4>3 DEF Bind
    <3>3. CASE ProcDies(q)
      BY <1>1, <3>3, ProcessEnds DEF ProcDies
    <3> QED BY <1>3, <3>1, <3>2, <3>3
  <2>5. p # q
    BY <2>4, NothingTyped DEF Hot
  <2>6. Hot(p)
    BY <2>1, <2>3, <2>5 DEF Hot
  <2>7. PICK c \in Programs : Responsible(c)
    BY <1>2, <2>6
  <2> QED BY <2>1, <2>7 DEF Responsible, ClosingAnswered
<1>4. ASSUME NEW i \in Slots, Serve(i)
      PROVE  \E c \in Programs : Responsible(c)'
  <2>1. PICK q \in Serving : \E a \in Answers(inbox[i].op, procs[q].cam) :
          /\ procs'[q].cam = a.cam
          /\ \A r \in Procs : r # q => procs'[r] = procs[r]
          /\ \A c \in Programs : sock'[c] =
               IF inbox[i].live /\ c = inbox[i].from
               THEN (IF a.good THEN "ok" ELSE "refused") ELSE sock[c]
    BY <1>1, <1>4, ServedTyped
  <2>2. PICK a \in Answers(inbox[i].op, procs[q].cam) :
          /\ procs'[q].cam = a.cam
          /\ \A r \in Procs : r # q => procs'[r] = procs[r]
          /\ \A c \in Programs : sock'[c] =
               IF inbox[i].live /\ c = inbox[i].from
               THEN (IF a.good THEN "ok" ELSE "refused") ELSE sock[c]
    BY <2>1
  <2>3. /\ UNCHANGED <<at, step, flags, lost>> /\ inbox'[i] = NoRequest
        /\ \A j \in Slots : j # i => inbox'[j] = inbox[j]
    BY <1>1, <1>4, ServedTyped DEF progVars
  <2>4. q \in Procs /\ procs[q].cam \in Cams /\ inbox[i].op \in Ops
    BY <1>1 DEF Process, Cams, Requests, Serving
  <2>5. p = q
    <3>1. ASSUME p # q PROVE FALSE
      <4>1. procs'[p] = procs[p] /\ p \notin Serving
        BY <1>1, <2>2, <3>1 DEF OneServes
      <4>2. procs[p].cam = "closed"
        BY <1>1, <4>1 DEF OneServes, Serving
      <4> QED BY <4>1, <4>2 DEF Hot
    <3> QED BY <3>1
  <2>6. \A j \in Slots : inbox'[j].op = "StartStream" => inbox[j].op = "StartStream"
    BY <2>3, NothingTyped
  <2>7. CASE inbox[i].op = "OpenCamera"
    <3>1. a.good
      <4>1. ~ a.good => procs'[p].cam = "closed"
        BY <2>2, <2>4, <2>5, <2>7, AnswersAre
      <4> QED BY <4>1 DEF Hot
    <3>2. inbox[i].live
      BY <1>1, <2>3, <2>7 DEF OrphansOpenNothing
    <3>3. PICK c \in Programs : c = inbox[i].from /\ sock[c] = "in" /\ Wanted(c) = "OpenCamera"
      BY <1>1, <2>7, <3>2 DEF LiveFits, LiveAt
    <3>4. at[c] = "request" /\ step[c] = "open"
      BY <1>1, <3>3, WantedStep
    <3>5. sock'[c] = "ok"
      BY <2>2, <3>1, <3>2, <3>3
    <3> QED BY <2>3, <3>4, <3>5 DEF Responsible
  <2>8. CASE inbox[i].op # "OpenCamera"
    <3>1. inbox[i].op # "CloseCamera"
      <4>1. inbox[i].op = "CloseCamera" => procs'[p].cam = "closed"
        BY <2>2, <2>4, <2>5, AnswersAre
      <4> QED BY <4>1 DEF Hot
    <3>2. Hot(p)
      <4>1. CASE inbox[i].op = "StartStream"
        <5>1. procs'[p].cam = procs[p].cam \/ (procs'[p].cam = "streaming" /\ procs[p].cam # "closed")
          BY <2>2, <2>4, <2>5, <4>1, AnswersAre
        <5> QED BY <2>4, <2>5, <2>6, <4>1, <5>1 DEF Hot, Cams
      <4>2. CASE inbox[i].op # "StartStream"
        <5>1. procs'[p].cam = procs[p].cam \/ (procs'[p].cam = "open" /\ procs[p].cam = "streaming")
          BY <2>2, <2>4, <2>5, <2>8, <3>1, <4>2, AnswersAre
        <5> QED BY <2>6, <5>1 DEF Hot
      <4> QED BY <4>1, <4>2
    <3>3. PICK c \in Programs : Responsible(c)
      BY <1>2, <3>2
    <3> QED BY <1>1, <1>4, <3>1, <3>3, ServedResponsible
  <2> QED BY <2>7, <2>8
<1>5. ASSUME NEW c \in Programs, ProgramStep(c)
      PROVE  \E d \in Programs : Responsible(d)'
  <2>1. procs'[p] = procs[p]
    <3>1. procs'[p] = procs[p] \/ procs'[p].cam = "closed"
      BY <1>1, <1>5, ProgramsProcesses
    <3> QED BY <3>1 DEF Hot
  <2>2. CASE Hot(p)
    <3>1. PICK d \in Programs : Responsible(d)
      BY <1>2, <2>2
    <3>2. CASE d = c
      BY <1>1, <1>5, <3>1, <3>2, StillResponsible
    <3>3. CASE d # c
      <4>1. Others(c)
        BY <1>1, <1>5, ProgramsStayTyped
      <4> QED BY <3>1, <3>3, <4>1 DEF Others, Responsible, ClosingAnswered
    <3> QED BY <3>2, <3>3
  <2>3. CASE ~ Hot(p)
    <3>1. procs[p].cam = "left" /\ \E j \in Slots : inbox'[j].op = "StartStream" /\ inbox[j].op # "StartStream"
      BY <2>1, <2>3 DEF Hot
    <3>2. PICK j \in Slots : inbox'[j].op = "StartStream" /\ inbox[j].op # "StartStream"
      BY <3>1
    <3>3. Deliver(c)
      <4>1. inbox' # inbox /\ inbox' # Nothing
        BY <3>2, NothingTyped
      <4>2. inbox' # Abandoned(c)
        BY <1>1, <3>2, Abandons
      <4> QED BY <1>1, <1>5, <4>1, <4>2, ProgramsInbox
    <3>4. PICK i \in Slots : inbox' = [inbox EXCEPT ![i] = [from |-> c, op |-> Wanted(c), live |-> TRUE]]
      BY <3>3 DEF Deliver
    <3>5. Wanted(c) = "StartStream"
      <4>1. inbox'[i].op = Wanted(c) /\ \A k \in Slots : k # i => inbox'[k] = inbox[k]
        BY <1>1, <3>4
      <4> QED BY <3>2, <4>1
    <3>6. /\ step[c] = "stream" /\ sock[c] = "out" /\ UNCHANGED <<at, step, flags>>
      BY <1>1, <3>3, <3>5, WantedStep DEF Deliver, progVars
    <3>7. c \in Guis => flags[c].camera
      BY <1>1, <3>6 DEF SessionFits
    <3> QED BY <3>6, <3>7 DEF Responsible, ClosingAnswered, Programs
  <2> QED BY <2>2, <2>3
<1> QED BY <1>3, <1>4, <1>5 DEF LifeNext, ProgramStep

-----------------------------------------------------------------------------
(* The invariant.                                                           *)

LEMMA TypesStep ==
  ASSUME LifeTypeOK, \A c \in Programs : ClientShape(c), LiveFits, LifeNext
  PROVE  LifeTypeOK'
<1>1. ProgramsTyped
  BY SidecarOnly
<1>2. CASE ProcessStep
  BY <1>1, <1>2, ProcessesTyped
     DEF ProcessStep, LifeTypeOK, ProgramsTyped, clientVars, progVars
<1>3. ASSUME NEW i \in Slots, Serve(i) PROVE LifeTypeOK'
  <2>1. /\ UNCHANGED <<at, handle, try, cur, progVars, lost>> /\ procs' \in [Procs -> Process]
        /\ sock' \in [Programs -> Sockets] /\ inbox' \in [Slots -> Requests]
    BY <1>3, ServedTyped
  <2> QED BY <1>1, <2>1 DEF LifeTypeOK, ProgramsTyped, progVars, Sockets, Places
<1>4. ASSUME NEW c \in Programs, ProgramStep(c) PROVE LifeTypeOK'
  BY <1>4, ProgramsStayTyped, ProgramsProcesses, ProgramsInbox
     DEF LifeTypeOK, ProgramsTyped, Sockets, Places
<1> QED BY <1>2, <1>3, <1>4 DEF LifeNext, ProcessStep, ProgramStep

LEMMA LifeInitially == LifeInit => LifeInv
<1> SUFFICES ASSUME LifeInit PROVE LifeInv
  OBVIOUS
<1>1. Candidates \in Nat \ {0} /\ Nobody \notin Programs /\ NoHandle = -1
  BY LifecycleAssumption DEF NoHandle
<1>2. [by |-> Nobody, st |-> "gone", cam |-> "closed"] \in Process
  BY DEF Process
<1>3. /\ procs \in [Procs -> Process]
      /\ \A p \in Procs : procs[p].by = Nobody /\ procs[p].st = "gone" /\ procs[p].cam = "closed"
  BY <1>2 DEF LifeInit
<1>4. NoFlags \in [camera : BOOLEAN, stream : BOOLEAN] /\ NoFlags.camera = FALSE
  BY DEF NoFlags
<1>5. LifeTypeOK
  <2>1. 0 \in 0 .. Candidates + 1 /\ "exit" \in Steps
    BY <1>1 DEF Steps
  <2> HIDE DEF Procs, NoFlags, Nothing, NoHandle, Steps
  <2>2. /\ step \in [Programs -> Steps] /\ try \in [Programs -> 0 .. Candidates + 1]
        /\ cur \in [Programs -> {0} \cup Procs] /\ handle \in [Programs -> {NoHandle, External} \cup Procs]
        /\ flags \in [Programs -> [camera : BOOLEAN, stream : BOOLEAN]]
    BY <1>4, <2>1 DEF LifeInit
  <2> QED BY <1>3, <2>2, NothingTyped DEF LifeInit, LifeTypeOK
<1>6. \A c \in Programs : ClientShape(c) /\ SessionFits(c)
  BY <1>1, <1>4 DEF LifeInit, ClientShape, SessionFits
<1>7. OwnedIsAccounted
  BY <1>1, <1>3 DEF OwnedIsAccounted
<1>8. OneServes
  BY <1>3 DEF OneServes, Serving, LifeInit
<1>9. LiveFits /\ OrphansOpenNothing
  BY NothingTyped DEF LifeInit, LiveFits, LiveAt, OrphansOpenNothing
<1>10. HotIsOwned
  BY <1>3 DEF HotIsOwned, Hot
<1> QED BY <1>5, <1>6, <1>7, <1>8, <1>9, <1>10 DEF LifeInv

LEMMA LifeStep == LifeInv /\ [LifeNext]_lifeVars => LifeInv'
<1> SUFFICES ASSUME LifeInv, [LifeNext]_lifeVars PROVE LifeInv'
  OBVIOUS
<1>1. CASE LifeNext
  <2>1. LifeTypeOK' /\ (\A c \in Programs : ClientShape(c)') /\ OwnedIsAccounted'
    BY <1>1, TypesStep, ShapeStep, OwnedStep DEF LifeInv
  <2>2. OneServes' /\ LiveFits' /\ OrphansOpenNothing'
    BY <1>1, OneServesStep, LiveStep, OrphansStep DEF LifeInv
  <2>3. (\A c \in Programs : SessionFits(c)') /\ HotIsOwned'
    BY <1>1, SessionsStep, HotStep DEF LifeInv
  <2> QED BY <2>1, <2>2, <2>3 DEF LifeInv
<1>2. CASE UNCHANGED lifeVars
  <2> USE <1>2 DEF lifeVars, clientVars, progVars, LifeInv
  <2>1. LifeTypeOK' /\ OwnedIsAccounted'
    BY DEF LifeTypeOK, OwnedIsAccounted, Alive
  <2>2. \A c \in Programs : ClientShape(c)' /\ SessionFits(c)'
    BY DEF ClientShape, SessionFits
  <2>3. OneServes' /\ OrphansOpenNothing'
    BY DEF OneServes, Serving, OrphansOpenNothing
  <2>4. LiveFits'
    BY DEF LiveFits, LiveAt, Wanted
  <2>5. HotIsOwned'
    BY DEF HotIsOwned, Hot, Responsible, ClosingAnswered
  <2> QED BY <2>1, <2>2, <2>3, <2>4, <2>5
<1> QED BY <1>1, <1>2

(***************************************************************************)
(* Every state of sidecars and the programs that use them satisfies the    *)
(* invariant, whatever dies, is given up or is started by hand.            *)
(***************************************************************************)
THEOREM LifeInvariance == LifeSpec => []LifeInv
<1>1. LifeInit => LifeInv
  BY LifeInitially
<1>2. LifeInv /\ [LifeNext]_lifeVars => LifeInv'
  BY LifeStep
<1> QED BY <1>1, <1>2, PTL DEF LifeSpec

(***************************************************************************)
(* Every live sidecar a program has started is the one it waits for or the *)
(* one it will terminate when it closes: _ensure_sidecar and close() lose  *)
(* no process, whichever command answers, fails or hangs.                  *)
(***************************************************************************)
THEOREM SidecarsAreAccounted == LifeSpec => []OwnedIsAccounted
<1>1. LifeInv => OwnedIsAccounted
  BY DEF LifeInv
<1> QED BY <1>1, LifeInvariance, PTL

(***************************************************************************)
(* When every program has ended the camera is closed, in whichever sidecar *)
(* is left, unless an OpenCamera or CloseCamera was given up: shutdown and *)
(* the scripts' clean-up close what was opened, and no abandoned request   *)
(* that is served late opens it again.                                     *)
(***************************************************************************)
THEOREM CameraIsReleased == LifeSpec => []CameraReleased
<1>1. LifeInv => CameraReleased
  <2> SUFFICES ASSUME LifeInv, \A c \in Programs : step[c] = "exit", ~ lost,
                      NEW p \in Procs
               PROVE  procs[p].cam \in {"closed", "left"}
    BY DEF CameraReleased
  <2>1. procs[p].cam \in Cams
    BY DEF LifeInv, LifeTypeOK, Process, Cams
  <2>2. ASSUME NEW c \in Programs PROVE ~ Responsible(c)
    BY DEF LifeInv, SessionFits, Responsible
  <2>3. ~ Hot(p)
    BY <2>2 DEF LifeInv, HotIsOwned
  <2> QED BY <2>1, <2>3 DEF Hot, Cams
<1> QED BY <1>1, LifeInvariance, PTL
=============================================================================
