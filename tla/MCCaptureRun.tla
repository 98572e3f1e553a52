------------------------------ MODULE MCCaptureRun ------------------------------
(* CaptureRun for TLC.  The writer has two kinds of callers: the run, which  *)
(* ends at the first failed append, and any other, which may offer the       *)
(* capture again.  Shapes and metadata values are interchangeable.           *)
EXTENDS CaptureRun, TLC

VARIABLE caller

callerVars == <<runVars, caller>>
taskVars == <<plan, pc, wi, mi, apparatusVars, unread, waited, burst, taken, disk>>

CallerInit ==
  /\ RunInit
  /\ \/ caller = "run"
     \/ caller = "any" /\ plan = [tls |-> FALSE, profile |-> FALSE]

CallerNext ==
  /\ UNCHANGED caller
  /\ \/ caller = "run" /\ RunNext
     \/ caller = "any" /\ WriterNext /\ UNCHANGED taskVars

\* RunSpec and WriterSpec, side by side.
CallerSpec == CallerInit /\ [][CallerNext]_callerVars

Symmetry == Permutations(Shapes) \cup Permutations(Metas)

=============================================================================
