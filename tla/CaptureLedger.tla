----------------------------- MODULE CaptureLedger -----------------------------
(***************************************************************************)
(* What a raw capture file promises to whoever reads it later: captures are *)
(* entered whole, in the order of the plan's wavelength-major schedule, an  *)
(* entry never changes, and the file is accepted for analysis only when     *)
(* every planned capture is in it.  A file whose writer died may have lost  *)
(* any of its entries, and is accepted only when it shows none missing.     *)
(***************************************************************************)
EXTENDS Naturals

CONSTANTS
  NW, NM,  \* wavelengths and masks of the plan
  Metas, NoMeta,
  Calls    \* the calls that may enter a capture

VARIABLES
  entries,  \* what each row of the schedule holds
  verdict   \* "open" while the run lasts, then "accepted" or "rejected"

ledgerVars == <<entries, verdict>>

Row == 0 .. NW * NM - 1
\* The metadata of a wavelength, of the illumination and of the TLS.
Both(v) == [illumination |-> v, tls |-> v]

Blank == [wavelength |-> NW, mask |-> NM, call |-> 0, meta |-> Both(NoMeta)]

(* The metadata of a wavelength is recorded once and shared by its rows.    *)
Agrees(e) ==
  \A q \in Row : entries[q] # Blank /\ entries[q].wavelength = e.wavelength
                   => entries[q].meta = e.meta

Enter ==
  \E r \in Row, w \in 0 .. NW - 1, m \in 0 .. NM - 1, c \in Calls, x \in Metas :
    LET e == [wavelength |-> w, mask |-> m, call |-> c, meta |-> Both(x)] IN
    /\ r = w * NM + m
    /\ entries[r] = Blank
    /\ \A q \in Row : q < r => entries[q] # Blank
    /\ Agrees(e)
    /\ entries' = [entries EXCEPT ![r] = e]
    /\ UNCHANGED verdict

Settle ==
  /\ verdict' = "rejected" \/ (verdict' = "accepted" /\ \A r \in Row : entries[r] # Blank)
  /\ UNCHANGED entries

Lose ==
  /\ verdict' = "rejected"
  /\ \E lost \in SUBSET Row :
       entries' = [r \in Row |-> IF r \in lost THEN Blank ELSE entries[r]]

LedgerInit == entries = [r \in Row |-> Blank] /\ verdict = "open"

LedgerNext == verdict = "open" /\ (Enter \/ Settle \/ Lose)

LedgerSpec == LedgerInit /\ [][LedgerNext]_ledgerVars

=============================================================================
