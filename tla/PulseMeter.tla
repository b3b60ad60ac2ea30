----------------------------- MODULE PulseMeter -----------------------------
(***************************************************************************)
(* What a pulse meter promises, with no word about counters, bytes or      *)
(* buffers.  The meter sees one sample per cycle, high or low.  A pulse is *)
(* registered in the first cycle of a high run that is longer than         *)
(* highCount, and then the meter is held: no further pulse is registered   *)
(* until a low run longer than debounce arms it again.  The runs are the   *)
(* true lengths, however long they grow, and the register rolls over as    *)
(* the dial of a mechanical meter does.                                    *)
(***************************************************************************)
EXTENDS Naturals

CONSTANTS
  Counts,       \* the values highCount and debounce can be configured to
  RegisterMod   \* the register rolls over at this value

VARIABLES register, armed, highRun, lowRun, highCount, debounce

meterVars == <<register, armed, highRun, lowRun, highCount, debounce>>

MeterInit ==
  /\ register = 0
  /\ armed = TRUE
  /\ highRun = 0
  /\ lowRun = 0
  /\ highCount \in Counts
  /\ debounce \in Counts

Register ==
  /\ armed
  /\ highRun' > highCount
  /\ register' = (register + 1) % RegisterMod
  /\ armed' = FALSE

HighSample ==
  /\ highRun' = highRun + 1
  /\ lowRun' = 0
  /\ \/ Register
     \/ /\ ~armed \/ highRun' <= highCount
        /\ UNCHANGED <<register, armed>>
  /\ UNCHANGED <<highCount, debounce>>

LowSample ==
  /\ lowRun' = lowRun + 1
  /\ highRun' = 0
  /\ armed' = (armed \/ lowRun' > debounce)
  /\ UNCHANGED <<register, highCount, debounce>>

Configure ==
  /\ highCount' \in Counts
  /\ debounce' \in Counts
  /\ UNCHANGED <<register, armed, highRun, lowRun>>

PowerCycle ==
  /\ register' = 0
  /\ armed' = TRUE
  /\ highRun' = 0
  /\ lowRun' = 0
  /\ highCount' \in Counts
  /\ debounce' \in Counts

MeterNext == HighSample \/ LowSample \/ Configure \/ PowerCycle

MeterSpec == MeterInit /\ [][MeterNext]_meterVars
=============================================================================
