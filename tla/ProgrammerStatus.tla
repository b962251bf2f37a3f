------------------------- MODULE ProgrammerStatus -------------------------
(***************************************************************************)
(* What the SPI programmer promises the rest of the SoC about its status:  *)
(* p_done is low exactly while a session lasts, and a session does not end *)
(* before target_memory names the memory it was about.  SpiProgrammer      *)
(* implements it, BootFlow relies on it.                                   *)
(***************************************************************************)

VARIABLES session,          \* "none", or what is being written: "iccm" or "flash"
          iccm_prog_done,   \* p_done
          target_memory     \* TRUE: the flash

vars == <<session, iccm_prog_done, target_memory>>

Init == session = "none" /\ iccm_prog_done = TRUE /\ target_memory = TRUE

Open == /\ session = "none"
        /\ session' \in {"iccm", "flash"}
        /\ iccm_prog_done' = FALSE
        /\ UNCHANGED target_memory

\* Somewhere in the session target_memory is set.
SetTarget == /\ session # "none"
             /\ target_memory' = (session = "flash")
             /\ UNCHANGED <<session, iccm_prog_done>>

End == /\ session # "none"
       /\ target_memory = (session = "flash")
       /\ session' = "none"
       /\ iccm_prog_done' = TRUE
       /\ UNCHANGED target_memory

Clock == Open \/ SetTarget \/ End \/ UNCHANGED vars

Reset == /\ session' = "none"
         /\ iccm_prog_done' = TRUE
         /\ target_memory' = TRUE

Next == Clock \/ Reset

Spec == Init /\ [][Next]_vars
============================================================================
