---------------------------- MODULE UsageLedger ----------------------------
(***************************************************************************)
(* What the usage reporter promises the people who read the charts: the    *)
(* installation records events 1, 2, 3, ..., the service books reports,    *)
(* each under an identifier of its own, and no event is in two reports     *)
(* unless the browser refused to store the reporter's state.               *)
(***************************************************************************)
EXTENDS Naturals

VARIABLES recorded,  \* events the installation has recorded so far
          reports,   \* the reports the service has booked: [id, events]
          excused    \* a storage write was refused

vars == <<recorded, reports, excused>>

Init == /\ recorded = 0
        /\ reports = {}
        /\ excused = FALSE

Record == /\ recorded' = recorded + 1
          /\ UNCHANGED <<reports, excused>>

Excuse == /\ excused' = TRUE
          /\ UNCHANGED <<recorded, reports>>

(* A report under a known identifier changes nothing, which is a stutter.  *)
Book == /\ \E r \in reports' :
             /\ r \in [id : Nat, events : SUBSET (1..recorded)]
             /\ \A q \in reports :
                  q.id # r.id /\ (excused \/ q.events \cap r.events = {})
             /\ reports' = reports \cup {r}
        /\ UNCHANGED <<recorded, excused>>

Next == Record \/ Excuse \/ Book

Spec == Init /\ [][Next]_vars
=============================================================================
