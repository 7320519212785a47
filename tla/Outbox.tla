------------------------------- MODULE Outbox -------------------------------
(***************************************************************************)
(* What the notification transport promises an installation: the backend   *)
(* outbox is a growing sequence of rows 1, 2, 3, ..., every row is settled *)
(* locally (its state event applied or given up, its visible text stored   *)
(* or deliberately not shown), and the cursor the installation sends back  *)
(* only ever moves forward over settled rows.                              *)
(***************************************************************************)
EXTENDS Naturals

VARIABLES sent,     \* rows the backend has put in the outbox
          settled,  \* rows the installation owes no more work for
          acked     \* the cursor: rows the installation will not ask for again

vars == <<sent, settled, acked>>

Init == /\ sent = 0
        /\ settled = {}
        /\ acked = 0

(* A row that asks for nothing (no event, not visible) is settled by being *)
(* sent.                                                                   *)
Send == /\ sent' = sent + 1
        /\ settled' \in {settled, settled \cup {sent + 1}}
        /\ UNCHANGED acked

(* One step of the installation may settle several rows of a batch.        *)
Settle == /\ settled \subseteq settled'
          /\ settled' \subseteq 1..sent
          /\ UNCHANGED <<sent, acked>>

Acknowledge == /\ acked' \in acked..sent
               /\ 1..acked' \subseteq settled
               /\ UNCHANGED <<sent, settled>>

Next == Send \/ Settle \/ Acknowledge

Spec == Init /\ [][Next]_vars
=============================================================================
