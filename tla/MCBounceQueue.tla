--------------------------- MODULE MCBounceQueue ---------------------------
(* Instances of BounceQueue for TLC: bounces 1 and 3 name an address with a  *)
(* CRM contact, bounce 2 one that matches no contact.                       *)
EXTENDS BounceQueue

CONSTANTS contact, stranger

MCAddresses == {contact, stranger}
MCAddress == [j \in Jobs |-> IF j = 2 THEN stranger ELSE contact]
MCContacts == {contact}
=============================================================================
