---------------------------- MODULE SpendLedger ----------------------------
(***************************************************************************)
(* What billing promises of one kind of record (the spend log's, or the    *)
(* keys' charges): a record that was submitted is booked in the database   *)
(* once, or is lost; what is booked is never booked again nor lost, and    *)
(* what is lost does not come back.                                        *)
(***************************************************************************)
CONSTANT Requests

VARIABLE book   \* "none", "pending", "booked" or "lost", for each request

States == {"none", "pending", "booked", "lost"}

LedgerInit == book = [r \in Requests |-> "none"]

Move(records, from, to) ==
    /\ \A r \in records : book[r] = from
    /\ book' = [r \in Requests |-> IF r \in records THEN to ELSE book[r]]

Submit(r) == Move({r}, "none", "pending")

Book == \E records \in SUBSET Requests : Move(records, "pending", "booked")

Lose == \E records \in SUBSET Requests : Move(records, "pending", "lost")

LedgerNext == (\E r \in Requests : Submit(r)) \/ Book \/ Lose

LedgerSpec == LedgerInit /\ [][LedgerNext]_book

(* Nothing stays pending: it is booked or, at worst, known to be lost. *)
Settles == \A r \in Requests : book[r] = "pending" ~> book[r] \in {"booked", "lost"}
=============================================================================
