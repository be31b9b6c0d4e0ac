----------------------------- MODULE LeasedWork -----------------------------
(***************************************************************************)
(* What the durable queues of the server promise: AI runs, command outbox  *)
(* messages and realtime events.  An item is granted to one claimant at a  *)
(* time, under a token that was never used before; only the claimant that  *)
(* holds it can close it and leave a result; a claimant given up for lost  *)
(* loses the item, which is ready again, or granted anew, or dropped; a    *)
(* closed item stays closed.                                               *)
(***************************************************************************)
EXTENDS Naturals

CONSTANT Items

VARIABLES
  items,   \* state, token of the holder (0: nobody), token of the result
  granted  \* number of the next token

Item == [state: {"absent", "ready", "held", "closed"}, holder: Nat, result: Nat]

Init ==
  /\ items = [i \in Items |-> [state |-> "absent", holder |-> 0, result |-> 0]]
  /\ granted = 1

Add(i) ==
  /\ items[i].state = "absent"
  /\ items' = [items EXCEPT ![i].state = "ready"]
  /\ UNCHANGED granted

(* A batch is granted at once; a held item may be taken from a lost holder. *)
(* A token may go unused: the batch may be empty.                          *)
Grant(batch) ==
  /\ \A i \in batch : items[i].state \in {"ready", "held"}
  /\ items' = [i \in Items |->
                 IF i \in batch THEN [items[i] EXCEPT !.state = "held", !.holder = granted]
                 ELSE items[i]]
  /\ granted' = granted + 1

(* The holder closes its item, with or without a result.                   *)
Close(i) ==
  /\ items[i].state = "held"
  /\ \E result \in {items[i].result, items[i].holder} :
       items' = [items EXCEPT ![i] =
                   [state |-> "closed", holder |-> 0, result |-> result]]
  /\ UNCHANGED granted

(* Lost or failed claims become ready again; withdrawn items are closed     *)
(* without a result.                                                       *)
Release(back, drop) ==
  /\ \A i \in back : items[i].state = "held"
  /\ \A i \in drop : items[i].state \in {"ready", "held"}
  /\ items' = [i \in Items |->
                 CASE i \in drop -> [items[i] EXCEPT !.state = "closed", !.holder = 0]
                   [] i \in back \ drop -> [items[i] EXCEPT !.state = "ready", !.holder = 0]
                   [] OTHER -> items[i]]
  /\ UNCHANGED granted

Next ==
  \/ \E i \in Items : Add(i) \/ Close(i)
  \/ \E batch \in SUBSET Items : Grant(batch)
  \/ \E back, drop \in SUBSET Items : Release(back, drop)

Spec == Init /\ [][Next]_<<items, granted>>
=============================================================================
