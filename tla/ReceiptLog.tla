------------------------------ MODULE ReceiptLog ------------------------------
(***************************************************************************)
(* What a receipt chain promises to its callers, without hashes, locks or  *)
(* objects: an append-only log.  Recording an entry puts it at the end and *)
(* acknowledges it to the caller with the index at which it stays.         *)
(* A privileged writer who edits the list behind its back ends the         *)
(* promise, and nothing restores it.                                       *)
(***************************************************************************)
EXTENDS Naturals, Sequences

CONSTANT Entries     \* what can be recorded

VARIABLES log,       \* the recorded entries, oldest first
          acked,     \* the acknowledgements given to callers
          trusted    \* no privileged writer has acted yet

vars == <<log, acked, trusted>>

Ack == [index : Nat, entry : Entries]

TypeOK == /\ log \in Seq(Entries)
          /\ acked \subseteq Ack
          /\ trusted \in BOOLEAN

Init == log = <<>> /\ acked = {} /\ trusted = TRUE

Record(e) ==
  /\ trusted /\ trusted'
  /\ log' = Append(log, e)
  /\ acked' = acked \cup {[index |-> Len(log), entry |-> e]}

(* From the writer's first edit on, anything may happen.                   *)
Intrusion == ~trusted'

Next == (\E e \in Entries : Record(e)) \/ Intrusion

Spec == Init /\ [][Next]_vars
===============================================================================
