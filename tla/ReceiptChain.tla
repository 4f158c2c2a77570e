----------------------------- MODULE ReceiptChain -----------------------------
(***************************************************************************)
(* The in-memory receipt chain of src/szl_calibration/receipts.py.         *)
(*                                                                         *)
(* Threads of the service call append(); one mutex orders them.  Payloads  *)
(* are Python objects, so who else holds a reference to one matters:       *)
(* heap[o] is the present content of object o, and the callers may change  *)
(* any object in "exposed" whenever they like.  A privileged writer, code  *)
(* in the same process that reaches into _items without the lock, is the   *)
(* adversary the hash linkage is there to reveal.                          *)
(*                                                                         *)
(* A content stands for everything canonical_json renders alike; NonFinite *)
(* for everything it refuses (allow_nan=False, unsupported types).  A      *)
(* stamp stands for the receipt's kind and timestamp.  SHA-256 is          *)
(* collision free: a hash is the sequence of bodies it was computed from,  *)
(* each body appended to the prev_hash inside it.                          *)
(***************************************************************************)
EXTENDS Integers, Sequences

CONSTANTS Threads, Contents, Stamps,
          Signatures, UNSIGNED,        \* signature strings, the only honest one
          NonFinite, NoThread, NoReceipt,
          MaxCalls,                    \* bound: append() calls in a behaviour
          MaxTampers                   \* bound: steps of the privileged writer

ASSUME ChainAssumption ==
  /\ UNSIGNED \in Signatures
  /\ NonFinite \notin Contents
  /\ NoThread \notin Threads
  /\ MaxCalls \in Nat
  /\ MaxTampers \in Nat

VARIABLES
  heap,      \* object -> present content
  exposed,   \* objects a caller holds a reference to
  items,     \* _items; a receipt's payload field is an object
  lock,      \* holder of _lock
  pc,        \* where each thread is in append()
  snap,      \* each thread's local "snapshot" object (0: none)
  draft,     \* each thread's local "r"
  issued,    \* receipts handed back to callers, as they were at that moment
  retained,  \* the last to_jsonl() text somebody kept
  calls, tampers

vars == <<heap, exposed, items, lock, pc, snap, draft, issued, retained, calls, tampers>>

Values == Contents \cup {NonFinite}

Body == [index : Nat, stamp : Stamps, payload : Values, signature : Signatures]
Hash == Seq(Body)
Genesis == <<>>

(* A receipt whose payload field is drawn from P: an object in the chain,  *)
(* a value in a text or in what a caller was given.                        *)
Receipt(P) == [index : Nat, stamp : Stamps, payload : P, prev_hash : Hash,
               signature : Signatures, hash : Hash]

Digest(r) == Append(r.prev_hash, [index |-> r.index, stamp |-> r.stamp,
                                  payload |-> r.payload, signature |-> r.signature])

(* The chain as canonical_json(asdict(r)) sees it: payloads by value.      *)
Resolve(r, store) == [r EXCEPT !.payload = store[@]]
Text(chain, store) == [i \in 1 .. Len(chain) |-> Resolve(chain[i], store)]

PrevHash(chain, i) == IF i = 1 THEN Genesis ELSE chain[i - 1].hash

(* Mutant: the links between receipts are not compared.                    *)
ChecksUnlinked(text, i) == /\ text[i].index = i - 1
                           /\ text[i].signature = UNSIGNED
                           /\ text[i].payload # NonFinite
                           /\ text[i].hash = Digest(text[i])

(* What the loop of _verify_locked asks of position i.                     *)
Checks(text, i) == /\ text[i].index = i - 1
                   /\ text[i].signature = UNSIGNED
                   /\ text[i].prev_hash = PrevHash(text, i)
                   /\ text[i].payload # NonFinite
                   /\ text[i].hash = Digest(text[i])

(* Mutant: verification trusts everything but the newest receipt.          *)
ValidNewest(text) == Len(text) > 0 => Checks(text, Len(text))

Valid(text) == \A i \in 1 .. Len(text) : Checks(text, i)

Verified == Valid(Text(items, heap))

Init == /\ heap = <<>>
        /\ exposed = {}
        /\ items = <<>>
        /\ lock = NoThread
        /\ pc = [t \in Threads |-> "idle"]
        /\ snap = [t \in Threads |-> 0]
        /\ draft = [t \in Threads |-> NoReceipt]
        /\ issued = {}
        /\ retained = <<>>
        /\ calls = 0
        /\ tampers = 0

-------------------------------------------------------------------------------
(* append(), called by thread t.                                           *)

(* The payload cannot be rendered: ValueError before the lock is touched.  *)
RejectPayload(t) ==
  /\ pc[t] = "idle" /\ calls < MaxCalls
  /\ calls' = calls + 1
  /\ UNCHANGED <<heap, exposed, items, lock, pc, snap, draft, issued, retained, tampers>>

(* Mutant: append() keeps the caller's object.                             *)
SnapshotAliased(t, v) ==
  /\ pc[t] = "idle" /\ calls < MaxCalls
  /\ heap' = Append(heap, v)
  /\ exposed' = exposed \cup {Len(heap) + 1}
  /\ snap' = [snap EXCEPT ![t] = Len(heap) + 1]
  /\ pc' = [pc EXCEPT ![t] = "waiting"]
  /\ calls' = calls + 1
  /\ UNCHANGED <<items, lock, draft, issued, retained, tampers>>

(* The caller's object has content v; append() parses its rendering into   *)
(* an object of its own before it asks for the lock.                       *)
Snapshot(t, v) ==
  /\ pc[t] = "idle" /\ calls < MaxCalls
  /\ heap' = heap \o <<v, v>>
  /\ exposed' = exposed \cup {Len(heap) + 1}
  /\ snap' = [snap EXCEPT ![t] = Len(heap) + 2]
  /\ pc' = [pc EXCEPT ![t] = "waiting"]
  /\ calls' = calls + 1
  /\ UNCHANGED <<items, lock, draft, issued, retained, tampers>>

(* Mutant: append() without the mutex.                                     *)
AcquireUnlocked(t) ==
  /\ pc[t] = "waiting"
  /\ lock' = t
  /\ pc' = [pc EXCEPT ![t] = "locked"]
  /\ UNCHANGED <<heap, exposed, items, snap, draft, issued, retained, calls, tampers>>

Acquire(t) ==
  /\ pc[t] = "waiting" /\ lock = NoThread
  /\ lock' = t
  /\ pc' = [pc EXCEPT ![t] = "locked"]
  /\ UNCHANGED <<heap, exposed, items, snap, draft, issued, retained, calls, tampers>>

(* ValueError("receipt chain invalid"): leaving the with block unlocks.    *)
Refuse(t) ==
  /\ pc[t] = "locked" /\ ~Verified
  /\ lock' = NoThread
  /\ pc' = [pc EXCEPT ![t] = "idle"]
  /\ snap' = [snap EXCEPT ![t] = 0]
  /\ UNCHANGED <<heap, exposed, items, draft, issued, retained, calls, tampers>>

(* Mutant: the index of the newest receipt instead of the next one.        *)
UnhashedLast(t, s) == [index |-> Len(items) - 1, stamp |-> s, payload |-> snap[t],
                       prev_hash |-> PrevHash(items, Len(items) + 1),
                       signature |-> UNSIGNED, hash |-> Genesis]

Unhashed(t, s) == [index |-> Len(items), stamp |-> s, payload |-> snap[t],
                   prev_hash |-> PrevHash(items, Len(items) + 1),
                   signature |-> UNSIGNED, hash |-> Genesis]

Sealed(r, store) == [r EXCEPT !.hash = Digest(Resolve(r, store))]

(* Mutant: the chain is verified with the public verify(), which asks for  *)
(* the lock that this thread holds already.                                *)
PrepareRelocking(t, s) ==
  /\ pc[t] = "locked" /\ lock = NoThread /\ Verified
  /\ draft' = [draft EXCEPT ![t] = Sealed(Unhashed(t, s), heap)]
  /\ pc' = [pc EXCEPT ![t] = "prepared"]
  /\ UNCHANGED <<heap, exposed, items, lock, snap, issued, retained, calls, tampers>>

Prepare(t, s) ==
  /\ pc[t] = "locked" /\ Verified
  /\ draft' = [draft EXCEPT ![t] = Sealed(Unhashed(t, s), heap)]
  /\ pc' = [pc EXCEPT ![t] = "prepared"]
  /\ UNCHANGED <<heap, exposed, items, lock, snap, issued, retained, calls, tampers>>

(* Mutant: the stored receipt itself is returned.                          *)
CommitShared(t) ==
  /\ pc[t] = "prepared"
  /\ items' = Append(items, draft[t])
  /\ exposed' = exposed \cup {draft[t].payload}
  /\ issued' = issued \cup {Resolve(draft[t], heap)}
  /\ lock' = NoThread
  /\ pc' = [pc EXCEPT ![t] = "idle"]
  /\ snap' = [snap EXCEPT ![t] = 0]
  /\ draft' = [draft EXCEPT ![t] = NoReceipt]
  /\ UNCHANGED <<heap, retained, calls, tampers>>

(* The receipt goes into the list; the caller gets a deep copy.            *)
Commit(t) ==
  /\ pc[t] = "prepared"
  /\ items' = Append(items, draft[t])
  /\ heap' = Append(heap, heap[draft[t].payload])
  /\ exposed' = exposed \cup {Len(heap) + 1}
  /\ issued' = issued \cup {Resolve(draft[t], heap)}
  /\ lock' = NoThread
  /\ pc' = [pc EXCEPT ![t] = "idle"]
  /\ snap' = [snap EXCEPT ![t] = 0]
  /\ draft' = [draft EXCEPT ![t] = NoReceipt]
  /\ UNCHANGED <<retained, calls, tampers>>

AppendStep(t) == \/ Acquire(t) \/ Refuse(t) \/ Commit(t)
                 \/ \E s \in Stamps : Prepare(t, s)

(* to_jsonl() needs the lock; it raises when a payload cannot be rendered. *)
Export ==
  /\ lock = NoThread
  /\ retained' = LET text == Text(items, heap)
                 IN IF \E i \in DOMAIN text : text[i].payload = NonFinite
                    THEN retained ELSE text
  /\ UNCHANGED <<heap, exposed, items, lock, pc, snap, draft, issued, calls, tampers>>

-------------------------------------------------------------------------------
(* The world around the chain.                                             *)

(* A caller changes an object it holds: its own argument, or the payload   *)
(* of a receipt it was given.                                              *)
Mutate(o, v) ==
  /\ heap' = [heap EXCEPT ![o] = v]
  /\ UNCHANGED <<exposed, items, lock, pc, snap, draft, issued, retained, calls, tampers>>

Tamper == tampers < MaxTampers /\ tampers' = tampers + 1

(* The privileged writer edits a stored payload in place ...               *)
EditPayload(i, v) ==
  /\ Tamper
  /\ heap' = [heap EXCEPT ![items[i].payload] = v]
  /\ UNCHANGED <<exposed, items, lock, pc, snap, draft, issued, retained, calls>>

(* ... puts a consistently re-hashed receipt at position i, linked to what *)
(* now stands before it ...                                                *)
Forge(i, v, sig) ==
  LET r == [items[i] EXCEPT !.payload = v, !.signature = sig,
                            !.prev_hash = PrevHash(items, i)]
  IN /\ Tamper
     /\ heap' = Append(heap, v)
     /\ items' = [items EXCEPT ![i] = [r EXCEPT !.payload = Len(heap) + 1,
                                                !.hash = Digest(r)]]
     /\ UNCHANGED <<exposed, lock, pc, snap, draft, issued, retained, calls>>

(* ... or drops the newest receipts.                                       *)
Truncate(n) ==
  /\ Tamper
  /\ items' = SubSeq(items, 1, n)
  /\ UNCHANGED <<heap, exposed, lock, pc, snap, draft, issued, retained, calls>>

Writer == \E i \in DOMAIN items :
            \/ \E v \in Values : EditPayload(i, v)
            \/ \E v \in Contents, sig \in Signatures : Forge(i, v, sig)
            \/ Truncate(i - 1)

Next == \/ \E t \in Threads : \/ RejectPayload(t)
                              \/ \E v \in Contents : Snapshot(t, v)
                              \/ AppendStep(t)
        \/ \E o \in exposed, v \in Values : Mutate(o, v)
        \/ Export
        \/ Writer

Spec == Init /\ [][Next]_vars

(* The scheduler runs a thread that can take its next step.  threading.Lock *)
(* is not fair, but a thread is overtaken at most MaxCalls times.           *)
FairSpec == Spec /\ \A t \in Threads : WF_vars(AppendStep(t))

-------------------------------------------------------------------------------
(* Properties                                                              *)

TypeOK == /\ heap \in Seq(Values)
          /\ exposed \subseteq DOMAIN heap
          /\ items \in Seq(Receipt(DOMAIN heap))
          /\ lock \in Threads \cup {NoThread}
          /\ pc \in [Threads -> {"idle", "waiting", "locked", "prepared"}]
          /\ snap \in [Threads -> DOMAIN heap \cup {0}]
          /\ draft \in [Threads -> Receipt(DOMAIN heap) \cup {NoReceipt}]
          /\ issued \subseteq Receipt(Values)
          /\ retained \in Seq(Receipt(Values))
          /\ calls \in 0 .. MaxCalls
          /\ tampers \in 0 .. MaxTampers

(* Appends of any number of threads, refused payloads and callers that     *)
(* change the objects they passed in or were given never break the chain:  *)
(* only the privileged writer can ("Caller mutations must never edit       *)
(* history", receipts.py line 45).                                         *)
ChainVerified == tampers = 0 => Verified

(* What append() returned stays what the chain says: every receipt handed  *)
(* to a caller is, unchanged, at the index it names.                       *)
IssuedInPlace ==
  tampers = 0 =>
    \A r \in issued : /\ r.index < Len(items)
                      /\ Resolve(items[r.index + 1], heap) = r

(* Once broken, the chain is never made to verify by going on appending:   *)
(* only another edit of the writer can do that.                            *)
BrokenStaysBroken == [][~Verified /\ Verified' => tampers' > tampers]_vars

(* A kept to_jsonl() text that verifies by itself binds the history it     *)
(* covers: if the live chain verifies and still shows the kept text's last *)
(* hash at that position, not one earlier receipt differs from the text,   *)
(* however the writer rewrote and re-hashed the chain.                     *)
RetainedBindsHistory ==
  LET n == Len(retained)
  IN (/\ n > 0 /\ Valid(retained) /\ Verified
      /\ n <= Len(items) /\ items[n].hash = retained[n].hash)
     => SubSeq(Text(items, heap), 1, n) = retained

(* Every append() returns, with a receipt or with ValueError.              *)
AppendReturns == \A t \in Threads : pc[t] = "waiting" ~> pc[t] = "idle"

(* Until the writer acts, the chain is an append-only log of the payloads  *)
(* the callers passed in, and its receipts are the log's acknowledgements. *)
Log == INSTANCE ReceiptLog WITH
         Entries <- Contents,
         log <- [i \in 1 .. Len(items) |-> heap[items[i].payload]],
         acked <- {[index |-> r.index, entry |-> r.payload] : r \in issued},
         trusted <- tampers = 0
IsLog == Log!Spec
===============================================================================
