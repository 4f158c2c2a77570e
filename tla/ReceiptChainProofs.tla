-------------------------- MODULE ReceiptChainProofs --------------------------
(***************************************************************************)
(* Theorems about ReceiptChain, for any number of threads, contents,       *)
(* stamps, calls and edits.                                                *)
(***************************************************************************)
EXTENDS ReceiptChain, SequenceTheorems, WellFoundedInduction, TLAPS

(***************************************************************************)
(* The inductive invariant.                                                *)
(***************************************************************************)

(* The two steps of append() inside the with block run with the lock held. *)
LockInv == \A t \in Threads : pc[t] \in {"locked", "prepared"} <=> lock = t

(* No caller holds a reference into the chain or into a pending snapshot.  *)
Detached ==
  /\ \A i \in DOMAIN items : items[i].payload \notin exposed
  /\ \A t \in Threads : pc[t] # "idle" => snap[t] \in DOMAIN heap \ exposed
  /\ \A t \in Threads : pc[t] = "prepared" => /\ draft[t] \in Receipt(DOMAIN heap)
                                              /\ draft[t].payload = snap[t]

(* The receipt a thread is about to store is the next one of the chain.    *)
DraftFits ==
  \A t \in Threads : pc[t] = "prepared" =>
    /\ draft[t].index = Len(items)
    /\ draft[t].signature = UNSIGNED
    /\ draft[t].prev_hash = PrevHash(items, Len(items) + 1)
    /\ draft[t].hash = Digest(Resolve(draft[t], heap))

SnapshotsRender == \A t \in Threads : pc[t] # "idle" => heap[snap[t]] \in Contents

IssuedInChain ==
  \A r \in issued : r.index < Len(items) /\ Resolve(items[r.index + 1], heap) = r

IssuedRender == \A r \in issued : r.payload \in Contents

(* What holds until the privileged writer acts.                            *)
Honest == DraftFits /\ SnapshotsRender /\ Verified /\ IssuedInChain /\ IssuedRender

IInv == /\ TypeOK
        /\ LockInv
        /\ Detached
        /\ tampers = 0 => Honest

-------------------------------------------------------------------------------
(***************************************************************************)
(* Lemmas on receipts and texts                                            *)
(***************************************************************************)

(* A non-empty set of naturals has a least element. *)
LEMMA LeastElement ==
  ASSUME NEW T, T \subseteq Nat, T # {}
  PROVE  \E m \in T : \A k \in T : m <= k
<1>1. \E x \in T : \A y \in T : <<y, x>> \notin OpToRel(<, Nat)
  BY NatLessThanWellFounded, WFMin
<1>2. PICK m \in T : \A y \in T : <<y, m>> \notin OpToRel(<, Nat)
  BY <1>1
<1>3. ASSUME NEW k \in T, k < m
      PROVE  FALSE
  <2>1. <<k, m>> \in OpToRel(<, Nat)
    BY <1>3 DEF OpToRel
  <2> QED BY <2>1, <1>2
<1> QED BY <1>3

LEMMA FunctionIsSeq ==
  ASSUME NEW S, NEW n \in Nat, NEW f \in [1 .. n -> S]
  PROVE  f \in Seq(S) /\ Len(f) = n
OBVIOUS

(* A receipt of a smaller heap is a receipt of a larger one. *)
LEMMA ReceiptMonotone ==
  ASSUME NEW P, NEW Q, P \subseteq Q
  PROVE  Receipt(P) \subseteq Receipt(Q)
BY DEF Receipt

LEMMA ReceiptEqual ==
  ASSUME NEW r \in Receipt(Values), NEW q \in Receipt(Values),
         r.index = q.index, r.stamp = q.stamp, r.payload = q.payload,
         r.prev_hash = q.prev_hash, r.signature = q.signature, r.hash = q.hash
  PROVE  r = q
BY DEF Receipt

LEMMA DigestType ==
  ASSUME NEW r \in Receipt(Values)
  PROVE  Digest(r) \in Hash
<1>1. r.prev_hash \in Seq(Body)
  BY DEF Receipt, Hash
<1>2. [index |-> r.index, stamp |-> r.stamp, payload |-> r.payload,
       signature |-> r.signature] \in Body
  BY DEF Receipt, Body
<1> QED BY <1>1, <1>2, AppendProperties DEF Digest, Hash

(* Two receipts have the same digest only if they agree on every field the *)
(* digest covers.                                                          *)
LEMMA DigestInjective ==
  ASSUME NEW r \in Receipt(Values), NEW q \in Receipt(Values), Digest(r) = Digest(q)
  PROVE  /\ r.index = q.index
         /\ r.stamp = q.stamp
         /\ r.payload = q.payload
         /\ r.signature = q.signature
         /\ r.prev_hash = q.prev_hash
<1> DEFINE B(x) == [index |-> x.index, stamp |-> x.stamp, payload |-> x.payload,
                    signature |-> x.signature]
<1>1. r.prev_hash \in Seq(Body) /\ q.prev_hash \in Seq(Body)
  BY DEF Receipt, Hash
<1>2. B(r) \in Body /\ B(q) \in Body
  BY DEF Receipt, Body
<1>3. Append(r.prev_hash, B(r)) = Append(q.prev_hash, B(q))
  BY DEF Digest
<1>4. r.prev_hash = q.prev_hash /\ B(r) = B(q)
  <2> HIDE DEF B
  <2> QED BY <1>1, <1>2, <1>3, AppendInjective
<1> QED BY <1>4

LEMMA ResolveType ==
  ASSUME NEW store \in Seq(Values), NEW r \in Receipt(DOMAIN store)
  PROVE  /\ Resolve(r, store) \in Receipt(Values)
         /\ Resolve(r, store).payload = store[r.payload]
         /\ Resolve(r, store).index = r.index
         /\ Resolve(r, store).stamp = r.stamp
         /\ Resolve(r, store).signature = r.signature
         /\ Resolve(r, store).prev_hash = r.prev_hash
         /\ Resolve(r, store).hash = r.hash
<1>1. store[r.payload] \in Values
  BY DEF Receipt
<1> QED BY <1>1 DEF Resolve, Receipt

LEMMA TextType ==
  ASSUME NEW store \in Seq(Values), NEW chain \in Seq(Receipt(DOMAIN store))
  PROVE  /\ Text(chain, store) \in Seq(Receipt(Values))
         /\ Len(Text(chain, store)) = Len(chain)
         /\ \A i \in 1 .. Len(chain) : Text(chain, store)[i] = Resolve(chain[i], store)
<1>1. \A i \in 1 .. Len(chain) : Resolve(chain[i], store) \in Receipt(Values)
  BY ResolveType
<1>2. Text(chain, store) \in [1 .. Len(chain) -> Receipt(Values)]
  BY <1>1 DEF Text
<1> QED BY <1>2, FunctionIsSeq DEF Text

-------------------------------------------------------------------------------
(***************************************************************************)
(* The hash linkage                                                        *)
(***************************************************************************)

(* Two texts that verify and show the same hash at position n agree on     *)
(* everything up to n.  (_verify_locked, receipts.py lines 61-73.)         *)
LEMMA HashBindsPrefix ==
  ASSUME NEW A \in Seq(Receipt(Values)), NEW B \in Seq(Receipt(Values)),
         Valid(A), Valid(B),
         NEW n \in Nat, n <= Len(A), n <= Len(B), n > 0,
         A[n].hash = B[n].hash
  PROVE  \A i \in 1 .. n : A[i] = B[i]
<1> DEFINE Apart == {k \in 0 .. n - 1 : A[n - k].hash # B[n - k].hash}
<1>1. \A i \in 1 .. n : /\ A[i] \in Receipt(Values) /\ B[i] \in Receipt(Values)
                        /\ Checks(A, i) /\ Checks(B, i)
  BY DEF Valid
<1>2. \A i \in 1 .. n : A[i].hash = B[i].hash =>
        /\ A[i].index = B[i].index
        /\ A[i].stamp = B[i].stamp
        /\ A[i].payload = B[i].payload
        /\ A[i].signature = B[i].signature
        /\ A[i].prev_hash = B[i].prev_hash
  BY <1>1, DigestInjective DEF Checks
<1>3. Apart = {}
  <2>1. SUFFICES ASSUME Apart # {} PROVE FALSE
    OBVIOUS
  <2>2. PICK m \in Apart : \A k \in Apart : m <= k
    <3>1. Apart \subseteq Nat
      OBVIOUS
    <3> HIDE DEF Apart
    <3> QED BY <2>1, <3>1, LeastElement
  <2>3. m \in 1 .. n - 1 /\ A[n - m].hash # B[n - m].hash
    BY <2>2
  <2>4. m - 1 \in 0 .. n - 1 /\ m - 1 \notin Apart
    <3>1. m - 1 \in 0 .. n - 1 /\ ~(m <= m - 1)
      BY <2>3
    <3> HIDE DEF Apart
    <3> QED BY <2>2, <3>1
  <2>5. A[n - (m - 1)].hash = B[n - (m - 1)].hash
    BY <2>4
  <2> DEFINE j == n - m + 1
  <2>6. j \in 2 .. n /\ j - 1 = n - m /\ n - (m - 1) = j
    BY <2>3
  <2>7. A[j].prev_hash = B[j].prev_hash
    BY <1>2, <2>5, <2>6
  <2>8. A[j].prev_hash = A[j - 1].hash /\ B[j].prev_hash = B[j - 1].hash
    BY <1>1, <2>6 DEF Checks, PrevHash
  <2> QED BY <2>3, <2>6, <2>7, <2>8
<1>4. \A i \in 1 .. n : A[i].hash = B[i].hash
  <2>1. TAKE i \in 1 .. n
  <2>2. n - i \in 0 .. n - 1 /\ n - (n - i) = i
    BY <2>1
  <2> QED BY <1>3, <2>2
<1> QED BY <1>1, <1>2, <1>4, ReceiptEqual

-------------------------------------------------------------------------------
(***************************************************************************)
(* Type correctness                                                        *)
(***************************************************************************)

LEMMA SeqMonotone ==
  ASSUME NEW S, NEW Q, S \subseteq Q, NEW s \in Seq(S)
  PROVE  s \in Seq(Q)
OBVIOUS

(* Objects are never freed: references stay good in a heap that grew. *)
LEMMA HeapGrows ==
  ASSUME TypeOK, NEW h \in Seq(Values), DOMAIN heap \subseteq DOMAIN h
  PROVE  /\ exposed \subseteq DOMAIN h
         /\ items \in Seq(Receipt(DOMAIN h))
         /\ snap \in [Threads -> DOMAIN h \cup {0}]
         /\ draft \in [Threads -> Receipt(DOMAIN h) \cup {NoReceipt}]
<1>1. Receipt(DOMAIN heap) \subseteq Receipt(DOMAIN h)
  BY ReceiptMonotone
<1>2. items \in Seq(Receipt(DOMAIN h))
  BY <1>1, SeqMonotone DEF TypeOK
<1>3. \A t \in Threads : /\ draft[t] \in Receipt(DOMAIN h) \cup {NoReceipt}
                         /\ snap[t] \in DOMAIN h \cup {0}
  BY <1>1 DEF TypeOK
<1> QED BY <1>2, <1>3 DEF TypeOK

LEMMA PrevHashType ==
  ASSUME NEW P, NEW chain \in Seq(Receipt(P)), NEW i \in 1 .. Len(chain) + 1
  PROVE  PrevHash(chain, i) \in Hash
<1>1. CASE i = 1
  BY <1>1 DEF PrevHash, Genesis, Hash
<1>2. CASE i # 1
  <2>1. chain[i - 1] \in Receipt(P)
    BY <1>2
  <2> QED BY <2>1, <1>2 DEF PrevHash, Receipt
<1> QED BY <1>1, <1>2

(* What Prepare drafts, field by field. *)
LEMMA PreparedDraft ==
  ASSUME ChainAssumption, TypeOK, NEW t \in Threads, NEW s \in Stamps,
         snap[t] \in DOMAIN heap
  PROVE  LET d == Sealed(Unhashed(t, s), heap)
         IN /\ d \in Receipt(DOMAIN heap)
            /\ d.payload = snap[t]
            /\ d.index = Len(items)
            /\ d.signature = UNSIGNED
            /\ d.prev_hash = PrevHash(items, Len(items) + 1)
            /\ d.hash = Digest(Resolve(d, heap))
<1> DEFINE u == Unhashed(t, s)
           d == Sealed(u, heap)
<1>1. PrevHash(items, Len(items) + 1) \in Hash
  <2>1. items \in Seq(Receipt(DOMAIN heap)) /\ Len(items) + 1 \in 1 .. Len(items) + 1
    BY DEF TypeOK
  <2> QED BY <2>1, PrevHashType
<1>2. u \in Receipt(DOMAIN heap)
  <2>1. Len(items) \in Nat /\ Genesis \in Hash
    BY DEF TypeOK, Genesis, Hash
  <2> QED BY <1>1, <2>1 DEF Unhashed, Receipt, ChainAssumption
<1>3. Digest(Resolve(u, heap)) \in Hash
  BY <1>2, ResolveType, DigestType DEF TypeOK
<1>4. /\ d \in Receipt(DOMAIN heap)
      /\ d.hash = Digest(Resolve(u, heap))
      /\ d.payload = u.payload /\ d.index = u.index /\ d.signature = u.signature
      /\ d.prev_hash = u.prev_hash /\ d.stamp = u.stamp
  <2> HIDE DEF u
  <2> QED BY <1>2, <1>3 DEF Sealed, Receipt
<1>5. Digest(Resolve(d, heap)) = Digest(Resolve(u, heap))
  <2>1. heap \in Seq(Values)
    BY DEF TypeOK
  <2> HIDE DEF u, d
  <2> QED BY <1>2, <1>4, <2>1, ResolveType DEF Digest
<1>6. /\ u.payload = snap[t] /\ u.index = Len(items) /\ u.signature = UNSIGNED
      /\ u.prev_hash = PrevHash(items, Len(items) + 1)
  BY DEF Unhashed
<1> QED BY <1>4, <1>5, <1>6

LEMMA ForgedReceipt ==
  ASSUME TypeOK, NEW i \in DOMAIN items, NEW v \in Contents, NEW sig \in Signatures,
         NEW o
  PROVE  LET r == [items[i] EXCEPT !.payload = v, !.signature = sig,
                                   !.prev_hash = PrevHash(items, i)]
         IN [r EXCEPT !.payload = o, !.hash = Digest(r)] \in Receipt({o})
<1> DEFINE r == [items[i] EXCEPT !.payload = v, !.signature = sig,
                                 !.prev_hash = PrevHash(items, i)]
<1>1. items[i] \in Receipt(DOMAIN heap)
  BY DEF TypeOK
<1>2. PrevHash(items, i) \in Hash
  <2>1. items \in Seq(Receipt(DOMAIN heap)) /\ i \in 1 .. Len(items) + 1
    BY DEF TypeOK
  <2> QED BY <2>1, PrevHashType
<1>3. r \in Receipt(Values)
  BY <1>1, <1>2 DEF Receipt, Values
<1>4. Digest(r) \in Hash
  <2> HIDE DEF r
  <2> QED BY <1>3, DigestType
<1> HIDE DEF r
<1>5. [r EXCEPT !.payload = o, !.hash = Digest(r)] \in Receipt({o})
  BY <1>3, <1>4 DEF Receipt
<1> QED BY <1>5 DEF r

LEMMA InitTypeOK == ASSUME ChainAssumption, Init PROVE TypeOK
BY DEF Init, TypeOK, ChainAssumption

LEMMA NextTypeOK ==
  ASSUME ChainAssumption, TypeOK, [Next]_vars,
         \A t \in Threads : pc[t] \in {"locked", "prepared"} => snap[t] \in DOMAIN heap,
         \A t \in Threads : pc[t] = "prepared" => draft[t] \in Receipt(DOMAIN heap)
  PROVE  TypeOK'
<1>1. ASSUME NEW t \in Threads, RejectPayload(t)
      PROVE  TypeOK'
  BY <1>1 DEF RejectPayload, TypeOK, ChainAssumption
<1>2. ASSUME NEW t \in Threads, NEW v \in Contents, Snapshot(t, v)
      PROVE  TypeOK'
  <2>1. /\ heap' \in Seq(Values) /\ Len(heap') = Len(heap) + 2
        /\ DOMAIN heap' = 1 .. Len(heap) + 2 /\ DOMAIN heap = 1 .. Len(heap)
    <3>1. heap \in Seq(Values) /\ <<v, v>> \in Seq(Values) /\ Len(<<v, v>>) = 2
      BY DEF TypeOK, Values
    <3> QED BY <1>2, <3>1, ConcatProperties, LenProperties DEF Snapshot
  <2>2. /\ exposed \subseteq DOMAIN heap'
        /\ items \in Seq(Receipt(DOMAIN heap'))
        /\ snap \in [Threads -> DOMAIN heap' \cup {0}]
        /\ draft \in [Threads -> Receipt(DOMAIN heap') \cup {NoReceipt}]
    <3>1. DOMAIN heap \subseteq DOMAIN heap'
      BY <2>1
    <3> QED BY <2>1, <3>1, HeapGrows
  <2>3. Len(heap) + 1 \in DOMAIN heap' /\ Len(heap) + 2 \in DOMAIN heap'
    BY <2>1
  <2>4. exposed' \subseteq DOMAIN heap' /\ snap' \in [Threads -> DOMAIN heap' \cup {0}]
    BY <1>2, <2>2, <2>3 DEF Snapshot
  <2> QED BY <1>2, <2>1, <2>2, <2>4 DEF Snapshot, TypeOK, ChainAssumption
<1>3. ASSUME NEW t \in Threads, Acquire(t)
      PROVE  TypeOK'
  BY <1>3 DEF Acquire, TypeOK
<1>4. ASSUME NEW t \in Threads, Refuse(t)
      PROVE  TypeOK'
  BY <1>4 DEF Refuse, TypeOK
<1>5. ASSUME NEW t \in Threads, NEW s \in Stamps, Prepare(t, s)
      PROVE  TypeOK'
  <2>1. Sealed(Unhashed(t, s), heap) \in Receipt(DOMAIN heap)
    BY <1>5, PreparedDraft DEF Prepare
  <2> QED BY <1>5, <2>1 DEF Prepare, TypeOK
<1>6. ASSUME NEW t \in Threads, Commit(t)
      PROVE  TypeOK'
  <2>1. draft[t] \in Receipt(DOMAIN heap)
    BY <1>6 DEF Commit
  <2>2. heap[draft[t].payload] \in Values
    BY <2>1 DEF Receipt, TypeOK
  <2>3. /\ heap' \in Seq(Values) /\ Len(heap') = Len(heap) + 1
        /\ DOMAIN heap' = 1 .. Len(heap) + 1 /\ DOMAIN heap = 1 .. Len(heap)
    BY <1>6, <2>2, AppendProperties, LenProperties DEF Commit, TypeOK
  <2>4. DOMAIN heap \subseteq DOMAIN heap' /\ Len(heap) + 1 \in DOMAIN heap'
    BY <2>3
  <2>5. /\ exposed \subseteq DOMAIN heap'
        /\ items \in Seq(Receipt(DOMAIN heap'))
        /\ snap \in [Threads -> DOMAIN heap' \cup {0}]
        /\ draft \in [Threads -> Receipt(DOMAIN heap') \cup {NoReceipt}]
    BY <2>3, <2>4, HeapGrows
  <2>6. items' \in Seq(Receipt(DOMAIN heap'))
    <3>1. draft[t] \in Receipt(DOMAIN heap')
      BY <2>1, <2>4, ReceiptMonotone
    <3> QED BY <1>6, <2>5, <3>1, AppendProperties DEF Commit
  <2>7. issued' \subseteq Receipt(Values)
    BY <1>6, <2>1, ResolveType DEF Commit, TypeOK
  <2>8. exposed' \subseteq DOMAIN heap'
    BY <1>6, <2>4, <2>5 DEF Commit
  <2> QED BY <1>6, <2>3, <2>5, <2>6, <2>7, <2>8 DEF Commit, TypeOK
<1>7. ASSUME Export
      PROVE  TypeOK'
  <2>1. Text(items, heap) \in Seq(Receipt(Values))
    BY TextType DEF TypeOK
  <2> QED BY <1>7, <2>1 DEF Export, TypeOK
<1>8. ASSUME NEW o \in exposed, NEW v \in Values, Mutate(o, v)
      PROVE  TypeOK'
  <2>1. heap' \in Seq(Values) /\ DOMAIN heap' = DOMAIN heap
    BY <1>8 DEF Mutate, TypeOK
  <2> QED BY <1>8, <2>1 DEF Mutate, TypeOK
<1>9. ASSUME NEW i \in DOMAIN items, NEW v \in Values, EditPayload(i, v)
      PROVE  TypeOK'
  <2>1. heap' \in Seq(Values) /\ DOMAIN heap' = DOMAIN heap
    <3>1. items[i] \in Receipt(DOMAIN heap)
      BY DEF TypeOK
    <3>2. items[i].payload \in DOMAIN heap
      BY <3>1 DEF Receipt
    <3> QED BY <1>9, <3>2 DEF EditPayload, TypeOK
  <2>2. tampers' \in 0 .. MaxTampers
    BY <1>9 DEF EditPayload, Tamper, TypeOK, ChainAssumption
  <2> QED BY <1>9, <2>1, <2>2 DEF EditPayload, TypeOK
<1>10. ASSUME NEW i \in DOMAIN items, NEW v \in Contents, NEW sig \in Signatures,
              Forge(i, v, sig)
       PROVE  TypeOK'
  <2> DEFINE r == [items[i] EXCEPT !.payload = v, !.signature = sig,
                                   !.prev_hash = PrevHash(items, i)]
             f == [r EXCEPT !.payload = Len(heap) + 1, !.hash = Digest(r)]
  <2>1. /\ heap' \in Seq(Values) /\ Len(heap') = Len(heap) + 1
        /\ DOMAIN heap' = 1 .. Len(heap) + 1 /\ DOMAIN heap = 1 .. Len(heap)
    BY <1>10, AppendProperties, LenProperties DEF Forge, TypeOK, Values
  <2>2. DOMAIN heap \subseteq DOMAIN heap' /\ {Len(heap) + 1} \subseteq DOMAIN heap'
    BY <2>1
  <2>3. /\ exposed \subseteq DOMAIN heap'
        /\ items \in Seq(Receipt(DOMAIN heap'))
        /\ snap \in [Threads -> DOMAIN heap' \cup {0}]
        /\ draft \in [Threads -> Receipt(DOMAIN heap') \cup {NoReceipt}]
    BY <2>1, <2>2, HeapGrows
  <2>4. f \in Receipt(DOMAIN heap')
    <3>1. f \in Receipt({Len(heap) + 1})
      BY ForgedReceipt
    <3> HIDE DEF f
    <3> QED BY <2>2, <3>1, ReceiptMonotone
  <2>5. items' = [items EXCEPT ![i] = f]
    BY <1>10 DEF Forge
  <2>6. items' \in Seq(Receipt(DOMAIN heap'))
    <3>1. i \in 1 .. Len(items)
      BY DEF TypeOK
    <3> HIDE DEF f
    <3> QED BY <2>3, <2>4, <2>5, <3>1, ExceptSeq
  <2>7. tampers' \in 0 .. MaxTampers
    BY <1>10 DEF Forge, Tamper, TypeOK, ChainAssumption
  <2> QED BY <1>10, <2>1, <2>3, <2>6, <2>7 DEF Forge, TypeOK
<1>11. ASSUME NEW i \in DOMAIN items, Truncate(i - 1)
       PROVE  TypeOK'
  <2>1. items' \in Seq(Receipt(DOMAIN heap))
    <3>1. \A j \in 1 .. i - 1 : items[j] \in Receipt(DOMAIN heap)
      BY DEF TypeOK
    <3>2. 1 \in Int /\ i - 1 \in Int
      BY DEF TypeOK
    <3> QED BY <1>11, <3>1, <3>2, SubSeqProperties DEF Truncate
  <2>2. tampers' \in 0 .. MaxTampers
    BY <1>11 DEF Truncate, Tamper, TypeOK, ChainAssumption
  <2> QED BY <1>11, <2>1, <2>2 DEF Truncate, TypeOK
<1>12. CASE UNCHANGED vars
  BY <1>12 DEF vars, TypeOK
<1> QED
  BY <1>1, <1>2, <1>3, <1>4, <1>5, <1>6, <1>7, <1>8, <1>9, <1>10, <1>11, <1>12
     DEF Next, AppendStep, Writer

-------------------------------------------------------------------------------
(***************************************************************************)
(* Lemmas on growing chains                                                *)
(***************************************************************************)

(* A text depends on the heap only through the chain's own objects. *)
LEMMA TextStable ==
  ASSUME NEW chain, NEW h, NEW g,
         \A i \in 1 .. Len(chain) : h[chain[i].payload] = g[chain[i].payload]
  PROVE  Text(chain, h) = Text(chain, g)
BY DEF Text, Resolve

LEMMA TextAppend ==
  ASSUME NEW h \in Seq(Values), NEW chain \in Seq(Receipt(DOMAIN h)),
         NEW r \in Receipt(DOMAIN h)
  PROVE  Text(Append(chain, r), h) = Append(Text(chain, h), Resolve(r, h))
<1>1. /\ Append(chain, r) \in Seq(Receipt(DOMAIN h))
      /\ Len(Append(chain, r)) = Len(chain) + 1
      /\ \A i \in 1 .. Len(chain) : Append(chain, r)[i] = chain[i]
      /\ Append(chain, r)[Len(chain) + 1] = r
  BY AppendProperties
<1>2. /\ Text(Append(chain, r), h) \in Seq(Receipt(Values))
      /\ Len(Text(Append(chain, r), h)) = Len(chain) + 1
      /\ \A i \in 1 .. Len(chain) + 1 :
           Text(Append(chain, r), h)[i] = Resolve(Append(chain, r)[i], h)
  BY <1>1, TextType
<1>3. /\ Text(chain, h) \in Seq(Receipt(Values))
      /\ Len(Text(chain, h)) = Len(chain)
      /\ \A i \in 1 .. Len(chain) : Text(chain, h)[i] = Resolve(chain[i], h)
  BY TextType
<1>4. Resolve(r, h) \in Receipt(Values)
  BY ResolveType
<1>5. /\ Append(Text(chain, h), Resolve(r, h)) \in Seq(Receipt(Values))
      /\ Len(Append(Text(chain, h), Resolve(r, h))) = Len(chain) + 1
      /\ \A i \in 1 .. Len(chain) :
           Append(Text(chain, h), Resolve(r, h))[i] = Resolve(chain[i], h)
      /\ Append(Text(chain, h), Resolve(r, h))[Len(chain) + 1] = Resolve(r, h)
  BY <1>3, <1>4, AppendProperties
<1>6. \A i \in 1 .. Len(chain) + 1 :
        Text(Append(chain, r), h)[i] = Append(Text(chain, h), Resolve(r, h))[i]
  <2>1. TAKE i \in 1 .. Len(chain) + 1
  <2>2. CASE i = Len(chain) + 1
    BY <1>1, <1>2, <1>5, <2>2
  <2>3. CASE i \in 1 .. Len(chain)
    BY <1>1, <1>2, <1>5, <2>3
  <2>4. i = Len(chain) + 1 \/ i \in 1 .. Len(chain)
    <3>1. Len(chain) \in Nat
      BY LenProperties
    <3> QED BY <2>1, <3>1
  <2> QED BY <2>2, <2>3, <2>4
<1> QED BY <1>2, <1>5, <1>6, SeqEqual

(* A longer text verifies exactly when its prefix does and the new receipt *)
(* passes its own checks.                                                  *)
LEMMA ValidAppend ==
  ASSUME NEW text \in Seq(Receipt(Values)), NEW r \in Receipt(Values)
  PROVE  Valid(Append(text, r)) <=>
           /\ Valid(text)
           /\ Checks(Append(text, r), Len(text) + 1)
<1> DEFINE longer == Append(text, r)
<1>1. /\ Len(longer) = Len(text) + 1 /\ Len(text) \in Nat
      /\ \A i \in 1 .. Len(text) : longer[i] = text[i]
  BY AppendProperties
<1> HIDE DEF longer
<1>2. \A i \in 1 .. Len(text) : PrevHash(longer, i) = PrevHash(text, i)
  BY <1>1 DEF PrevHash
<1>3. \A i \in 1 .. Len(text) : Checks(longer, i) <=> Checks(text, i)
  BY <1>1, <1>2 DEF Checks
<1>4. 1 .. Len(longer) = 1 .. Len(text) \cup {Len(text) + 1}
  BY <1>1
<1>5. Valid(longer) <=> Valid(text) /\ Checks(longer, Len(text) + 1)
  BY <1>3, <1>4 DEF Valid
<1> QED BY <1>5 DEF longer

LEMMA PrevHashText ==
  ASSUME NEW h \in Seq(Values), NEW chain \in Seq(Receipt(DOMAIN h)),
         NEW i \in 1 .. Len(chain) + 1
  PROVE  PrevHash(Text(chain, h), i) = PrevHash(chain, i)
<1>1. CASE i = 1
  BY <1>1 DEF PrevHash
<1>2. CASE i # 1
  <2>1. i - 1 \in 1 .. Len(chain) /\ chain[i - 1] \in Receipt(DOMAIN h)
    BY <1>2
  <2>2. Text(chain, h)[i - 1].hash = chain[i - 1].hash
    BY <2>1, TextType, ResolveType
  <2> QED BY <1>2, <2>2 DEF PrevHash
<1> QED BY <1>1, <1>2

(* A chain extended by a receipt that fits verifies if it did before. *)
LEMMA FittingReceipt ==
  ASSUME NEW h \in Seq(Values), NEW chain \in Seq(Receipt(DOMAIN h)),
         NEW r \in Receipt(DOMAIN h),
         Valid(Text(chain, h)), h[r.payload] # NonFinite,
         r.index = Len(chain), r.signature = UNSIGNED,
         r.prev_hash = PrevHash(chain, Len(chain) + 1),
         r.hash = Digest(Resolve(r, h))
  PROVE  Valid(Text(Append(chain, r), h))
<1> DEFINE text == Text(chain, h)
           q == Resolve(r, h)
<1>1. text \in Seq(Receipt(Values)) /\ Len(text) = Len(chain)
  BY TextType
<1>2. /\ q \in Receipt(Values) /\ q.payload = h[r.payload] /\ q.index = r.index
      /\ q.signature = r.signature /\ q.prev_hash = r.prev_hash /\ q.hash = r.hash
  BY ResolveType
<1>3. PrevHash(text, Len(chain) + 1) = PrevHash(chain, Len(chain) + 1)
  BY PrevHashText
<1>4. Checks(Append(text, q), Len(text) + 1)
  <2>1. /\ Append(text, q)[Len(text) + 1] = q
        /\ \A i \in 1 .. Len(text) : Append(text, q)[i] = text[i]
    <3> HIDE DEF text, q
    <3> QED BY <1>1, <1>2, AppendProperties
  <2>2. PrevHash(Append(text, q), Len(text) + 1) = PrevHash(text, Len(text) + 1)
    <3> HIDE DEF text, q
    <3> QED BY <1>1, <2>1 DEF PrevHash
  <2>3. q.hash = Digest(q)
    BY <1>2
  <2> HIDE DEF text, q
  <2> QED BY <1>1, <1>2, <1>3, <2>1, <2>2, <2>3 DEF Checks
<1>5. Valid(Append(text, q))
  <2>1. Valid(text)
    OBVIOUS
  <2> HIDE DEF text, q
  <2> QED BY <1>1, <1>2, <1>4, <2>1, ValidAppend
<1> QED BY <1>5, TextAppend

-------------------------------------------------------------------------------
(***************************************************************************)
(* The invariant is inductive                                              *)
(***************************************************************************)

LEMMA InitIInv == ASSUME ChainAssumption, Init PROVE IInv
<1>1. TypeOK
  BY InitTypeOK
<1>2. LockInv /\ Detached
  BY DEF Init, LockInv, Detached, ChainAssumption
<1>3. Honest
  BY DEF Init, Honest, DraftFits, SnapshotsRender, Verified, Valid, Text, IssuedInChain,
         IssuedRender
<1> QED BY <1>1, <1>2, <1>3 DEF IInv

LEMMA NextLockInv ==
  ASSUME ChainAssumption, TypeOK, LockInv, [Next]_vars
  PROVE  LockInv'
<1> USE DEF TypeOK, LockInv, ChainAssumption
<1>1. ASSUME NEW t \in Threads, RejectPayload(t)
      PROVE  LockInv'
  BY <1>1 DEF RejectPayload
<1>2. ASSUME NEW t \in Threads, NEW v \in Contents, Snapshot(t, v)
      PROVE  LockInv'
  BY <1>2 DEF Snapshot
<1>3. ASSUME NEW t \in Threads, Acquire(t)
      PROVE  LockInv'
  BY <1>3 DEF Acquire
<1>4. ASSUME NEW t \in Threads, Refuse(t)
      PROVE  LockInv'
  BY <1>4 DEF Refuse
<1>5. ASSUME NEW t \in Threads, NEW s \in Stamps, Prepare(t, s)
      PROVE  LockInv'
  BY <1>5 DEF Prepare
<1>6. ASSUME NEW t \in Threads, Commit(t)
      PROVE  LockInv'
  BY <1>6 DEF Commit
<1>7. CASE Export
  BY <1>7 DEF Export
<1>8. ASSUME NEW o \in exposed, NEW v \in Values, Mutate(o, v)
      PROVE  LockInv'
  BY <1>8 DEF Mutate
<1>9. CASE Writer
  BY <1>9 DEF Writer, EditPayload, Forge, Truncate
<1>10. CASE UNCHANGED vars
  BY <1>10 DEF vars
<1> QED
  BY <1>1, <1>2, <1>3, <1>4, <1>5, <1>6, <1>7, <1>8, <1>9, <1>10 DEF Next, AppendStep

(* The objects a chain of this heap refers to are objects of this heap. *)
LEMMA ChainObjects ==
  ASSUME TypeOK
  PROVE  /\ \A i \in DOMAIN items : items[i] \in Receipt(DOMAIN heap)
         /\ \A i \in DOMAIN items : items[i].payload \in DOMAIN heap
         /\ DOMAIN items = 1 .. Len(items) /\ Len(items) \in Nat
         /\ DOMAIN heap = 1 .. Len(heap) /\ Len(heap) \in Nat
         /\ exposed \subseteq DOMAIN heap
<1>1. \A i \in DOMAIN items : items[i] \in Receipt(DOMAIN heap)
  BY DEF TypeOK
<1>2. \A i \in DOMAIN items : items[i].payload \in DOMAIN heap
  BY <1>1 DEF Receipt
<1> QED BY <1>1, <1>2 DEF TypeOK

LEMMA NextDetached ==
  ASSUME ChainAssumption, TypeOK, LockInv, Detached, [Next]_vars
  PROVE  Detached'
<1>1. ASSUME NEW t \in Threads, RejectPayload(t)
      PROVE  Detached'
  BY <1>1 DEF RejectPayload, Detached
<1>2. ASSUME NEW t \in Threads, NEW v \in Contents, Snapshot(t, v)
      PROVE  Detached'
  <2>1. /\ DOMAIN heap' = 1 .. Len(heap) + 2
        /\ exposed' = exposed \cup {Len(heap) + 1}
    <3>1. heap \in Seq(Values) /\ <<v, v>> \in Seq(Values) /\ Len(<<v, v>>) = 2
      BY DEF TypeOK, Values
    <3>2. heap' \in Seq(Values) /\ Len(heap') = Len(heap) + 2
      BY <1>2, <3>1, ConcatProperties DEF Snapshot
    <3> QED BY <1>2, <3>2, LenProperties DEF Snapshot
  <2>2. \A i \in DOMAIN items : items[i].payload \notin exposed'
    BY <2>1, ChainObjects DEF Detached
  <2>3. \A u \in Threads : pc'[u] # "idle" => snap'[u] \in DOMAIN heap' \ exposed'
    <3>1. TAKE u \in Threads
    <3>2. CASE u = t
      BY <1>2, <2>1, <3>2, ChainObjects DEF Snapshot, TypeOK
    <3>3. CASE u # t
      BY <1>2, <2>1, <3>3, ChainObjects DEF Snapshot, TypeOK, Detached
    <3> QED BY <3>2, <3>3
  <2>4. Receipt(DOMAIN heap) \subseteq Receipt(DOMAIN heap')
    <3>1. DOMAIN heap \subseteq DOMAIN heap'
      BY <2>1, ChainObjects
    <3> QED BY <3>1, ReceiptMonotone
  <2>5. \A u \in Threads : pc'[u] = "prepared" => u # t /\ pc[u] = "prepared"
    BY <1>2 DEF Snapshot, TypeOK
  <2> QED BY <1>2, <2>2, <2>3, <2>4, <2>5 DEF Snapshot, Detached, TypeOK
<1>3. ASSUME NEW t \in Threads, Acquire(t)
      PROVE  Detached'
  BY <1>3 DEF Acquire, Detached, TypeOK
<1>4. ASSUME NEW t \in Threads, Refuse(t)
      PROVE  Detached'
  BY <1>4 DEF Refuse, Detached, TypeOK
<1>5. ASSUME NEW t \in Threads, NEW s \in Stamps, Prepare(t, s)
      PROVE  Detached'
  <2>1. snap[t] \in DOMAIN heap
    BY <1>5 DEF Prepare, Detached
  <2>2. /\ Sealed(Unhashed(t, s), heap) \in Receipt(DOMAIN heap)
        /\ Sealed(Unhashed(t, s), heap).payload = snap[t]
    BY <2>1, PreparedDraft
  <2> QED BY <1>5, <2>2 DEF Prepare, Detached, TypeOK
<1>6. ASSUME NEW t \in Threads, Commit(t)
      PROVE  Detached'
  <2>1. draft[t] \in Receipt(DOMAIN heap) /\ draft[t].payload \in DOMAIN heap \ exposed
    BY <1>6 DEF Commit, Detached
  <2>2. heap[draft[t].payload] \in Values
    BY <2>1 DEF TypeOK
  <2>3. DOMAIN heap' = 1 .. Len(heap) + 1 /\ exposed' = exposed \cup {Len(heap) + 1}
    BY <1>6, <2>2, AppendProperties, LenProperties DEF Commit, TypeOK
  <2>4. /\ DOMAIN items' = 1 .. Len(items) + 1
        /\ items'[Len(items) + 1] = draft[t]
        /\ \A i \in 1 .. Len(items) : items'[i] = items[i]
    BY <1>6, <2>1, AppendProperties, LenProperties DEF Commit, TypeOK
  <2>5. \A i \in DOMAIN items' : items'[i].payload \notin exposed'
    <3>1. TAKE i \in DOMAIN items'
    <3>2. CASE i = Len(items) + 1
      BY <2>1, <2>3, <2>4, <3>2, ChainObjects
    <3>3. CASE i \in DOMAIN items
      BY <2>3, <2>4, <3>3, ChainObjects DEF Detached
    <3> QED BY <2>4, <3>2, <3>3, ChainObjects
  <2>6. \A u \in Threads : pc'[u] # "idle" => u # t /\ snap[u] \in DOMAIN heap \ exposed
    BY <1>6 DEF Commit, Detached, TypeOK
  <2>7. \A u \in Threads : pc'[u] # "idle" => snap'[u] \in DOMAIN heap' \ exposed'
    BY <1>6, <2>3, <2>6, ChainObjects DEF Commit, TypeOK
  <2>8. \A u \in Threads : pc'[u] # "prepared"
    BY <1>6 DEF Commit, LockInv, TypeOK
  <2> QED BY <2>5, <2>7, <2>8 DEF Detached
<1>7. CASE Export
  BY <1>7 DEF Export, Detached
<1>8. ASSUME NEW o \in exposed, NEW v \in Values, Mutate(o, v)
      PROVE  Detached'
  <2>1. DOMAIN heap' = DOMAIN heap
    BY <1>8 DEF Mutate, TypeOK
  <2> QED BY <1>8, <2>1 DEF Mutate, Detached
<1>9. ASSUME NEW i \in DOMAIN items, NEW v \in Values, EditPayload(i, v)
      PROVE  Detached'
  <2>1. DOMAIN heap' = DOMAIN heap
    BY <1>9 DEF EditPayload, TypeOK
  <2> QED BY <1>9, <2>1 DEF EditPayload, Detached
<1>10. ASSUME NEW i \in DOMAIN items, NEW v \in Contents, NEW sig \in Signatures,
              Forge(i, v, sig)
       PROVE  Detached'
  <2> DEFINE r == [items[i] EXCEPT !.payload = v, !.signature = sig,
                                   !.prev_hash = PrevHash(items, i)]
             f == [r EXCEPT !.payload = Len(heap) + 1, !.hash = Digest(r)]
  <2>1. DOMAIN heap' = 1 .. Len(heap) + 1
    BY <1>10, AppendProperties, LenProperties DEF Forge, TypeOK, Values
  <2>2. f.payload = Len(heap) + 1
    <3>1. f \in Receipt({Len(heap) + 1})
      BY ForgedReceipt
    <3> HIDE DEF f
    <3> QED BY <3>1 DEF Receipt
  <2>3. items' = [items EXCEPT ![i] = f]
    BY <1>10 DEF Forge
  <2> HIDE DEF f
  <2>4. \A j \in DOMAIN items' : items'[j].payload \notin exposed
    BY <2>2, <2>3, ChainObjects DEF Detached
  <2>5. Receipt(DOMAIN heap) \subseteq Receipt(DOMAIN heap')
    <3>1. DOMAIN heap \subseteq DOMAIN heap'
      BY <2>1, ChainObjects
    <3> QED BY <3>1, ReceiptMonotone
  <2>6. \A u \in Threads : pc[u] # "idle" => snap[u] \in DOMAIN heap' \ exposed
    BY <2>1, ChainObjects DEF Detached
  <2> QED BY <1>10, <2>4, <2>5, <2>6 DEF Forge, Detached
<1>11. ASSUME NEW i \in DOMAIN items, Truncate(i - 1)
       PROVE  Detached'
  <2>1. \A j \in DOMAIN items' : j \in DOMAIN items /\ items'[j] = items[j]
    <3>1. \A j \in 1 .. i - 1 : items[j] \in Receipt(DOMAIN heap)
      BY ChainObjects
    <3>2. 1 \in Int /\ i - 1 \in Int
      BY ChainObjects
    <3>3. /\ items' \in Seq(Receipt(DOMAIN heap))
          /\ Len(items') = IF 1 <= i - 1 THEN i - 1 ELSE 0
          /\ \A j \in 1 .. i - 1 : items'[j] = items[j]
      BY <1>11, <3>1, <3>2, SubSeqProperties DEF Truncate
    <3> QED BY <3>2, <3>3, LenProperties, ChainObjects
  <2> QED BY <1>11, <2>1 DEF Truncate, Detached
<1>12. CASE UNCHANGED vars
  BY <1>12 DEF vars, Detached
<1> QED
  BY <1>1, <1>2, <1>3, <1>4, <1>5, <1>6, <1>7, <1>8, <1>9, <1>10, <1>11, <1>12
     DEF Next, AppendStep, Writer

(* Every step of the privileged writer is counted. *)
LEMMA WriterCounts ==
  ASSUME TypeOK, Writer
  PROVE  tampers' = tampers + 1 /\ tampers' # tampers
<1>1. tampers \in Int
  BY DEF TypeOK
<1>2. tampers' = tampers + 1
  BY DEF Writer, EditPayload, Forge, Truncate, Tamper
<1> QED BY <1>1, <1>2

(* The writer's edits only become more.                                    *)
LEMMA TampersCount ==
  ASSUME TypeOK, [Next]_vars
  PROVE  tampers' = tampers \/ tampers' = tampers + 1
<1>1. CASE Writer
  BY <1>1, WriterCounts
<1>2. CASE ~Writer
  BY <1>2 DEF Next, vars, RejectPayload, Snapshot, AppendStep, Acquire, Refuse, Prepare, Commit,
              Export, Mutate
<1> QED BY <1>1, <1>2

(* Objects no caller holds and that exist already keep their content: a    *)
(* step of anyone but the writer changes exposed objects or adds new ones. *)
LEMMA HiddenObjectsKept ==
  ASSUME ChainAssumption, TypeOK, Detached, [Next]_vars, tampers' = tampers,
         NEW o \in DOMAIN heap \ exposed
  PROVE  heap'[o] = heap[o]
<1>1. ASSUME NEW t \in Threads, NEW v \in Contents, Snapshot(t, v)
      PROVE  heap'[o] = heap[o]
  <2>1. heap \in Seq(Values) /\ <<v, v>> \in Seq(Values) /\ Len(<<v, v>>) = 2
    BY DEF TypeOK, Values
  <2>2. o \in 1 .. Len(heap) /\ Len(heap) \in Nat
    BY ChainObjects
  <2> QED BY <1>1, <2>1, <2>2, ConcatProperties DEF Snapshot
<1>2. ASSUME NEW t \in Threads, Commit(t)
      PROVE  heap'[o] = heap[o]
  <2>1. draft[t] \in Receipt(DOMAIN heap)
    BY <1>2 DEF Commit, Detached
  <2>2. heap[draft[t].payload] \in Values
    BY <2>1 DEF TypeOK, Receipt
  <2> QED BY <1>2, <2>2, AppendProperties, ChainObjects DEF Commit, TypeOK
<1>3. ASSUME NEW p \in exposed, NEW v \in Values, Mutate(p, v)
      PROVE  heap'[o] = heap[o]
  BY <1>3 DEF Mutate, TypeOK
<1>4. ~Writer
  BY WriterCounts
<1>5. ASSUME NEW t \in Threads,
             RejectPayload(t) \/ Acquire(t) \/ Refuse(t) \/ (\E s \in Stamps : Prepare(t, s))
      PROVE  heap'[o] = heap[o]
  BY <1>5 DEF RejectPayload, Acquire, Refuse, Prepare
<1>6. CASE Export \/ UNCHANGED vars
  BY <1>6 DEF Export, vars
<1> QED BY <1>1, <1>2, <1>3, <1>4, <1>5, <1>6 DEF Next, AppendStep

(* The chain after a step of anyone but the writer: the same, or longer by *)
(* the draft of the committing thread.                                     *)
LEMMA ChainKeptOrExtended ==
  ASSUME ChainAssumption, TypeOK, [Next]_vars, tampers' = tampers
  PROVE  \/ items' = items /\ issued' = issued
         \/ \E t \in Threads : Commit(t)
<1>1. ~Writer
  BY WriterCounts
<1>2. ASSUME NEW t \in Threads, RejectPayload(t) \/ AppendStep(t), ~Commit(t)
      PROVE  items' = items /\ issued' = issued
  BY <1>2 DEF RejectPayload, AppendStep, Acquire, Refuse, Prepare
<1>3. ASSUME NEW t \in Threads, NEW v \in Contents, Snapshot(t, v)
      PROVE  items' = items /\ issued' = issued
  BY <1>3 DEF Snapshot
<1>4. ASSUME \/ UNCHANGED vars \/ Export
             \/ \E o \in exposed, v \in Values : Mutate(o, v)
      PROVE  items' = items /\ issued' = issued
  BY <1>4 DEF vars, Export, Mutate
<1> QED BY <1>1, <1>2, <1>3, <1>4 DEF Next

(* The text of the present chain reads the same in the next heap. *)
LEMMA TextKept ==
  ASSUME ChainAssumption, TypeOK, Detached, [Next]_vars, tampers' = tampers
  PROVE  /\ Text(items, heap') = Text(items, heap)
         /\ \A i \in DOMAIN items : Resolve(items[i], heap') = Resolve(items[i], heap)
<1>1. \A i \in DOMAIN items : heap'[items[i].payload] = heap[items[i].payload]
  <2>1. \A i \in DOMAIN items : items[i].payload \in DOMAIN heap \ exposed
    BY ChainObjects DEF Detached
  <2> QED BY <2>1, HiddenObjectsKept
<1>2. DOMAIN items = 1 .. Len(items)
  BY ChainObjects
<1> QED BY <1>1, <1>2, TextStable DEF Resolve

(* What Commit does to the chain, whatever the writer did before. *)
LEMMA CommitExtends ==
  ASSUME ChainAssumption, TypeOK, TypeOK', Detached, [Next]_vars,
         NEW t \in Threads, Commit(t)
  PROVE  /\ draft[t] \in Receipt(DOMAIN heap)
         /\ DOMAIN heap \subseteq DOMAIN heap'
         /\ heap'[draft[t].payload] = heap[draft[t].payload]
         /\ Resolve(draft[t], heap') = Resolve(draft[t], heap)
         /\ Len(items') = Len(items) + 1
         /\ items'[Len(items) + 1] = draft[t]
         /\ \A i \in 1 .. Len(items) : items'[i] = items[i]
         /\ Text(items', heap') = Append(Text(items, heap), Resolve(draft[t], heap))
<1>1. draft[t] \in Receipt(DOMAIN heap) /\ draft[t].payload \in DOMAIN heap \ exposed
  BY DEF Commit, Detached
<1>2. tampers' = tampers
  BY DEF Commit
<1>3. heap'[draft[t].payload] = heap[draft[t].payload]
  BY <1>1, <1>2, HiddenObjectsKept
<1>4. Resolve(draft[t], heap') = Resolve(draft[t], heap)
  BY <1>3 DEF Resolve
<1>5. DOMAIN heap \subseteq DOMAIN heap'
  <2>1. heap[draft[t].payload] \in Values
    BY <1>1 DEF TypeOK
  <2> QED BY <2>1, AppendProperties, LenProperties DEF Commit, TypeOK
<1>6. /\ Len(items') = Len(items) + 1
      /\ items'[Len(items) + 1] = draft[t]
      /\ \A i \in 1 .. Len(items) : items'[i] = items[i]
  BY <1>1, AppendProperties DEF Commit, TypeOK
<1>7. Text(items', heap') = Append(Text(items, heap), Resolve(draft[t], heap))
  <2>1. /\ heap' \in Seq(Values) /\ items \in Seq(Receipt(DOMAIN heap'))
        /\ draft[t] \in Receipt(DOMAIN heap')
    BY <1>1, <1>5, HeapGrows, ReceiptMonotone DEF TypeOK
  <2>2. Text(items', heap') = Append(Text(items, heap'), Resolve(draft[t], heap'))
    BY <2>1, TextAppend DEF Commit
  <2> QED BY <1>2, <1>4, <2>2, TextKept
<1> QED BY <1>1, <1>3, <1>4, <1>5, <1>6, <1>7

LEMMA NextHonest ==
  ASSUME ChainAssumption, IInv, TypeOK', LockInv', Detached', [Next]_vars, tampers' = 0
  PROVE  Honest'
<1>1. tampers' = tampers /\ tampers = 0
  <2>1. ~Writer => tampers' = tampers
    BY DEF Next, vars, RejectPayload, Snapshot, AppendStep, Acquire, Refuse, Prepare, Commit,
           Export, Mutate
  <2>2. ~Writer
    <3>1. tampers \in Nat
      BY DEF IInv, TypeOK
    <3> QED BY <3>1, WriterCounts DEF IInv
  <2> QED BY <2>1, <2>2
<1>2. TypeOK /\ LockInv /\ Detached /\ DraftFits /\ SnapshotsRender /\ Verified
      /\ IssuedInChain /\ IssuedRender
  BY <1>1 DEF IInv, Honest
<1>3. CASE \E t \in Threads : Commit(t)
  <2>1. PICK t \in Threads : Commit(t)
    BY <1>3
  <2> DEFINE r == Resolve(draft[t], heap)
  <2>2. /\ draft[t] \in Receipt(DOMAIN heap)
        /\ DOMAIN heap \subseteq DOMAIN heap'
        /\ heap'[draft[t].payload] = heap[draft[t].payload]
        /\ Resolve(draft[t], heap') = r
        /\ Len(items') = Len(items) + 1
        /\ items'[Len(items) + 1] = draft[t]
        /\ \A i \in 1 .. Len(items) : items'[i] = items[i]
        /\ Text(items', heap') = Append(Text(items, heap), r)
    BY <1>2, <2>1, CommitExtends
  <2>3. /\ draft[t].index = Len(items)
        /\ draft[t].signature = UNSIGNED
        /\ draft[t].prev_hash = PrevHash(items, Len(items) + 1)
        /\ draft[t].hash = Digest(r)
        /\ heap[draft[t].payload] \in Contents
    BY <1>2, <2>1 DEF Commit, DraftFits, SnapshotsRender, Detached
  <2>4. /\ items \in Seq(Receipt(DOMAIN heap)) /\ heap \in Seq(Values)
        /\ Len(items) \in Nat
    BY <1>2, ChainObjects DEF TypeOK
  <2>5. r \in Receipt(Values) /\ r.payload \in Contents /\ r.index = Len(items)
    BY <2>2, <2>3, <2>4, ResolveType
  <2>6. Verified'
    <3>1. Valid(Text(Append(items, draft[t]), heap))
      <4>1. heap[draft[t].payload] # NonFinite /\ Valid(Text(items, heap))
        BY <1>2, <2>3 DEF ChainAssumption, Verified
      <4> QED BY <2>2, <2>3, <2>4, <4>1, FittingReceipt
    <3>2. Text(Append(items, draft[t]), heap) = Append(Text(items, heap), r)
      BY <2>2, <2>4, TextAppend
    <3> QED BY <2>2, <3>1, <3>2 DEF Verified
  <2>7. issued' = issued \cup {r}
    BY <2>1 DEF Commit
  <2>8. IssuedInChain'
    <3>1. SUFFICES ASSUME NEW q \in issued'
                   PROVE  /\ q.index < Len(items')
                          /\ Resolve(items'[q.index + 1], heap') = q
      BY DEF IssuedInChain
    <3>2. CASE q \in issued
      <4>1. q.index \in Nat /\ q.index < Len(items)
        BY <1>2, <3>2 DEF IssuedInChain, TypeOK, Receipt
      <4>2. q.index + 1 \in 1 .. Len(items)
        BY <2>4, <4>1
      <4>3. Resolve(items[q.index + 1], heap') = Resolve(items[q.index + 1], heap)
        BY <1>1, <1>2, <4>2, TextKept, ChainObjects
      <4>4. Resolve(items[q.index + 1], heap) = q
        BY <1>2, <3>2 DEF IssuedInChain
      <4>5. items'[q.index + 1] = items[q.index + 1] /\ q.index < Len(items')
        BY <2>2, <2>4, <4>1, <4>2
      <4> QED BY <4>3, <4>4, <4>5
    <3>3. CASE q = r
      <4> HIDE DEF r
      <4> QED BY <2>2, <2>4, <2>5, <3>3
    <3> QED BY <2>7, <3>1, <3>2, <3>3
  <2>9. IssuedRender'
    BY <1>2, <2>5, <2>7 DEF IssuedRender
  <2>10. DraftFits'
    BY <1>2, <2>1 DEF DraftFits, Commit, LockInv, TypeOK
  <2>11. SnapshotsRender'
    <3>1. SUFFICES ASSUME NEW u \in Threads, pc'[u] # "idle"
                   PROVE  heap'[snap'[u]] \in Contents
      BY DEF SnapshotsRender
    <3>2. u # t /\ pc[u] # "idle" /\ snap'[u] = snap[u]
      BY <1>2, <2>1, <3>1 DEF Commit, TypeOK
    <3>3. snap[u] \in DOMAIN heap \ exposed
      BY <1>2, <3>2 DEF Detached
    <3>4. heap'[snap[u]] = heap[snap[u]]
      BY <1>1, <1>2, <3>3, HiddenObjectsKept
    <3> QED BY <1>2, <3>2, <3>4 DEF SnapshotsRender
  <2> QED BY <2>6, <2>8, <2>9, <2>10, <2>11 DEF Honest
<1>4. CASE ~ \E t \in Threads : Commit(t)
  <2>1. items' = items /\ issued' = issued
    BY <1>1, <1>2, <1>4, ChainKeptOrExtended
  <2>2. /\ Text(items, heap') = Text(items, heap)
        /\ \A i \in DOMAIN items : Resolve(items[i], heap') = Resolve(items[i], heap)
    BY <1>1, <1>2, TextKept
  <2>3. Verified' /\ IssuedRender'
    BY <1>2, <2>1, <2>2 DEF Verified, IssuedRender
  <2>4. IssuedInChain'
    <3>1. \A q \in issued : q.index + 1 \in DOMAIN items
      <4>1. \A q \in issued : q.index \in Nat /\ q.index < Len(items)
        BY <1>2 DEF IssuedInChain, TypeOK, Receipt
      <4> QED BY <1>2, <4>1, ChainObjects
    <3> QED BY <1>2, <2>1, <2>2, <3>1 DEF IssuedInChain
  <2>5. ASSUME NEW u \in Threads, pc'[u] # "idle"
        PROVE  heap'[snap'[u]] \in Contents
    <3>1. CASE \E v \in Contents : Snapshot(u, v)
      <4>1. PICK v \in Contents : Snapshot(u, v)
        BY <3>1
      <4>2. heap \in Seq(Values) /\ <<v, v>> \in Seq(Values) /\ Len(<<v, v>>) = 2
        BY <1>2 DEF TypeOK, Values
      <4>3. snap'[u] = Len(heap) + 2 /\ Len(heap) \in Nat
        BY <1>2, <4>1 DEF Snapshot, TypeOK
      <4>4. heap'[Len(heap) + 2] = v
        BY <4>1, <4>2, <4>3, ConcatProperties DEF Snapshot
      <4> QED BY <4>3, <4>4
    <3>2. CASE ~ \E v \in Contents : Snapshot(u, v)
      <4>1. pc[u] # "idle" /\ snap'[u] = snap[u]
        <5>1. ~Writer
          BY <1>1, <1>2, WriterCounts
        <5> QED BY <1>2, <1>4, <2>5, <3>2, <5>1
                DEF Next, vars, RejectPayload, Snapshot, AppendStep, Acquire, Refuse, Prepare,
                    Export, Mutate, TypeOK
      <4>2. snap[u] \in DOMAIN heap \ exposed
        BY <1>2, <4>1 DEF Detached
      <4>3. heap'[snap[u]] = heap[snap[u]]
        BY <1>1, <1>2, <4>2, HiddenObjectsKept
      <4> QED BY <1>2, <4>1, <4>3 DEF SnapshotsRender
    <3> QED BY <3>1, <3>2
  <2>6. ASSUME NEW u \in Threads, pc'[u] = "prepared"
        PROVE  /\ draft'[u].index = Len(items')
               /\ draft'[u].signature = UNSIGNED
               /\ draft'[u].prev_hash = PrevHash(items', Len(items') + 1)
               /\ draft'[u].hash = Digest(Resolve(draft'[u], heap'))
    <3>1. CASE \E s \in Stamps : Prepare(u, s)
      <4>1. PICK s \in Stamps : Prepare(u, s)
        BY <3>1
      <4>2. draft'[u] = Sealed(Unhashed(u, s), heap) /\ heap' = heap
        BY <1>2, <4>1 DEF Prepare, TypeOK
      <4>3. snap[u] \in DOMAIN heap
        BY <1>2, <4>1 DEF Prepare, Detached
      <4> QED BY <1>2, <2>1, <4>2, <4>3, PreparedDraft
    <3>2. CASE ~ \E s \in Stamps : Prepare(u, s)
      <4>1. pc[u] = "prepared" /\ draft'[u] = draft[u]
        <5>1. ~Writer
          BY <1>1, <1>2, WriterCounts
        <5> QED BY <1>2, <1>4, <2>6, <3>2, <5>1
                DEF Next, vars, RejectPayload, Snapshot, AppendStep, Acquire, Refuse, Prepare,
                    Export, Mutate, TypeOK
      <4>2. draft[u].payload \in DOMAIN heap \ exposed
        BY <1>2, <4>1 DEF Detached
      <4>3. Resolve(draft[u], heap') = Resolve(draft[u], heap)
        BY <1>1, <1>2, <4>2, HiddenObjectsKept DEF Resolve
      <4> QED BY <1>2, <2>1, <4>1, <4>3 DEF DraftFits
    <3> QED BY <3>1, <3>2
  <2> QED BY <2>3, <2>4, <2>5, <2>6 DEF Honest, SnapshotsRender, DraftFits
<1> QED BY <1>3, <1>4

LEMMA NextIInv ==
  ASSUME ChainAssumption, IInv, [Next]_vars
  PROVE  IInv'
<1>1. TypeOK'
  <2>1. /\ \A t \in Threads : pc[t] \in {"locked", "prepared"} => snap[t] \in DOMAIN heap
        /\ \A t \in Threads : pc[t] = "prepared" => draft[t] \in Receipt(DOMAIN heap)
    BY DEF IInv, Detached
  <2> QED BY <2>1, NextTypeOK DEF IInv
<1>2. LockInv' /\ Detached'
  BY NextLockInv, NextDetached DEF IInv
<1> QED BY <1>1, <1>2, NextHonest DEF IInv

-------------------------------------------------------------------------------
(***************************************************************************)
(* The theorems                                                            *)
(***************************************************************************)

(* In every behaviour of the chain the inductive invariant holds. *)
THEOREM Invariance == Spec => []IInv
<1>1. Init => IInv
  BY InitIInv, ChainAssumption
<1>2. IInv /\ [Next]_vars => IInv'
  BY NextIInv, ChainAssumption
<1> QED BY <1>1, <1>2, PTL DEF Spec

(* Type correctness. *)
THEOREM TypeCorrect == Spec => []TypeOK
<1>1. IInv => TypeOK
  BY DEF IInv
<1> QED BY <1>1, Invariance, PTL

(* Whatever the callers do, and however their appends interleave, a chain  *)
(* nobody edits behind the lock verifies.                                  *)
THEOREM AppendsKeepChainVerified == Spec => []ChainVerified
<1>1. IInv => ChainVerified
  BY DEF IInv, Honest, ChainVerified
<1> QED BY <1>1, Invariance, PTL

(* Every receipt a caller was given stays at its index, unchanged. *)
THEOREM IssuedStaysInPlace == Spec => []IssuedInPlace
<1>1. IInv => IssuedInPlace
  BY DEF IInv, Honest, IssuedInChain, IssuedInPlace
<1> QED BY <1>1, Invariance, PTL

(* A kept text binds the history it covers, whatever the writer does. *)
THEOREM RetainedTextBindsHistory == Spec => []RetainedBindsHistory
<1>1. TypeOK => RetainedBindsHistory
  <2>1. SUFFICES ASSUME TypeOK, Valid(retained), Verified,
                        Len(retained) > 0, Len(retained) <= Len(items),
                        items[Len(retained)].hash = retained[Len(retained)].hash
                 PROVE  SubSeq(Text(items, heap), 1, Len(retained)) = retained
    BY DEF RetainedBindsHistory
  <2> DEFINE n == Len(retained)
             text == Text(items, heap)
  <2>2. /\ text \in Seq(Receipt(Values)) /\ Len(text) = Len(items)
        /\ \A i \in 1 .. Len(items) : text[i] = Resolve(items[i], heap)
    BY <2>1, TextType DEF TypeOK
  <2>3. retained \in Seq(Receipt(Values)) /\ n \in Nat /\ Len(items) \in Nat
    BY <2>1 DEF TypeOK
  <2>4. n \in 1 .. Len(items)
    BY <2>1, <2>3
  <2>5. text[n].hash = retained[n].hash
    <3>1. items[n] \in Receipt(DOMAIN heap) /\ heap \in Seq(Values)
      BY <2>1, <2>4, ChainObjects DEF TypeOK
    <3> QED BY <2>1, <2>2, <2>4, <3>1, ResolveType
  <2>6. \A i \in 1 .. n : text[i] = retained[i]
    <3>1. Valid(text) /\ n > 0 /\ n <= Len(text)
      BY <2>1, <2>2 DEF Verified
    <3> HIDE DEF text
    <3> QED BY <2>1, <2>2, <2>3, <2>5, <3>1, HashBindsPrefix
  <2>7. /\ SubSeq(text, 1, n) \in Seq(Receipt(Values))
        /\ Len(SubSeq(text, 1, n)) = n
        /\ \A i \in 1 .. n : SubSeq(text, 1, n)[i] = text[i]
    <3>1. \A i \in 1 .. n : text[i] \in Receipt(Values)
      BY <2>2, <2>4
    <3> HIDE DEF text
    <3> QED BY <2>3, <2>4, <3>1, SubSeqProperties
  <2> HIDE DEF text
  <2>8. SubSeq(text, 1, n) = retained
    BY <2>3, <2>6, <2>7, SeqEqual
  <2> QED BY <2>8 DEF text
<1> QED BY <1>1, TypeCorrect, PTL

(* Appending never makes a broken chain verify again. *)
THEOREM OnlyTheWriterMends == Spec => BrokenStaysBroken
<1>1. ASSUME IInv, IInv', [Next]_vars, ~Verified, Verified'
      PROVE  tampers' > tampers
  <2>1. tampers \in Int
    BY <1>1 DEF IInv, TypeOK
  <2>2. CASE Writer
    BY <1>1, <2>1, <2>2, WriterCounts DEF IInv
  <2>3. CASE ~Writer
    <3>1. tampers' = tampers
      BY <1>1, <2>3 DEF Next, vars, RejectPayload, Snapshot, AppendStep, Acquire, Refuse,
                        Prepare, Commit, Export, Mutate
    <3>2. CASE items' = items
      BY <1>1, <3>1, <3>2, TextKept, ChainAssumption DEF IInv, Verified
    <3>3. CASE \E t \in Threads : Commit(t)
      <4>1. PICK t \in Threads : Commit(t)
        BY <3>3
      <4>2. /\ draft[t] \in Receipt(DOMAIN heap)
            /\ Text(items', heap') = Append(Text(items, heap), Resolve(draft[t], heap))
        BY <1>1, <4>1, CommitExtends, ChainAssumption DEF IInv
      <4>3. Text(items, heap) \in Seq(Receipt(Values))
        BY <1>1, TextType DEF IInv, TypeOK
      <4>4. Resolve(draft[t], heap) \in Receipt(Values)
        BY <1>1, <4>2, ResolveType DEF IInv, TypeOK
      <4>5. Valid(Text(items, heap))
        BY <1>1, <4>2, <4>3, <4>4, ValidAppend DEF Verified
      <4> QED BY <1>1, <4>5 DEF Verified
    <3> QED BY <1>1, <3>1, <3>2, <3>3, ChainKeptOrExtended, ChainAssumption DEF IInv
  <2> QED BY <2>2, <2>3
<1>2. IInv /\ IInv' /\ [Next]_vars => [~Verified /\ Verified' => tampers' > tampers]_vars
  BY <1>1
<1> QED BY <1>2, Invariance, PTL DEF Spec, BrokenStaysBroken

(* Until a privileged writer acts the chain implements the append-only     *)
(* log: Commit records the payload the caller passed in, no other step of  *)
(* append(), to_jsonl() or the callers records.                            *)
THEOREM ImplementsLog == Spec => IsLog
<1> DEFINE logged == [i \in 1 .. Len(items) |-> heap[items[i].payload]]
           acks == {[index |-> r.index, entry |-> r.payload] : r \in issued}
<1>1. Init => Log!Init
  <2>1. Init => logged = <<>>
    BY DEF Init
  <2>2. Init => acks = {}
    BY DEF Init
  <2>3. Init => tampers = 0
    BY DEF Init
  <2> QED BY <2>1, <2>2, <2>3 DEF Log!Init
<1>2. ASSUME IInv, IInv', [Next]_vars, tampers' = 0
      PROVE  [Log!Next]_(Log!vars)
  <2>1. tampers = 0
    BY <1>2, TampersCount DEF IInv, TypeOK
  <2>2. CASE items' = items /\ issued' = issued
    <3>1. \A i \in 1 .. Len(items) : heap'[items[i].payload] = heap[items[i].payload]
      <4>1. \A i \in 1 .. Len(items) : items[i].payload \in DOMAIN heap \ exposed
        BY <1>2, ChainObjects DEF IInv, Detached
      <4> QED BY <1>2, <2>1, <4>1, HiddenObjectsKept, ChainAssumption DEF IInv
    <3>2. logged' = logged /\ acks' = acks
      BY <2>2, <3>1
    <3>3. (tampers' = 0) = (tampers = 0)
      BY <1>2, <2>1
    <3> HIDE DEF logged, acks
    <3> QED BY <3>2, <3>3, Zenon DEF Log!vars, logged, acks
  <2>3. CASE \E t \in Threads : Commit(t)
    <3>1. PICK t \in Threads : Commit(t)
      BY <2>3
    <3> DEFINE e == heap[draft[t].payload]
    <3>2. /\ draft[t] \in Receipt(DOMAIN heap)
          /\ heap'[draft[t].payload] = e
          /\ Len(items') = Len(items) + 1
          /\ items'[Len(items) + 1] = draft[t]
          /\ \A i \in 1 .. Len(items) : items'[i] = items[i]
      BY <1>2, <3>1, CommitExtends, ChainAssumption DEF IInv
    <3>3. e \in Contents /\ draft[t].index = Len(items)
      BY <1>2, <2>1, <3>1 DEF Commit, IInv, Honest, DraftFits, SnapshotsRender, Detached
    <3>4. \A i \in 1 .. Len(items) : heap'[items[i].payload] = heap[items[i].payload]
      <4>1. \A i \in 1 .. Len(items) : items[i].payload \in DOMAIN heap \ exposed
        BY <1>2, ChainObjects DEF IInv, Detached
      <4> QED BY <1>2, <2>1, <4>1, HiddenObjectsKept, ChainAssumption DEF IInv
    <3>5. /\ logged \in Seq(Values) /\ Len(logged) = Len(items) /\ e \in Values
          /\ Len(items) \in Nat
      <4>1. \A i \in 1 .. Len(items) : heap[items[i].payload] \in Values
        BY <1>2, ChainObjects DEF IInv, TypeOK
      <4>2. Len(items) \in Nat
        BY <1>2, ChainObjects DEF IInv
      <4>3. logged \in [1 .. Len(items) -> Values]
        BY <4>1
      <4> HIDE DEF logged
      <4> QED BY <3>3, <4>2, <4>3, FunctionIsSeq DEF Values
    <3>6. logged' = Append(logged, e)
      <4>1. \A i \in 1 .. Len(items) + 1 :
              heap'[items'[i].payload] = IF i = Len(items) + 1 THEN e ELSE logged[i]
        BY <3>2, <3>4, <3>5
      <4>2. \A i \in 1 .. Len(items) + 1 : logged'[i] = Append(logged, e)[i]
        <5>1. /\ \A i \in 1 .. Len(logged) : Append(logged, e)[i] = logged[i]
              /\ Append(logged, e)[Len(logged) + 1] = e
          <6> HIDE DEF logged, e
          <6> QED BY <3>5, AppendProperties
        <5>2. \A i \in 1 .. Len(items) + 1 : logged'[i] = heap'[items'[i].payload]
          BY <3>2
        <5>3. \A i \in 1 .. Len(items) + 1 : i = Len(items) + 1 \/ i \in 1 .. Len(items)
          BY <3>5
        <5> HIDE DEF logged, e
        <5> QED BY <3>5, <4>1, <5>1, <5>2, <5>3
      <4>3. /\ logged' \in Seq(Values) /\ Len(logged') = Len(items) + 1
        <5>1. \A i \in 1 .. Len(items) + 1 : heap'[items'[i].payload] \in Values
          <6>1. \A i \in 1 .. Len(items) : logged[i] \in Values
            BY <3>5
          <6>2. \A i \in 1 .. Len(items) + 1 : i = Len(items) + 1 \/ i \in 1 .. Len(items)
            BY <3>5
          <6> HIDE DEF logged, e
          <6> QED BY <3>5, <4>1, <6>1, <6>2
        <5>2. logged' \in [1 .. Len(items) + 1 -> Values]
          BY <3>2, <5>1
        <5>3. Len(items) + 1 \in Nat
          BY <3>5
        <5> HIDE DEF logged
        <5> QED BY <5>2, <5>3, FunctionIsSeq
      <4>4. Append(logged, e) \in Seq(Values) /\ Len(Append(logged, e)) = Len(items) + 1
        <5> HIDE DEF logged, e
        <5> QED BY <3>5, AppendProperties
      <4> HIDE DEF logged, e
      <4> QED BY <4>2, <4>3, <4>4, SeqEqual
    <3>7. acks' = acks \cup {[index |-> Len(logged), entry |-> e]}
      <4> DEFINE r == Resolve(draft[t], heap)
      <4>1. issued' = issued \cup {r}
        BY <3>1 DEF Commit
      <4>2. r.index = Len(items) /\ r.payload = e
        BY <1>2, <3>2, <3>3, ResolveType DEF IInv, TypeOK
      <4> HIDE DEF r, e, logged
      <4> QED BY <3>5, <4>1, <4>2
    <3>8. Log!Record(e)
      <4> HIDE DEF e
      <4> QED BY <1>2, <2>1, <3>6, <3>7 DEF Log!Record
    <3> HIDE DEF e, logged, acks
    <3>9. Log!Next
      BY <3>3, <3>8 DEF Log!Next, Log!Record
    <3> QED BY <3>9 DEF Log!vars
  <2> QED BY <1>2, <2>1, <2>2, <2>3, ChainKeptOrExtended, ChainAssumption DEF IInv
<1>3. ASSUME tampers' # 0 PROVE [Log!Next]_(Log!vars)
  BY <1>3 DEF Log!Next, Log!Intrusion
<1>4. IInv /\ IInv' /\ [Next]_vars => [Log!Next]_(Log!vars)
  BY <1>2, <1>3
<1> QED BY <1>1, <1>4, Invariance, PTL DEF Spec, IsLog, Log!Spec
===============================================================================
