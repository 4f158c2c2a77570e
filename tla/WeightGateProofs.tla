---------------------------- MODULE WeightGateProofs ----------------------------
(***************************************************************************)
(* Theorems about WeightGate, for any file, however long and however it    *)
(* grows, any limit and any size of the reads.                             *)
(***************************************************************************)
EXTENDS WeightGate, SetInduction, FunctionTheorems, SequenceTheorems, TLAPS

(***************************************************************************)
(* The inductive invariant                                                 *)
(***************************************************************************)

Steps == {"start", "read", "walk", "order", "scan", "report", "exited"}
Reasons == {"none", "unreadable", "oversize", "structure", "no_numpy", "no_floats", "damage"}
Verdicts == {"ALLOW", "REVIEW", "BLOCK"}
Unread == {"start", "read"}
Unscanned == {"start", "read", "walk", "order"}

FileType == [claimed : Nat, present : Nat, header : Seq(Entries), body : Seq(Bytes)]

Types ==
  /\ file \in FileType
  /\ file.present <= file.claimed /\ grown \in 0..MaxGrowth
  /\ expect \in {"none"} \cup Verdicts /\ pc \in Steps
  /\ got \in Nat /\ got <= FileSize /\ got <= MaxBytes + 1
  /\ at \in 1..(Len(Header) + 1) /\ rest \subseteq Tensors /\ cursor \in Nat
  /\ scanned \in BOOLEAN /\ bad \in 0..Len(file.body)
  /\ verdict \in Verdicts /\ reason \in Reasons /\ exit \in {0, 1, 2, 3, 255}

(* Nothing is decided, walked or counted before its stage.                 *)
Early ==
  /\ pc \in Unread => at = 1 /\ rest = {} /\ cursor = 0
  /\ pc \in Unscanned => ~scanned /\ bad = 0
  /\ pc \in Unscanned \cup {"scan"} => verdict = "BLOCK" /\ reason = "none"

(* What each stage has established of the file, which the later ones, and  *)
(* a verdict other than BLOCK, build on.                                   *)
Past(stages) == pc \in stages \/ verdict # "BLOCK"

Framed == /\ got <= MaxBytes /\ got >= Prefix + 1 /\ file.claimed \in 1..(got - Prefix)
          /\ ~Unparsable

Checked(n) == \A i \in DOMAIN Header : i < n => Admissible(Header[i])

StageInv ==
  /\ Past({"walk", "order", "scan"}) => Framed
  /\ Past({"order", "scan"}) => Checked(Len(Header) + 1)
  /\ Past({"scan"}) => Partition

(* The walk collects the tensors it has passed.                            *)
WalkInv ==
  pc = "walk" => Checked(at) /\ rest = {i \in Tensors : i < at} /\ cursor = 0

(* The spans that are placed partition the bytes up to the cursor, and are *)
(* in order with the others.                                               *)
Placed == Tensors \ rest

OrderInv ==
  pc = "order" =>
    /\ cursor <= Len(Buf)
    /\ \A i \in Placed : Header[i].end <= cursor
    /\ \A b \in 1..cursor : \E i \in Placed : Owners(b) \cap Placed = {i}
    /\ \A i \in Placed, j \in rest : Before(i, j)

(* The bytes of a tensor that make its values NaN or Inf; the tally is the *)
(* number of those of the tensors scanned so far.                          *)
BadBytes(i) == {Header[i].start + 2 * k : k \in NonFinite(i)}
BadUpTo(n) == UNION {BadBytes(i) : i \in {j \in Tensors : j < n /\ Scannable(j)}}

ScanInv ==
  pc = "scan" =>
    /\ cursor = Len(Buf)
    /\ bad = Cardinality(BadUpTo(at))
    /\ scanned <=> \E i \in Tensors : i < at /\ Scannable(i)

Clean == /\ \E i \in Tensors : Scannable(i)
         /\ \A i \in Tensors : Scannable(i) => NonFinite(i) = {}

(* Who goes on after the exit code has a clean file.                       *)
EndInv ==
  /\ verdict = "ALLOW" => Clean
  /\ pc # "exited" => exit = 255
  /\ exit = 0 /\ expect \in {"none", "ALLOW"} => verdict = "ALLOW"

IInv == /\ Types /\ Early /\ StageInv /\ WalkInv /\ OrderInv /\ ScanInv /\ EndInv
        /\ RightLayoutPasses

-----------------------------------------------------------------------------
(***************************************************************************)
(* The parsed file                                                         *)
(***************************************************************************)

LEMMA Sizes ==
  /\ DOMAIN DtypeSize = {"F16", "U8"} /\ DtypeSize["F16"] = 2 /\ DtypeSize["U8"] = 1
  /\ DOMAIN ExitOf = Verdicts /\ ExitOf["ALLOW"] = 0 /\ ExitOf["REVIEW"] = 2
  /\ ExitOf["BLOCK"] = 1
BY DEF DtypeSize, ExitOf, Verdicts

LEMMA TensorEntry ==
  ASSUME Types, NEW i \in Tensors
  PROVE  /\ i \in DOMAIN Header /\ i \in 1..Len(Header) /\ Header[i].kind = "tensor"
         /\ Header[i].dtype \in {"F16", "U8"} /\ Header[i].count \in Nat
         /\ Header[i].start \in Nat /\ Header[i].end \in Nat
<1>1. Header \in Seq(Entries) /\ i \in DOMAIN Header /\ Header[i].kind = "tensor"
  BY DEF Types, FileType, Tensors, IsTensor, Header
<1>2. Header[i] \in Entries /\ i \in 1..Len(Header)
  BY <1>1
<1>3. Header[i] \in [kind : {"tensor"}, name : Names, dtype : DOMAIN DtypeSize,
                     count : Nat, start : Nat, end : Nat]
  BY <1>1, <1>2 DEF Entries
<1> QED BY <1>1, <1>2, <1>3, Sizes

(* The buffer is the part of the data bytes that was read.                 *)
LEMMA BufLength ==
  ASSUME GateAssumption, Types
  PROVE  Len(Buf) \in Nat /\ (Framed => Len(Buf) <= Len(file.body))
<1> DEFINE n == got - Prefix - file.claimed
<1>1. /\ file.body \in Seq(Bytes) /\ file.claimed \in Nat /\ file.present \in Nat
      /\ file.present <= file.claimed /\ got \in Nat
      /\ got <= Prefix + file.present + Len(file.body) /\ Prefix \in Nat
  BY DEF Types, FileType, FileSize, GateAssumption
<1>2. n \in Int /\ n <= Len(file.body) /\ Len(file.body) \in Nat
  BY <1>1
<1> HIDE DEF n
<1>3. Len(SubSeq(file.body, 1, n)) = IF 1 <= n THEN n ELSE 0
  BY <1>1, <1>2, SubSeqProperties
<1> QED BY <1>2, <1>3 DEF Buf, n

(* Sorting has a first element: the least start, then the least end.       *)
LEMMA FirstSpanFirst ==
  ASSUME Types, rest # {}
  PROVE  FirstSpan \in rest /\ \A j \in rest : Before(FirstSpan, j)
<1>1. \A i \in rest : Header[i].start \in Nat /\ Header[i].end \in Nat
  BY TensorEntry DEF Types
<1> DEFINE starts == {Header[i].start : i \in rest}
<1>2. PICK m \in starts : \A k \in starts : m <= k
  <2>1. starts \subseteq Nat /\ starts # {}
    BY <1>1
  <2> HIDE DEF starts
  <2> QED BY <2>1, LeastNatural
<1> DEFINE ends == {Header[i].end : i \in {j \in rest : Header[j].start = m}}
<1>3. PICK n \in ends : \A k \in ends : n <= k
  <2>1. ends \subseteq Nat /\ ends # {}
    BY <1>1, <1>2
  <2> HIDE DEF ends, starts
  <2> QED BY <2>1, LeastNatural
<1>4. PICK i \in rest : Header[i].start = m /\ Header[i].end = n
  BY <1>3
<1>5. \A j \in rest : Before(i, j)
  <2> TAKE j \in rest
  <2>1. m \in Nat /\ n \in Nat /\ Header[j].start \in Nat /\ m <= Header[j].start
    BY <1>1, <1>2, <1>4
  <2>2. Header[j].start = m => n <= Header[j].end
    BY <1>3
  <2> QED BY <1>4, <2>1, <2>2 DEF Before
<1> QED BY <1>5 DEF FirstSpan

LEMMA LeastOfThree ==
  ASSUME NEW a \in Nat, NEW b \in Nat, NEW c \in Nat
  PROVE  /\ Least({a, b, c}) \in {a, b, c}
         /\ Least({a, b, c}) <= a /\ Least({a, b, c}) <= b /\ Least({a, b, c}) <= c
<1>1. \E n \in {a, b, c} : \A k \in {a, b, c} : n <= k
  OBVIOUS
<1> QED BY <1>1 DEF Least

(* Where neither the file nor what was read of it changes, neither does    *)
(* what the stages say of it.                                              *)
Frozen == file' = file /\ got' = got

LEMMA FrozenWorld ==
  ASSUME Frozen
  PROVE  /\ Header' = Header /\ Buf' = Buf /\ Tensors' = Tensors /\ FileSize' = FileSize
         /\ Unparsable' = Unparsable /\ Framed' = Framed /\ Partition' = Partition
         /\ Clean' = Clean /\ RightLayout' = RightLayout
         /\ \A n : Checked(n)' = Checked(n)
         /\ \A i, j : Before(i, j)' = Before(i, j)
         /\ \A b : Owners(b)' = Owners(b)
         /\ \A n : BadUpTo(n)' = BadUpTo(n)
         /\ \A i : Scannable(i)' = Scannable(i)
<1>1. Header' = Header /\ Buf' = Buf /\ FileSize' = FileSize
  BY DEF Frozen, Header, Buf, FileSize
<1>2. Tensors' = Tensors /\ \A i : IsTensor(i)' = IsTensor(i)
  BY <1>1 DEF Tensors, IsTensor
<1>3. Unparsable' = Unparsable /\ Framed' = Framed
  BY <1>1 DEF Frozen, Unparsable, Duplicated, Framed
<1>4. \A e : InBuffer(e)' = InBuffer(e) /\ Sized(e)' = Sized(e) /\ Admissible(e)' = Admissible(e)
  BY <1>1 DEF InBuffer, Sized, Admissible
<1>5. /\ \A b : Owners(b)' = Owners(b)
      /\ \A i, j : Before(i, j)' = Before(i, j)
      /\ \A n : Checked(n)' = Checked(n)
  BY <1>1, <1>2, <1>4 DEF Owners, Before, Checked
<1>6. Partition' = Partition
  BY <1>1, <1>2, <1>5 DEF Partition
<1>7. /\ \A i : Scannable(i)' = Scannable(i)
      /\ \A i : NonFinite(i)' = NonFinite(i)
  BY <1>1, <1>2 DEF Scannable, NonFinite
<1>8. Clean' = Clean /\ \A n : BadUpTo(n)' = BadUpTo(n)
  BY <1>1, <1>2, <1>7 DEF Clean, BadUpTo, BadBytes
<1>9. RightLayout' = RightLayout
  BY <1>1, <1>2, <1>4, <1>6 DEF Frozen, RightLayout, OnBoundary
<1> QED BY <1>1, <1>2, <1>3, <1>5, <1>6, <1>7, <1>8, <1>9

-----------------------------------------------------------------------------
(***************************************************************************)
(* The tally                                                               *)
(***************************************************************************)

(* A floating tensor has the bytes its count asks for, inside the buffer.  *)
LEMMA ScannableFits ==
  ASSUME GateAssumption, Types, Checked(Len(Header) + 1), NEW i \in Tensors, Scannable(i)
  PROVE  /\ NonFinite(i) = {k \in 1..Header[i].count : Buf[Header[i].start + 2 * k] = "ones"}
         /\ Header[i].end = Header[i].start + 2 * Header[i].count
         /\ Header[i].end <= Len(Buf)
<1>1. /\ i \in DOMAIN Header /\ i < Len(Header) + 1 /\ Header[i].kind = "tensor"
      /\ Header[i].count \in Nat /\ Header[i].start \in Nat /\ Header[i].end \in Nat
  BY TensorEntry
<1>2. Header[i].dtype = "F16" /\ DtypeSize[Header[i].dtype] = 2
  BY Sizes DEF Scannable, FloatDtypes
<1>3. InBuffer(Header[i]) /\ Sized(Header[i])
  BY <1>1 DEF Checked, Admissible
<1> QED BY <1>1, <1>2, <1>3 DEF InBuffer, Sized, NonFinite

(* The bytes of a tensor lie in its span, one for every value.             *)
LEMMA BadBytesCount ==
  ASSUME GateAssumption, Types, Checked(Len(Header) + 1), NEW i \in Tensors, Scannable(i)
  PROVE  /\ BadBytes(i) \subseteq (Header[i].start + 1)..Header[i].end
         /\ BadBytes(i) \subseteq 1..Len(Buf)
         /\ IsFiniteSet(BadBytes(i)) /\ Cardinality(BadBytes(i)) = Cardinality(NonFinite(i))
         /\ (BadBytes(i) = {} => NonFinite(i) = {})
<1>1. /\ NonFinite(i) \subseteq 1..Header[i].count
      /\ Header[i].end = Header[i].start + 2 * Header[i].count /\ Header[i].end <= Len(Buf)
      /\ Header[i].count \in Nat /\ Header[i].start \in Nat /\ Header[i].end \in Nat
      /\ Len(Buf) \in Nat
  BY ScannableFits, TensorEntry, BufLength
<1>2. IsFiniteSet(NonFinite(i))
  <2>1. 1 \in Int /\ Header[i].count \in Int
    BY <1>1
  <2>2. IsFiniteSet(1..Header[i].count)
    BY <2>1, FS_Interval
  <2> QED BY <1>1, <2>2, FS_Subset
<1> DEFINE f == [k \in NonFinite(i) |-> Header[i].start + 2 * k]
<1>3. f \in Bijection(NonFinite(i), BadBytes(i))
  <2>1. f \in [NonFinite(i) -> BadBytes(i)]
    BY DEF BadBytes
  <2>2. \A k, l \in NonFinite(i) : f[k] = f[l] => k = l
    BY <1>1
  <2>3. \A b \in BadBytes(i) : \E k \in NonFinite(i) : f[k] = b
    BY DEF BadBytes
  <2> QED BY <2>1, <2>2, <2>3, Fun_IsBij
<1>4. BadBytes(i) \subseteq (Header[i].start + 1)..Header[i].end
  BY <1>1 DEF BadBytes
<1>5. BadBytes(i) \subseteq 1..Len(Buf)
  BY <1>1, <1>4
<1>6. IsFiniteSet(BadBytes(i)) /\ Cardinality(BadBytes(i)) = Cardinality(NonFinite(i))
  BY <1>2, <1>3, FS_Bijection DEF ExistsBijection
<1>7. BadBytes(i) = {} => NonFinite(i) = {}
  BY DEF BadBytes
<1> QED BY <1>4, <1>5, <1>6, <1>7

LEMMA BadUpToBounded ==
  ASSUME GateAssumption, Types, Checked(Len(Header) + 1), NEW n \in Nat
  PROVE  /\ BadUpTo(n) \subseteq 1..Len(Buf) /\ IsFiniteSet(BadUpTo(n))
         /\ Cardinality(BadUpTo(n)) \in Nat /\ Cardinality(BadUpTo(n)) <= Len(Buf)
<1>1. BadUpTo(n) \subseteq 1..Len(Buf)
  BY BadBytesCount DEF BadUpTo
<1>2. IsFiniteSet(1..Len(Buf)) /\ Cardinality(1..Len(Buf)) = Len(Buf)
  <2>1. 1 \in Int /\ Len(Buf) \in Int /\ Len(Buf) \in Nat
    BY BufLength
  <2>2. IsFiniteSet(1..Len(Buf))
        /\ Cardinality(1..Len(Buf)) = IF 1 > Len(Buf) THEN 0 ELSE Len(Buf) - 1 + 1
    BY <2>1, FS_Interval
  <2> QED BY <2>1, <2>2
<1> QED BY <1>1, <1>2, FS_Subset, FS_CardinalityType

(* A byte counted before is of another tensor.                             *)
LEMMA TallyGrows ==
  ASSUME GateAssumption, Types, Checked(Len(Header) + 1), Partition,
         NEW n \in Nat, n \in Tensors, Scannable(n)
  PROVE  Cardinality(BadUpTo(n + 1)) = Cardinality(BadUpTo(n)) + Cardinality(NonFinite(n))
<1>1. BadUpTo(n + 1) = BadUpTo(n) \cup BadBytes(n)
  <2>1. Tensors \subseteq Nat
    BY TensorEntry
  <2>2. {j \in Tensors : j < n + 1 /\ Scannable(j)}
          = {j \in Tensors : j < n /\ Scannable(j)} \cup {n}
    <3>1. \A j \in Tensors : j < n + 1 <=> (j < n \/ j = n)
      BY <2>1
    <3> QED BY <3>1, Zenon
  <2> QED BY <2>2 DEF BadUpTo
<1>2. BadUpTo(n) \cap BadBytes(n) = {}
  <2> SUFFICES ASSUME NEW b \in BadBytes(n), NEW j \in Tensors, j < n, Scannable(j),
                      b \in BadBytes(j)
               PROVE  FALSE
    BY DEF BadUpTo
  <2>1. b \in 1..Len(Buf) /\ n \in Owners(b) /\ j \in Owners(b)
    BY BadBytesCount DEF Owners
  <2>2. PICK i \in Tensors : Owners(b) = {i}
    BY <2>1 DEF Partition
  <2> QED BY <2>1, <2>2
<1>3. IsFiniteSet(BadUpTo(n)) /\ IsFiniteSet(BadBytes(n))
      /\ Cardinality(BadBytes(n)) = Cardinality(NonFinite(n))
      /\ Cardinality(BadUpTo(n)) \in Nat
  BY BadUpToBounded, BadBytesCount
<1>4. Cardinality(BadBytes(n)) \in Nat
  BY <1>3, FS_CardinalityType
<1>5. Cardinality(BadUpTo(n) \cup BadBytes(n))
        = Cardinality(BadUpTo(n)) + Cardinality(BadBytes(n))
          - Cardinality(BadUpTo(n) \cap BadBytes(n))
  BY <1>3, FS_Union
<1>6. Cardinality(BadUpTo(n) \cap BadBytes(n)) = 0
  BY <1>2, FS_EmptySet
<1>7. Cardinality(BadUpTo(n) \cup BadBytes(n))
        = Cardinality(BadUpTo(n)) + Cardinality(BadBytes(n))
  BY <1>3, <1>4, <1>5, <1>6
<1> QED BY <1>1, <1>3, <1>7

LEMMA NothingScanned ==
  ASSUME Types
  PROVE  BadUpTo(1) = {} /\ Cardinality(BadUpTo(1)) = 0
<1>1. \A j \in Tensors : ~(j < 1)
  BY TensorEntry
<1>2. BadUpTo(1) = {}
  BY <1>1 DEF BadUpTo
<1> QED BY <1>2, FS_EmptySet

(* A tensor that does not count leaves the tally as it was.                *)
LEMMA TallyStays ==
  ASSUME Types, NEW n \in Nat, ~(n \in Tensors /\ Scannable(n))
  PROVE  BadUpTo(n + 1) = BadUpTo(n)
<1>1. Tensors \subseteq Nat
  BY TensorEntry
<1>2. {j \in Tensors : j < n + 1 /\ Scannable(j)} = {j \in Tensors : j < n /\ Scannable(j)}
  <2>1. \A j \in Tensors : Scannable(j) => (j < n + 1 <=> j < n)
    BY <1>1
  <2> QED BY <2>1, Zenon
<1> QED BY <1>2 DEF BadUpTo

-----------------------------------------------------------------------------
(***************************************************************************)
(* Steps                                                                   *)
(***************************************************************************)

(* Only the read changes what is on disk or what was read.                 *)
LEMMA StepFrozen ==
  ASSUME Types, Next
  PROVE  \/ Frozen
         \/ /\ pc = "read" /\ pc' = "read"
            /\ UNCHANGED <<walk, verdict, reason, exit, expect>>
<1>1. CASE Grow
  BY <1>1 DEF Frozen, Grow, walk, world
<1>2. CASE ParseArgs
  BY <1>2 DEF Frozen, ParseArgs, walk, world
<1>3. CASE ReadChunk
  BY <1>3 DEF Frozen, ReadChunk, walk, world
<1>4. CASE Unreadable
  BY <1>4 DEF Frozen, Unreadable, Block, Report, walk, world
<1>5. CASE Frame
  BY <1>5 DEF Frozen, Frame, Block, Report, walk, world
<1>6. CASE Walk
  BY <1>6 DEF Frozen, Walk, Block, Report, walk, world
<1>7. CASE EndWalk
  BY <1>7 DEF Frozen, EndWalk, Block, Report, walk, world
<1>8. CASE Place
  BY <1>8 DEF Frozen, Place, Block, Report, walk, world
<1>9. CASE EndOrder
  BY <1>9 DEF Frozen, EndOrder, Block, Report, walk, world
<1>10. CASE Scan
  BY <1>10 DEF Frozen, Scan, walk, world
<1>11. CASE Conclude
  BY <1>11 DEF Frozen, Conclude, Report, walk, world
<1>12. CASE Exit
  BY <1>12 DEF Frozen, Exit, walk, world
<1>13. CASE Done
  BY <1>13 DEF Frozen, Done, vars, walk, world
<1> QED
  BY <1>1, <1>2, <1>3, <1>4, <1>5, <1>6, <1>7, <1>8, <1>9, <1>10, <1>11, <1>12, <1>13
  DEF Next

LEMMA Members ==
  /\ "start" \in Steps /\ "read" \in Steps /\ "walk" \in Steps /\ "order" \in Steps
  /\ "scan" \in Steps /\ "report" \in Steps /\ "exited" \in Steps
  /\ "none" \in Reasons /\ "unreadable" \in Reasons /\ "oversize" \in Reasons
  /\ "structure" \in Reasons /\ "no_numpy" \in Reasons /\ "no_floats" \in Reasons
  /\ "damage" \in Reasons
  /\ "ALLOW" \in Verdicts /\ "REVIEW" \in Verdicts /\ "BLOCK" \in Verdicts
BY DEF Steps, Reasons, Verdicts

LEMMA StepLabels ==
  ASSUME Types, Next
  PROVE  /\ pc' \in Steps /\ verdict' \in Verdicts /\ reason' \in Reasons
         /\ expect' \in {"none"} \cup Verdicts /\ scanned' \in BOOLEAN
<1>0. /\ pc \in Steps /\ verdict \in Verdicts /\ reason \in Reasons
      /\ expect \in {"none"} \cup Verdicts /\ scanned \in BOOLEAN
  BY DEF Types
<1> USE Members
<1>1. CASE Grow
  BY <1>1, <1>0 DEF Grow, walk, world
<1>2. CASE ParseArgs
  BY <1>2, <1>0 DEF ParseArgs, walk, world
<1>3. CASE ReadChunk
  BY <1>3, <1>0 DEF ReadChunk, walk, world
<1>4. CASE Unreadable
  BY <1>4, <1>0 DEF Unreadable, Block, Report, walk, world
<1>5. CASE Frame
  BY <1>5, <1>0 DEF Frame, Block, Report, walk, world
<1>6. CASE Walk
  BY <1>6, <1>0 DEF Walk, Block, Report, walk, world
<1>7. CASE EndWalk
  BY <1>7, <1>0 DEF EndWalk, Block, Report, walk, world
<1>8. CASE Place
  BY <1>8, <1>0 DEF Place, Block, Report, walk, world
<1>9. CASE EndOrder
  BY <1>9, <1>0 DEF EndOrder, Block, Report, walk, world
<1>10. CASE Scan
  BY <1>10, <1>0 DEF Scan, walk, world
<1>11. CASE Conclude
  BY <1>11, <1>0 DEF Conclude, Report, walk, world
<1>12. CASE Exit
  BY <1>12, <1>0, Sizes DEF Exit, walk, world
<1>13. CASE Done
  BY <1>13, <1>0 DEF Done, vars, walk, world
<1> QED
  BY <1>1, <1>2, <1>3, <1>4, <1>5, <1>6, <1>7, <1>8, <1>9, <1>10, <1>11, <1>12, <1>13
  DEF Next

(* The exit codes.                                                         *)
LEMMA StepExit ==
  ASSUME Types, Early, EndInv, Next
  PROVE  /\ exit' \in {0, 1, 2, 3, 255} /\ (pc' # "exited" => exit' = 255)
         /\ (exit' = 0 /\ expect' \in {"none", "ALLOW"} => verdict' = "ALLOW")
<1>0. /\ exit \in {0, 1, 2, 3, 255} /\ verdict \in Verdicts
      /\ expect \in {"none"} \cup Verdicts /\ (pc # "exited" => exit = 255)
      /\ (exit = 0 /\ expect \in {"none", "ALLOW"} => verdict = "ALLOW")
  BY DEF Types, EndInv
<1>1. CASE Grow
  BY <1>1, <1>0 DEF Grow, walk, world
<1>2. CASE ParseArgs
  BY <1>2, <1>0 DEF ParseArgs, walk, world
<1>3. CASE ReadChunk
  BY <1>3, <1>0 DEF ReadChunk, walk, world
<1>4. CASE Unreadable
  BY <1>4, <1>0 DEF Unreadable, Block, Report, walk, world
<1>5. CASE Frame
  BY <1>5, <1>0 DEF Frame, Block, Report, walk, world
<1>6. CASE Walk
  BY <1>6, <1>0 DEF Walk, Block, Report, walk, world
<1>7. CASE EndWalk
  BY <1>7, <1>0 DEF EndWalk, Block, Report, walk, world
<1>8. CASE Place
  BY <1>8, <1>0 DEF Place, Block, Report, walk, world
<1>9. CASE EndOrder
  BY <1>9, <1>0 DEF EndOrder, Block, Report, walk, world
<1>10. CASE Scan
  BY <1>10, <1>0 DEF Scan, walk, world
<1>11. CASE Conclude
  BY <1>11, <1>0 DEF Conclude, Report, walk, world
<1>12. CASE Exit
  <2>1. exit' = ExitCode(expect') /\ expect' \in {"none"} \cup Verdicts /\ verdict' = verdict
        /\ pc' = "exited"
    BY <1>12, Sizes DEF Exit
  <2>2. ExitOf[verdict] \in {0, 1, 2} /\ (ExitOf[verdict] = 0 => verdict = "ALLOW")
    BY <1>0, Sizes DEF Verdicts
  <2> QED BY <2>1, <2>2 DEF ExitCode
<1>13. CASE Done
  BY <1>13, <1>0 DEF Done, vars, walk, world
<1> QED
  BY <1>1, <1>2, <1>3, <1>4, <1>5, <1>6, <1>7, <1>8, <1>9, <1>10, <1>11, <1>12, <1>13
  DEF Next

LEMMA StepRead ==
  ASSUME GateAssumption, Types, Early, Next, pc = "read", ~Frozen
  PROVE  /\ file' \in FileType
         /\ file'.present <= file'.claimed /\ grown' \in 0..MaxGrowth
         /\ got' \in Nat /\ got' <= FileSize' /\ got' <= MaxBytes + 1
         /\ Header' = Header /\ Len(file'.body) \in Nat
         /\ UNCHANGED <<expect, pc, walk, verdict, reason, exit>>
<1>0. /\ file \in FileType
      /\ file.present <= file.claimed /\ grown \in 0..MaxGrowth /\ MaxGrowth \in Nat
      /\ got \in Nat /\ got <= FileSize /\ got <= MaxBytes + 1
      /\ MaxBytes \in Nat /\ Prefix \in Nat /\ Chunk \in Nat /\ Chunk > 0
  BY DEF Types, GateAssumption
<1> USE DEF FileType
<1>1. CASE Grow
  <2>1. /\ grown' \in 0..MaxGrowth /\ got' = got
        /\ UNCHANGED <<expect, pc, walk, verdict, reason, exit>>
    BY <1>0, <1>1 DEF Grow
  <2>2. CASE /\ file.present < file.claimed
             /\ file' = [file EXCEPT !.present = @ + 1]
    <3>1. /\ file' \in FileType
          /\ file'.present = file.present + 1 /\ file'.claimed = file.claimed
          /\ file'.body = file.body /\ file'.header = file.header
      BY <1>0, <2>2, SMTT(30)
    <3> QED BY <1>0, <2>1, <2>2, <3>1, SMTT(30) DEF FileSize, Header
  <2>3. ASSUME NEW b \in Bytes, file' = [file EXCEPT !.body = Append(@, b)]
        PROVE  /\ file' \in FileType
               /\ file'.present <= file'.claimed
               /\ FileSize' = FileSize + 1 /\ Header' = Header /\ Len(file'.body) \in Nat
    <3>1. Append(file.body, b) \in Seq(Bytes)
          /\ Len(Append(file.body, b)) = Len(file.body) + 1 /\ Len(file.body) \in Nat
      BY <1>0
    <3>2. /\ file' \in FileType
          /\ file'.present = file.present /\ file'.claimed = file.claimed
          /\ file'.body = Append(file.body, b) /\ file'.header = file.header
      BY <1>0, <2>3, <3>1
    <3>3. file.present \in Nat /\ Len(file'.body) = Len(file.body) + 1
      BY <1>0, <3>1, <3>2
    <3>4. FileSize' = Prefix + file.present + (Len(file.body) + 1)
      BY <3>2, <3>3 DEF FileSize
    <3>5. FileSize' = FileSize + 1
      BY <1>0, <3>1, <3>3, <3>4 DEF FileSize
    <3> QED BY <1>0, <3>1, <3>2, <3>3, <3>5 DEF Header
  <2>4. FileSize \in Nat
    BY <1>0 DEF FileSize
  <2> QED BY <1>0, <1>1, <2>1, <2>2, <2>3, <2>4 DEF Grow
<1>2. CASE ReadChunk
  <2> DEFINE m == MaxBytes + 1 - got
             n == FileSize - got
  <2>1. FileSize \in Nat /\ got <= MaxBytes /\ got < FileSize
    BY <1>0, <1>2 DEF FileSize, ReadChunk
  <2>2. m \in Nat /\ n \in Nat /\ Chunk \in Nat
    BY <1>0, <2>1
  <2> HIDE DEF m, n
  <2>3. ReadSize \in {Chunk, m, n} /\ ReadSize <= m /\ ReadSize <= n
    BY <2>2, LeastOfThree DEF ReadSize, m, n
  <2>4. ReadSize \in Nat /\ got + ReadSize <= MaxBytes + 1 /\ got + ReadSize <= FileSize
    BY <1>0, <2>1, <2>2, <2>3 DEF m, n
  <2>5. got' = got + ReadSize /\ file' = file /\ grown' = grown
        /\ UNCHANGED <<expect, pc, walk, verdict, reason, exit>>
    BY <1>2 DEF ReadChunk, world
  <2> QED BY <1>0, <2>4, <2>5 DEF FileSize, Header
<1>3. Grow \/ ReadChunk
  BY DEF Next, Frozen, ParseArgs, Unreadable, Frame, Walk, EndWalk, Place, EndOrder, Scan,
         Conclude, Exit, Done, vars, world
<1> QED BY <1>1, <1>2, <1>3

(* While the file is read nothing else changes.                            *)
LEMMA ReadIInv ==
  ASSUME GateAssumption, IInv, Next, ~Frozen
  PROVE  IInv'
<1>1. pc = "read" /\ Types /\ Early /\ EndInv
  BY StepFrozen DEF IInv
<1>2. /\ file' \in FileType /\ file'.present <= file'.claimed /\ grown' \in 0..MaxGrowth
      /\ got' \in Nat /\ got' <= FileSize' /\ got' <= MaxBytes + 1
      /\ Header' = Header /\ Len(file'.body) \in Nat
      /\ UNCHANGED <<expect, pc, walk, verdict, reason, exit>>
  BY <1>1, StepRead
<1>3. /\ pc = "read" /\ at = 1 /\ rest = {} /\ cursor = 0 /\ ~scanned /\ bad = 0
      /\ verdict = "BLOCK" /\ reason = "none"
  BY <1>1 DEF Early, Unread, Unscanned
<1>4. /\ pc' = "read" /\ at' = 1 /\ rest' = {} /\ cursor' = 0
      /\ scanned' = scanned /\ bad' = 0
      /\ verdict' = "BLOCK" /\ reason' = "none" /\ expect' = expect /\ exit' = exit
  BY <1>2, <1>3 DEF walk
<1>5. Types'
  <2>1. expect \in {"none"} \cup Verdicts /\ scanned \in BOOLEAN /\ exit \in {0, 1, 2, 3, 255}
    BY <1>1 DEF Types
  <2>2. Len(Header) \in Nat
    BY <1>1 DEF Types, FileType, Header
  <2>3. at' \in 1..(Len(Header') + 1) /\ bad' \in 0..Len(file'.body)
    BY <1>2, <1>4, <2>2
  <2> QED BY <1>2, <1>4, <2>1, <2>3, Members DEF Types
<1>6. EndInv'
  BY <1>1, <1>4, StepExit DEF EndInv
<1>7. Early'
  BY <1>3, <1>4 DEF Early
<1>8. StageInv' /\ WalkInv' /\ OrderInv' /\ ScanInv' /\ RightLayoutPasses'
  BY <1>4 DEF StageInv, Past, WalkInv, OrderInv, ScanInv, RightLayoutPasses
<1> QED BY <1>5, <1>6, <1>7, <1>8 DEF IInv

(* The loops stay inside the header and the buffer.                        *)
LEMMA StepWalkTypes ==
  ASSUME GateAssumption, Types, Early, StageInv, ScanInv, Next, Frozen
  PROVE  /\ at' \in 1..(Len(Header) + 1) /\ rest' \subseteq Tensors /\ cursor' \in Nat
         /\ bad' \in 0..Len(file.body) /\ grown' \in 0..MaxGrowth
<1>0. /\ at \in 1..(Len(Header) + 1) /\ rest \subseteq Tensors /\ cursor \in Nat
      /\ bad \in 0..Len(file.body) /\ grown \in 0..MaxGrowth /\ MaxGrowth \in Nat
      /\ Len(Header) \in Nat /\ Header \in Seq(Entries)
  BY DEF Types, FileType, Header, GateAssumption
<1>1. CASE Grow
  BY <1>1, <1>0 DEF Grow, walk, world
<1>2. CASE ParseArgs
  BY <1>2, <1>0 DEF ParseArgs, walk, world
<1>3. CASE ReadChunk
  BY <1>3, <1>0 DEF ReadChunk, walk, world
<1>4. CASE Unreadable
  BY <1>4, <1>0 DEF Unreadable, Block, Report, walk, world
<1>5. CASE Frame
  BY <1>5, <1>0 DEF Frame, Block, Report, walk, world
<1>6. CASE Walk
  <2>1. at \in DOMAIN Header
    BY <1>0, <1>6 DEF Walk
  <2>2. IsTensor(at) => at \in Tensors
    BY <2>1 DEF Tensors
  <2> QED BY <1>0, <2>2, <1>6 DEF Walk, Block, Report, walk, world
<1>7. CASE EndWalk
  BY <1>7, <1>0 DEF EndWalk, Block, Report, walk, world
<1>8. CASE Place
  <2>1. FirstSpan \in Tensors
    BY <1>0, <1>8, FirstSpanFirst DEF Place
  <2>2. Header[FirstSpan].end \in Nat
    BY <2>1, TensorEntry
  <2> QED BY <1>0, <2>2, <1>8 DEF Place, Block, Report, walk, world
<1>9. CASE EndOrder
  BY <1>9, <1>0 DEF EndOrder, Block, Report, walk, world
<1>10. CASE Scan
  <2>1. /\ at' = at + 1 /\ at \in 1..Len(Header) /\ rest' = rest /\ cursor' = cursor
        /\ grown' = grown
    BY <1>0, <1>10 DEF Scan, world
  <2>2. bad' \in 0..Len(file.body)
    <3>1. CASE bad' = bad
      BY <1>0, <3>1
    <3>2. CASE Scannable(at) /\ bad' = Tally(at)
      <4>1. /\ Framed /\ Checked(Len(Header) + 1) /\ Partition
            /\ bad = Cardinality(BadUpTo(at)) /\ at \in Tensors
        BY <2>1, <3>2, <1>10 DEF Scan, StageInv, Past, ScanInv, Scannable, Tensors
      <4>2. bad' = Cardinality(BadUpTo(at + 1))
        BY <2>1, <3>2, <4>1, TallyGrows DEF Tally
      <4>3. Len(Buf) \in Nat /\ Len(Buf) <= Len(file.body) /\ Len(file.body) \in Nat
        BY <4>1, BufLength DEF Types, FileType
      <4>4. bad' \in Nat /\ bad' <= Len(Buf)
        BY <2>1, <4>1, <4>2, BadUpToBounded
      <4> QED BY <4>3, <4>4
    <3> QED BY <1>10, <3>1, <3>2 DEF Scan
  <2> QED BY <1>0, <2>1, <2>2
<1>11. CASE Conclude
  BY <1>11, <1>0 DEF Conclude, Report, walk, world
<1>12. CASE Exit
  BY <1>12, <1>0 DEF Exit, walk, world
<1>13. CASE Done
  BY <1>13, <1>0 DEF Done, vars, walk, world
<1> QED
  BY <1>1, <1>2, <1>3, <1>4, <1>5, <1>6, <1>7, <1>8, <1>9, <1>10, <1>11, <1>12, <1>13
  DEF Next

LEMMA FrozenTypes ==
  ASSUME GateAssumption, Types, Early, StageInv, ScanInv, EndInv, Next, Frozen
  PROVE  Types'
<1>1. /\ file' = file /\ got' = got /\ FileSize' = FileSize /\ Header' = Header
      /\ Tensors' = Tensors
  BY FrozenWorld DEF Frozen
<1>2. /\ file \in FileType /\ file.present <= file.claimed
      /\ got \in Nat /\ got <= FileSize /\ got <= MaxBytes + 1
  BY DEF Types
<1> QED BY <1>1, <1>2, StepLabels, StepExit, StepWalkTypes DEF Types

LEMMA FrozenEarly ==
  ASSUME Early, Next, Frozen
  PROVE  Early'
<1>1. CASE Grow
  BY <1>1 DEF Early, Unread, Unscanned, Grow, walk, world
<1>2. CASE ParseArgs
  BY <1>2 DEF Early, Unread, Unscanned, ParseArgs, walk, world
<1>3. CASE ReadChunk
  BY <1>3 DEF Early, Unread, Unscanned, ReadChunk, walk, world
<1>4. CASE Unreadable
  BY <1>4 DEF Early, Unread, Unscanned, Unreadable, Block, Report, walk, world
<1>5. CASE Frame
  BY <1>5 DEF Early, Unread, Unscanned, Frame, Block, Report, walk, world
<1>6. CASE Walk
  BY <1>6 DEF Early, Unread, Unscanned, Walk, Block, Report, walk, world
<1>7. CASE EndWalk
  BY <1>7 DEF Early, Unread, Unscanned, EndWalk, Block, Report, walk, world
<1>8. CASE Place
  BY <1>8 DEF Early, Unread, Unscanned, Place, Block, Report, walk, world
<1>9. CASE EndOrder
  BY <1>9 DEF Early, Unread, Unscanned, EndOrder, Block, Report, walk, world
<1>10. CASE Scan
  BY <1>10 DEF Early, Unread, Unscanned, Scan, walk, world
<1>11. CASE Conclude
  BY <1>11 DEF Early, Unread, Unscanned, Conclude, Report, walk, world
<1>12. CASE Exit
  BY <1>12 DEF Early, Unread, Unscanned, Exit, walk, world
<1>13. CASE Done
  BY <1>13 DEF Early, Unread, Unscanned, Done, vars, walk, world
<1> QED
  BY <1>1, <1>2, <1>3, <1>4, <1>5, <1>6, <1>7, <1>8, <1>9, <1>10, <1>11, <1>12, <1>13
  DEF Next

(* What a stage has established: the file is the one it was.               *)
LEMMA FrozenStages ==
  ASSUME GateAssumption, Types, Early, StageInv, WalkInv, OrderInv, Next, Frozen
  PROVE  StageInv'
<1>0. /\ Framed' = Framed /\ Partition' = Partition /\ Header' = Header
      /\ \A n : Checked(n)' = Checked(n)
  BY FrozenWorld
<1>1. Past({"walk", "order", "scan"})' => Framed
  <2>1. CASE Past({"walk", "order", "scan"})
    BY <2>1 DEF StageInv
  <2>2. CASE pc = "read" /\ verdict = "BLOCK"
    <3>1. Past({"walk", "order", "scan"})' =>
            /\ got <= MaxBytes /\ got >= Prefix + 1 /\ file.claimed \in 1..(got - Prefix)
            /\ ~Unparsable
      <4>1. CASE Grow
        BY <4>1, <2>2 DEF Past, Grow, walk, world
      <4>2. CASE ParseArgs
        BY <4>2, <2>2 DEF Past, ParseArgs, walk, world
      <4>3. CASE ReadChunk
        BY <4>3, <2>2 DEF Past, ReadChunk, walk, world
      <4>4. CASE Unreadable
        BY <4>4, <2>2 DEF Past, Unreadable, Block, Report, walk, world
      <4>5. CASE Frame
        BY <4>5, <2>2 DEF Past, Frame, Block, Report, walk, world
      <4>6. CASE Walk
        BY <4>6, <2>2 DEF Past, Walk, Block, Report, walk, world
      <4>7. CASE EndWalk
        BY <4>7, <2>2 DEF Past, EndWalk, Block, Report, walk, world
      <4>8. CASE Place
        BY <4>8, <2>2 DEF Past, Place, Block, Report, walk, world
      <4>9. CASE EndOrder
        BY <4>9, <2>2 DEF Past, EndOrder, Block, Report, walk, world
      <4>10. CASE Scan
        BY <4>10, <2>2 DEF Past, Scan, walk, world
      <4>11. CASE Conclude
        BY <4>11, <2>2 DEF Past, Conclude, Report, walk, world
      <4>12. CASE Exit
        BY <4>12, <2>2 DEF Past, Exit, walk, world
      <4>13. CASE Done
        BY <4>13, <2>2 DEF Past, Done, vars, walk, world
      <4> QED
        BY <4>1, <4>2, <4>3, <4>4, <4>5, <4>6, <4>7, <4>8, <4>9, <4>10, <4>11, <4>12,
           <4>13
        DEF Next
    <3> QED BY <3>1 DEF Framed
  <2>3. CASE pc # "read" /\ ~Past({"walk", "order", "scan"})
    <3>1. CASE Grow
      BY <3>1, <2>3 DEF Past, Grow, walk, world
    <3>2. CASE ParseArgs
      BY <3>2, <2>3 DEF Past, ParseArgs, walk, world
    <3>3. CASE ReadChunk
      BY <3>3, <2>3 DEF Past, ReadChunk, walk, world
    <3>4. CASE Unreadable
      BY <3>4, <2>3 DEF Past, Unreadable, Block, Report, walk, world
    <3>5. CASE Frame
      BY <3>5, <2>3 DEF Past, Frame, Block, Report, walk, world
    <3>6. CASE Walk
      BY <3>6, <2>3 DEF Past, Walk, Block, Report, walk, world
    <3>7. CASE EndWalk
      BY <3>7, <2>3 DEF Past, EndWalk, Block, Report, walk, world
    <3>8. CASE Place
      BY <3>8, <2>3 DEF Past, Place, Block, Report, walk, world
    <3>9. CASE EndOrder
      BY <3>9, <2>3 DEF Past, EndOrder, Block, Report, walk, world
    <3>10. CASE Scan
      BY <3>10, <2>3 DEF Past, Scan, walk, world
    <3>11. CASE Conclude
      BY <3>11, <2>3 DEF Past, Conclude, Report, walk, world
    <3>12. CASE Exit
      BY <3>12, <2>3 DEF Past, Exit, walk, world
    <3>13. CASE Done
      BY <3>13, <2>3 DEF Past, Done, vars, walk, world
    <3> QED
      BY <3>1, <3>2, <3>3, <3>4, <3>5, <3>6, <3>7, <3>8, <3>9, <3>10, <3>11, <3>12, <3>13
      DEF Next
  <2> QED BY <2>1, <2>2, <2>3 DEF Early, Unscanned, Past
<1>2. Past({"order", "scan"})' => Checked(Len(Header) + 1)
  <2>1. CASE Past({"order", "scan"})
    BY <2>1 DEF StageInv
  <2>2. CASE pc = "walk" /\ at > Len(Header)
    <3>1. Len(Header) \in Nat /\ at = Len(Header) + 1
      BY <2>2 DEF Types, FileType, Header
    <3> QED BY <2>2, <3>1 DEF WalkInv
  <2>3. CASE ~Past({"order", "scan"}) /\ ~(pc = "walk" /\ at > Len(Header))
    <3>1. CASE Grow
      BY <3>1, <2>3 DEF Past, Grow, walk, world
    <3>2. CASE ParseArgs
      BY <3>2, <2>3 DEF Past, ParseArgs, walk, world
    <3>3. CASE ReadChunk
      BY <3>3, <2>3 DEF Past, ReadChunk, walk, world
    <3>4. CASE Unreadable
      BY <3>4, <2>3 DEF Past, Unreadable, Block, Report, walk, world
    <3>5. CASE Frame
      BY <3>5, <2>3 DEF Past, Frame, Block, Report, walk, world
    <3>6. CASE Walk
      BY <3>6, <2>3 DEF Past, Walk, Block, Report, walk, world
    <3>7. CASE EndWalk
      BY <3>7, <2>3 DEF Past, EndWalk, Block, Report, walk, world
    <3>8. CASE Place
      BY <3>8, <2>3 DEF Past, Place, Block, Report, walk, world
    <3>9. CASE EndOrder
      BY <3>9, <2>3 DEF Past, EndOrder, Block, Report, walk, world
    <3>10. CASE Scan
      BY <3>10, <2>3 DEF Past, Scan, walk, world
    <3>11. CASE Conclude
      BY <3>11, <2>3 DEF Past, Conclude, Report, walk, world
    <3>12. CASE Exit
      BY <3>12, <2>3 DEF Past, Exit, walk, world
    <3>13. CASE Done
      BY <3>13, <2>3 DEF Past, Done, vars, walk, world
    <3> QED
      BY <3>1, <3>2, <3>3, <3>4, <3>5, <3>6, <3>7, <3>8, <3>9, <3>10, <3>11, <3>12, <3>13
      DEF Next
  <2> QED BY <2>1, <2>2, <2>3
<1>3. Past({"scan"})' => Partition
  <2>1. CASE Past({"scan"})
    BY <2>1 DEF StageInv
  <2>2. CASE pc = "order" /\ rest = {} /\ cursor = Len(Buf)
    <3>1. \A b \in 1..Len(Buf) : \E i \in Tensors : Owners(b) \cap Tensors = {i}
      BY <2>2 DEF OrderInv, Placed
    <3> QED BY <3>1 DEF Partition, Owners
  <2>3. CASE ~Past({"scan"}) /\ ~(pc = "order" /\ rest = {} /\ cursor = Len(Buf))
    <3>1. CASE Grow
      BY <3>1, <2>3 DEF Past, Grow, walk, world
    <3>2. CASE ParseArgs
      BY <3>2, <2>3 DEF Past, ParseArgs, walk, world
    <3>3. CASE ReadChunk
      BY <3>3, <2>3 DEF Past, ReadChunk, walk, world
    <3>4. CASE Unreadable
      BY <3>4, <2>3 DEF Past, Unreadable, Block, Report, walk, world
    <3>5. CASE Frame
      BY <3>5, <2>3 DEF Past, Frame, Block, Report, walk, world
    <3>6. CASE Walk
      BY <3>6, <2>3 DEF Past, Walk, Block, Report, walk, world
    <3>7. CASE EndWalk
      BY <3>7, <2>3 DEF Past, EndWalk, Block, Report, walk, world
    <3>8. CASE Place
      BY <3>8, <2>3 DEF Past, Place, Block, Report, walk, world
    <3>9. CASE EndOrder
      BY <3>9, <2>3 DEF Past, EndOrder, Block, Report, walk, world
    <3>10. CASE Scan
      BY <3>10, <2>3 DEF Past, Scan, walk, world
    <3>11. CASE Conclude
      BY <3>11, <2>3 DEF Past, Conclude, Report, walk, world
    <3>12. CASE Exit
      BY <3>12, <2>3 DEF Past, Exit, walk, world
    <3>13. CASE Done
      BY <3>13, <2>3 DEF Past, Done, vars, walk, world
    <3> QED
      BY <3>1, <3>2, <3>3, <3>4, <3>5, <3>6, <3>7, <3>8, <3>9, <3>10, <3>11, <3>12, <3>13
      DEF Next
  <2> QED BY <2>1, <2>2, <2>3
<1>4. /\ Past({"walk", "order", "scan"})' => Framed'
      /\ Past({"order", "scan"})' => Checked(Len(Header) + 1)'
      /\ Past({"scan"})' => Partition'
  BY <1>0, <1>1, <1>2, <1>3
<1> QED BY <1>0, <1>4 DEF StageInv

(* The walk.                                                               *)
LEMMA FrozenWalk ==
  ASSUME GateAssumption, Types, Early, WalkInv, Next, Frozen
  PROVE  WalkInv'
<1>0. Tensors' = Tensors /\ \A n : Checked(n)' = Checked(n)
  BY FrozenWorld
<1>1. pc' = "walk" => Checked(at') /\ rest' = {i \in Tensors : i < at'} /\ cursor' = 0
  <2>1. CASE pc = "read" /\ at = 1 /\ rest = {} /\ cursor = 0
    <3>1. pc' = "walk" => UNCHANGED walk
      <4>1. CASE Grow
        BY <4>1, <2>1 DEF Grow, walk, world
      <4>2. CASE ParseArgs
        BY <4>2, <2>1 DEF ParseArgs, walk, world
      <4>3. CASE ReadChunk
        BY <4>3, <2>1 DEF ReadChunk, walk, world
      <4>4. CASE Unreadable
        BY <4>4, <2>1 DEF Unreadable, Block, Report, walk, world
      <4>5. CASE Frame
        BY <4>5, <2>1 DEF Frame, Block, Report, walk, world
      <4>6. CASE Walk
        BY <4>6, <2>1 DEF Walk, Block, Report, walk, world
      <4>7. CASE EndWalk
        BY <4>7, <2>1 DEF EndWalk, Block, Report, walk, world
      <4>8. CASE Place
        BY <4>8, <2>1 DEF Place, Block, Report, walk, world
      <4>9. CASE EndOrder
        BY <4>9, <2>1 DEF EndOrder, Block, Report, walk, world
      <4>10. CASE Scan
        BY <4>10, <2>1 DEF Scan, walk, world
      <4>11. CASE Conclude
        BY <4>11, <2>1 DEF Conclude, Report, walk, world
      <4>12. CASE Exit
        BY <4>12, <2>1 DEF Exit, walk, world
      <4>13. CASE Done
        BY <4>13, <2>1 DEF Done, vars, walk, world
      <4> QED
        BY <4>1, <4>2, <4>3, <4>4, <4>5, <4>6, <4>7, <4>8, <4>9, <4>10, <4>11, <4>12,
           <4>13
        DEF Next
    <3>2. Checked(1) /\ \A i \in Tensors : ~(i < 1)
      BY TensorEntry DEF Types, FileType, Header, Checked
    <3> QED BY <2>1, <3>1, <3>2 DEF walk
  <2>2. CASE pc = "walk"
    <3>1. at \in Nat /\ Header \in Seq(Entries) /\ Tensors \subseteq Nat
      BY TensorEntry DEF Types, FileType, Header
    <3>2. Checked(at) /\ rest = {i \in Tensors : i < at} /\ cursor = 0
      BY <2>2 DEF WalkInv
    <3>3. CASE /\ at <= Len(Header) /\ Admissible(Header[at]) /\ at' = at + 1 /\ cursor' = cursor
               /\ rest' = rest \cup (IF IsTensor(at) THEN {at} ELSE {})
      <4>1. Checked(at + 1)
        BY <3>1, <3>2, <3>3 DEF Checked
      <4>2. at \in DOMAIN Header
        BY <3>1, <3>3 DEF Types
      <4>3. \A i \in Tensors : i < at + 1 <=> (i < at \/ i = at)
        BY <3>1
      <4>4. IsTensor(at) <=> at \in Tensors
        BY <4>2 DEF Tensors
      <4>5. {i \in Tensors : i < at + 1} = rest \cup (IF IsTensor(at) THEN {at} ELSE {})
        BY <3>2, <4>3, <4>4, Zenon
      <4> QED BY <3>2, <3>3, <4>1, <4>5
    <3>4. pc' = "walk" =>
            /\ at <= Len(Header) /\ Admissible(Header[at]) /\ at' = at + 1 /\ cursor' = cursor
            /\ rest' = rest \cup (IF IsTensor(at) THEN {at} ELSE {})
      <4>1. CASE Grow
        BY <4>1, <2>2 DEF Grow, walk, world
      <4>2. CASE ParseArgs
        BY <4>2, <2>2 DEF ParseArgs, walk, world
      <4>3. CASE ReadChunk
        BY <4>3, <2>2 DEF ReadChunk, walk, world
      <4>4. CASE Unreadable
        BY <4>4, <2>2 DEF Unreadable, Block, Report, walk, world
      <4>5. CASE Frame
        BY <4>5, <2>2 DEF Frame, Block, Report, walk, world
      <4>6. CASE Walk
        BY <4>6, <2>2 DEF Walk, Block, Report, walk, world
      <4>7. CASE EndWalk
        BY <4>7, <2>2 DEF EndWalk, Block, Report, walk, world
      <4>8. CASE Place
        BY <4>8, <2>2 DEF Place, Block, Report, walk, world
      <4>9. CASE EndOrder
        BY <4>9, <2>2 DEF EndOrder, Block, Report, walk, world
      <4>10. CASE Scan
        BY <4>10, <2>2 DEF Scan, walk, world
      <4>11. CASE Conclude
        BY <4>11, <2>2 DEF Conclude, Report, walk, world
      <4>12. CASE Exit
        BY <4>12, <2>2 DEF Exit, walk, world
      <4>13. CASE Done
        BY <4>13, <2>2 DEF Done, vars, walk, world
      <4> QED
        BY <4>1, <4>2, <4>3, <4>4, <4>5, <4>6, <4>7, <4>8, <4>9, <4>10, <4>11, <4>12,
           <4>13
        DEF Next
    <3> QED BY <3>3, <3>4
  <2>3. CASE pc \notin {"read", "walk"}
    <3>1. CASE Grow
      BY <3>1, <2>3 DEF Grow, walk, world
    <3>2. CASE ParseArgs
      BY <3>2, <2>3 DEF ParseArgs, walk, world
    <3>3. CASE ReadChunk
      BY <3>3, <2>3 DEF ReadChunk, walk, world
    <3>4. CASE Unreadable
      BY <3>4, <2>3 DEF Unreadable, Block, Report, walk, world
    <3>5. CASE Frame
      BY <3>5, <2>3 DEF Frame, Block, Report, walk, world
    <3>6. CASE Walk
      BY <3>6, <2>3 DEF Walk, Block, Report, walk, world
    <3>7. CASE EndWalk
      BY <3>7, <2>3 DEF EndWalk, Block, Report, walk, world
    <3>8. CASE Place
      BY <3>8, <2>3 DEF Place, Block, Report, walk, world
    <3>9. CASE EndOrder
      BY <3>9, <2>3 DEF EndOrder, Block, Report, walk, world
    <3>10. CASE Scan
      BY <3>10, <2>3 DEF Scan, walk, world
    <3>11. CASE Conclude
      BY <3>11, <2>3 DEF Conclude, Report, walk, world
    <3>12. CASE Exit
      BY <3>12, <2>3 DEF Exit, walk, world
    <3>13. CASE Done
      BY <3>13, <2>3 DEF Done, vars, walk, world
    <3> QED
      BY <3>1, <3>2, <3>3, <3>4, <3>5, <3>6, <3>7, <3>8, <3>9, <3>10, <3>11, <3>12, <3>13
      DEF Next
  <2> QED BY <2>1, <2>2, <2>3 DEF Early, Unread
<1> QED BY <1>0, <1>1 DEF WalkInv

(* A span that starts where the last one ended extends the partition.      *)
LEMMA FrozenOrder ==
  ASSUME GateAssumption, Types, Early, StageInv, WalkInv, OrderInv, Next, Frozen
  PROVE  OrderInv'
<1> DEFINE Ordered(left, c) ==
      /\ c <= Len(Buf)
      /\ \A i \in Tensors \ left : Header[i].end <= c
      /\ \A b \in 1..c : \E i \in Tensors \ left : Owners(b) \cap (Tensors \ left) = {i}
      /\ \A i \in Tensors \ left, j \in left : Before(i, j)
<1>0. /\ Tensors' = Tensors /\ Header' = Header /\ Buf' = Buf
      /\ \A b : Owners(b)' = Owners(b)
      /\ \A i, j : Before(i, j)' = Before(i, j)
  BY FrozenWorld
<1>1. pc' = "order" => Ordered(rest', cursor')
  <2>1. CASE pc = "walk"
    <3>1. pc' = "order" => at > Len(Header) /\ rest' = rest /\ cursor' = cursor
      <4>1. CASE Grow
        BY <4>1, <2>1 DEF Grow, walk, world
      <4>2. CASE ParseArgs
        BY <4>2, <2>1 DEF ParseArgs, walk, world
      <4>3. CASE ReadChunk
        BY <4>3, <2>1 DEF ReadChunk, walk, world
      <4>4. CASE Unreadable
        BY <4>4, <2>1 DEF Unreadable, Block, Report, walk, world
      <4>5. CASE Frame
        BY <4>5, <2>1 DEF Frame, Block, Report, walk, world
      <4>6. CASE Walk
        BY <4>6, <2>1 DEF Walk, Block, Report, walk, world
      <4>7. CASE EndWalk
        BY <4>7, <2>1 DEF EndWalk, Block, Report, walk, world
      <4>8. CASE Place
        BY <4>8, <2>1 DEF Place, Block, Report, walk, world
      <4>9. CASE EndOrder
        BY <4>9, <2>1 DEF EndOrder, Block, Report, walk, world
      <4>10. CASE Scan
        BY <4>10, <2>1 DEF Scan, walk, world
      <4>11. CASE Conclude
        BY <4>11, <2>1 DEF Conclude, Report, walk, world
      <4>12. CASE Exit
        BY <4>12, <2>1 DEF Exit, walk, world
      <4>13. CASE Done
        BY <4>13, <2>1 DEF Done, vars, walk, world
      <4> QED
        BY <4>1, <4>2, <4>3, <4>4, <4>5, <4>6, <4>7, <4>8, <4>9, <4>10, <4>11, <4>12,
           <4>13
        DEF Next
    <3>2. ASSUME at > Len(Header)
          PROVE  Tensors \ rest = {} /\ cursor = 0
      <4>1. \A i \in Tensors : i < at
        BY <3>2, TensorEntry DEF Types, FileType, Header
      <4> QED BY <2>1, <4>1 DEF WalkInv
    <3>3. Len(Buf) \in Nat
      BY BufLength
    <3> QED BY <3>1, <3>2, <3>3
  <2>2. CASE pc = "order"
    <3>1. Ordered(rest, cursor)
      BY <2>2 DEF OrderInv, Placed
    <3>2. CASE UNCHANGED walk
      BY <3>1, <3>2 DEF walk
    <3>3. CASE /\ rest # {} /\ Contiguous(FirstSpan) /\ cursor' = Header[FirstSpan].end
               /\ rest' = rest \ {FirstSpan}
      <4> DEFINE f == FirstSpan
                 P == Tensors \ rest
                 Q == Tensors \ rest'
      <4>1. f \in rest /\ rest \subseteq Tensors /\ \A j \in rest : Before(f, j)
        BY <3>3, FirstSpanFirst DEF Types
      <4> HIDE DEF f
      <4>2. Q = P \cup {f} /\ f \notin P /\ cursor' = Header[f].end /\ Header[f].start = cursor
        BY <3>3, <4>1 DEF f, Contiguous
      <4>3. Header[f].start <= Header[f].end /\ Header[f].end <= Len(Buf)
        <5>1. /\ f \in DOMAIN Header /\ f < Len(Header) + 1 /\ Header[f].kind = "tensor"
          BY <4>1, TensorEntry
        <5> QED BY <2>2, <5>1 DEF StageInv, Past, Checked, Admissible, InBuffer
      <4>4. /\ cursor \in Nat /\ Header[f].end \in Nat
            /\ \A i \in P : Header[i].end \in Nat /\ Header[i].end <= cursor
        BY <3>1, <4>1, TensorEntry DEF Types
      <4>5. \A i \in Q : Header[i].end <= cursor'
        BY <4>2, <4>3, <4>4
      <4>6. ASSUME NEW b \in 1..cursor'
            PROVE  \E i \in Q : Owners(b) \cap Q = {i}
        <5>1. CASE b \in 1..cursor
          <6>1. PICK i \in P : Owners(b) \cap P = {i}
            BY <3>1, <5>1
          <6>2. f \notin Owners(b)
            BY <4>2, <4>4, <5>1 DEF Owners
          <6> QED BY <4>2, <6>1, <6>2
        <5>2. CASE b \in (cursor + 1)..Header[f].end
          <6>1. f \in Owners(b)
            BY <4>1, <4>2, <5>2 DEF Owners
          <6>2. \A i \in P : i \notin Owners(b)
            BY <4>4, <5>2 DEF Owners
          <6> QED BY <4>2, <6>1, <6>2
        <5> QED BY <4>2, <4>4, <4>6, <5>1, <5>2
      <4>7. \A i \in Q, j \in rest' : Before(i, j)
        BY <3>1, <3>3, <4>1, <4>2
      <4> QED BY <4>2, <4>3, <4>5, <4>6, <4>7
    <3>4. pc' = "order" =>
            \/ UNCHANGED walk
            \/ /\ rest # {} /\ Contiguous(FirstSpan) /\ cursor' = Header[FirstSpan].end
               /\ rest' = rest \ {FirstSpan}
      <4>1. CASE Grow
        BY <4>1, <2>2 DEF Grow, walk, world
      <4>2. CASE ParseArgs
        BY <4>2, <2>2 DEF ParseArgs, walk, world
      <4>3. CASE ReadChunk
        BY <4>3, <2>2 DEF ReadChunk, walk, world
      <4>4. CASE Unreadable
        BY <4>4, <2>2 DEF Unreadable, Block, Report, walk, world
      <4>5. CASE Frame
        BY <4>5, <2>2 DEF Frame, Block, Report, walk, world
      <4>6. CASE Walk
        BY <4>6, <2>2 DEF Walk, Block, Report, walk, world
      <4>7. CASE EndWalk
        BY <4>7, <2>2 DEF EndWalk, Block, Report, walk, world
      <4>8. CASE Place
        BY <4>8, <2>2 DEF Place, Block, Report, walk, world
      <4>9. CASE EndOrder
        BY <4>9, <2>2 DEF EndOrder, Block, Report, walk, world
      <4>10. CASE Scan
        BY <4>10, <2>2 DEF Scan, walk, world
      <4>11. CASE Conclude
        BY <4>11, <2>2 DEF Conclude, Report, walk, world
      <4>12. CASE Exit
        BY <4>12, <2>2 DEF Exit, walk, world
      <4>13. CASE Done
        BY <4>13, <2>2 DEF Done, vars, walk, world
      <4> QED
        BY <4>1, <4>2, <4>3, <4>4, <4>5, <4>6, <4>7, <4>8, <4>9, <4>10, <4>11, <4>12,
           <4>13
        DEF Next
    <3> HIDE DEF Ordered
    <3> QED BY <3>2, <3>3, <3>4
  <2>3. CASE pc \notin {"walk", "order"}
    <3>1. pc' # "order"
      <4>1. CASE Grow
        BY <4>1, <2>3 DEF Grow, walk, world
      <4>2. CASE ParseArgs
        BY <4>2, <2>3 DEF ParseArgs, walk, world
      <4>3. CASE ReadChunk
        BY <4>3, <2>3 DEF ReadChunk, walk, world
      <4>4. CASE Unreadable
        BY <4>4, <2>3 DEF Unreadable, Block, Report, walk, world
      <4>5. CASE Frame
        BY <4>5, <2>3 DEF Frame, Block, Report, walk, world
      <4>6. CASE Walk
        BY <4>6, <2>3 DEF Walk, Block, Report, walk, world
      <4>7. CASE EndWalk
        BY <4>7, <2>3 DEF EndWalk, Block, Report, walk, world
      <4>8. CASE Place
        BY <4>8, <2>3 DEF Place, Block, Report, walk, world
      <4>9. CASE EndOrder
        BY <4>9, <2>3 DEF EndOrder, Block, Report, walk, world
      <4>10. CASE Scan
        BY <4>10, <2>3 DEF Scan, walk, world
      <4>11. CASE Conclude
        BY <4>11, <2>3 DEF Conclude, Report, walk, world
      <4>12. CASE Exit
        BY <4>12, <2>3 DEF Exit, walk, world
      <4>13. CASE Done
        BY <4>13, <2>3 DEF Done, vars, walk, world
      <4> QED
        BY <4>1, <4>2, <4>3, <4>4, <4>5, <4>6, <4>7, <4>8, <4>9, <4>10, <4>11, <4>12,
           <4>13
        DEF Next
    <3> QED BY <3>1
  <2> QED BY <2>1, <2>2, <2>3
<1> QED BY <1>0, <1>1 DEF OrderInv, Placed

(* The scan.                                                               *)
LEMMA FrozenScan ==
  ASSUME GateAssumption, Types, Early, StageInv, OrderInv, ScanInv, Next, Frozen
  PROVE  ScanInv'
<1> DEFINE Scanned(n, c, tally, some) ==
      /\ c = Len(Buf)
      /\ tally = Cardinality(BadUpTo(n))
      /\ some <=> \E i \in Tensors : i < n /\ Scannable(i)
<1>0. /\ Tensors' = Tensors /\ Buf' = Buf
      /\ \A n : BadUpTo(n)' = BadUpTo(n)
      /\ \A i : Scannable(i)' = Scannable(i)
  BY FrozenWorld
<1>1. pc' = "scan" => Scanned(at', cursor', bad', scanned')
  <2>1. CASE pc = "order"
    <3>1. pc' = "scan" => /\ cursor = Len(Buf) /\ cursor' = cursor /\ at' = 1
                          /\ scanned' = scanned /\ bad' = bad
      <4>1. CASE Grow
        BY <4>1, <2>1 DEF Grow, walk, world
      <4>2. CASE ParseArgs
        BY <4>2, <2>1 DEF ParseArgs, walk, world
      <4>3. CASE ReadChunk
        BY <4>3, <2>1 DEF ReadChunk, walk, world
      <4>4. CASE Unreadable
        BY <4>4, <2>1 DEF Unreadable, Block, Report, walk, world
      <4>5. CASE Frame
        BY <4>5, <2>1 DEF Frame, Block, Report, walk, world
      <4>6. CASE Walk
        BY <4>6, <2>1 DEF Walk, Block, Report, walk, world
      <4>7. CASE EndWalk
        BY <4>7, <2>1 DEF EndWalk, Block, Report, walk, world
      <4>8. CASE Place
        BY <4>8, <2>1 DEF Place, Block, Report, walk, world
      <4>9. CASE EndOrder
        BY <4>9, <2>1 DEF EndOrder, Block, Report, walk, world
      <4>10. CASE Scan
        BY <4>10, <2>1 DEF Scan, walk, world
      <4>11. CASE Conclude
        BY <4>11, <2>1 DEF Conclude, Report, walk, world
      <4>12. CASE Exit
        BY <4>12, <2>1 DEF Exit, walk, world
      <4>13. CASE Done
        BY <4>13, <2>1 DEF Done, vars, walk, world
      <4> QED
        BY <4>1, <4>2, <4>3, <4>4, <4>5, <4>6, <4>7, <4>8, <4>9, <4>10, <4>11, <4>12,
           <4>13
        DEF Next
    <3>2. ~scanned /\ bad = 0
      BY <2>1 DEF Early, Unscanned
    <3>3. Cardinality(BadUpTo(1)) = 0 /\ \A i \in Tensors : ~(i < 1)
      BY NothingScanned, TensorEntry
    <3> QED BY <3>1, <3>2, <3>3
  <2>2. CASE pc = "scan"
    <3>1. /\ cursor = Len(Buf) /\ bad = Cardinality(BadUpTo(at))
          /\ scanned <=> \E i \in Tensors : i < at /\ Scannable(i)
      BY <2>2 DEF ScanInv
    <3>2. pc' = "scan" => /\ at' = at + 1 /\ cursor' = cursor /\ at <= Len(Header)
                          /\ \/ Scannable(at) /\ scanned' = TRUE /\ bad' = Tally(at)
                             \/ ~Scannable(at) /\ scanned' = scanned /\ bad' = bad
      <4>1. CASE Grow
        BY <4>1, <2>2 DEF Grow, walk, world
      <4>2. CASE ParseArgs
        BY <4>2, <2>2 DEF ParseArgs, walk, world
      <4>3. CASE ReadChunk
        BY <4>3, <2>2 DEF ReadChunk, walk, world
      <4>4. CASE Unreadable
        BY <4>4, <2>2 DEF Unreadable, Block, Report, walk, world
      <4>5. CASE Frame
        BY <4>5, <2>2 DEF Frame, Block, Report, walk, world
      <4>6. CASE Walk
        BY <4>6, <2>2 DEF Walk, Block, Report, walk, world
      <4>7. CASE EndWalk
        BY <4>7, <2>2 DEF EndWalk, Block, Report, walk, world
      <4>8. CASE Place
        BY <4>8, <2>2 DEF Place, Block, Report, walk, world
      <4>9. CASE EndOrder
        BY <4>9, <2>2 DEF EndOrder, Block, Report, walk, world
      <4>10. CASE Scan
        BY <4>10, <2>2 DEF Scan, walk, world
      <4>11. CASE Conclude
        BY <4>11, <2>2 DEF Conclude, Report, walk, world
      <4>12. CASE Exit
        BY <4>12, <2>2 DEF Exit, walk, world
      <4>13. CASE Done
        BY <4>13, <2>2 DEF Done, vars, walk, world
      <4> QED
        BY <4>1, <4>2, <4>3, <4>4, <4>5, <4>6, <4>7, <4>8, <4>9, <4>10, <4>11, <4>12,
           <4>13
        DEF Next
    <3>3. /\ at \in Nat /\ Tensors \subseteq Nat /\ Header \in Seq(Entries) /\ at >= 1
          /\ Checked(Len(Header) + 1) /\ Partition
      BY <2>2, TensorEntry DEF Types, FileType, Header, StageInv, Past
    <3>4. \A i \in Tensors : i < at + 1 <=> (i < at \/ i = at)
      BY <3>3
    <3>5. CASE at <= Len(Header) /\ Scannable(at)
      <4>1. at \in Tensors
        BY <3>3, <3>5 DEF Tensors, Scannable
      <4>2. Cardinality(BadUpTo(at + 1)) = Tally(at)
        BY <3>1, <3>3, <3>5, <4>1, TallyGrows DEF Tally
      <4>3. \E i \in Tensors : i < at + 1 /\ Scannable(i)
        BY <3>4, <3>5, <4>1
      <4> QED BY <3>1, <3>2, <3>5, <4>2, <4>3
    <3>6. CASE ~Scannable(at)
      <4>1. BadUpTo(at + 1) = BadUpTo(at)
        BY <3>3, <3>6, TallyStays
      <4>2. (\E i \in Tensors : i < at + 1 /\ Scannable(i))
              <=> (\E i \in Tensors : i < at /\ Scannable(i))
        BY <3>4, <3>6
      <4> QED BY <3>1, <3>2, <3>6, <4>1, <4>2
    <3> QED BY <3>2, <3>5, <3>6
  <2>3. CASE pc \notin {"order", "scan"}
    <3>1. pc' # "scan"
      <4>1. CASE Grow
        BY <4>1, <2>3 DEF Grow, walk, world
      <4>2. CASE ParseArgs
        BY <4>2, <2>3 DEF ParseArgs, walk, world
      <4>3. CASE ReadChunk
        BY <4>3, <2>3 DEF ReadChunk, walk, world
      <4>4. CASE Unreadable
        BY <4>4, <2>3 DEF Unreadable, Block, Report, walk, world
      <4>5. CASE Frame
        BY <4>5, <2>3 DEF Frame, Block, Report, walk, world
      <4>6. CASE Walk
        BY <4>6, <2>3 DEF Walk, Block, Report, walk, world
      <4>7. CASE EndWalk
        BY <4>7, <2>3 DEF EndWalk, Block, Report, walk, world
      <4>8. CASE Place
        BY <4>8, <2>3 DEF Place, Block, Report, walk, world
      <4>9. CASE EndOrder
        BY <4>9, <2>3 DEF EndOrder, Block, Report, walk, world
      <4>10. CASE Scan
        BY <4>10, <2>3 DEF Scan, walk, world
      <4>11. CASE Conclude
        BY <4>11, <2>3 DEF Conclude, Report, walk, world
      <4>12. CASE Exit
        BY <4>12, <2>3 DEF Exit, walk, world
      <4>13. CASE Done
        BY <4>13, <2>3 DEF Done, vars, walk, world
      <4> QED
        BY <4>1, <4>2, <4>3, <4>4, <4>5, <4>6, <4>7, <4>8, <4>9, <4>10, <4>11, <4>12,
           <4>13
        DEF Next
    <3> QED BY <3>1
  <2> QED BY <2>1, <2>2, <2>3
<1> QED BY <1>0, <1>1 DEF ScanInv

(* A tally of nothing after the last entry means that nothing is wrong.    *)
LEMMA TallyTells ==
  ASSUME GateAssumption, Types, StageInv, ScanInv, pc = "scan", at > Len(Header),
         scanned, bad = 0
  PROVE  Clean
<1>1. /\ at \in Nat /\ Checked(Len(Header) + 1) /\ Cardinality(BadUpTo(at)) = 0
      /\ \E i \in Tensors : Scannable(i)
  BY DEF Types, StageInv, Past, ScanInv
<1>2. BadUpTo(at) = {}
  BY <1>1, BadUpToBounded, FS_EmptySet
<1>3. ASSUME NEW i \in Tensors, Scannable(i)
      PROVE  NonFinite(i) = {}
  <2>1. i < at
    BY TensorEntry DEF Types, FileType, Header
  <2>2. BadBytes(i) = {}
    BY <1>2, <1>3, <2>1 DEF BadUpTo
  <2> QED BY <1>1, <1>3, <2>2, BadBytesCount
<1> QED BY <1>1, <1>3 DEF Clean

LEMMA FrozenEnd ==
  ASSUME GateAssumption, Types, Early, StageInv, ScanInv, EndInv, Next, Frozen
  PROVE  EndInv'
<1>1. Clean' = Clean
  BY FrozenWorld
<1>2. CASE verdict' = "ALLOW" /\ verdict # "ALLOW"
  <2>1. pc = "scan" /\ at > Len(Header) /\ scanned /\ bad = 0
    <3>1. CASE Grow
      BY <3>1, <1>2 DEF Grow, walk, world
    <3>2. CASE ParseArgs
      BY <3>2, <1>2 DEF ParseArgs, walk, world
    <3>3. CASE ReadChunk
      BY <3>3, <1>2 DEF ReadChunk, walk, world
    <3>4. CASE Unreadable
      BY <3>4, <1>2 DEF Unreadable, Block, Report, walk, world
    <3>5. CASE Frame
      BY <3>5, <1>2 DEF Frame, Block, Report, walk, world
    <3>6. CASE Walk
      BY <3>6, <1>2 DEF Walk, Block, Report, walk, world
    <3>7. CASE EndWalk
      BY <3>7, <1>2 DEF EndWalk, Block, Report, walk, world
    <3>8. CASE Place
      BY <3>8, <1>2 DEF Place, Block, Report, walk, world
    <3>9. CASE EndOrder
      BY <3>9, <1>2 DEF EndOrder, Block, Report, walk, world
    <3>10. CASE Scan
      BY <3>10, <1>2 DEF Scan, walk, world
    <3>11. CASE Conclude
      BY <3>11, <1>2 DEF Conclude, Report, walk, world
    <3>12. CASE Exit
      BY <3>12, <1>2 DEF Exit, walk, world
    <3>13. CASE Done
      BY <3>13, <1>2 DEF Done, vars, walk, world
    <3> QED
      BY <3>1, <3>2, <3>3, <3>4, <3>5, <3>6, <3>7, <3>8, <3>9, <3>10, <3>11, <3>12, <3>13
      DEF Next
  <2> QED BY <1>1, <2>1, TallyTells, StepExit DEF EndInv
<1>3. CASE ~(verdict' = "ALLOW" /\ verdict # "ALLOW")
  BY <1>1, <1>3, StepExit DEF EndInv
<1> QED BY <1>2, <1>3

-----------------------------------------------------------------------------
(***************************************************************************)
(* A right layout passes                                                   *)
(***************************************************************************)

(* The next span starts at the cursor: before it, it would take a byte of  *)
(* a placed one or lie inside it; after it, the byte at the cursor would   *)
(* have no owner.                                                          *)
LEMMA RightIsContiguous ==
  ASSUME GateAssumption, Types, OrderInv, pc = "order", rest # {}, RightLayout
  PROVE  Contiguous(FirstSpan)
<1> DEFINE f == FirstSpan
<1>1. f \in rest /\ f \in Tensors /\ \A j \in rest : Before(f, j)
  BY FirstSpanFirst DEF Types
<1> HIDE DEF f
<1>2. /\ \A i \in Placed : Header[i].end <= cursor
      /\ \A b \in 1..cursor : \E i \in Placed : Owners(b) \cap Placed = {i}
      /\ \A i \in Placed, j \in rest : Before(i, j)
      /\ cursor <= Len(Buf) /\ cursor \in Nat /\ Len(Buf) \in Nat
  BY BufLength DEF OrderInv, Types
<1>3. /\ Partition
      /\ \A i \in Tensors : /\ Header[i].start <= Header[i].end /\ Header[i].end <= Len(Buf)
                            /\ OnBoundary(Header[i])
  BY DEF RightLayout, InBuffer
<1>4. \A i \in Tensors : Header[i].start \in Nat /\ Header[i].end \in Nat
  BY TensorEntry
<1>5. ASSUME Header[f].start < cursor
      PROVE  FALSE
  <2> DEFINE b == Header[f].start + 1
  <2>1. b \in 1..cursor /\ b \in 1..Len(Buf)
    BY <1>1, <1>2, <1>4, <1>5
  <2>2. PICK i \in Placed : Owners(b) \cap Placed = {i}
    BY <1>2, <2>1
  <2>3. i \in Tensors /\ i # f /\ i \in Owners(b)
    BY <1>1, <2>2 DEF Placed
  <2>4. PICK k \in Tensors : Owners(b) = {k}
    BY <1>3, <2>1 DEF Partition
  <2>5. f \notin Owners(b)
    BY <2>3, <2>4
  <2>6. Header[f].start = Header[f].end
    BY <1>1, <1>3, <1>4, <2>5 DEF Owners
  <2>7. Header[i].start <= Header[f].start /\ Header[f].start < Header[i].end
    BY <1>1, <1>4, <2>3 DEF Owners
  <2>8. Header[i].start = Header[f].start
    BY <1>1, <1>3, <1>4, <2>3, <2>7 DEF OnBoundary
  <2>9. Before(i, f)
    BY <1>1, <1>2
  <2> QED BY <1>1, <1>4, <2>3, <2>6, <2>7, <2>8, <2>9 DEF Before
<1>6. ASSUME cursor < Header[f].start
      PROVE  FALSE
  <2>1. cursor + 1 \in 1..Len(Buf)
    BY <1>1, <1>2, <1>3, <1>4, <1>6
  <2>2. PICK k \in Tensors : Owners(cursor + 1) = {k}
    BY <1>3, <2>1 DEF Partition
  <2>3. Header[k].start <= cursor /\ cursor < Header[k].end
    BY <1>2, <1>4, <2>2 DEF Owners
  <2>4. k \in rest
    BY <1>2, <1>4, <2>3 DEF Placed
  <2>5. Header[f].start <= Header[k].start
    BY <1>1, <1>4, <2>4 DEF Before
  <2> QED BY <1>1, <1>2, <1>4, <1>6, <2>3, <2>5
<1>7. Header[f].start = cursor
  BY <1>1, <1>2, <1>4, <1>5, <1>6
<1> QED BY <1>7 DEF Contiguous, f

(* And the last one ends where the buffer does.                            *)
LEMMA RightCovers ==
  ASSUME GateAssumption, Types, OrderInv, pc = "order", rest = {}, RightLayout
  PROVE  cursor = Len(Buf)
<1>1. /\ \A i \in Tensors : Header[i].end <= cursor
      /\ cursor <= Len(Buf) /\ cursor \in Nat /\ Len(Buf) \in Nat
  BY BufLength DEF OrderInv, Placed, Types
<1>2. ASSUME cursor < Len(Buf)
      PROVE  FALSE
  <2>1. Len(Buf) \in 1..Len(Buf)
    BY <1>1, <1>2
  <2>2. PICK k \in Tensors : Owners(Len(Buf)) = {k}
    BY <2>1 DEF RightLayout, Partition
  <2>3. Len(Buf) <= Header[k].end
    BY <1>1, <2>2, TensorEntry DEF Owners
  <2> QED BY <1>1, <1>2, <2>3, TensorEntry
<1> QED BY <1>1, <1>2

LEMMA FrozenRight ==
  ASSUME GateAssumption, Types, Early, WalkInv, OrderInv, RightLayoutPasses, Next, Frozen
  PROVE  RightLayoutPasses'
<1>1. SUFFICES ASSUME reason' = "structure", reason # "structure", RightLayout
               PROVE  FALSE
  BY FrozenWorld DEF RightLayoutPasses
<1>2. /\ got > Prefix /\ file.claimed \in 1..(got - Prefix)
      /\ \A i \in DOMAIN Header : Header[i].kind \in {"tensor", "metadata"}
      /\ ~Duplicated /\ Tensors # {}
      /\ \A i \in Tensors : InBuffer(Header[i]) /\ Sized(Header[i])
  BY <1>1 DEF RightLayout, Duplicated
<1>3. ~Unparsable
  BY <1>2 DEF Unparsable
<1>4. /\ got \in Nat /\ Prefix \in Nat /\ file.claimed \in Nat /\ Header \in Seq(Entries)
      /\ at \in 1..(Len(Header) + 1) /\ Len(Header) \in Nat
  BY DEF Types, FileType, Header, GateAssumption
<1>5. CASE Grow
  BY <1>5, <1>1 DEF Grow, walk, world
<1>6. CASE ParseArgs
  BY <1>6, <1>1 DEF ParseArgs, walk, world
<1>7. CASE ReadChunk
  BY <1>7, <1>1 DEF ReadChunk, walk, world
<1>8. CASE Unreadable
  BY <1>8, <1>1 DEF Unreadable, Block, Report, walk, world
<1>9. CASE Frame
  <2>1. got < Prefix + 1 \/ file.claimed = 0 \/ file.claimed > got - Prefix \/ Unparsable
    BY <1>1, <1>9 DEF Frame, Block, Report
  <2> QED BY <1>2, <1>3, <1>4, <2>1
<1>10. CASE Walk
  <2>1. at \in DOMAIN Header /\ ~Admissible(Header[at])
    BY <1>1, <1>4, <1>10 DEF Walk, Block, Report
  <2>2. Header[at].kind = "tensor" => at \in Tensors
    BY <2>1 DEF Tensors, IsTensor
  <2> QED BY <1>2, <2>1, <2>2 DEF Admissible
<1>11. CASE EndWalk
  <2>1. rest = {} /\ pc = "walk" /\ at > Len(Header)
    BY <1>1, <1>11 DEF EndWalk, Block, Report
  <2>2. \A i \in Tensors : i < at
    BY <1>4, <2>1, TensorEntry
  <2> QED BY <1>2, <2>1, <2>2 DEF WalkInv
<1>12. CASE Place
  <2>1. pc = "order" /\ rest # {} /\ ~Contiguous(FirstSpan)
    BY <1>1, <1>12 DEF Place, Block, Report
  <2> QED BY <1>1, <2>1, RightIsContiguous
<1>13. CASE EndOrder
  <2>1. pc = "order" /\ rest = {} /\ cursor # Len(Buf)
    BY <1>1, <1>13 DEF EndOrder, Block, Report
  <2> QED BY <1>1, <2>1, RightCovers
<1>14. CASE Scan
  BY <1>14, <1>1 DEF Scan, walk, world
<1>15. CASE Conclude
  BY <1>15, <1>1 DEF Conclude, Report, walk, world
<1>16. CASE Exit
  BY <1>16, <1>1 DEF Exit, walk, world
<1>17. CASE Done
  BY <1>17, <1>1 DEF Done, vars, walk, world
<1> QED
  BY <1>5, <1>6, <1>7, <1>8, <1>9, <1>10, <1>11, <1>12, <1>13, <1>14, <1>15, <1>16, <1>17
  DEF Next

-----------------------------------------------------------------------------
(***************************************************************************)
(* The theorems                                                            *)
(***************************************************************************)

LEMMA InitIInv ==
  ASSUME GateAssumption, Init
  PROVE  IInv
<1>1. Types
  <2>1. /\ file \in FileType /\ file.present <= file.claimed /\ MaxBytes \in Nat
        /\ MaxGrowth \in Nat /\ Prefix \in Nat
    BY DEF GateAssumption, Init, FileType
  <2>2. /\ Len(Header) \in Nat /\ Len(file.body) \in Nat /\ FileSize \in Nat
    BY <2>1 DEF FileType, Header, FileSize
  <2>3. /\ at \in 1..(Len(Header) + 1) /\ rest \subseteq Tensors /\ cursor \in Nat
        /\ bad \in 0..Len(file.body) /\ scanned \in BOOLEAN /\ grown \in 0..MaxGrowth
    <3>1. /\ at = 1 /\ rest = {} /\ cursor = 0 /\ bad = 0 /\ scanned = FALSE /\ grown = 0
      BY DEF Init
    <3>2. 1 \in 1..(Len(Header) + 1) /\ 0 \in Nat
      BY <2>2
    <3>3. 0 \in 0..Len(file.body) /\ 0 \in 0..MaxGrowth
      BY <2>1, <2>2
    <3>4. {} \subseteq Tensors /\ FALSE \in BOOLEAN
      OBVIOUS
    <3> QED BY <3>1, <3>2, <3>3, <3>4, Zenon
  <2>4. got \in Nat /\ got <= FileSize /\ got <= MaxBytes + 1
    BY <2>1, <2>2 DEF Init
  <2>5. /\ expect \in {"none"} \cup Verdicts /\ pc \in Steps
        /\ verdict \in Verdicts /\ reason \in Reasons /\ exit \in {0, 1, 2, 3, 255}
    BY Members DEF Init
  <2> QED BY <2>1, <2>3, <2>4, <2>5 DEF Types
<1>2. Early /\ StageInv /\ WalkInv /\ OrderInv /\ ScanInv /\ EndInv /\ RightLayoutPasses
  BY DEF Init, Early, StageInv, Past, WalkInv, OrderInv, ScanInv, EndInv, RightLayoutPasses
<1> QED BY <1>1, <1>2 DEF IInv

LEMMA NextIInv ==
  ASSUME GateAssumption, IInv, [Next]_vars
  PROVE  IInv'
<1>1. [Next]_vars => Next \/ UNCHANGED vars
  OBVIOUS
<1>2. CASE Next /\ ~Frozen
  BY <1>2, ReadIInv
<1>3. CASE Next /\ Frozen
  <2>1. Types' /\ Early' /\ StageInv'
    BY <1>3, FrozenTypes, FrozenEarly, FrozenStages DEF IInv
  <2>2. WalkInv' /\ OrderInv' /\ ScanInv' /\ EndInv' /\ RightLayoutPasses'
    BY <1>3, FrozenWalk, FrozenOrder, FrozenScan, FrozenEnd, FrozenRight DEF IInv
  <2> QED BY <2>1, <2>2 DEF IInv
<1>4. CASE UNCHANGED vars
  <2>1. Frozen /\ UNCHANGED <<grown, expect, pc, at, rest, cursor, scanned, bad, verdict,
                              reason, exit>>
    BY <1>4 DEF vars, Frozen
  <2>2. Types' /\ Early'
    BY <2>1, FrozenWorld DEF IInv, Types, Early, Frozen
  <2>3. StageInv' /\ WalkInv' /\ OrderInv' /\ ScanInv' /\ EndInv' /\ RightLayoutPasses'
    <3>1. /\ StageInv /\ WalkInv /\ OrderInv /\ ScanInv /\ EndInv /\ RightLayoutPasses
      BY DEF IInv
    <3> QED BY <2>1, <3>1, FrozenWorld
            DEF StageInv, Past, WalkInv, OrderInv, Placed, ScanInv, EndInv,
               RightLayoutPasses
  <2> QED BY <2>2, <2>3 DEF IInv
<1> QED BY <1>1, <1>2, <1>3, <1>4

(* For any file that may grow while it is read: every stage builds on what *)
(* the ones before it have established (validate_safetensors and main).    *)
THEOREM Invariance == Spec => []IInv
<1>1. Init => IInv
  BY InitIInv, GateAssumption
<1>2. IInv /\ [Next]_vars => IInv'
  BY NextIInv, GateAssumption
<1> QED BY <1>1, <1>2, PTL DEF Spec

(* The read holds at most one byte beyond the limit, and a file that is    *)
(* not blocked is a partition into tensors of their size (gates.py, the    *)
(* read loop and the contiguity of the spans).                             *)
THEOREM AdmissionIsSound == Spec => []AdmissionInv
<1>1. ASSUME IInv
      PROVE  AdmissionInv
  <2>1. Types /\ StageInv /\ OrderInv /\ ScanInv
    BY <1>1 DEF IInv
  <2>2. TypeOK
    <3>1. /\ file.claimed \in Nat /\ file.present \in Nat /\ file.present <= file.claimed
          /\ file.body \in Seq(Bytes) /\ got \in Nat /\ got <= FileSize
      BY <2>1 DEF Types, FileType
    <3>2. /\ file.present \in 0..file.claimed /\ got \in 0..FileSize
          /\ \A k \in DOMAIN file.body : file.body[k] \in Bytes
      <4>1. FileSize \in Nat
        BY <3>1, GateAssumption DEF FileSize, GateAssumption
      <4> QED BY <3>1, <4>1
    <3>3. pc \in {"order", "scan"} => cursor \in 0..Len(Buf)
      <4>1. Len(Buf) \in Nat /\ cursor \in Nat
        BY <2>1, BufLength, GateAssumption DEF Types
      <4> QED BY <2>1, <4>1 DEF OrderInv, ScanInv
    <3> QED BY <2>1, <3>1, <3>2, <3>3, Sizes DEF Types, TypeOK, Steps, Verdicts, Reasons
  <2>3. AdmissionBounded
    BY <2>1 DEF Types, StageInv, Past, Framed, AdmissionBounded
  <2>4. AdmittedIsPartition
    <3>1. SUFFICES ASSUME verdict # "BLOCK"
                   PROVE  Partition /\ \A i \in Tensors : Sized(Header[i]) /\ InBuffer(Header[i])
      BY DEF AdmittedIsPartition
    <3>2. Partition /\ Checked(Len(Header) + 1)
      BY <2>1, <3>1 DEF StageInv, Past
    <3>3. \A i \in Tensors : /\ i \in DOMAIN Header /\ i < Len(Header) + 1
                             /\ Header[i].kind = "tensor"
      BY <2>1, TensorEntry
    <3> QED BY <3>2, <3>3 DEF Checked, Admissible
  <2> QED BY <2>2, <2>3, <2>4 DEF AdmissionInv
<1> QED BY <1>1, Invariance, PTL

(* Exit code 0 means a floating tensor and no NaN or Inf (the scan of      *)
(* gates.py and the last lines of main).                                   *)
THEOREM ExitZeroIsClean == Spec => []AllowIsClean
<1>1. IInv => AllowIsClean
  BY DEF IInv, EndInv, Clean, AllowIsClean
<1> QED BY <1>1, Invariance, PTL

(* A right layout is never blocked for its structure, whatever the order   *)
(* of the header's entries (the contiguity loop over sorted(spans)).       *)
THEOREM NoFalseAlarm == Spec => []RightLayoutPasses
<1>1. IInv => RightLayoutPasses
  BY DEF IInv
<1> QED BY <1>1, Invariance, PTL

=============================================================================
