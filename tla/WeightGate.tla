----------------------------- MODULE WeightGate -----------------------------
(***************************************************************************)
(* One run of python -m szl_calibration.gate_cli on a safetensors file:    *)
(* the bounded read, the framing checks, the walk over the header, the     *)
(* contiguity of the data spans, the NaN/Inf scan and the exit code.       *)
(*                                                                         *)
(* The file is what a run can read: an announced header length, what the   *)
(* header bytes parse to, and data bytes.  Somebody may still be writing   *)
(* it: it can grow while it is read.  A data byte is "ones" when its       *)
(* exponent bits are all set and "zero" otherwise; F16 stands for the      *)
(* floating dtypes (little endian, so the high byte comes second) and U8   *)
(* for the others.  The product of a shape is the number count.            *)
(***************************************************************************)
EXTENDS Naturals, Sequences, FiniteSets

CONSTANTS
  MaxBytes,      \* the admission limit
  Chunk,         \* bytes asked of one read (1 MiB in the code)
  Prefix,        \* bytes of the length prefix (8 in the code)
  Files,         \* initial files: [claimed, present, header, body]
  MaxGrowth      \* bound: bytes another writer appends during the read

DtypeSize == [F16 |-> 2, U8 |-> 1]
FloatDtypes == {"F16"}
Bytes == {"zero", "ones"}
Names == {"a", "b", "c"}

(* "garbage" stands for bytes that are no JSON object, "malformed" for an  *)
(* entry whose metadata, dtype, shape or offsets have no admissible type.  *)
Entries ==
  [kind : {"garbage", "malformed", "metadata"}, name : Names] \union
  [kind : {"tensor"}, name : Names, dtype : DOMAIN DtypeSize,
   count : Nat, start : Nat, end : Nat]

ASSUME GateAssumption ==
  /\ MaxBytes \in Nat /\ Chunk \in Nat \ {0} /\ Prefix \in Nat \ {0}
  /\ MaxGrowth \in Nat
  /\ \A f \in Files : /\ f \in [claimed : Nat, present : Nat,
                                header : Seq(Entries), body : Seq(Bytes)]
                      /\ f.present <= f.claimed
                      /\ f.present < f.claimed => f.body = << >>

VARIABLES
  file,       \* what is on disk
  grown,      \* bytes appended so far
  expect,     \* --expect, or "none"; only main's last lines read it
  pc,
  got,        \* len(raw)
  at,         \* position of the loop over header.items()
  rest,       \* spans the contiguity loop has not placed
  cursor,
  scanned, bad,
  verdict,    \* rep.verdict
  reason,     \* which kind of reason the report carries
  exit        \* exit code; 255 while running

vars == <<file, grown, expect, pc, got, at, rest, cursor, scanned, bad,
          verdict, reason, exit>>
walk == <<at, rest, cursor, scanned, bad>>
world == <<file, grown>>

FileSize == Prefix + file.present + Len(file.body)
Header == file.header
Buf == SubSeq(file.body, 1, got - Prefix - file.claimed)
IsTensor(i) == Header[i].kind = "tensor"
Tensors == {i \in DOMAIN Header : IsTensor(i)}

Init == /\ file \in Files /\ grown = 0
        /\ expect = "none"
        /\ pc = "start" /\ got = 0
        /\ at = 1 /\ rest = {} /\ cursor = 0 /\ scanned = FALSE /\ bad = 0
        /\ verdict = "BLOCK" /\ reason = "none" /\ exit = 255

(* Another process appends a byte to the file.                             *)
Grow ==
  /\ pc = "read" /\ grown < MaxGrowth
  /\ grown' = grown + 1
  /\ \/ /\ file.present < file.claimed
        /\ file' = [file EXCEPT !.present = @ + 1]
     \/ /\ file.present = file.claimed
        /\ \E b \in Bytes : file' = [file EXCEPT !.body = Append(@, b)]
  /\ UNCHANGED <<expect, pc, got, walk, verdict, reason, exit>>

(* argparse ends the process itself when the arguments are wrong.          *)
ParseArgs ==
  /\ pc = "start"
  /\ \/ pc' = "read" /\ UNCHANGED exit
     \/ pc' = "exited" /\ exit' = 2
  /\ UNCHANGED <<world, expect, got, walk, verdict, reason>>

Least(S) == CHOOSE n \in S : \A k \in S : n <= k
ReadSize == Least({Chunk, MaxBytes + 1 - got, FileSize - got})

Report(why) == pc' = "report" /\ reason' = why
Block(why) == Report(why) /\ UNCHANGED <<walk, verdict>>

ReadChunk ==
  /\ pc = "read" /\ got <= MaxBytes /\ got < FileSize
  /\ got' = got + ReadSize
  /\ UNCHANGED <<world, expect, pc, walk, verdict, reason, exit>>

(* open or read raises OSError.                                            *)
Unreadable ==
  /\ pc = "read" /\ Block("unreadable")
  /\ UNCHANGED <<world, expect, got, exit>>

Duplicated == \E i, j \in DOMAIN Header : i # j /\ Header[i].name = Header[j].name

(* Mutant: json's default, which lets a repeated key pass.                 *)
UnparsableLenient == \E i \in DOMAIN Header : Header[i].kind = "garbage"

Unparsable == Duplicated \/ \E i \in DOMAIN Header : Header[i].kind = "garbage"

(* The loop has ended at the limit or at the end of the file: size,        *)
(* framing, JSON.                                                          *)
Frame ==
  /\ pc = "read"
  /\ got > MaxBytes \/ got = FileSize
  /\ \/ got > MaxBytes /\ Block("oversize")
     \/ /\ got <= MaxBytes
        /\ \/ got < Prefix + 1
           \/ file.claimed = 0
           \/ file.claimed > got - Prefix
           \/ Unparsable
        /\ Block("structure")
     \/ /\ got <= MaxBytes /\ got >= Prefix + 1
        /\ file.claimed \in 1..(got - Prefix)
        /\ ~Unparsable
        /\ pc' = "walk" /\ UNCHANGED <<walk, verdict, reason>>
  /\ UNCHANGED <<world, expect, got, exit>>

InBuffer(t) == t.start <= t.end /\ t.end <= Len(Buf)

Sized(t) == t.count * DtypeSize[t.dtype] = t.end - t.start

(* Mutant: the announced sizes are compared as "fits" instead of "equals". *)
AdmissibleLoose(e) == \/ e.kind = "metadata"
                      \/ /\ e.kind = "tensor" /\ InBuffer(e)
                         /\ e.count * DtypeSize[e.dtype] <= e.end - e.start

Admissible(e) == \/ e.kind = "metadata"
                 \/ e.kind = "tensor" /\ InBuffer(e) /\ Sized(e)

Walk ==
  /\ pc = "walk" /\ at <= Len(Header)
  /\ \/ ~Admissible(Header[at]) /\ Block("structure")
     \/ /\ Admissible(Header[at])
        /\ at' = at + 1
        /\ rest' = rest \union (IF IsTensor(at) THEN {at} ELSE {})
        /\ UNCHANGED <<pc, cursor, scanned, bad, verdict, reason>>
  /\ UNCHANGED <<world, expect, got, exit>>

EndWalk ==
  /\ pc = "walk" /\ at > Len(Header)
  /\ \/ rest = {} /\ Block("structure")
     \/ rest # {} /\ pc' = "order" /\ UNCHANGED <<walk, verdict, reason>>
  /\ UNCHANGED <<world, expect, got, exit>>

(* Mutant: ends are not compared.                                          *)
BeforeByStart(i, j) == Header[i].start <= Header[j].start

(* sorted(spans): by start, then end; the name only decides between two    *)
(* spans that are equal, and so both empty or not contiguous.              *)
Before(i, j) == \/ Header[i].start < Header[j].start
                \/ Header[i].start = Header[j].start /\ Header[i].end <= Header[j].end

FirstSpan == CHOOSE i \in rest : \A j \in rest : Before(i, j)

(* Mutant: a span may start before the previous one has ended.             *)
ContiguousOverlap(i) == Header[i].start <= cursor

Contiguous(i) == Header[i].start = cursor

Place ==
  /\ pc = "order" /\ rest # {}
  /\ \/ ~Contiguous(FirstSpan) /\ Block("structure")
     \/ /\ Contiguous(FirstSpan)
        /\ cursor' = Header[FirstSpan].end
        /\ rest' = rest \ {FirstSpan}
        /\ UNCHANGED <<pc, at, scanned, bad, verdict, reason>>
  /\ UNCHANGED <<world, expect, got, exit>>

(* All spans are placed: they must end where the buffer ends, and the scan *)
(* needs numpy.                                                            *)
EndOrder ==
  /\ pc = "order" /\ rest = {}
  /\ \/ cursor # Len(Buf) /\ Block("structure")
     \/ /\ cursor = Len(Buf)
        /\ \/ pc' = "scan" /\ at' = 1 /\ UNCHANGED <<verdict, reason>>
           \/ Report("no_numpy") /\ verdict' = "REVIEW" /\ UNCHANGED at
        /\ UNCHANGED <<rest, cursor, scanned, bad>>
  /\ UNCHANGED <<world, expect, got, exit>>

Scannable(i) == IsTensor(i) /\ Header[i].dtype \in FloatDtypes
NonFinite(i) ==
  {k \in 1..Header[i].count : Buf[Header[i].start + DtypeSize[Header[i].dtype] * k] = "ones"}

(* Mutant: the count is assigned, not added.                               *)
TallyLast(i) == Cardinality(NonFinite(i))

Tally(i) == bad + Cardinality(NonFinite(i))

Scan ==
  /\ pc = "scan" /\ at <= Len(Header)
  /\ at' = at + 1
  /\ \/ Scannable(at) /\ scanned' = TRUE /\ bad' = Tally(at)
     \/ ~Scannable(at) /\ UNCHANGED <<scanned, bad>>
  /\ UNCHANGED <<world, expect, pc, got, rest, cursor, verdict, reason, exit>>

Conclude ==
  /\ pc = "scan" /\ at > Len(Header)
  /\ \/ ~scanned /\ Report("no_floats") /\ verdict' = "REVIEW"
     \/ scanned /\ bad > 0 /\ Report("damage") /\ UNCHANGED verdict
     \/ scanned /\ bad = 0 /\ Report("none") /\ verdict' = "ALLOW"
  /\ UNCHANGED <<world, expect, got, walk, exit>>

ExitOf == [ALLOW |-> 0, REVIEW |-> 2, BLOCK |-> 1]
ExitCode(e) == IF e = "none" THEN ExitOf[verdict]
               ELSE IF e = verdict THEN 0 ELSE 3

Exit ==
  /\ pc = "report" /\ pc' = "exited"
  /\ expect' \in {"none"} \union DOMAIN ExitOf
  /\ exit' = ExitCode(expect')
  /\ UNCHANGED <<world, got, walk, verdict, reason>>

Done == pc = "exited" /\ UNCHANGED vars

Next == \/ Grow \/ ParseArgs \/ ReadChunk \/ Unreadable \/ Frame \/ Walk \/ EndWalk
        \/ Place \/ EndOrder \/ Scan \/ Conclude \/ Exit \/ Done

Spec == Init /\ [][Next]_vars

-----------------------------------------------------------------------------
(* Every variable keeps its type: the loops of validate_safetensors stay   *)
(* inside the header and the buffer.                                       *)
TypeOK ==
  /\ file.claimed \in Nat /\ file.present \in 0..file.claimed
  /\ grown \in 0..MaxGrowth
  /\ \A k \in DOMAIN file.body : file.body[k] \in Bytes
  /\ expect \in {"none"} \union DOMAIN ExitOf
  /\ pc \in {"start", "read", "walk", "order", "scan", "report", "exited"}
  /\ got \in 0..FileSize
  /\ at \in 1..(Len(Header) + 1) /\ rest \subseteq Tensors
  /\ pc \in {"order", "scan"} => cursor \in 0..Len(Buf)
  /\ scanned \in BOOLEAN /\ bad \in 0..Len(file.body)
  /\ verdict \in DOMAIN ExitOf
  /\ reason \in {"none", "unreadable", "oversize", "structure", "no_numpy",
                 "no_floats", "damage"}
  /\ exit \in {0, 1, 2, 3, 255}

(* However the file grows under the read, at most one byte beyond the      *)
(* limit is held, and what is judged at all is within the limit (gates.py, *)
(* the read loop and its comment "a single overflow byte").                *)
AdmissionBounded ==
  /\ got <= MaxBytes + 1
  /\ pc \in {"walk", "order", "scan"} \/ verdict # "BLOCK" => got <= MaxBytes

Owners(b) == {i \in Tensors : b \in (Header[i].start + 1)..Header[i].end}
Partition == \A b \in 1..Len(Buf) : \E i \in Tensors : Owners(b) = {i}

(* A file that is not blocked is a partition: every data byte belongs to   *)
(* exactly one of the tensors the header declares, and every tensor has    *)
(* the bytes its dtype and shape need.                                     *)
AdmittedIsPartition ==
  verdict # "BLOCK" =>
    /\ Partition
    /\ \A i \in Tensors : Sized(Header[i]) /\ InBuffer(Header[i])

(* The types, the bound on what is read and what is let through.           *)
AdmissionInv == TypeOK /\ AdmissionBounded /\ AdmittedIsPartition

(* A pipeline that goes on because the gate exited 0, without --expect or  *)
(* with --expect ALLOW, has a file that holds a floating tensor and no     *)
(* NaN or Inf in any of them.                                              *)
AllowIsClean ==
  exit = 0 /\ expect \in {"none", "ALLOW"} =>
    /\ \E i \in Tensors : Scannable(i)
    /\ \A i \in Tensors : Scannable(i) => NonFinite(i) = {}

(* A layout that is right is never blocked for its structure, whatever the *)
(* order of the entries in the header: distinct names, at least one        *)
(* tensor, each of its size, the non-empty ones disjoint and covering, the *)
(* empty ones on a boundary.                                               *)
OnBoundary(t) == \A i \in Tensors : ~(Header[i].start < t.start /\ t.start < Header[i].end)
RightLayout ==
  /\ got > Prefix /\ file.claimed \in 1..(got - Prefix)
  /\ \A i \in DOMAIN Header : Header[i].kind \in {"tensor", "metadata"}
  /\ \A i, j \in DOMAIN Header : Header[i].name = Header[j].name => i = j
  /\ Tensors # {}
  /\ \A i \in Tensors : InBuffer(Header[i]) /\ Sized(Header[i]) /\ OnBoundary(Header[i])
  /\ Partition
RightLayoutPasses == reason = "structure" => ~RightLayout
=============================================================================
