---------------------------- MODULE MCWeightGate ----------------------------
(* Headers of up to three entries over a buffer of up to three bytes.      *)
EXTENDS WeightGate

Tensor(n, d, c, s, e) ==
  [kind |-> "tensor", name |-> n, dtype |-> d, count |-> c, start |-> s, end |-> e]
Other(k, n) == [kind |-> k, name |-> n]

Fits == {t \in (0..3) \X (0..2) \X {1, 2} : t[1] + t[2] * t[3] <= 3}
Floats(n) == {Tensor(n, "F16", t[2], t[1], t[1] + 2 * t[2]) : t \in {u \in Fits : u[3] = 2}}
Exact(n) == Floats(n) \union {Tensor(n, "U8", c, s, s + c) : c \in 1..2, s \in 0..1}
Odd(n) == {Tensor(n, "F16", 1, 0, 3), Tensor(n, "U8", 1, 1, 3), Tensor(n, "U8", 2, 1, 0),
           Other("garbage", n), Other("malformed", n), Other("metadata", n)}

MCHeaders ==
  {<< >>} \union {<<x>> : x \in Exact("a") \union Odd("a")}
  \union {<<x, y>> : x \in Exact("a") \union Odd("a"), y \in Exact("b") \union Odd("b")}
  \union {<<x, y>> : x \in Exact("a"), y \in Exact("a")}
  \union {<<x, y, z>> : x \in Exact("a"), y \in Exact("b"), z \in Exact("c")}

MCBodies == {<< >>, <<"zero", "zero">>, <<"zero", "ones">>}
  \union {<<"zero", "zero", "zero">>, <<"zero", "ones", "zero">>, <<"zero", "zero", "ones">>}

MCFiles ==
  [claimed : {2}, present : {2}, header : MCHeaders, body : MCBodies]
  \union [claimed : {0}, present : {0}, header : {<< >>}, body : MCBodies]
  \union [claimed : {2}, present : {0, 1}, header : {<<x>> : x \in Exact("a")}, body : {<< >>}]
=============================================================================
