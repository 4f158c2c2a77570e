------------------------------- MODULE Metrics -------------------------------
(***************************************************************************)
(* The metrics of src/szl_calibration/metrics.py, as exact fractions.      *)
(*                                                                         *)
(* A probability is an integer p that stands for p / Unit, so that a       *)
(* metric is an integer over a denominator its comment names.  Rows are    *)
(* the pairs zip(probs, labels) walks over.  log_loss is not modelled.     *)
(***************************************************************************)
EXTENDS Integers, Sequences, FiniteSets, TLC, FiniteSetsExt, SequencesExt

CONSTANT Unit

ASSUME MetricsAssumption == Unit \in Nat \ {0}

Row(p, y) == [p |-> p, y |-> y]

(* _validate: at least one row, and every row a probability and a label.   *)
ValidRows(rows) ==
  /\ rows # << >>
  /\ \A i \in DOMAIN rows : rows[i].p \in 0..Unit /\ rows[i].y \in {0, 1}

Distance(a, b) == IF a <= b THEN b - a ELSE a - b

-----------------------------------------------------------------------------
(* Over Len(rows) * Unit^2.                                                *)
Brier(rows) ==
  LET Square(i) == (rows[i].p - Unit * rows[i].y) * (rows[i].p - Unit * rows[i].y)
  IN  SumFunction([i \in DOMAIN rows |-> Square(i)])

-----------------------------------------------------------------------------
(* Mutant: rounding to the nearest bin.                                    *)
BinOfNearest(p, n, low) == Min({(2 * p * n + Unit) \div (2 * Unit), n - 1})

(* min(int(p * n_bins), n_bins - 1).  The floating product of a value on a *)
(* bin boundary may come out just below it: low has the values for which   *)
(* it does.                                                                *)
BinOf(p, n, low) ==
  LET exact == (p * n) \div Unit
      rounded == IF p \in low /\ p < Unit /\ (p * n) % Unit = 0 /\ p > 0
                 THEN exact - 1 ELSE exact
  IN  Min({rounded, n - 1})

(* The buckets that are not empty; a mean is a sum over the count.         *)
ReliabilityBins(rows, n, low) ==
  LET Members(b) == {i \in DOMAIN rows : BinOf(rows[i].p, n, low) = b}
  IN  {[bin |-> b, count |-> Cardinality(Members(b)),
        sumP |-> SumFunction([i \in Members(b) |-> rows[i].p]),
        sumY |-> SumFunction([i \in Members(b) |-> rows[i].y])] :
         b \in {c \in 0..(n - 1) : Members(c) # {}}}

(* abs(accuracy - mean_confidence), over bin.count * Unit.                 *)
Gap(bin) == Distance(Unit * bin.sumY, bin.sumP)

(* Over Len(rows) * Unit.                                                  *)
Ece(rows, n, low) == SumFunction([bin \in ReliabilityBins(rows, n, low) |-> Gap(bin)])

NoBin == [count |-> 1, sumP |-> 0, sumY |-> 0]

(* The bin whose gap is the largest.                                       *)
WorstBin(rows, n, low) ==
  LET bins == ReliabilityBins(rows, n, low)
  IN  IF bins = {} THEN NoBin
      ELSE CHOOSE b \in bins : \A c \in bins : Gap(c) * b.count <= Gap(b) * c.count

-----------------------------------------------------------------------------
(* sorted() is stable: rows of one score stay in the order they came in,   *)
(* and the k-th row has k - 1 before it.                                   *)
RowBefore(rows, i, j) == rows[i].p < rows[j].p \/ (rows[i].p = rows[j].p /\ i < j)
Ahead(rows, i) == {j \in DOMAIN rows : RowBefore(rows, j, i)}
Order(rows) ==
  [k \in DOMAIN rows |-> CHOOSE i \in DOMAIN rows : Cardinality(Ahead(rows, i)) = k - 1]

(* Mutant: the plain rank.                                                 *)
DoubleRankPlain(rows, order, k) == 2 * k

(* Twice the average rank of the run of ties around position k.            *)
DoubleRank(rows, order, k) ==
  LET run == {j \in DOMAIN order : rows[order[j]].p = rows[order[k]].p}
  IN  Min(run) + Max(run)

Positives(rows) == {i \in DOMAIN rows : rows[i].y = 1}
BothClasses(rows) == Positives(rows) \notin {{}, DOMAIN rows}

(* Over 2 * positives * negatives; needs both classes.                     *)
Auroc(rows) ==
  LET order == Order(rows)
      pos == {k \in DOMAIN order : order[k] \in Positives(rows)}
      n == Cardinality(pos)
  IN  SumFunction([k \in pos |-> DoubleRank(rows, order, k)]) - n * (n + 1)

NoAuroc == [num |-> 0, den |-> 0]

(* score() of service.py: the metrics of one batch.                        *)
ScoreBatch(rows, n, low) ==
  IF ~ValidRows(rows) THEN [status |-> "invalid"]
  ELSE [status |-> "ok", brier |-> Brier(rows), ece |-> Ece(rows, n, low),
        mce |-> LET worst == WorstBin(rows, n, low)
                IN  [num |-> Gap(worst), den |-> worst.count],
        auroc |-> LET pos == Cardinality(Positives(rows))
                  IN  IF BothClasses(rows)
                      THEN [num |-> Auroc(rows), den |-> 2 * pos * (Len(rows) - pos)]
                      ELSE NoAuroc]
=============================================================================
