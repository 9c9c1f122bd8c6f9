--------------------------- MODULE PriorityPolicy ---------------------------
(***************************************************************************)
(* The priority of a conversation (communication/priority.py): a score of  *)
(* its reason, the status of its item, its age and the price paid, in      *)
(* hundredths; hours and whole currency units are enough, since every      *)
(* boundary is one.  Also the SQL translation of is_stale in reconcile.py. *)
(***************************************************************************)
EXTENDS Integers, Sequences

CONSTANT None  \* NULL

REASON_WEIGHTS ==
  [atraso |-> 100, reclamacao |-> 75, troca |-> 50, devolucao |-> 50,
   suporte |-> 40, outros |-> 25, elogio |-> 0]

STATUS_WEIGHTS ==
  [in_transit |-> 100, preparing |-> 75, placed |-> 50, delivered |-> 25,
   cancelled |-> 0]

\* Mutant of AGE_BUCKET_WEIGHTS: listed from the oldest bucket.
AgeBucketWeightsReversed == <<100, 75, 50, 25, 0>>

AGE_BUCKET_HOURS   == <<4, 12, 24, 48>>
AGE_BUCKET_WEIGHTS == <<0, 25, 50, 75, 100>>
VALUE_BOUNDARIES   == <<100, 500, 1000, 5000>>

\* The number of boundaries that x has reached; they ascend.
Rank(boundaries, x) ==
  CHOOSE k \in 0 .. Len(boundaries) :
    /\ \A j \in 1 .. k : x >= boundaries[j]
    /\ \A j \in k + 1 .. Len(boundaries) : x < boundaries[j]

AgeBucketRank(hours) == Rank(AGE_BUCKET_HOURS, hours)
AgeWeight(hours)     == AGE_BUCKET_WEIGHTS[AgeBucketRank(hours) + 1]
ValueWeight(price)   == 25 * Rank(VALUE_BOUNDARIES, price)

CalculatedPriority == {"low", "medium", "high"}

Classify(score) ==
  IF score <= 100 THEN "low" ELSE IF score <= 225 THEN "medium" ELSE "high"

Score(reason, itemStatus, age, price) ==
  REASON_WEIGHTS[reason] + STATUS_WEIGHTS[itemStatus] + AgeWeight(age) + ValueWeight(price)

CalculatePriority(reason, itemStatus, age, price) ==
  Classify(Score(reason, itemStatus, age, price))

EffectivePriority(calculated, override) ==
  IF override # None THEN override ELSE calculated

\* PriorityRank of support/priority_ops.py, the order of the Ops queue.
PriorityRank(effective) ==
  CASE effective = "critical" -> 0 [] effective = "high" -> 1
    [] effective = "medium" -> 2 [] OTHER -> 3

IsStale(now, createdAt, last, statusAt, calculatedAt) ==
  \/ calculatedAt = None
  \/ last > calculatedAt
  \/ statusAt # None /\ statusAt > calculatedAt
  \/ AgeBucketRank(now - createdAt) # AgeBucketRank(calculatedAt - createdAt)

\* In SQL a comparison with NULL is not true, and WHERE takes what is true.
Above(a, b) == a # None /\ b # None /\ a > b

\* _bucket_rank is a CASE: of a NULL age, no WHEN is true and ELSE answers.
SqlBucketRank(start, end) ==
  IF end = None THEN Len(AGE_BUCKET_HOURS) ELSE AgeBucketRank(end - start)

\* Mutant of StaleClause: nothing is said of a NULL calculated_at.
StaleClauseNoNull(now, createdAt, last, statusAt, calculatedAt) ==
  \/ Above(last, calculatedAt)
  \/ Above(statusAt, calculatedAt)
  \/ SqlBucketRank(createdAt, now) # SqlBucketRank(createdAt, calculatedAt)

StaleClause(now, createdAt, last, statusAt, calculatedAt) ==
  \/ calculatedAt = None
  \/ Above(last, calculatedAt)
  \/ Above(statusAt, calculatedAt)
  \/ /\ calculatedAt # None
     /\ SqlBucketRank(createdAt, now) # SqlBucketRank(createdAt, calculatedAt)

=============================================================================
