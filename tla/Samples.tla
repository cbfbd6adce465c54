------------------------------- MODULE Samples --------------------------------
(* Two small tools of LevelDB: its generator of random numbers, which draws   *)
(* the heights of skip list nodes and the reads it samples (util/random.h),   *)
(* and the histogram of its measurements (util/histogram.cc).                 *)
(*                                                                            *)
(* The generator has words of SeedBits bits for the 31 of the code. What the  *)
(* histogram holds are doubles there and whole numbers here, and its results  *)
(* fractions, [over, under]: rounding is left out.                            *)
EXTENDS Integers, Sequences, Functions

CONSTANTS
    SeedBits,     \* 31
    Multiplier,   \* 16807
    Limits,       \* kBucketLimit; the last one is beyond all values
    Measured,     \* the values added
    MaxValues     \* bound: values in a histogram

VARIABLES
    seed,
    drawn,        \* numbers drawn since the generator was made
    histogram,    \* two of them
    values        \* what was added to each: how often every value was

samplesVars == <<seed, drawn, histogram, values>>

-----------------------------------------------------------------------------
(* Random *)

M == 2 ^ SeedBits - 1

\* Random(s): zero and M would stay what they are.
Seeded(s) == LET low == s % 2 ^ SeedBits IN IF low \in {0, M} THEN 1 ELSE low

\* (Mutant: the sum of the two halves is taken as it is.)
RandomNextUnreduced(s) ==
    LET product == s * Multiplier
    IN (product \div 2 ^ SeedBits) + (product % 2 ^ SeedBits)

\* product % M, from its high and its low half
RandomNext(s) ==
    LET product == s * Multiplier
        sum == (product \div 2 ^ SeedBits) + (product % 2 ^ SeedBits)
    IN IF sum > M THEN sum - M ELSE sum

\* Each of these draws numbers: the result, and the seed behind it.
Uniform(s, n) == [value |-> RandomNext(s) % n, seed |-> RandomNext(s)]

OneIn(s, n) == Uniform(s, n).value = 0

Skewed(s, maxLog) ==
    LET base == Uniform(s, maxLog + 1) IN Uniform(base.seed, 2 ^ base.value)

-----------------------------------------------------------------------------
(* Histogram *)

Buckets == DOMAIN Limits
Last == Len(Limits)

Cleared ==
    [min |-> Limits[Last], max |-> 0, num |-> 0, sum |-> 0, squares |-> 0,
     buckets |-> [b \in Buckets |-> 0]]

BucketOf(value) ==
    CHOOSE b \in Buckets : /\ b = Last \/ Limits[b] > value
                           /\ \A c \in 1..b - 1 : Limits[c] <= value

Lesser(a, b) == IF a < b THEN a ELSE b
Greater(a, b) == IF a > b THEN a ELSE b

Added(h, value) ==
    [h EXCEPT !.min = Lesser(@, value), !.max = Greater(@, value), !.num = @ + 1,
              !.sum = @ + value, !.squares = @ + value * value,
              !.buckets[BucketOf(value)] = @ + 1]

\* (Mutant: the counts are those of the other histogram.)
MergedOver(h, other) ==
    [min |-> Lesser(h.min, other.min), max |-> Greater(h.max, other.max),
     num |-> h.num + other.num, sum |-> h.sum + other.sum,
     squares |-> h.squares + other.squares, buckets |-> other.buckets]

Merged(h, other) ==
    [min |-> Lesser(h.min, other.min), max |-> Greater(h.max, other.max),
     num |-> h.num + other.num, sum |-> h.sum + other.sum,
     squares |-> h.squares + other.squares,
     buckets |-> [b \in Buckets |-> h.buckets[b] + other.buckets[b]]]

CountTo(h, b) == SumFunctionOnSet(h.buckets, 1..b)
LeftOf(b) == IF b = 1 THEN 0 ELSE Limits[b - 1]

\* The value that p percent of the values are below, inside the bucket in
\* proportion; of none, and of a first bucket that is empty, 0/0, not a number.
Percentile(h, p) ==
    LET reached == {b \in Buckets : 100 * CountTo(h, b) >= h.num * p}
        b == CHOOSE c \in reached : \A d \in reached : c <= d
        under == 100 * h.buckets[b]
        over == LeftOf(b) * under
                + (Limits[b] - LeftOf(b)) * (h.num * p - 100 * CountTo(h, b - 1))
    IN IF h.buckets[b] = 0 THEN [over |-> 0, under |-> 0]
       ELSE IF over < h.min * under THEN [over |-> h.min, under |-> 1]
       ELSE IF over > h.max * under THEN [over |-> h.max, under |-> 1]
       ELSE [over |-> over, under |-> under]

Median(h) == Percentile(h, 50)

Average(h) == IF h.num = 0 THEN [over |-> 0, under |-> 1] ELSE [over |-> h.sum, under |-> h.num]

\* The square of StandardDeviation
Variance(h) ==
    IF h.num = 0 THEN [over |-> 0, under |-> 1]
    ELSE [over |-> h.squares * h.num - h.sum * h.sum, under |-> h.num * h.num]

\* ToString: a line for each bucket that is not empty, with a bar of up to 20 marks.
Lines(h) ==
    [b \in {c \in Buckets : h.buckets[c] > 0} |->
        [left |-> LeftOf(b), right |-> Limits[b], count |-> h.buckets[b],
         below |-> CountTo(h, b),
         marks |-> (40 * h.buckets[b] + h.num) \div (2 * h.num)]]

-----------------------------------------------------------------------------
SamplesInit ==
    /\ seed \in {Seeded(s) : s \in 0..2 * M + 1} /\ drawn = <<seed>>
    /\ histogram = <<Cleared, Cleared>>
    /\ values = [h \in 1..2 |-> [v \in Measured |-> 0]]

SamplesDraw ==
    /\ values = [h \in 1..2 |-> [v \in Measured |-> 0]]
    /\ Len(drawn) < M
    /\ seed' = RandomNext(seed)
    /\ drawn' = Append(drawn, seed')
    /\ UNCHANGED <<histogram, values>>

SamplesAdd(h, v) ==
    /\ drawn = <<1>> /\ SumFunction(values[h]) < MaxValues
    /\ histogram' = [histogram EXCEPT ![h] = Added(@, v)]
    /\ values' = [values EXCEPT ![h] = [@ EXCEPT ![v] = @ + 1]]
    /\ UNCHANGED <<seed, drawn>>

\* The second is merged into the first, and cleared.
SamplesMerge ==
    /\ drawn = <<1>> /\ SumFunction(values[1]) <= MaxValues
    /\ SumFunction(values[2]) > 0
    /\ histogram' = <<Merged(histogram[1], histogram[2]), Cleared>>
    /\ values' = [h \in 1..2 |-> [v \in Measured |->
                     IF h = 1 THEN values[1][v] + values[2][v] ELSE 0]]
    /\ UNCHANGED <<seed, drawn>>

SamplesNext ==
    \/ SamplesDraw
    \/ \E h \in 1..2, v \in Measured : SamplesAdd(h, v)
    \/ SamplesMerge

SamplesSpec == SamplesInit /\ [][SamplesNext]_samplesVars

-----------------------------------------------------------------------------
\* The halved product is the product modulo M, so a generator never stops at zero or
\* at M, and comes back to its first number only when it has given all of them; what
\* is drawn from it is in the range that was asked for.
Drawn ==
    /\ seed \in 1..M - 1
    /\ RandomNext(seed) = (seed * Multiplier) % M
    /\ \A i, j \in DOMAIN drawn : drawn[i] = drawn[j] => (j - i) % (M - 1) = 0
    /\ \A n \in 1..4 : /\ Skewed(seed, n).value \in 0..2 ^ n - 1
                       /\ OneIn(seed, n) <=> RandomNext(seed) % n = 0

\* A histogram, of values added one by one or merged from another, has each value in
\* the bucket whose limits it is between; its percentiles are between the least and
\* the largest value, do not decrease, and are in the bucket the value is in.
Measures ==
    \A i \in 1..2 :
        LET h == histogram[i]
            all == values[i]
            n == SumFunction(all)
            there == {v \in Measured : all[v] > 0}
            upTo(v) == SumFunctionOnSet(all, {w \in Measured : w <= v})
            rank(p) == CHOOSE v \in there : /\ 100 * upTo(v) >= n * p
                                            /\ \A w \in there : w < v => 100 * upTo(w) < n * p
        IN /\ h.num = n
           /\ \A b \in Buckets : h.buckets[b] =
                  SumFunctionOnSet(all, {v \in Measured : LeftOf(b) <= v
                                                          /\ (v < Limits[b] \/ b = Last)})
           /\ \A b \in DOMAIN Lines(h) : Lines(h)[b].marks \in 0..20
           /\ Variance(h).over >= 0
           /\ n > 0 =>
                /\ \A v \in there : h.min <= v /\ v <= h.max
                /\ Average(h).over >= h.min * n /\ Average(h).over <= h.max * n
                /\ \A p \in {1, 25, 50, 90, 100} :
                      LET r == Percentile(h, p)
                      IN /\ r.over >= h.min * r.under /\ r.over <= h.max * r.under
                         /\ r.over >= LeftOf(BucketOf(rank(p))) * r.under
                         /\ r.over <= Limits[BucketOf(rank(p))] * r.under
                /\ \A p, q \in {1, 25, 50, 90, 100} :
                      p <= q => Percentile(h, p).over * Percentile(h, q).under
                                <= Percentile(h, q).over * Percentile(h, p).under
=============================================================================
