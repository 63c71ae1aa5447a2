-------------------------------- MODULE Tallies --------------------------------
(* What the scripts share in how they count, add up, order and compare rates. *)
(* A rate num/den is never divided: a limit on it is a record [num, den], and *)
(* rates are compared by cross multiplication.                                *)
EXTENDS Integers, Sequences, FiniteSets, FiniteSetsExt, SequencesExt, TLC

\* A script that ends in fail(): it writes no result.
Failure == [status |-> "failed"]

\* The number of elements of a sequence that satisfy a test.
CountOf(s, Test(_)) == Cardinality({i \in DOMAIN s : Test(s[i])})

\* The sum of a function over a set; the sum, and the largest (0 at least), of f over the elements of a sequence.
SumOver(g, S)   == MapThenSumSet(LAMBDA x : g[x], S)
SumOf(f(_), s)  == SumOver([i \in DOMAIN s |-> f(s[i])], DOMAIN s)
MostOf(f(_), s) == Max({0} \cup {f(s[i]) : i \in DOMAIN s})

\* num / den <= limit, where nothing in nothing is the rate 0.
AtMost(num, den, limit) == den = 0 \/ num * limit.den <= limit.num * den

AtLeastOne(n) == IF n > 1 THEN n ELSE 1
NotNegative(n) == IF n > 0 THEN n ELSE 0
Smaller(a, b) == IF a < b THEN a ELSE b
Abs(x) == IF x < 0 THEN -x ELSE x

\* sorted(): x stands before y if Before(x, y), and equals keep their order.
Sorted(s, Before(_, _)) ==
    LET placed == SortSeq([i \in DOMAIN s |-> <<s[i], i>>],
                          LAMBDA a, b : Before(a[1], b[1]) \/ (~Before(b[1], a[1]) /\ a[2] < b[2]))
    IN  [i \in DOMAIN s |-> placed[i][1]]

\* The elements of a set in an order in which no two of them are equal: the k-th has k - 1 before it.
InOrder(S, Before(_, _)) ==
    [k \in 1 .. Cardinality(S) |-> CHOOSE x \in S : Cardinality({y \in S : Before(y, x)}) = k - 1]

\* The first n elements, or all when there are fewer.
FirstOf(s, n) == SubSeq(s, 1, Smaller(n, Len(s)))

\* A dictionary filled from a sequence of [key, value]: a later value replaces an earlier one.
LastByKey(pairs) ==
    [k \in {pairs[i].key : i \in DOMAIN pairs} |->
        pairs[CHOOSE i \in DOMAIN pairs :
            pairs[i].key = k /\ \A j \in DOMAIN pairs : pairs[j].key = k => j <= i].value]
================================================================================
