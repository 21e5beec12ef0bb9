------------------------- MODULE Aggregation_proofs --------------------------
(***************************************************************************)
(* Aggregation in steps is aggregation at once, for every VDAF whose       *)
(* shares of one parameter form a commutative monoid under merge, which    *)
(* refuses the shares of another shape, and whose codec restores them.     *)
(* Poplar1 is one; its collector counts exactly and finds every heavy      *)
(* hitter.                                                                 *)
(***************************************************************************)
EXTENDS HeavyHitters, Integers_proofs, SequenceTheorems, FiniteSetTheorems, TLAPS

CONSTANTS
    Params,          \* the aggregation parameters
    AggShare(_)      \* the aggregate and output shares of a parameter

-----------------------------------------------------------------------------
(* The contract of the VDAF.                                               *)

\* A fallible addition on T: commutative, associative, with a neutral element.
IsAddition(T, neutral, merge(_, _)) ==
    /\ neutral \in T
    /\ \A x, y \in T : \E z \in T : merge(x, y) = [ok |-> TRUE, share |-> z]
    /\ \A x, y \in T : merge(x, y) = merge(y, x)
    /\ \A x, y, z \in T : merge(merge(x, y).share, z).share = merge(x, merge(y, z).share).share
    /\ \A x \in T : merge(x, neutral).share = x

\* A sum of sequences: shares are added one after the other.
IsSummation(T, neutral, merge(_, _), sum(_)) ==
    /\ sum(<<>>) = [ok |-> TRUE, share |-> neutral]
    /\ \A s \in Seq(T) : sum(s).ok =>
          \A x \in T : sum(Append(s, x)) = merge(sum(s).share, x)

zero_share(p) == vdaf_aggregate(p, <<>>).share
AggIds(p) == 0..vdaf_num_aggregators(p) - 1
OutputShares(p) == [AggIds(p) -> AggShare(p)]

SumContract ==
    \A p \in Params :
        /\ IsAddition(AggShare(p), zero_share(p), vdaf_merge)
        /\ IsSummation(AggShare(p), zero_share(p), vdaf_merge, LAMBDA s : vdaf_aggregate(p, s))

CodecContract ==
    \A p \in Params : \A x \in AggShare(p) : vdaf_decode_agg_share(p, vdaf_encode_agg_share(x)) = x

\* Shares of another shape are refused.
ShapeContract ==
    \A p, q \in Params : \A x \in AggShare(p), y \in AggShare(q) :
        ~SameShape(y, x) => ~vdaf_merge(x, y).ok

PrepareContract ==
    \A p \in Params : \A batch \in Batches : \A r \in batch.reports :
        vdaf_prepare(p, r) # <<>> => vdaf_prepare(p, r) \in OutputShares(p)

\* The collector goes on with a parameter for the same aggregators, or ends.
ParamContract ==
    /\ \A batch \in Batches : batch.param \in Params /\ IsFiniteSet(batch.reports)
    /\ \A p \in Params : vdaf_num_aggregators(p) \in Nat \ {0}
    /\ \A p \in Params : \A shares \in Seq(AggShare(p)) : \A n \in Nat :
          LET res == vdaf_unshard(p, shares, n)
          IN  res.ok => \/ next_param(p, res.result) = <<>>
                        \/ \E q \in Params : /\ next_param(p, res.result) = <<q>>
                                             /\ vdaf_num_aggregators(q) = vdaf_num_aggregators(p)

PartialsContract == \E n \in Nat : Partials = 1..n

VdafContract ==
    SumContract /\ CodecContract /\ ShapeContract /\ PrepareContract /\ ParamContract /\ PartialsContract

-----------------------------------------------------------------------------
(* Sums of sequences of shares.                                            *)

Add(x, y) == vdaf_merge(x, y).share
Total(p, s) == vdaf_aggregate(p, s).share

\* The laws in the form the other lemmas use.
LEMMA Laws ==
  ASSUME SumContract, NEW p \in Params
  PROVE  /\ zero_share(p) \in AggShare(p) /\ vdaf_aggregate(p, <<>>) = [ok |-> TRUE, share |-> zero_share(p)]
         /\ \A x, y \in AggShare(p) : /\ vdaf_merge(x, y) = [ok |-> TRUE, share |-> Add(x, y)]
                                      /\ Add(x, y) \in AggShare(p) /\ Add(x, y) = Add(y, x)
         /\ \A x, y, z \in AggShare(p) : Add(Add(x, y), z) = Add(x, Add(y, z))
         /\ \A x \in AggShare(p) : Add(x, zero_share(p)) = x
<1>1. IsAddition(AggShare(p), zero_share(p), vdaf_merge)
  BY DEF SumContract
<1>2. IsSummation(AggShare(p), zero_share(p), vdaf_merge, LAMBDA s : vdaf_aggregate(p, s))
  BY DEF SumContract
<1>3. ASSUME NEW x \in AggShare(p), NEW y \in AggShare(p)
      PROVE  /\ vdaf_merge(x, y) = [ok |-> TRUE, share |-> Add(x, y)]
             /\ Add(x, y) \in AggShare(p) /\ Add(x, y) = Add(y, x)
  <2>1. PICK z \in AggShare(p) : vdaf_merge(x, y) = [ok |-> TRUE, share |-> z]
    BY <1>1 DEF IsAddition
  <2>2. vdaf_merge(x, y) = vdaf_merge(y, x)
    BY <1>1 DEF IsAddition
  <2> QED
    BY <2>1, <2>2 DEF Add
<1>4. \A x, y, z \in AggShare(p) : Add(Add(x, y), z) = Add(x, Add(y, z))
  BY <1>1 DEF IsAddition, Add
<1>5. \A x \in AggShare(p) : Add(x, zero_share(p)) = x
  BY <1>1 DEF IsAddition, Add
<1>6. zero_share(p) \in AggShare(p) /\ vdaf_aggregate(p, <<>>) = [ok |-> TRUE, share |-> zero_share(p)]
  BY <1>1, <1>2 DEF IsAddition, IsSummation
<1> QED
  BY <1>3, <1>4, <1>5, <1>6

LEMMA AppendLaw ==
  ASSUME SumContract, NEW p \in Params, NEW s \in Seq(AggShare(p)), vdaf_aggregate(p, s).ok,
         NEW x \in AggShare(p)
  PROVE  vdaf_aggregate(p, Append(s, x)) = vdaf_merge(Total(p, s), x)
<1>1. IsSummation(AggShare(p), zero_share(p), vdaf_merge, LAMBDA q : vdaf_aggregate(p, q))
  BY DEF SumContract
<1> QED
  BY <1>1 DEF IsSummation, Total

\* A sequence that is not empty is what comes before its last element, and that.
LEMMA SplitLast ==
  ASSUME NEW T, NEW n \in Nat, NEW s \in [1..n + 1 -> T]
  PROVE  LET front == [k \in 1..n |-> s[k]]
         IN  front \in [1..n -> T] /\ front \in Seq(T) /\ s[n + 1] \in T /\ s = Append(front, s[n + 1])
<1> DEFINE front == [k \in 1..n |-> s[k]]
           x == s[n + 1]
           a == Append(front, x)
<1>1. front \in [1..n -> T] /\ x \in T
  OBVIOUS
<1>2. front \in Seq(T) /\ Len(front) = n
  BY <1>1
<1>3. s \in Seq(T) /\ Len(s) = n + 1
  OBVIOUS
<1>4. a \in Seq(T) /\ Len(a) = n + 1 /\ a[n + 1] = x /\ \A k \in 1..n : a[k] = front[k]
  <2> HIDE DEF front, x
  <2> QED
    BY <1>1, <1>2
<1>5. ASSUME NEW k \in 1..n + 1
      PROVE  a[k] = s[k]
  <2>1. CASE k = n + 1
    BY <1>4, <2>1
  <2>2. CASE k # n + 1
    <3>1. k \in 1..n
      BY <2>2
    <3>2. a[k] = front[k]
      BY <1>4, <3>1
    <3> QED
      BY <3>1, <3>2
  <2> QED
    BY <2>1, <2>2
<1>6. s = a
  <2> HIDE DEF a
  <2> QED
    BY <1>3, <1>4, <1>5, SeqEqual
<1> QED
  BY <1>1, <1>2, <1>6

\* Sums of shares are shares, and no addition fails.
LEMMA SumType ==
  ASSUME SumContract, NEW p \in Params, NEW n \in Nat, NEW s \in [1..n -> AggShare(p)]
  PROVE  vdaf_aggregate(p, s) = [ok |-> TRUE, share |-> Total(p, s)] /\ Total(p, s) \in AggShare(p)
<1> DEFINE T == AggShare(p)
           Ok(q) == vdaf_aggregate(p, q) = [ok |-> TRUE, share |-> Total(p, q)] /\ Total(p, q) \in T
           S == {k \in 0..n : \A q \in [1..k -> T] : Ok(q)}
<1>1. 0 \in S
  <2>1. \A q \in [1..0 -> T] : q = <<>>
    OBVIOUS
  <2>2. Ok(<<>>)
    BY Laws DEF Total
  <2> HIDE DEF Ok
  <2> QED
    BY <2>1, <2>2
<1>2. ASSUME NEW k \in 0..n - 1, k \in S
      PROVE  k + 1 \in S
  <2>1. ASSUME NEW q \in [1..k + 1 -> T]
        PROVE  Ok(q)
    <3> DEFINE f == [i \in 1..k |-> q[i]]
               x == q[k + 1]
    <3>1. f \in [1..k -> T] /\ f \in Seq(T) /\ x \in T /\ q = Append(f, x)
      <4> HIDE DEF T
      <4>1. k \in Nat
        OBVIOUS
      <4> QED
        BY <4>1, SplitLast
    <3> HIDE DEF f, x
    <3>2. Ok(f)
      BY <1>2, <3>1
    <3>3. vdaf_aggregate(p, q) = vdaf_merge(Total(p, f), x)
      <4>1. vdaf_aggregate(p, Append(f, x)) = vdaf_merge(Total(p, f), x)
        BY <3>1, <3>2, AppendLaw
      <4> QED
        BY <3>1, <4>1
    <3>4. /\ vdaf_merge(Total(p, f), x) = [ok |-> TRUE, share |-> Add(Total(p, f), x)]
          /\ Add(Total(p, f), x) \in T
      BY <3>1, <3>2, Laws
    <3>5. Total(p, q) = Add(Total(p, f), x)
      BY <3>3 DEF Total, Add
    <3> QED
      BY <3>3, <3>4, <3>5
  <2> HIDE DEF Ok
  <2> QED
    BY <2>1
<1>3. 0..n \subseteq S
  <2> HIDE DEF S
  <2> QED
    BY <1>1, <1>2, IntervalInduction
<1> QED
  BY <1>3

\* One share more.
LEMMA SumAppend ==
  ASSUME SumContract, NEW p \in Params, NEW n \in Nat, NEW s \in [1..n + 1 -> AggShare(p)]
  PROVE  Total(p, s) = Add(Total(p, [k \in 1..n |-> s[k]]), s[n + 1])
<1> DEFINE T == AggShare(p)
           f == [k \in 1..n |-> s[k]]
           x == s[n + 1]
<1>1. f \in [1..n -> T] /\ f \in Seq(T) /\ x \in T /\ s = Append(f, x)
  <2> HIDE DEF T
  <2>1. s \in [1..n + 1 -> T]
    BY DEF T
  <2> QED
    BY <2>1, SplitLast
<1> HIDE DEF f, x
<1>2. vdaf_aggregate(p, f).ok
  BY <1>1, SumType
<1>3. vdaf_aggregate(p, s) = vdaf_merge(Total(p, f), x)
  <2>1. vdaf_aggregate(p, Append(f, x)) = vdaf_merge(Total(p, f), x)
    BY <1>1, <1>2, AppendLaw
  <2> QED
    BY <1>1, <2>1
<1>4. Total(p, s) = Add(Total(p, f), x)
  BY <1>3 DEF Total, Add
<1> QED
  BY <1>4 DEF f, x

\* A sequence without its i-th element.
Without(s, i, n) == [k \in 1..n |-> IF k < i THEN s[k] ELSE s[k + 1]]

\* Any share of a sequence may be added last: the order does not matter.
LEMMA SumWithout ==
  ASSUME SumContract, NEW p \in Params, NEW n \in Nat, NEW s \in [1..n + 1 -> AggShare(p)],
         NEW i \in 1..n + 1
  PROVE  Total(p, s) = Add(Total(p, Without(s, i, n)), s[i])
<1> DEFINE T == AggShare(p)
           Good(q, k, j) == Total(p, q) = Add(Total(p, Without(q, j, k)), q[j])
           S == {k \in 0..n : \A q \in [1..k + 1 -> T] : \A j \in 1..k + 1 : Good(q, k, j)}
<1>1. ASSUME NEW k \in Nat, NEW q \in [1..k + 1 -> T]
      PROVE  Good(q, k, k + 1)
  <2>1. Without(q, k + 1, k) = [m \in 1..k |-> q[m]]
    BY DEF Without
  <2> QED
    BY <2>1, SumAppend
<1>2. 0 \in S
  <2>1. ASSUME NEW q \in [1..0 + 1 -> T], NEW j \in 1..0 + 1
        PROVE  Good(q, 0, j)
    <3>1. j = 0 + 1
      OBVIOUS
    <3> HIDE DEF Good
    <3> QED
      BY <1>1, <3>1
  <2> HIDE DEF Good
  <2> QED
    BY <2>1
<1>3. ASSUME NEW k \in 0..n - 1, k \in S
      PROVE  k + 1 \in S
  <2> DEFINE m == k + 1
  <2>0. k \in Nat /\ m \in Nat /\ m \in 0..n
    OBVIOUS
  <2>1. ASSUME NEW q \in [1..m + 1 -> T], NEW j \in 1..m + 1
        PROVE  Good(q, m, j)
    <3>1. CASE j = m + 1
      <4> HIDE DEF Good, m
      <4> QED
        BY <1>1, <2>0, <3>1
    <3>2. CASE j # m + 1
      <4> DEFINE f == [l \in 1..m |-> q[l]]
                 x == q[m + 1]
                 y == q[j]
                 w == Without(q, j, m)
                 v == Without(f, j, k)
      <4>1. j \in 1..m /\ f \in [1..k + 1 -> T] /\ x \in T /\ y \in T /\ f[j] = y
        BY <2>0, <3>2
      <4>2. w \in [1..k + 1 -> T] /\ v \in [1..k -> T]
        <5>1. ASSUME NEW l \in 1..m
              PROVE  (IF l < j THEN q[l] ELSE q[l + 1]) \in T
          BY <2>0
        <5>2. ASSUME NEW l \in 1..k
              PROVE  (IF l < j THEN f[l] ELSE f[l + 1]) \in T
          BY <2>0
        <5> QED
          BY <5>1, <5>2 DEF Without
      <4>3. [l \in 1..k |-> w[l]] = v /\ w[k + 1] = x
        <5>1. ASSUME NEW l \in 1..k
              PROVE  w[l] = v[l]
          <6>1. l \in 1..m /\ l + 1 \in 1..m
            BY <2>0
          <6> QED
            BY <6>1 DEF Without
        <5>2. w[k + 1] = x
          BY <2>0, <4>1 DEF Without
        <5>3. v = [l \in 1..k |-> v[l]]
          BY DEF Without
        <5> HIDE DEF w, v
        <5> QED
          BY <5>1, <5>2, <5>3
      <4>4. Total(p, q) = Add(Total(p, f), x)
        BY <2>0, SumAppend
      <4>5. Total(p, f) = Add(Total(p, v), y)
        <5>1. Good(f, k, j)
          <6> HIDE DEF Good, f
          <6> QED
            BY <1>3, <4>1
        <5> QED
          BY <4>1, <5>1
      <4> HIDE DEF f, x, y, w, v
      <4>6. Total(p, w) = Add(Total(p, v), x)
        <5>1. Total(p, w) = Add(Total(p, [l \in 1..k |-> w[l]]), w[k + 1])
          BY <2>0, <4>2, SumAppend
        <5> QED
          BY <4>3, <5>1
      <4> DEFINE z == Total(p, v)
      <4>7. z \in T
        BY <2>0, <4>2, SumType
      <4> HIDE DEF z
      <4>8. Add(Add(z, y), x) = Add(Add(z, x), y)
        <5>1. Add(Add(z, y), x) = Add(z, Add(y, x)) /\ Add(Add(z, x), y) = Add(z, Add(x, y))
          BY <4>1, <4>7, Laws
        <5>2. Add(y, x) = Add(x, y)
          BY <4>1, Laws
        <5> QED
          BY <5>1, <5>2
      <4>9. Total(p, q) = Add(Total(p, w), y)
        BY <4>4, <4>5, <4>6, <4>8 DEF z
      <4> QED
        BY <4>9 DEF w, y
    <3> QED
      BY <3>1, <3>2
  <2> HIDE DEF Good
  <2> QED
    BY <2>0, <2>1
<1>4. 0..n \subseteq S
  <2> HIDE DEF S
  <2> QED
    BY <1>2, <1>3, IntervalInduction
<1>5. Good(s, n, i)
  <2> HIDE DEF Good
  <2> QED
    BY <1>4
<1> QED
  BY <1>5

\* A share is added to one of several.
LEMMA SumUpdate ==
  ASSUME SumContract, NEW p \in Params, NEW n \in Nat, NEW s \in [1..n -> AggShare(p)],
         NEW i \in 1..n, NEW x \in AggShare(p), NEW u \in [1..n -> AggShare(p)],
         u[i] = Add(s[i], x), \A k \in 1..n : k # i => u[k] = s[k]
  PROVE  Total(p, u) = Add(Total(p, s), x)
<1> DEFINE T == AggShare(p)
           m == n - 1
           w == Without(s, i, m)
           z == Total(p, w)
           y == s[i]
<1>0. m \in Nat /\ m + 1 = n /\ y \in T
  OBVIOUS
<1>1. u \in [1..m + 1 -> T] /\ s \in [1..m + 1 -> T] /\ i \in 1..m + 1
  BY <1>0
<1>2. Without(u, i, m) = w
  <2>1. ASSUME NEW k \in 1..m
        PROVE  (IF k < i THEN u[k] ELSE u[k + 1]) = (IF k < i THEN s[k] ELSE s[k + 1])
    <3>1. k \in 1..n /\ k + 1 \in 1..n
      BY <1>0
    <3> QED
      BY <3>1
  <2> QED
    BY <2>1 DEF Without
<1>3. w \in [1..m -> T]
  <2>1. ASSUME NEW k \in 1..m
        PROVE  (IF k < i THEN s[k] ELSE s[k + 1]) \in T
    BY <1>0
  <2> QED
    BY <2>1 DEF Without
<1> HIDE DEF m
<1>4. Total(p, u) = Add(Total(p, Without(u, i, m)), u[i])
  BY <1>0, <1>1, SumWithout
<1>5. Total(p, s) = Add(Total(p, Without(s, i, m)), s[i])
  BY <1>0, <1>1, SumWithout
<1> HIDE DEF w
<1>6. z \in T
  BY <1>0, <1>3, SumType
<1>7. Total(p, u) = Add(z, Add(y, x)) /\ Total(p, s) = Add(z, y)
  BY <1>2, <1>4, <1>5 DEF w
<1> HIDE DEF z, y
<1>8. Add(z, Add(y, x)) = Add(Add(z, y), x)
  BY <1>0, <1>6, Laws
<1> QED
  BY <1>7, <1>8

\* One share is moved into another and leaves a zero.
LEMMA SumMove ==
  ASSUME SumContract, NEW p \in Params, NEW n \in Nat, NEW s \in [1..n -> AggShare(p)],
         NEW i \in 1..n, NEW j \in 1..n, i # j, NEW u \in [1..n -> AggShare(p)],
         u[i] = Add(s[i], s[j]), u[j] = zero_share(p), \A k \in 1..n : k # i /\ k # j => u[k] = s[k]
  PROVE  Total(p, u) = Total(p, s)
<1> DEFINE T == AggShare(p)
           x == s[j]
           q == [k \in 1..n |-> IF k = j THEN zero_share(p) ELSE s[k]]
<1>1. x \in T /\ zero_share(p) \in T
  BY Laws
<1>2. /\ q \in [1..n -> T] /\ q[j] = zero_share(p) /\ q[i] = s[i]
      /\ \A k \in 1..n : (k # j => s[k] = q[k]) /\ (k # i => u[k] = q[k])
  BY <1>1
<1> HIDE DEF q
<1>3. s[j] = Add(q[j], x)
  <2>1. Add(x, zero_share(p)) = x /\ Add(x, zero_share(p)) = Add(zero_share(p), x)
    BY <1>1, Laws
  <2> QED
    BY <1>2, <2>1
<1>4. u[i] = Add(q[i], x)
  BY <1>2
<1> HIDE DEF x
<1>5. Total(p, s) = Add(Total(p, q), x)
  BY <1>1, <1>2, <1>3, SumUpdate
<1>6. Total(p, u) = Add(Total(p, q), x)
  BY <1>1, <1>2, <1>4, SumUpdate
<1> QED
  BY <1>5, <1>6

\* Zeros add up to zero.
LEMMA SumZeros ==
  ASSUME SumContract, NEW p \in Params, NEW n \in Nat
  PROVE  Total(p, [k \in 1..n |-> zero_share(p)]) = zero_share(p)
<1> DEFINE none == zero_share(p)
           zeros(k) == [i \in 1..k |-> none]
           S == {k \in 0..n : Total(p, zeros(k)) = none}
<1>0. none \in AggShare(p)
  BY Laws
<1>1. 0 \in S
  <2>1. zeros(0) = <<>>
    OBVIOUS
  <2>2. Total(p, <<>>) = none
    BY Laws DEF Total
  <2> HIDE DEF zeros
  <2> QED
    BY <2>1, <2>2
<1>2. ASSUME NEW k \in 0..n - 1, k \in S
      PROVE  k + 1 \in S
  <2> DEFINE q == zeros(k + 1)
  <2>1. k \in Nat /\ q \in [1..k + 1 -> AggShare(p)] /\ [i \in 1..k |-> q[i]] = zeros(k) /\ q[k + 1] = none
    BY <1>0
  <2> HIDE DEF q
  <2>2. Total(p, q) = Add(Total(p, [i \in 1..k |-> q[i]]), q[k + 1])
    BY <2>1, SumAppend
  <2>3. Total(p, q) = Add(none, none)
    BY <1>2, <2>1, <2>2
  <2>4. Add(none, none) = none
    BY <1>0, Laws
  <2> QED
    BY <2>3, <2>4 DEF q
<1>3. 0..n \subseteq S
  <2> HIDE DEF S
  <2> QED
    BY <1>1, <1>2, IntervalInduction
<1> QED
  BY <1>3

\* Two sequences are added element by element.
LEMMA SumAdd ==
  ASSUME SumContract, NEW p \in Params, NEW n \in Nat, NEW s \in [1..n -> AggShare(p)],
         NEW u \in [1..n -> AggShare(p)]
  PROVE  Total(p, [k \in 1..n |-> Add(s[k], u[k])]) = Add(Total(p, s), Total(p, u))
<1> DEFINE T == AggShare(p)
           first(q, k) == [i \in 1..k |-> q[i]]
           both(k) == [i \in 1..k |-> Add(s[i], u[i])]
           S == {k \in 0..n : Total(p, both(k)) = Add(Total(p, first(s, k)), Total(p, first(u, k)))}
<1>1. 0 \in S
  <2>1. both(0) = <<>> /\ first(s, 0) = <<>> /\ first(u, 0) = <<>>
    OBVIOUS
  <2>2. Total(p, <<>>) = zero_share(p) /\ Add(zero_share(p), zero_share(p)) = zero_share(p)
    BY Laws DEF Total
  <2> HIDE DEF both, first
  <2> QED
    BY <2>1, <2>2
<1>2. ASSUME NEW k \in 0..n - 1, k \in S
      PROVE  k + 1 \in S
  <2>0. k \in Nat /\ k + 1 \in 1..n /\ k + 1 \in 0..n
    OBVIOUS
  <2>1. ASSUME NEW q \in [1..n -> T]
        PROVE  /\ Total(p, first(q, k + 1)) = Add(Total(p, first(q, k)), q[k + 1])
               /\ Total(p, first(q, k)) \in T /\ q[k + 1] \in T
    <3> DEFINE v == first(q, k + 1)
    <3>1. /\ v \in [1..k + 1 -> T] /\ [i \in 1..k |-> v[i]] = first(q, k) /\ v[k + 1] = q[k + 1]
          /\ first(q, k) \in [1..k -> T] /\ q[k + 1] \in T
      BY <2>0
    <3> HIDE DEF first
    <3>2. Total(p, v) = Add(Total(p, [i \in 1..k |-> v[i]]), v[k + 1])
      BY <2>0, <3>1, SumAppend
    <3>3. Total(p, first(q, k)) \in T
      BY <2>0, <3>1, SumType
    <3> QED
      BY <3>1, <3>2, <3>3
  <2> DEFINE b == both(n)
  <2>2. ASSUME NEW i \in 1..n
        PROVE  Add(s[i], u[i]) \in T
    <3>1. s[i] \in T /\ u[i] \in T
      OBVIOUS
    <3> QED
      BY <3>1, Laws
  <2>3. b \in [1..n -> T] /\ first(b, k) = both(k) /\ first(b, k + 1) = both(k + 1)
    BY <2>0, <2>2
  <2>4. b[k + 1] = Add(s[k + 1], u[k + 1])
    BY <2>0
  <2> DEFINE x == Total(p, first(s, k))
             y == Total(p, first(u, k))
             c == s[k + 1]
             d == u[k + 1]
  <2> HIDE DEF b, first, both
  <2>5. /\ x \in T /\ y \in T /\ c \in T /\ d \in T
        /\ Total(p, first(s, k + 1)) = Add(x, c) /\ Total(p, first(u, k + 1)) = Add(y, d)
        /\ Total(p, both(k)) = Add(x, y) /\ Total(p, both(k + 1)) = Add(Total(p, both(k)), Add(c, d))
    BY <1>2, <2>1, <2>3, <2>4
  <2> HIDE DEF x, y, c, d
  <2>6. Add(Add(x, y), Add(c, d)) = Add(Add(x, c), Add(y, d))
    <3>1. Add(y, Add(c, d)) = Add(c, Add(y, d))
      <4>1. Add(y, Add(c, d)) = Add(Add(y, c), d) /\ Add(c, Add(y, d)) = Add(Add(c, y), d) /\ Add(y, c) = Add(c, y)
        BY <2>5, Laws
      <4> QED
        BY <4>1
    <3>2. Add(c, d) \in T /\ Add(y, d) \in T
      BY <2>5, Laws
    <3>3. /\ Add(Add(x, y), Add(c, d)) = Add(x, Add(y, Add(c, d)))
          /\ Add(Add(x, c), Add(y, d)) = Add(x, Add(c, Add(y, d)))
      BY <2>5, <3>2, Laws
    <3> QED
      BY <3>1, <3>3
  <2> QED
    BY <2>0, <2>5, <2>6
<1>3. 0..n \subseteq S
  <2> HIDE DEF S
  <2> QED
    BY <1>1, <1>2, IntervalInduction
<1>4. n \in S /\ first(s, n) = s /\ first(u, n) = u
  BY <1>3
<1> HIDE DEF first
<1> QED
  BY <1>4

\* The sum of the sums of the rows of a matrix is that of the sums of its columns.
LEMMA SumExchange ==
  ASSUME SumContract, NEW p \in Params, NEW n \in Nat, NEW m \in Nat,
         NEW M \in [1..n -> [1..m -> AggShare(p)]]
  PROVE  Total(p, [i \in 1..n |-> Total(p, M[i])])
           = Total(p, [j \in 1..m |-> Total(p, [i \in 1..n |-> M[i][j]])])
<1> DEFINE T == AggShare(p)
           column(k, j) == [i \in 1..k |-> M[i][j]]
           rows(k) == [i \in 1..k |-> Total(p, M[i])]
           columns(k) == [j \in 1..m |-> Total(p, column(k, j))]
           S == {k \in 0..n : Total(p, rows(k)) = Total(p, columns(k))}
<1>1. 0 \in S
  <2>1. rows(0) = <<>> /\ \A j \in 1..m : column(0, j) = <<>>
    OBVIOUS
  <2>2. Total(p, <<>>) = zero_share(p)
    BY Laws DEF Total
  <2>3. columns(0) = [j \in 1..m |-> zero_share(p)]
    <3> HIDE DEF column
    <3> QED
      BY <2>1, <2>2
  <2>4. Total(p, [j \in 1..m |-> zero_share(p)]) = zero_share(p)
    BY SumZeros
  <2> HIDE DEF rows, columns
  <2> QED
    BY <2>1, <2>2, <2>3, <2>4
<1>2. ASSUME NEW k \in 0..n - 1, k \in S
      PROVE  k + 1 \in S
  <2>0. k \in Nat /\ k + 1 \in 1..n /\ k + 1 \in 0..n /\ M[k + 1] \in [1..m -> T]
    OBVIOUS
  <2>1. ASSUME NEW i \in 1..n
        PROVE  Total(p, M[i]) \in T
    <3>1. M[i] \in [1..m -> T]
      OBVIOUS
    <3> QED
      BY <3>1, SumType
  <2>2. Total(p, rows(k + 1)) = Add(Total(p, rows(k)), Total(p, M[k + 1]))
    <3> DEFINE v == rows(k + 1)
    <3>1. v \in [1..k + 1 -> T] /\ [i \in 1..k |-> v[i]] = rows(k) /\ v[k + 1] = Total(p, M[k + 1])
      BY <2>0, <2>1
    <3> HIDE DEF rows
    <3>2. Total(p, v) = Add(Total(p, [i \in 1..k |-> v[i]]), v[k + 1])
      BY <2>0, <3>1, SumAppend
    <3> QED
      BY <3>1, <3>2
  <2>3. ASSUME NEW j \in 1..m
        PROVE  /\ Total(p, column(k + 1, j)) = Add(Total(p, column(k, j)), M[k + 1][j])
               /\ Total(p, column(k, j)) \in T
    <3> DEFINE v == column(k + 1, j)
    <3>1. /\ v \in [1..k + 1 -> T] /\ [i \in 1..k |-> v[i]] = column(k, j) /\ v[k + 1] = M[k + 1][j]
          /\ column(k, j) \in [1..k -> T]
      BY <2>0
    <3> HIDE DEF column
    <3>2. Total(p, v) = Add(Total(p, [i \in 1..k |-> v[i]]), v[k + 1])
      BY <2>0, <3>1, SumAppend
    <3>3. Total(p, column(k, j)) \in T
      BY <2>0, <3>1, SumType
    <3> QED
      BY <3>1, <3>2, <3>3
  <2> HIDE DEF column
  <2> DEFINE c == columns(k)
             r == M[k + 1]
  <2>4. c \in [1..m -> T] /\ columns(k + 1) = [j \in 1..m |-> Add(c[j], r[j])]
    BY <2>3
  <2> HIDE DEF columns, rows, r
  <2>5. Total(p, [j \in 1..m |-> Add(c[j], r[j])]) = Add(Total(p, c), Total(p, r))
    <3> HIDE DEF c
    <3>1. r \in [1..m -> T]
      BY <2>0 DEF r
    <3> QED
      BY <2>4, <3>1, SumAdd
  <2> QED
    BY <1>2, <2>0, <2>2, <2>4, <2>5 DEF r
<1>3. 0..n \subseteq S
  <2> HIDE DEF S
  <2> QED
    BY <1>1, <1>2, IntervalInduction
<1>4. n \in S
  <2> HIDE DEF S
  <2> QED
    BY <1>3
<1> QED
  BY <1>4

-----------------------------------------------------------------------------
(* Orders of a set.                                                        *)

\* o has every element of S once.
IsOrder(o, n, S) ==
    /\ o \in [1..n -> S]
    /\ \A i, j \in 1..n : o[i] = o[j] => i = j
    /\ \A r \in S : \E i \in 1..n : o[i] = r

\* A finite set has the order that SetToSeq chooses.
LEMMA SetToSeqIsOrder ==
  ASSUME NEW S, IsFiniteSet(S)
  PROVE  Cardinality(S) \in Nat /\ IsOrder(SetToSeq(S), Cardinality(S), S)
<1> DEFINE n == Cardinality(S)
           q == SetToSeq(S)
<1>1. n \in Nat /\ ExistsBijection(1..n, S)
  BY FS_CardinalityType
<1>2. PICK f : f \in Bijection(1..n, S)
  BY <1>1 DEF ExistsBijection
<1>3. f \in [1..n -> S] /\ IsInjective(f)
  BY <1>2 DEF Bijection, Injection, IsInjective
<1>4. q \in [1..n -> S] /\ IsInjective(q)
  BY <1>3 DEF SetToSeq
<1> HIDE DEF n, q
<1>5. q \in Injection(1..n, S) /\ \A i, j \in 1..n : q[i] = q[j] => i = j
  BY <1>4 DEF Injection, IsInjective
<1>6. Cardinality(1..n) = n
  <2>1. 1 \in Int /\ n \in Int
    BY <1>1
  <2>2. Cardinality(1..n) = IF 1 > n THEN 0 ELSE n - 1 + 1
    BY <2>1, FS_Interval
  <2> QED
    BY <1>1, <2>2
<1>7. q \in Surjection(1..n, S)
  <2> DEFINE D == 1..n
  <2> HIDE DEF D
  <2>1. q \in Injection(D, S) /\ Cardinality(D) = Cardinality(S)
    BY <1>5, <1>6 DEF D, n
  <2>2. q \in Surjection(D, S)
    BY <2>1, FS_Injection
  <2> QED
    BY <2>2 DEF D
<1>8. IsOrder(q, n, S)
  BY <1>4, <1>5, <1>7 DEF IsOrder, Surjection
<1> QED
  BY <1>1, <1>8 DEF n, q

\* Without one element, the others are in order.
LEMMA OrderWithout ==
  ASSUME NEW S, NEW n \in Nat, NEW o, IsOrder(o, n, S), NEW r \in S
  PROVE  \E m \in Nat : \E i \in 1..n :
            n = m + 1 /\ o[i] = r /\ IsOrder(Without(o, i, m), m, S \ {r})
<1>1. PICK i \in 1..n : o[i] = r
  BY DEF IsOrder
<1> DEFINE m == n - 1
           w == Without(o, i, m)
           at(k) == IF k < i THEN k ELSE k + 1
<1>2. m \in Nat /\ n = m + 1 /\ i \in Nat
  OBVIOUS
<1>3. ASSUME NEW k \in 1..m
      PROVE  at(k) \in 1..n /\ at(k) # i /\ w[k] = o[at(k)] /\ w[k] \in S \ {r}
  <2>1. at(k) \in 1..n /\ at(k) # i
    BY <1>2
  <2>2. w[k] = o[at(k)]
    BY DEF Without
  <2>3. o[at(k)] \in S /\ o[at(k)] # r
    <3> DEFINE l == at(k)
    <3>1. l \in 1..n /\ l # i
      BY <2>1
    <3> HIDE DEF l
    <3>2. o[l] \in S /\ o[l] # o[i]
      BY <3>1 DEF IsOrder
    <3> QED
      BY <1>1, <3>2 DEF l
  <2> QED
    BY <2>1, <2>2, <2>3
<1>4. w \in [1..m -> S \ {r}]
  <2>1. w = [k \in 1..m |-> w[k]]
    BY DEF Without
  <2> HIDE DEF w
  <2> QED
    BY <1>3, <2>1
<1>5. ASSUME NEW k \in 1..m, NEW l \in 1..m, w[k] = w[l]
      PROVE  k = l
  <2> DEFINE x == at(k)
             y == at(l)
  <2>1. x \in 1..n /\ y \in 1..n /\ o[x] = o[y]
    BY <1>3, <1>5
  <2> HIDE DEF x, y
  <2>2. x = y
    BY <2>1 DEF IsOrder
  <2> QED
    BY <1>2, <2>2 DEF x, y
<1>6. ASSUME NEW q \in S \ {r}
      PROVE  \E k \in 1..m : w[k] = q
  <2>1. PICK j \in 1..n : o[j] = q
    BY DEF IsOrder
  <2>2. j # i
    BY <1>1, <2>1
  <2> DEFINE k == IF j < i THEN j ELSE j - 1
  <2>3. k \in 1..m /\ at(k) = j
    BY <1>2, <2>2
  <2>4. w[k] = o[at(k)]
    BY <1>3, <2>3
  <2> HIDE DEF k, at, w
  <2> QED
    BY <2>1, <2>3, <2>4
<1> HIDE DEF m, w
<1>7. IsOrder(w, m, S \ {r})
  BY <1>4, <1>5, <1>6 DEF IsOrder
<1> QED
  BY <1>1, <1>2, <1>7 DEF w

-----------------------------------------------------------------------------
(* The shares of one aggregator: s are its partial shares, f the output    *)
(* shares of the reports, S the reports it has accumulated.                *)

\* The partial shares add up to the output shares of S, in every order of S.
Conserves(p, s, f, S) ==
    \A n \in Nat : \A o \in [1..n -> S] :
        IsOrder(o, n, S) => Total(p, s) = Total(p, [i \in 1..n |-> f[o[i]]])

\* Nothing accumulated, and zeros.
LEMMA ConservesNone ==
  ASSUME SumContract, NEW p \in Params, NEW n \in Nat, NEW f
  PROVE  Conserves(p, [k \in 1..n |-> zero_share(p)], f, {})
<1> DEFINE s == [k \in 1..n |-> zero_share(p)]
<1>1. Total(p, s) = zero_share(p)
  BY SumZeros
<1>2. Total(p, <<>>) = zero_share(p)
  BY Laws DEF Total
<1> HIDE DEF s
<1>3. ASSUME NEW m \in Nat, NEW o \in [1..m -> {}], IsOrder(o, m, {})
      PROVE  Total(p, s) = Total(p, [i \in 1..m |-> f[o[i]]])
  <2>1. m = 0
    <3>1. m # 0 => 1 \in 1..m
      OBVIOUS
    <3> QED
      BY <3>1
  <2>2. [i \in 1..m |-> f[o[i]]] = <<>>
    BY <2>1
  <2> QED
    BY <1>1, <1>2, <2>2
<1>4. Conserves(p, s, f, {})
  BY <1>3 DEF Conserves
<1> QED
  BY <1>4 DEF s

\* One report more is accumulated, in any of the partial shares.
LEMMA ConservesTake ==
  ASSUME SumContract, NEW p \in Params, NEW N \in Nat,
         NEW s \in [1..N -> AggShare(p)], NEW u \in [1..N -> AggShare(p)], NEW D,
         NEW f \in [D -> AggShare(p)], NEW S \in SUBSET D, NEW r \in D, r \notin S,
         NEW k \in 1..N, u[k] = Add(s[k], f[r]), \A j \in 1..N : j # k => u[j] = s[j],
         Conserves(p, s, f, S)
  PROVE  Conserves(p, u, f, S \cup {r})
<1> DEFINE R == S \cup {r}
           x == f[r]
<1>1. x \in AggShare(p) /\ r \in R /\ R \ {r} = S /\ R \subseteq D
  OBVIOUS
<1>2. Total(p, u) = Add(Total(p, s), x)
  <2>1. u[k] = Add(s[k], x)
    OBVIOUS
  <2> HIDE DEF x
  <2> QED
    BY <1>1, <2>1, SumUpdate
<1>3. ASSUME NEW n \in Nat, NEW o \in [1..n -> R], IsOrder(o, n, R)
      PROVE  Total(p, u) = Total(p, [i \in 1..n |-> f[o[i]]])
  <2> HIDE DEF R
  <2>1. PICK m \in Nat : \E i \in 1..n :
            n = m + 1 /\ o[i] = r /\ IsOrder(Without(o, i, m), m, R \ {r})
    BY <1>1, <1>3, OrderWithout
  <2>2. PICK i \in 1..n : n = m + 1 /\ o[i] = r /\ IsOrder(Without(o, i, m), m, R \ {r})
    BY <2>1
  <2> DEFINE w == Without(o, i, m)
             q == [l \in 1..n |-> f[o[l]]]
             v == [l \in 1..m |-> f[w[l]]]
  <2>3. w \in [1..m -> S] /\ IsOrder(w, m, S)
    BY <1>1, <2>2 DEF IsOrder
  <2>4. q \in [1..m + 1 -> AggShare(p)] /\ i \in 1..m + 1 /\ q[i] = x
    BY <1>1, <2>2
  <2>5. Without(q, i, m) = v
    <3>1. ASSUME NEW l \in 1..m
          PROVE  (IF l < i THEN q[l] ELSE q[l + 1]) = v[l]
      <4>1. l \in 1..n /\ l + 1 \in 1..n
        BY <2>2
      <4> QED
        BY <4>1 DEF Without
    <3> HIDE DEF q, w
    <3> QED
      BY <3>1 DEF Without
  <2> HIDE DEF w, q
  <2>6. Total(p, s) = Total(p, v)
    BY <2>3 DEF Conserves
  <2> HIDE DEF v
  <2>7. Total(p, q) = Add(Total(p, Without(q, i, m)), q[i])
    BY <2>4, SumWithout
  <2> QED
    BY <1>2, <2>4, <2>5, <2>6, <2>7 DEF q
<1> QED
  BY <1>3 DEF Conserves

\* Two partial shares are merged.
LEMMA ConservesMerge ==
  ASSUME SumContract, NEW p \in Params, NEW N \in Nat,
         NEW s \in [1..N -> AggShare(p)], NEW u \in [1..N -> AggShare(p)], NEW f, NEW S,
         NEW j \in 1..N, NEW k \in 1..N, j # k, u[k] = Add(s[k], s[j]), u[j] = zero_share(p),
         \A i \in 1..N : i # k /\ i # j => u[i] = s[i], Conserves(p, s, f, S)
  PROVE  Conserves(p, u, f, S)
<1>1. Total(p, u) = Total(p, s)
  BY SumMove
<1> QED
  BY <1>1 DEF Conserves

-----------------------------------------------------------------------------
(* The inductive invariant.                                                *)

\* The state for parameter p.
Typed(p) ==
    /\ partial \in [AggIds(p) -> [Partials -> AggShare(p)]]
    /\ DOMAIN outs \subseteq reports
    /\ \A r \in DOMAIN outs : outs[r] \in OutputShares(p)
    /\ todo \in [AggIds(p) -> SUBSET DOMAIN outs]

\* What may turn up late is of some parameter for the same aggregators.
LateFits(p) ==
    \E q \in Params : AggIds(q) = AggIds(p) /\ \A r \in DOMAIN late : late[r] \in OutputShares(q)

outs_of(a) == [r \in DOMAIN outs |-> outs[r][a]]
Conserved(p) == \A a \in AggIds(p) : Conserves(p, partial[a], outs_of(a), Taken(a))

InBatch == \E batch \in Batches : reports = batch.reports

IInv ==
    /\ InBatch
    /\ param = <<>> \/ \E p \in Params : param = <<p>> /\ Typed(p) /\ LateFits(p) /\ Conserved(p)

\* What a parameter begins with.
LEMMA Prepared ==
  ASSUME PrepareContract, NEW p \in Params, NEW batch \in Batches, NEW r,
         r \in DOMAIN PreparedFor(p, batch.reports)
  PROVE  r \in batch.reports /\ PreparedFor(p, batch.reports)[r] \in OutputShares(p)
<1> DEFINE prep == [q \in batch.reports |-> vdaf_prepare(p, q)]
           D == {q \in DOMAIN prep : prep[q] # <<>>}
<1>1. PreparedFor(p, batch.reports) = [q \in D |-> prep[q]]
  BY DEF PreparedFor, Successful, Restrict
<1>2. r \in batch.reports /\ vdaf_prepare(p, r) # <<>> /\ PreparedFor(p, batch.reports)[r] = vdaf_prepare(p, r)
  BY <1>1
<1> QED
  BY <1>2 DEF PrepareContract

LEMMA Fresh ==
  ASSUME VdafContract, NEW p \in Params, NEW a \in AggIds(p), NEW f
  PROVE  /\ NoPartials(p) \in [AggIds(p) -> [Partials -> AggShare(p)]]
         /\ Conserves(p, NoPartials(p)[a], f, {})
<1>1. PICK n \in Nat : Partials = 1..n
  BY DEF VdafContract, PartialsContract
<1>2. zero_share(p) \in AggShare(p)
  BY Laws DEF VdafContract
<1>3. NoPartials(p) = [b \in AggIds(p) |-> [k \in 1..n |-> zero_share(p)]]
  BY <1>1 DEF NoPartials, AggIds, zero_share
<1>4. NoPartials(p) \in [AggIds(p) -> [Partials -> AggShare(p)]]
  BY <1>1, <1>2, <1>3
<1>5. NoPartials(p)[a] = [k \in 1..n |-> zero_share(p)]
  BY <1>3
<1>6. Conserves(p, [k \in 1..n |-> zero_share(p)], f, {})
  BY ConservesNone DEF VdafContract
<1> QED
  BY <1>4, <1>5, <1>6

LEMMA InitInv ==
  ASSUME VdafContract, Init
  PROVE  IInv
<1>1. PICK batch \in Batches :
        /\ reports = batch.reports
        /\ param = <<batch.param>>
        /\ outs = PreparedFor(batch.param, batch.reports)
        /\ late = <<>>
        /\ partial = NoPartials(batch.param)
        /\ todo = [a \in DOMAIN partial |-> DOMAIN outs]
  BY DEF Init
<1> DEFINE p == batch.param
<1>2. p \in Params /\ PrepareContract
  BY DEF VdafContract, ParamContract
<1>3. DOMAIN partial = AggIds(p)
  BY <1>1 DEF NoPartials, AggIds
<1> HIDE DEF p
<1>4. ASSUME NEW a \in AggIds(p)
      PROVE  /\ partial \in [AggIds(p) -> [Partials -> AggShare(p)]]
             /\ Conserves(p, partial[a], outs_of(a), Taken(a))
  <2>1. Taken(a) = {}
    BY <1>1, <1>3 DEF Taken
  <2> QED
    BY <1>1, <1>2, <2>1, Fresh DEF p
<1>5. 0 \in AggIds(p)
  BY <1>2 DEF AggIds, VdafContract, ParamContract
<1>6. Typed(p)
  <2>1. ASSUME NEW r \in DOMAIN outs
        PROVE  r \in reports /\ outs[r] \in OutputShares(p)
    BY <1>1, <1>2, Prepared DEF p
  <2>2. todo \in [AggIds(p) -> SUBSET DOMAIN outs]
    BY <1>1, <1>3
  <2> QED
    BY <1>4, <1>5, <2>1, <2>2 DEF Typed
<1>7. LateFits(p)
  BY <1>1, <1>2 DEF LateFits
<1> QED
  BY <1>1, <1>2, <1>4, <1>6, <1>7 DEF IInv, InBatch, Conserved, p

\* What the invariant says while there is a parameter.
Running(p) == param = <<p>> /\ Typed(p) /\ LateFits(p) /\ Conserved(p)

\* A share of the parameter is added to another one.
LEMMA Accumulates ==
  ASSUME SumContract, NEW p \in Params, NEW x \in AggShare(p), NEW y \in AggShare(p)
  PROVE  accumulated(x, y) = Add(x, y) /\ Add(x, y) \in AggShare(p) /\ zero_share(p) \in AggShare(p)
<1>1. /\ vdaf_merge(x, y) = [ok |-> TRUE, share |-> Add(x, y)] /\ Add(x, y) \in AggShare(p)
      /\ zero_share(p) \in AggShare(p)
  BY Laws
<1> QED
  BY <1>1 DEF accumulated

LEMMA AccumulateInv ==
  ASSUME VdafContract, NEW p \in Params, Running(p), NEW a \in Aggregators, NEW k \in Partials,
         NEW r, Accumulate(a, k, r)
  PROVE  Running(p)'
<1>1. PICK n \in Nat : Partials = 1..n
  BY DEF VdafContract, PartialsContract
<1>2. a \in AggIds(p) /\ SumContract
  BY DEF Running, Typed, Aggregators, VdafContract
<1> DEFINE T == AggShare(p)
           x == outs[r][a]
           s == partial[a]
           u == [s EXCEPT ![k] = Add(s[k], x)]
<1>3. r \in todo[a] /\ r \in DOMAIN outs /\ x \in T /\ s \in [1..n -> T]
  BY <1>1, <1>2 DEF Accumulate, Running, Typed, OutputShares
<1>4. Add(s[k], x) \in T /\ accumulated(s[k], x) = Add(s[k], x)
  <2>1. s[k] \in T
    BY <1>1, <1>3
  <2> HIDE DEF s, x
  <2> QED
    BY <1>2, <1>3, <2>1, Accumulates
<1>5. u \in [1..n -> T] /\ u[k] = Add(s[k], x) /\ \A j \in 1..n : j # k => u[j] = s[j]
  BY <1>1, <1>3, <1>4
<1>6. /\ partial' = [partial EXCEPT ![a] = u]
      /\ todo' = [todo EXCEPT ![a] = @ \ {r}]
      /\ UNCHANGED <<reports, param, outs, late, collected>>
  BY <1>4 DEF Accumulate
<1>7. Typed(p)'
  BY <1>1, <1>2, <1>5, <1>6 DEF Running, Typed
<1>8. ASSUME NEW b \in AggIds(p)
      PROVE  Conserves(p, partial[b], outs_of(b), Taken(b))'
  <2>0. Conserves(p, partial[b], outs_of(b), Taken(b)) /\ outs_of(b)' = outs_of(b)
    BY <1>6 DEF Running, Conserved, outs_of
  <2> SUFFICES Conserves(p, partial'[b], outs_of(b), Taken(b)')
    BY <2>0
  <2>1. CASE b # a
    <3>1. partial'[b] = partial[b] /\ Taken(b)' = Taken(b)
      BY <1>6, <2>1 DEF Running, Typed, Taken
    <3> QED
      BY <2>0, <3>1
  <2>2. CASE b = a
    <3> DEFINE D == DOMAIN outs
               f == outs_of(a)
               S == Taken(a)
    <3>1. partial'[a] = u
      BY <1>2, <1>6 DEF Running, Typed
    <3>2. S \in SUBSET D /\ r \in D /\ r \notin S /\ Taken(a)' = S \cup {r}
      BY <1>2, <1>3, <1>6 DEF Running, Typed, Taken
    <3>3. f \in [D -> T] /\ f[r] = x
      BY <1>2, <1>3 DEF outs_of, Running, Typed, OutputShares
    <3>4. k \in 1..n /\ u[k] = Add(s[k], f[r])
      BY <1>1, <1>5, <3>3
    <3>5. Conserves(p, s, f, S)
      BY <2>0, <2>2
    <3> HIDE DEF D, f, S, s, u
    <3>6. Conserves(p, u, f, S \cup {r})
      BY <1>2, <1>3, <1>5, <3>2, <3>3, <3>4, <3>5, ConservesTake
    <3> QED
      BY <2>2, <3>1, <3>2, <3>6 DEF f
  <2> QED
    BY <2>1, <2>2
<1>9. Conserved(p)'
  BY <1>8 DEF Conserved
<1>10. LateFits(p)' /\ param' = <<p>>
  BY <1>6 DEF Running, LateFits
<1> QED
  BY <1>7, <1>9, <1>10 DEF Running

\* The partial shares of one aggregator change and still add up to the same.
LEMMA SharesChange ==
  ASSUME NEW p \in Params, Running(p), NEW a \in AggIds(p), NEW u \in [Partials -> AggShare(p)],
         partial' = [partial EXCEPT ![a] = u], UNCHANGED <<reports, param, outs, todo>>,
         LateFits(p)', Conserves(p, u, outs_of(a), Taken(a))
  PROVE  Running(p)'
<1>1. Typed(p)'
  BY DEF Running, Typed
<1>2. ASSUME NEW b \in AggIds(p)
      PROVE  Conserves(p, partial[b], outs_of(b), Taken(b))'
  <2>1. outs_of(b)' = outs_of(b) /\ Taken(b)' = Taken(b)
    BY DEF outs_of, Taken
  <2>2. partial'[b] = IF b = a THEN u ELSE partial[b]
    BY DEF Running, Typed
  <2>3. Conserves(p, partial'[b], outs_of(b), Taken(b))
    BY <2>2 DEF Running, Conserved
  <2> QED
    BY <2>1, <2>3
<1>3. Conserved(p)'
  BY <1>2 DEF Conserved
<1> QED
  BY <1>1, <1>3 DEF Running

LEMMA AccumulateLateInv ==
  ASSUME VdafContract, NEW p \in Params, Running(p), NEW a \in Aggregators, NEW k \in Partials,
         NEW r, AccumulateLate(a, k, r)
  PROVE  Running(p)'
<1>1. a \in AggIds(p)
  BY DEF Running, Typed, Aggregators
<1>2. PICK q \in Params : AggIds(q) = AggIds(p) /\ \A l \in DOMAIN late : late[l] \in OutputShares(q)
  BY DEF Running, LateFits
<1> DEFINE x == partial[a][k]
           y == late[r][a]
<1>3. x \in AggShare(p) /\ y \in AggShare(q) /\ ~SameShape(y, x)
  BY <1>1, <1>2 DEF AccumulateLate, Running, Typed, OutputShares
<1>4. ~vdaf_merge(x, y).ok
  BY <1>3 DEF VdafContract, ShapeContract
<1>5. accumulated(x, y) = x
  BY <1>4 DEF accumulated
<1>6. partial' = [partial EXCEPT ![a] = partial[a]] /\ late' = <<>>
  BY <1>1, <1>5 DEF AccumulateLate, Running, Typed
<1>7. LateFits(p)'
  BY <1>6 DEF LateFits
<1>8. partial[a] \in [Partials -> AggShare(p)] /\ Conserves(p, partial[a], outs_of(a), Taken(a))
  BY <1>1 DEF Running, Typed, Conserved
<1>9. UNCHANGED <<reports, param, outs, todo>>
  BY DEF AccumulateLate
<1> QED
  BY <1>1, <1>6, <1>7, <1>8, <1>9, SharesChange

LEMMA MergeInv ==
  ASSUME VdafContract, NEW p \in Params, Running(p), NEW a \in Aggregators, NEW j \in Partials,
         NEW k \in Partials, Merge(a, j, k)
  PROVE  Running(p)'
<1>1. PICK n \in Nat : Partials = 1..n
  BY DEF VdafContract, PartialsContract
<1>2. a \in AggIds(p) /\ SumContract /\ j # k
  BY DEF Running, Typed, Aggregators, VdafContract, Merge
<1> DEFINE T == AggShare(p)
           s == partial[a]
           u == [s EXCEPT ![k] = Add(s[k], s[j]), ![j] = zero_share(p)]
<1>3. s \in [1..n -> T] /\ s[j] \in T /\ s[k] \in T /\ Conserves(p, s, outs_of(a), Taken(a))
  BY <1>1, <1>2 DEF Running, Typed, Conserved
<1>4. Add(s[k], s[j]) \in T /\ accumulated(s[k], s[j]) = Add(s[k], s[j]) /\ zero_share(p) \in T
  <2> HIDE DEF s
  <2> QED
    BY <1>2, <1>3, Accumulates
<1>5. /\ u \in [1..n -> T] /\ u[k] = Add(s[k], s[j]) /\ u[j] = zero_share(p)
      /\ \A i \in 1..n : i # k /\ i # j => u[i] = s[i]
  BY <1>1, <1>2, <1>3, <1>4
<1>6. partial' = [partial EXCEPT ![a] = u] /\ UNCHANGED <<reports, param, outs, late, todo>>
  BY <1>2, <1>4 DEF Merge, Running, Typed, zero_share
<1>7. LateFits(p)'
  BY <1>6 DEF Running, LateFits
<1> HIDE DEF u, s
<1>8. Conserves(p, u, outs_of(a), Taken(a))
  BY <1>1, <1>2, <1>3, <1>5, ConservesMerge
<1> QED
  BY <1>1, <1>2, <1>5, <1>6, <1>7, <1>8, SharesChange

LEMMA ReloadInv ==
  ASSUME VdafContract, NEW p \in Params, Running(p), NEW a \in Aggregators, Reload(a)
  PROVE  Running(p)'
<1>1. a \in AggIds(p) /\ param[1] = p
  BY DEF Running, Typed, Aggregators
<1>2. partial[a] \in [Partials -> AggShare(p)] /\ Conserves(p, partial[a], outs_of(a), Taken(a))
  BY <1>1 DEF Running, Typed, Conserved
<1>3. \A k \in Partials : vdaf_decode_agg_share(p, vdaf_encode_agg_share(partial[a][k])) = partial[a][k]
  BY <1>2 DEF VdafContract, CodecContract
<1>4. partial' = [partial EXCEPT ![a] = partial[a]] /\ UNCHANGED <<reports, param, outs, late, todo>>
  BY <1>1, <1>2, <1>3 DEF Reload, Running, Typed
<1>5. LateFits(p)'
  BY <1>4 DEF Running, LateFits
<1> QED
  BY <1>1, <1>2, <1>4, <1>5, SharesChange

\* The aggregate share of an aggregator, and what aggregate makes of the output shares that it
\* has accumulated, in any order.
LEMMA AggregateShare ==
  ASSUME VdafContract, NEW p \in Params, Running(p), NEW a \in AggIds(p)
  PROVE  /\ agg_share(a) = [ok |-> TRUE, share |-> Total(p, partial[a])]
         /\ Total(p, partial[a]) \in AggShare(p)
<1>1. PICK n \in Nat : Partials = 1..n
  BY DEF VdafContract, PartialsContract
<1>2. partial[a] \in [1..n -> AggShare(p)] /\ param[1] = p /\ SumContract
  BY <1>1 DEF Running, Typed, VdafContract
<1>3. agg_share(a) = vdaf_aggregate(p, partial[a])
  BY <1>1, <1>2 DEF agg_share
<1> QED
  BY <1>2, <1>3, SumType

LEMMA AnyOrder ==
  ASSUME VdafContract, NEW p \in Params, Running(p), NEW a \in AggIds(p),
         NEW n \in Nat, NEW o, IsOrder(o, n, Taken(a))
  PROVE  vdaf_aggregate(p, in_order(o, a)) = agg_share(a)
<1> DEFINE q == in_order(o, a)
<1>1. o \in [1..n -> Taken(a)] /\ Taken(a) \subseteq DOMAIN outs
  BY DEF IsOrder, Taken
<1>2. q = [i \in 1..n |-> outs_of(a)[o[i]]]
  BY <1>1 DEF in_order, outs_of
<1>3. q \in [1..n -> AggShare(p)]
  BY <1>1, <1>2 DEF outs_of, Running, Typed, OutputShares
<1>4. Total(p, partial[a]) = Total(p, q)
  BY <1>1, <1>2 DEF Running, Conserved, Conserves
<1> HIDE DEF q
<1>5. vdaf_aggregate(p, q) = [ok |-> TRUE, share |-> Total(p, q)]
  BY <1>3, SumType DEF VdafContract
<1>6. vdaf_aggregate(p, q) = agg_share(a)
  BY <1>4, <1>5, AggregateShare
<1> QED
  BY <1>6 DEF q

\* What the collector is given.
LEMMA CollectorInput ==
  ASSUME VdafContract, InBatch, NEW p \in Params, Running(p)
  PROVE  /\ Cardinality(Aggregators) = vdaf_num_aggregators(p)
         /\ [i \in 1..Cardinality(Aggregators) |-> agg_share(i - 1).share] \in Seq(AggShare(p))
         /\ IsFiniteSet(DOMAIN outs) /\ Cardinality(DOMAIN outs) \in Nat
<1> DEFINE N == vdaf_num_aggregators(p)
           T == AggShare(p)
           shares == [i \in 1..N |-> agg_share(i - 1).share]
<1>1. N \in Nat \ {0} /\ Aggregators = 0..N - 1 /\ Aggregators = AggIds(p)
  BY DEF VdafContract, ParamContract, Running, Typed, Aggregators, AggIds
<1>2. Cardinality(Aggregators) = N
  <2> HIDE DEF N
  <2>1. 0 \in Int /\ N - 1 \in Int
    BY <1>1
  <2>2. Cardinality(0..N - 1) = IF 0 > N - 1 THEN 0 ELSE N - 1 - 0 + 1
    BY <2>1, FS_Interval
  <2> QED
    BY <1>1, <2>2
<1>3. shares \in Seq(T)
  <2>1. ASSUME NEW i \in 1..N
        PROVE  agg_share(i - 1).share \in T
    <3>1. i - 1 \in AggIds(p)
      BY <1>1 DEF AggIds
    <3> QED
      BY <3>1, AggregateShare
  <2> HIDE DEF N
  <2>2. shares \in [1..N -> T]
    BY <2>1
  <2> HIDE DEF shares, T
  <2> QED
    BY <1>1, <2>2
<1>4. IsFiniteSet(DOMAIN outs) /\ Cardinality(DOMAIN outs) \in Nat
  <2>1. IsFiniteSet(reports)
    BY DEF InBatch, VdafContract, ParamContract
  <2>2. DOMAIN outs \subseteq reports
    BY DEF Running, Typed
  <2> QED
    BY <2>1, <2>2, FS_Subset, FS_CardinalityType
<1> QED
  BY <1>2, <1>3, <1>4

LEMMA CollectInv ==
  ASSUME VdafContract, InBatch, NEW p \in Params, Running(p), Collect
  PROVE  IInv'
<1> DEFINE shares == [i \in 1..Cardinality(Aggregators) |-> agg_share(i - 1).share]
           num_measurements == Cardinality(DOMAIN outs)
           res == vdaf_unshard(p, shares, num_measurements)
           next == IF res.ok THEN next_param(p, res.result) ELSE <<>>
<1>1. param[1] = p
  BY DEF Running
<1>2. /\ param' = next
      /\ \E r \in reports : late' = Restrict(outs, {r} \cap DOMAIN outs)
      /\ outs' = IF next = <<>> THEN <<>> ELSE PreparedFor(next[1], reports)
      /\ todo' = [a \in Aggregators |-> DOMAIN outs']
      /\ partial' = IF next = <<>> THEN partial ELSE NoPartials(next[1])
      /\ reports' = reports
  BY <1>1 DEF Collect
<1>3. \/ next = <<>>
      \/ \E q \in Params : next = <<q>> /\ vdaf_num_aggregators(q) = vdaf_num_aggregators(p)
  <2>1. shares \in Seq(AggShare(p)) /\ num_measurements \in Nat
    BY CollectorInput
  <2> HIDE DEF shares, num_measurements
  <2> QED
    BY <2>1 DEF VdafContract, ParamContract
<1>4. InBatch'
  BY <1>2 DEF InBatch
<1> HIDE DEF next
<1>5. CASE next = <<>>
  BY <1>2, <1>4, <1>5 DEF IInv
<1>6. CASE next # <<>>
  <2>1. PICK q \in Params : next = <<q>> /\ vdaf_num_aggregators(q) = vdaf_num_aggregators(p)
    BY <1>3, <1>6
  <2>2. PICK batch \in Batches : reports = batch.reports
    BY DEF InBatch
  <2>3. AggIds(q) = AggIds(p) /\ Aggregators = AggIds(p) /\ PrepareContract
    BY <2>1 DEF AggIds, Aggregators, Running, Typed, VdafContract
  <2>4. outs' = PreparedFor(q, batch.reports) /\ partial' = NoPartials(q) /\ param' = <<q>>
    BY <1>2, <2>1, <2>2
  <2>5. ASSUME NEW a \in AggIds(q)
        PROVE  /\ partial' \in [AggIds(q) -> [Partials -> AggShare(q)]]
               /\ Conserves(q, partial[a], outs_of(a), Taken(a))'
    <3>1. Taken(a)' = {}
      BY <1>2, <2>3 DEF Taken
    <3>2. /\ NoPartials(q) \in [AggIds(q) -> [Partials -> AggShare(q)]]
          /\ Conserves(q, NoPartials(q)[a], outs_of(a)', {})
      BY Fresh
    <3> QED
      BY <2>4, <3>1, <3>2
  <2>6. 0 \in AggIds(q)
    BY DEF AggIds, VdafContract, ParamContract
  <2>7. Typed(q)'
    <3>1. ASSUME NEW r \in DOMAIN outs'
          PROVE  r \in reports' /\ outs'[r] \in OutputShares(q)
      BY <1>2, <2>2, <2>3, <2>4, Prepared
    <3>2. todo' \in [AggIds(q) -> SUBSET DOMAIN outs']
      BY <1>2, <2>3
    <3> QED
      BY <2>5, <2>6, <3>1, <3>2 DEF Typed
  <2>8. LateFits(q)'
    <3>1. PICK r \in reports : late' = Restrict(outs, {r} \cap DOMAIN outs)
      BY <1>2
    <3>2. ASSUME NEW l \in DOMAIN late'
          PROVE  late'[l] \in OutputShares(p)
      <4>1. l \in DOMAIN outs /\ late'[l] = outs[l]
        BY <3>1 DEF Restrict
      <4> QED
        BY <4>1 DEF Running, Typed
    <3> QED
      BY <2>3, <3>2 DEF LateFits
  <2>9. Conserved(q)'
    BY <2>5 DEF Conserved
  <2> QED
    BY <1>4, <2>4, <2>7, <2>8, <2>9 DEF IInv
<1> QED
  BY <1>5, <1>6

LEMMA NextInv ==
  ASSUME VdafContract, IInv, [Next]_vars
  PROVE  IInv'
<1>1. CASE UNCHANGED vars
  <2>1. InBatch'
    BY <1>1 DEF IInv, InBatch, vars
  <2>2. ASSUME NEW p \in Params, Typed(p), LateFits(p), Conserved(p)
        PROVE  Typed(p)' /\ LateFits(p)' /\ Conserved(p)'
    <3>1. Typed(p)' /\ LateFits(p)'
      BY <1>1, <2>2 DEF Typed, LateFits, vars
    <3>2. Conserved(p)'
      BY <1>1, <2>2 DEF Conserved, outs_of, Taken, vars
    <3> QED
      BY <3>1, <3>2
  <2>3. param' = param
    BY <1>1 DEF vars
  <2> QED
    BY <2>1, <2>2, <2>3 DEF IInv
<1>2. CASE Next
  <2>1. param # <<>>
    BY <1>2 DEF Next, Accumulate, AccumulateLate, Merge, Reload, Collect
  <2>2. PICK p \in Params : Running(p)
    BY <2>1 DEF IInv, Running
  <2>3. InBatch
    BY DEF IInv
  <2>4. CASE \E a \in Aggregators, k \in Partials, r \in reports :
                Accumulate(a, k, r) \/ AccumulateLate(a, k, r)
    <3>1. Running(p)'
      BY <2>2, <2>4, AccumulateInv, AccumulateLateInv
    <3>2. InBatch'
      BY <2>3, <2>4 DEF InBatch, Accumulate, AccumulateLate
    <3> QED
      BY <3>1, <3>2 DEF IInv, Running
  <2>5. CASE \E a \in Aggregators, j, k \in Partials : Merge(a, j, k)
    <3>1. Running(p)'
      BY <2>2, <2>5, MergeInv
    <3>2. InBatch'
      BY <2>3, <2>5 DEF InBatch, Merge
    <3> QED
      BY <3>1, <3>2 DEF IInv, Running
  <2>6. CASE \E a \in Aggregators : Reload(a)
    <3>1. Running(p)'
      BY <2>2, <2>6, ReloadInv
    <3>2. InBatch'
      BY <2>3, <2>6 DEF InBatch, Reload
    <3> QED
      BY <3>1, <3>2 DEF IInv, Running
  <2>7. CASE Collect
    BY <2>2, <2>3, <2>7, CollectInv
  <2> QED
    BY <1>2, <2>4, <2>5, <2>6, <2>7 DEF Next
<1> QED
  BY <1>1, <1>2

\* The invariant gives the property.
LEMMA InvOneShot ==
  ASSUME VdafContract, IInv
  PROVE  StepsAreOneShot
<1> SUFFICES ASSUME param # <<>>, NEW a \in Aggregators
             PROVE  agg_share(a) = one_shot(a)
  BY DEF StepsAreOneShot
<1>1. PICK p \in Params : Running(p)
  BY DEF IInv, Running
<1>2. a \in AggIds(p) /\ param[1] = p
  BY <1>1 DEF Running, Typed, Aggregators
<1> DEFINE S == Taken(a)
<1>3. IsFiniteSet(S)
  BY <1>1, CollectorInput, FS_Subset DEF Taken, IInv
<1> HIDE DEF S
<1>4. Cardinality(S) \in Nat /\ IsOrder(SetToSeq(S), Cardinality(S), S)
  BY <1>3, SetToSeqIsOrder
<1>5. vdaf_aggregate(p, in_order(SetToSeq(Taken(a)), a)) = agg_share(a)
  BY <1>1, <1>2, <1>4, AnyOrder DEF S
<1> QED
  BY <1>2, <1>5 DEF one_shot

-----------------------------------------------------------------------------
(* What the collector obtains.                                             *)

\* The collector uses no more of the aggregate shares than their sum.
UnshardContract ==
    \A p \in Params : \A x, y \in Seq(AggShare(p)) : \A n \in Nat :
        vdaf_aggregate(p, x) = vdaf_aggregate(p, y) => vdaf_unshard(p, x, n) = vdaf_unshard(p, y, n)

\* The output of a report in the clear, the sum of its output shares; and what the collector
\* would make of those of the accepted reports, if it had them.
output(r) == vdaf_aggregate(param[1], [j \in 1..Cardinality(Aggregators) |-> outs[r][j - 1]]).share
in_the_clear(order) ==
    vdaf_unshard(param[1], [i \in DOMAIN order |-> output(order[i])], Cardinality(DOMAIN outs))

\* Whatever was accumulated where and in which order by which aggregator, a result is that of
\* the outputs in the clear of the accepted reports, in any order: no report is lost, counted
\* twice, or counted by one aggregator and not by another.
CollectsOutputs ==
    \A n \in Nat : \A order \in [1..n -> DOMAIN outs] : IsOrder(order, n, DOMAIN outs) =>
        collected' = Append(collected, [param |-> param[1], accepted |-> DOMAIN outs,
                                        res |-> in_the_clear(order)])

LEMMA CollectCollects ==
  ASSUME VdafContract, UnshardContract, InBatch, NEW p \in Params, Running(p), Collect
  PROVE  CollectsOutputs
<1> SUFFICES ASSUME NEW n \in Nat, NEW o \in [1..n -> DOMAIN outs], IsOrder(o, n, DOMAIN outs)
             PROVE  collected' = Append(collected, [param |-> param[1], accepted |-> DOMAIN outs,
                                                    res |-> in_the_clear(o)])
  BY DEF CollectsOutputs
<1> DEFINE N == vdaf_num_aggregators(p)
           T == AggShare(p)
           num == Cardinality(DOMAIN outs)
           shares == [j \in 1..N |-> agg_share(j - 1).share]
           M == [i \in 1..n |-> [j \in 1..N |-> outs[o[i]][j - 1]]]
           clear == [i \in 1..n |-> output(o[i])]
<1>1. param[1] = p /\ N \in Nat /\ Cardinality(Aggregators) = N /\ num \in Nat /\ SumContract
  BY CollectorInput DEF Running, VdafContract, ParamContract
<1>2. shares \in Seq(T)
  <2>1. [j \in 1..Cardinality(Aggregators) |-> agg_share(j - 1).share] \in Seq(T)
    BY CollectorInput
  <2> QED
    BY <1>1, <2>1
<1>3. collected' = Append(collected, [param |-> p, accepted |-> DOMAIN outs,
                                      res |-> vdaf_unshard(p, shares, num)])
  BY <1>1 DEF Collect
<1>4. \A j \in 1..N : j - 1 \in AggIds(p)
  BY <1>1 DEF AggIds
<1>5. M \in [1..n -> [1..N -> T]]
  <2>1. ASSUME NEW i \in 1..n, NEW j \in 1..N
        PROVE  outs[o[i]][j - 1] \in T
    BY <1>4 DEF Running, Typed, OutputShares
  <2> HIDE DEF N
  <2> QED
    BY <2>1
<1>6. ASSUME NEW j \in 1..N
      PROVE  agg_share(j - 1).share = Total(p, [i \in 1..n |-> M[i][j]])
  <2> DEFINE a == j - 1
  <2>1. a \in AggIds(p)
    BY <1>4
  <2> HIDE DEF a
  <2>2. Taken(a) = DOMAIN outs
    BY <2>1 DEF Taken, Collect, Aggregators, Running, Typed
  <2>3. vdaf_aggregate(p, in_order(o, a)) = agg_share(a)
    BY <2>1, <2>2, AnyOrder
  <2>4. in_order(o, a) = [i \in 1..n |-> M[i][j]]
    BY DEF in_order, a
  <2> HIDE DEF M
  <2> QED
    BY <2>3, <2>4 DEF Total, a
<1>7. ASSUME NEW i \in 1..n
      PROVE  output(o[i]) = Total(p, M[i])
  <2>1. M[i] = [j \in 1..N |-> outs[o[i]][j - 1]]
    OBVIOUS
  <2> HIDE DEF M, N
  <2> QED
    BY <1>1, <2>1 DEF output, Total
<1> HIDE DEF N, M
<1>8. shares = [j \in 1..N |-> Total(p, [i \in 1..n |-> M[i][j]])]
  BY <1>6
<1>9. clear = [i \in 1..n |-> Total(p, M[i])]
  BY <1>7
<1>10. clear \in [1..n -> T] /\ clear \in Seq(T)
  <2>1. ASSUME NEW i \in 1..n
        PROVE  Total(p, M[i]) \in T
    <3>1. M[i] \in [1..N -> T]
      BY <1>5
    <3> QED
      BY <1>1, <3>1, SumType
  <2>2. clear \in [1..n -> T]
    BY <1>9, <2>1
  <2> HIDE DEF clear
  <2> QED
    BY <2>2
<1>11. Total(p, shares) = Total(p, clear)
  <2>1. Total(p, [i \in 1..n |-> Total(p, M[i])])
          = Total(p, [j \in 1..N |-> Total(p, [i \in 1..n |-> M[i][j]])])
    BY <1>1, <1>5, SumExchange
  <2> HIDE DEF shares, clear
  <2> QED
    BY <1>8, <1>9, <2>1
<1>12. shares \in [1..N -> T]
  <2> HIDE DEF T
  <2> QED
    BY <1>1, <1>2
<1> HIDE DEF shares, clear
<1>13. vdaf_aggregate(p, shares) = vdaf_aggregate(p, clear)
  <2>1. vdaf_aggregate(p, shares) = [ok |-> TRUE, share |-> Total(p, shares)]
    BY <1>1, <1>12, SumType
  <2>2. vdaf_aggregate(p, clear) = [ok |-> TRUE, share |-> Total(p, clear)]
    BY <1>1, <1>10, SumType
  <2> QED
    BY <1>11, <2>1, <2>2
<1>14. vdaf_unshard(p, shares, num) = vdaf_unshard(p, clear, num)
  BY <1>1, <1>2, <1>10, <1>13 DEF UnshardContract
<1>15. in_the_clear(o) = vdaf_unshard(p, clear, num)
  BY <1>1 DEF in_the_clear, clear
<1> QED
  BY <1>1, <1>3, <1>14, <1>15

-----------------------------------------------------------------------------
(* The shares of Poplar1 add up as the contract has it.                    *)

Poplar1Share(prefixes) ==
    [kind : {IF IsLeaf(prefixes) THEN "Leaf" ELSE "Inner"}, elems : [1..Len(prefixes) -> F]]
zero_vec(prefixes) == zero(IsLeaf(prefixes), Len(prefixes))

\* Vectors are added element by element.
LEMMA MergeVectorIs ==
  ASSUME NEW n \in Nat, NEW x \in [1..n -> F], NEW y \in [1..n -> F]
  PROVE  merge_vector(x, y) = [i \in 1..n |-> (x[i] + y[i]) % P] /\ merge_vector(x, y) \in [1..n -> F]
<1> DEFINE f == [i \in 1..n |-> (x[i] + y[i]) % P]
<1>1. f \in [1..n -> F]
  <2>1. ASSUME NEW i \in 1..n
        PROVE  (x[i] + y[i]) % P \in F
    <3>1. x[i] + y[i] \in Int
      BY ModulusAssumption DEF F
    <3> QED
      BY <3>1, ModulusAssumption, Division DEF F
  <2> QED
    BY <2>1
<1>2. merge_vector(x, y) = f \o <<>>
  BY DEF merge_vector, Evaluated
<1>3. f \in Seq(F)
  <2> HIDE DEF f
  <2> QED
    BY <1>1
<1> HIDE DEF f
<1>4. f \o <<>> = f
  BY <1>3, ConcatEmptySeq
<1> QED
  BY <1>1, <1>2, <1>4 DEF f

\* Addition modulo P.
LEMMA ModularSum ==
  ASSUME NEW x \in F, NEW y \in F, NEW z \in F
  PROVE  /\ (x + y) % P \in F /\ (x + y) % P = (y + x) % P /\ (x + 0) % P = x
         /\ (((x + y) % P) + z) % P = (x + ((y + z) % P)) % P
<1> DEFINE b == x + y
           c == y + z
<1>1. x \in Int /\ y \in Int /\ z \in Int /\ P \in Nat /\ P > 0 /\ b \in Int /\ c \in Int /\ b = y + x
  BY ModulusAssumption DEF F
<1>2. b + z = c + x
  BY <1>1
<1>3. (x + 0) % P = x
  BY <1>1, DivisionIs DEF F
<1> HIDE DEF b, c
<1>4. b % P \in F /\ c % P \in F
  BY <1>1, Division DEF F
<1>5. ((b % P) + z) % P = (b + z) % P
  BY <1>1, RemainderOfSum
<1>6. ((c % P) + x) % P = (c + x) % P
  BY <1>1, RemainderOfSum
<1>7. (c % P) + x = x + (c % P)
  BY <1>1, <1>4 DEF F
<1>8. ((b % P) + z) % P = (x + (c % P)) % P
  BY <1>2, <1>5, <1>6, <1>7
<1> QED
  BY <1>1, <1>3, <1>4, <1>8 DEF b, c

\* The sum of two shares of a parameter.
LEMMA Poplar1Sum ==
  ASSUME NEW prefixes, Len(prefixes) \in Nat,
         NEW x \in Poplar1Share(prefixes), NEW y \in Poplar1Share(prefixes)
  PROVE  /\ accumulate(x, y) = [ok |-> TRUE, share |-> accumulate(x, y).share]
         /\ accumulate(x, y).share \in Poplar1Share(prefixes)
         /\ accumulate(x, y).share = FieldVec(x.kind, [i \in 1..Len(prefixes) |-> (x.elems[i] + y.elems[i]) % P])
<1> DEFINE n == Len(prefixes)
<1>1. x.kind = y.kind /\ x.elems \in [1..n -> F] /\ y.elems \in [1..n -> F] /\ Len(x.elems) = Len(y.elems)
  BY DEF Poplar1Share
<1>2. accumulate(x, y) = [ok |-> TRUE, share |-> FieldVec(x.kind, merge_vector(x.elems, y.elems))]
  BY <1>1 DEF accumulate
<1> HIDE DEF n
<1>3. /\ merge_vector(x.elems, y.elems) = [i \in 1..n |-> (x.elems[i] + y.elems[i]) % P]
      /\ merge_vector(x.elems, y.elems) \in [1..n -> F]
  BY <1>1, MergeVectorIs DEF n
<1>4. FieldVec(x.kind, merge_vector(x.elems, y.elems)) \in Poplar1Share(prefixes)
  BY <1>3 DEF FieldVec, Poplar1Share, n
<1> QED
  BY <1>2, <1>3, <1>4 DEF n

\* Two shares that agree element by element are the same.
LEMMA Poplar1Same ==
  ASSUME NEW prefixes, NEW x \in Poplar1Share(prefixes), NEW y \in Poplar1Share(prefixes),
         \A i \in 1..Len(prefixes) : x.elems[i] = y.elems[i]
  PROVE  x = y
<1>1. x.elems \in [1..Len(prefixes) -> F] /\ y.elems \in [1..Len(prefixes) -> F] /\ x.kind = y.kind
  BY DEF Poplar1Share
<1>2. x.elems = y.elems
  BY <1>1
<1> QED
  BY <1>1, <1>2 DEF Poplar1Share

LEMMA Poplar1Adds ==
  ASSUME NEW prefixes, Len(prefixes) \in Nat
  PROVE  IsAddition(Poplar1Share(prefixes), zero_vec(prefixes), accumulate)
<1> DEFINE T == Poplar1Share(prefixes)
           n == Len(prefixes)
           plus(x, y) == accumulate(x, y).share
<1>0. ASSUME NEW x \in T, NEW y \in T
      PROVE  /\ accumulate(x, y) = [ok |-> TRUE, share |-> plus(x, y)] /\ plus(x, y) \in T
             /\ \A i \in 1..n : plus(x, y).elems[i] = (x.elems[i] + y.elems[i]) % P
             /\ \A i \in 1..n : x.elems[i] \in F
  <2>1. x.elems \in [1..n -> F]
    BY DEF Poplar1Share
  <2>2. /\ accumulate(x, y) = [ok |-> TRUE, share |-> plus(x, y)] /\ plus(x, y) \in T
        /\ plus(x, y) = FieldVec(x.kind, [i \in 1..n |-> (x.elems[i] + y.elems[i]) % P])
    BY Poplar1Sum
  <2> HIDE DEF plus, n
  <2>3. plus(x, y).elems = [i \in 1..n |-> (x.elems[i] + y.elems[i]) % P]
    BY <2>2 DEF FieldVec
  <2> QED
    BY <2>1, <2>2, <2>3
<1>1. zero_vec(prefixes) \in T
  <2>1. 0 \in F
    BY ModulusAssumption DEF F
  <2> QED
    BY <2>1 DEF zero_vec, zero, FieldVec, Poplar1Share
<1>2. ASSUME NEW x \in T, NEW y \in T, \A i \in 1..n : x.elems[i] = y.elems[i]
      PROVE  x = y
  BY <1>2, Poplar1Same
<1> HIDE DEF T, n, plus
<1>3. \A x, y \in T : \E z \in T : accumulate(x, y) = [ok |-> TRUE, share |-> z]
  BY <1>0
<1>4. ASSUME NEW x \in T, NEW y \in T
      PROVE  accumulate(x, y) = accumulate(y, x)
  <2>1. ASSUME NEW i \in 1..n
        PROVE  plus(x, y).elems[i] = plus(y, x).elems[i]
    <3>1. /\ x.elems[i] \in F /\ y.elems[i] \in F
          /\ plus(x, y).elems[i] = (x.elems[i] + y.elems[i]) % P
          /\ plus(y, x).elems[i] = (y.elems[i] + x.elems[i]) % P
      BY <1>0
    <3> QED
      BY <3>1, ModularSum
  <2>2. plus(x, y) \in T /\ plus(y, x) \in T
    BY <1>0
  <2>3. plus(x, y) = plus(y, x)
    BY <1>2, <2>1, <2>2
  <2>4. accumulate(x, y) = [ok |-> TRUE, share |-> plus(x, y)] /\ accumulate(y, x) = [ok |-> TRUE, share |-> plus(y, x)]
    BY <1>0
  <2> QED
    BY <2>3, <2>4
<1>5. ASSUME NEW x \in T, NEW y \in T, NEW z \in T
      PROVE  plus(plus(x, y), z) = plus(x, plus(y, z))
  <2> DEFINE u == plus(x, y)
             v == plus(y, z)
  <2>1. u \in T /\ v \in T
    BY <1>0
  <2>2. ASSUME NEW i \in 1..n
        PROVE  plus(u, z).elems[i] = plus(x, v).elems[i]
    <3>1. x.elems[i] \in F /\ y.elems[i] \in F /\ z.elems[i] \in F
      BY <1>0
    <3>2. u.elems[i] = (x.elems[i] + y.elems[i]) % P /\ v.elems[i] = (y.elems[i] + z.elems[i]) % P
      BY <1>0
    <3> HIDE DEF u, v
    <3>3. plus(u, z).elems[i] = (u.elems[i] + z.elems[i]) % P
      BY <1>0, <2>1
    <3>4. plus(x, v).elems[i] = (x.elems[i] + v.elems[i]) % P
      BY <1>0, <2>1
    <3> QED
      BY <3>1, <3>2, <3>3, <3>4, ModularSum
  <2> HIDE DEF u, v
  <2>3. plus(u, z) \in T /\ plus(x, v) \in T
    BY <1>0, <2>1
  <2>4. plus(u, z) = plus(x, v)
    BY <1>2, <2>2, <2>3
  <2> QED
    BY <2>4 DEF u, v
<1>6. ASSUME NEW x \in T
      PROVE  plus(x, zero_vec(prefixes)) = x
  <2> DEFINE o == zero_vec(prefixes)
  <2>1. \A i \in 1..n : o.elems[i] = 0
    BY DEF zero_vec, zero, FieldVec, n
  <2>2. o \in T
    BY <1>1
  <2> HIDE DEF o
  <2>3. ASSUME NEW i \in 1..n
        PROVE  plus(x, o).elems[i] = x.elems[i]
    <3>1. plus(x, o).elems[i] = (x.elems[i] + o.elems[i]) % P /\ x.elems[i] \in F /\ o.elems[i] = 0
      BY <1>0, <2>1, <2>2
    <3> QED
      BY <3>1, ModularSum
  <2>4. plus(x, o) \in T
    BY <1>0, <2>2
  <2>5. plus(x, o) = x
    BY <1>2, <2>3, <2>4
  <2> QED
    BY <2>5 DEF o
<1> QED
  BY <1>1, <1>3, <1>4, <1>5, <1>6 DEF IsAddition, T, plus

\* w are the sums of the first shares of s, one after the other.
AreSums(w, prefixes, s, n) ==
    /\ w \in [0..n -> [ok : {TRUE}, share : Poplar1Share(prefixes)]]
    /\ w[0] = [ok |-> TRUE, share |-> zero_vec(prefixes)]
    /\ \A k \in 1..n : w[k] = accumulate(w[k - 1].share, s[k])

\* aggregate ends with the last of them.
LEMMA Aggregated ==
  ASSUME NEW prefixes, Len(prefixes) \in Nat, NEW n \in Nat, NEW s \in [1..n -> Poplar1Share(prefixes)]
  PROVE  \E w : AreSums(w, prefixes, s, n) /\ aggregate(prefixes, s) = w[n]
<1> DEFINE T == Poplar1Share(prefixes)
           R == [ok : {TRUE}, share : T]
           base == [ok |-> TRUE, share |-> zero_vec(prefixes)]
           step(x, acc) == IF acc.ok THEN accumulate(acc.share, x) ELSE acc
           G == [k \in 1..n |-> [acc \in R |-> step(s[k], acc)]]
           Folds(it) == it = [u \in SUBSET (1..n) |->
                                IF u = {} THEN base ELSE step(s[Max(u)], it[u \ {Max(u)}])]
           iter == CHOOSE it : Folds(it)
<1>1. DOMAIN s = 1..n
  OBVIOUS
<1>2. aggregate(prefixes, s) = iter[1..n]
  BY <1>1 DEF aggregate, zero_vec, FoldLeft, MapThenFoldSet
<1>3. base \in R
  BY Poplar1Adds DEF IsAddition
<1>4. ASSUME NEW k \in 1..n, NEW acc \in R
      PROVE  step(s[k], acc) = accumulate(acc.share, s[k]) /\ step(s[k], acc) \in R
  <2> DEFINE a == acc.share
             x == s[k]
  <2>1. a \in T /\ x \in T /\ acc.ok
    OBVIOUS
  <2> HIDE DEF a, x, T
  <2> DEFINE b == accumulate(a, x).share
  <2>2. accumulate(a, x) = [ok |-> TRUE, share |-> b] /\ b \in T
    BY <2>1, Poplar1Sum DEF T
  <2>3. accumulate(a, x) \in R
    <3> HIDE DEF b
    <3> QED
      BY <2>2
  <2> QED
    BY <2>1, <2>3 DEF a, x
<1> HIDE DEF base, R
<1>5. G \in [1..n -> [R -> R]]
  <2> HIDE DEF step
  <2> QED
    BY <1>4
<1>6. \E it : Folds(it)
  <2> HIDE DEF G, step
  <2>1. PICK it : IsFold(it, n, R, base, G)
    BY <1>3, <1>5, FoldExists
  <2>2. /\ it \in [SUBSET (1..n) -> R]
        /\ \A u \in SUBSET (1..n) :
              it[u] = IF u = {} THEN base ELSE G[Max(u)][it[u \ {Max(u)}]]
    BY <2>1 DEF IsFold
  <2>3. ASSUME NEW u \in SUBSET (1..n)
        PROVE  it[u] = IF u = {} THEN base ELSE step(s[Max(u)], it[u \ {Max(u)}])
    <3>1. CASE u = {}
      BY <2>2, <3>1
    <3>2. CASE u # {}
      <4>1. Max(u) \in 1..n
        BY <3>2, MaxOfPositions
      <4>2. it[u \ {Max(u)}] \in R
        BY <2>2, <4>1
      <4>3. G[Max(u)][it[u \ {Max(u)}]] = step(s[Max(u)], it[u \ {Max(u)}])
        BY <4>1, <4>2 DEF G
      <4> QED
        BY <2>2, <3>2, <4>3
    <3> QED
      BY <3>1, <3>2
  <2>4. it = [u \in SUBSET (1..n) |->
                IF u = {} THEN base ELSE step(s[Max(u)], it[u \ {Max(u)}])]
    BY <2>2, <2>3
  <2> QED
    BY <2>4
<1>7. Folds(iter)
  <2> HIDE DEF Folds
  <2> QED
    BY <1>6
<1> HIDE DEF iter
<1> DEFINE w == [k \in 0..n |-> iter[1..k]]
<1>8. w[0] = base
  BY <1>7
<1>9. ASSUME NEW k \in 1..n
      PROVE  w[k] = step(s[k], w[k - 1])
  <2>1. k \in Nat /\ k > 0 /\ 1..k \in SUBSET (1..n) /\ k \in 0..n /\ k - 1 \in 0..n
    OBVIOUS
  <2>2. Max(1..k) = k /\ (1..k) \ {k} = 1..k - 1 /\ 1..k # {}
    BY <2>1, MaxOfFirst
  <2>3. iter[1..k] = IF 1..k = {} THEN base
                     ELSE step(s[Max(1..k)], iter[(1..k) \ {Max(1..k)}])
    <3> HIDE DEF step
    <3> QED
      BY <1>7, <2>1
  <2> HIDE DEF step
  <2> QED
    BY <2>1, <2>2, <2>3
<1> HIDE DEF Folds
<1> DEFINE S == {k \in 0..n : w[k] \in R}
<1>10. 0 \in S
  BY <1>3, <1>8
<1>11. ASSUME NEW k \in 0..n - 1, k \in S
       PROVE  k + 1 \in S
  <2>1. k + 1 \in 1..n /\ k + 1 \in 0..n /\ (k + 1) - 1 = k
    OBVIOUS
  <2>2. w[k + 1] = step(s[k + 1], w[k])
    BY <1>9, <2>1
  <2> HIDE DEF w, step
  <2> QED
    BY <1>4, <1>11, <2>1, <2>2
<1>12. 0..n \subseteq S
  <2> HIDE DEF S
  <2> QED
    BY <1>10, <1>11, IntervalInduction
<1>13. w \in [0..n -> R]
  BY <1>12
<1>14. w[n] = iter[1..n]
  OBVIOUS
<1> HIDE DEF w
<1>15. ASSUME NEW k \in 1..n
       PROVE  w[k] = accumulate(w[k - 1].share, s[k])
  <2>1. w[k - 1] \in R
    BY <1>13
  <2> HIDE DEF step
  <2> QED
    BY <1>4, <1>9, <2>1
<1>16. AreSums(w, prefixes, s, n)
  BY <1>8, <1>13, <1>15 DEF AreSums, base, R
<1> QED
  BY <1>2, <1>14, <1>16

LEMMA Poplar1Aggregates ==
  ASSUME NEW prefixes, Len(prefixes) \in Nat
  PROVE  /\ aggregate(prefixes, <<>>) = [ok |-> TRUE, share |-> zero_vec(prefixes)]
         /\ \A s \in Seq(Poplar1Share(prefixes)) :
               /\ aggregate(prefixes, s).share \in Poplar1Share(prefixes)
               /\ \A x \in Poplar1Share(prefixes) :
                    aggregate(prefixes, Append(s, x)) = accumulate(aggregate(prefixes, s).share, x)
<1> DEFINE T == Poplar1Share(prefixes)
<1>1. aggregate(prefixes, <<>>) = [ok |-> TRUE, share |-> zero_vec(prefixes)]
  <2>1. <<>> \in [1..0 -> T]
    OBVIOUS
  <2>2. PICK w : AreSums(w, prefixes, <<>>, 0) /\ aggregate(prefixes, <<>>) = w[0]
    BY <2>1, Aggregated
  <2> QED
    BY <2>2 DEF AreSums
<1>2. ASSUME NEW s \in Seq(T), NEW x \in T
      PROVE  aggregate(prefixes, Append(s, x)) = accumulate(aggregate(prefixes, s).share, x)
  <2> HIDE DEF T
  <2> DEFINE n == Len(s)
             m == n + 1
             q == Append(s, x)
  <2>1. n \in Nat /\ m \in Nat /\ s \in [1..n -> T]
    OBVIOUS
  <2>2. q \in [1..m -> T] /\ q[m] = x /\ \A k \in 1..n : q[k] = s[k]
    <3>1. q \in Seq(T) /\ Len(q) = Len(s) + 1 /\ q[Len(s) + 1] = x /\ \A k \in 1..Len(s) : q[k] = s[k]
      BY AppendProperties
    <3> HIDE DEF q
    <3> QED
      BY <3>1
  <2> HIDE DEF q, n, m
  <2>3. PICK v : AreSums(v, prefixes, s, n) /\ aggregate(prefixes, s) = v[n]
    BY <2>1, Aggregated DEF T
  <2>4. PICK w : AreSums(w, prefixes, q, m) /\ aggregate(prefixes, q) = w[m]
    BY <2>1, <2>2, Aggregated DEF T
  <2> DEFINE S == {k \in 0..n : v[k] = w[k]}
  <2>5. 0 \in S
    <3>1. v[0] = w[0]
      BY <2>3, <2>4 DEF AreSums
    <3> QED
      BY <2>1, <3>1
  <2>6. ASSUME NEW k \in 0..n - 1, k \in S
        PROVE  k + 1 \in S
    <3>1. k + 1 \in 1..n /\ k + 1 \in 1..m /\ (k + 1) - 1 = k /\ k + 1 \in 0..n
      BY <2>1 DEF m
    <3>2. v[k + 1] = accumulate(v[k].share, s[k + 1])
      BY <2>3, <3>1 DEF AreSums
    <3>3. w[k + 1] = accumulate(w[k].share, q[k + 1])
      BY <2>4, <3>1 DEF AreSums
    <3> QED
      BY <2>2, <2>6, <3>1, <3>2, <3>3
  <2>7. 0..n \subseteq S
    <3> HIDE DEF S
    <3> QED
      BY <2>1, <2>5, <2>6, IntervalInduction
  <2>8. v[n] = w[n]
    BY <2>1, <2>7
  <2>9. w[m] = accumulate(w[n].share, x)
    <3>1. m \in 1..m /\ m - 1 = n
      BY <2>1 DEF m
    <3>2. w[m] = accumulate(w[m - 1].share, q[m])
      BY <2>4, <3>1 DEF AreSums
    <3> QED
      BY <2>2, <3>1, <3>2
  <2> QED
    BY <2>3, <2>4, <2>8, <2>9 DEF q
<1>3. ASSUME NEW s \in Seq(T)
      PROVE  aggregate(prefixes, s).share \in T
  <2> HIDE DEF T
  <2> DEFINE n == Len(s)
  <2>1. n \in Nat /\ s \in [1..n -> T]
    OBVIOUS
  <2> HIDE DEF n
  <2>2. PICK w : AreSums(w, prefixes, s, n) /\ aggregate(prefixes, s) = w[n]
    BY <2>1, Aggregated DEF T
  <2>3. w \in [0..n -> [ok : {TRUE}, share : T]]
    BY <2>2 DEF AreSums, T
  <2>4. n \in 0..n
    BY <2>1
  <2>5. w[n] \in [ok : {TRUE}, share : T]
    BY <2>3, <2>4
  <2> QED
    BY <2>2, <2>5
<1> QED
  BY <1>1, <1>2, <1>3

\* The VDAF is Poplar1, for two aggregators.
IsPoplar1 ==
    \A p \in Params :
        /\ p.prefixes \in Seq(Prefix) /\ p.prefixes # <<>>
        /\ vdaf_num_aggregators(p) = 2
        /\ AggShare(p) = Poplar1Share(p.prefixes)
        /\ \A s \in Seq(AggShare(p)) : /\ vdaf_aggregate(p, s) = aggregate(p.prefixes, s)
                                      /\ \A n \in Nat : vdaf_unshard(p, s, n) = unshard(p.prefixes, s)
        /\ \A q \in Params : \A x \in AggShare(p), y \in AggShare(q) :
              /\ vdaf_merge(x, y) = accumulate(x, y)
              /\ SameShape(x, y) <=> x.kind = y.kind /\ Len(x.elems) = Len(y.elems)

-----------------------------------------------------------------------------
(* The counts of Poplar1.                                                  *)

\* Those of the first k reports that have a prefix.
Having(o, k, prefix) == {o[j] : j \in {i \in 1..k : IsPrefix(prefix, o[i].measurement)}}

\* One more report is counted once or not at all.
LEMMA HavingMore ==
  ASSUME NEW n \in Nat, NEW S, IsFiniteSet(S), NEW o, IsOrder(o, n, S), NEW k \in 0..n - 1, NEW prefix
  PROVE  /\ IsFiniteSet(Having(o, k, prefix)) /\ Cardinality(Having(o, k, prefix)) \in Nat
         /\ Cardinality(Having(o, k + 1, prefix))
              = Cardinality(Having(o, k, prefix)) + (IF IsPrefix(prefix, o[k + 1].measurement) THEN 1 ELSE 0)
<1> DEFINE H == Having(o, k, prefix)
           x == o[k + 1]
<1>1. k + 1 \in 1..n /\ k \in Nat /\ \A i \in 1..k : i \in 1..n /\ i # k + 1
  OBVIOUS
<1>2. H \subseteq S
  BY <1>1 DEF Having, IsOrder
<1>3. x \notin H
  BY <1>1 DEF Having, IsOrder
<1>4. IsFiniteSet(H) /\ Cardinality(H) \in Nat
  BY <1>2, FS_Subset, FS_CardinalityType
<1>5. CASE IsPrefix(prefix, x.measurement)
  <2>1. Having(o, k + 1, prefix) = H \cup {x}
    BY <1>1, <1>5 DEF Having
  <2> HIDE DEF H, x
  <2>2. Cardinality(H \cup {x}) = Cardinality(H) + 1
    BY <1>3, <1>4, FS_AddElement
  <2> QED
    BY <1>4, <1>5, <2>1, <2>2 DEF H, x
<1>6. CASE ~IsPrefix(prefix, x.measurement)
  <2>1. Having(o, k + 1, prefix) = H
    BY <1>1, <1>6 DEF Having
  <2> HIDE DEF H
  <2>2. Cardinality(Having(o, k + 1, prefix)) = Cardinality(H) + 0
    BY <1>4, <2>1
  <2> QED
    BY <1>4, <1>6, <2>2 DEF H
<1> QED
  BY <1>5, <1>6

\* In the end all of them are counted.
LEMMA HavingAll ==
  ASSUME NEW n \in Nat, NEW S, NEW o, IsOrder(o, n, S), NEW prefix
  PROVE  /\ Having(o, 0, prefix) = {} /\ Cardinality(Having(o, n, prefix)) = CountIn(S, prefix)
         /\ \A k \in 0..n : Having(o, k, prefix) \subseteq S
<1>1. Having(o, 0, prefix) = {}
  BY DEF Having
<1>2. Having(o, n, prefix) = {r \in S : IsPrefix(prefix, r.measurement)}
  BY DEF Having, IsOrder
<1>3. ASSUME NEW k \in 0..n
      PROVE  Having(o, k, prefix) \subseteq S
  <2>1. \A i \in 1..k : i \in 1..n
    OBVIOUS
  <2> QED
    BY <2>1 DEF Having, IsOrder
<1> QED
  BY <1>1, <1>2, <1>3 DEF CountIn

\* Shares that say of each prefix whether a report has it add up to the counts, if there are
\* not too many reports for the field.
LEMMA CountsAddUp ==
  ASSUME NEW prefixes, Len(prefixes) \in Nat, NEW n \in Nat, NEW s \in [1..n -> Poplar1Share(prefixes)],
         NEW S, IsFiniteSet(S), Cardinality(S) < P, NEW o, IsOrder(o, n, S),
         \A k \in 1..n : \A i \in 1..Len(prefixes) :
            s[k].elems[i] = IF IsPrefix(prefixes[i], o[k].measurement) THEN 1 ELSE 0
  PROVE  \E c \in Poplar1Share(prefixes) :
            /\ aggregate(prefixes, s) = [ok |-> TRUE, share |-> c]
            /\ \A i \in 1..Len(prefixes) : c.elems[i] = CountIn(S, prefixes[i])
<1> DEFINE T == Poplar1Share(prefixes)
<1>1. PICK w : AreSums(w, prefixes, s, n) /\ aggregate(prefixes, s) = w[n]
  BY Aggregated
<1>2. /\ w \in [0..n -> [ok : {TRUE}, share : T]]
      /\ w[0] = [ok |-> TRUE, share |-> zero_vec(prefixes)]
      /\ \A k \in 1..n : w[k] = accumulate(w[k - 1].share, s[k])
  BY <1>1 DEF AreSums
<1>3. ASSUME NEW i \in 1..Len(prefixes)
      PROVE  w[n].share.elems[i] = CountIn(S, prefixes[i])
  <2> DEFINE q == prefixes[i]
             H(k) == Cardinality(Having(o, k, q))
             G == {k \in 0..n : w[k].share.elems[i] = H(k)}
  <2>1. 0 \in G
    <3>1. H(0) = 0
      BY HavingAll, FS_EmptySet
    <3>2. zero_vec(prefixes).elems[i] = 0
      BY DEF zero_vec, zero, FieldVec
    <3> HIDE DEF H
    <3> QED
      BY <1>2, <3>1, <3>2
  <2>2. ASSUME NEW k \in 0..n - 1, k \in G
        PROVE  k + 1 \in G
    <3> DEFINE b == IF IsPrefix(q, o[k + 1].measurement) THEN 1 ELSE 0
               x == w[k].share
               y == s[k + 1]
    <3>1. k + 1 \in 1..n /\ k + 1 \in 0..n /\ k \in 0..n /\ (k + 1) - 1 = k
      OBVIOUS
    <3>2. H(k + 1) = H(k) + b /\ H(k) \in Nat
      BY HavingMore
    <3>3. H(k + 1) <= Cardinality(S) /\ H(k + 1) \in Nat
      <4>1. Having(o, k + 1, q) \subseteq S
        BY <3>1, HavingAll
      <4> QED
        BY <4>1, FS_Subset, FS_CardinalityType
    <3>4. Cardinality(S) \in Nat
      BY FS_CardinalityType
    <3>5. y.elems[i] = b /\ b \in {0, 1}
      BY <3>1
    <3>6. x \in T /\ y \in T /\ w[k + 1] = accumulate(x, y) /\ x.elems[i] = H(k)
      BY <1>2, <2>2, <3>1
    <3> HIDE DEF x, y, H, b
    <3>7. accumulate(x, y).share = FieldVec(x.kind, [j \in 1..Len(prefixes) |-> (x.elems[j] + y.elems[j]) % P])
      BY <3>6, Poplar1Sum
    <3>8. w[k + 1].share.elems[i] = (x.elems[i] + y.elems[i]) % P
      BY <3>6, <3>7 DEF FieldVec
    <3>9. H(k + 1) \in 0..P - 1 /\ P \in Nat /\ P > 0
      BY <3>3, <3>4, ModulusAssumption
    <3>10. H(k + 1) % P = H(k + 1)
      <4> DEFINE h == H(k + 1)
      <4>1. h \in 0..P - 1 /\ h \in Int /\ 0 \in Int /\ h = P * 0 + h
        BY <3>9
      <4> HIDE DEF h
      <4>2. h % P = h
        BY <3>9, <4>1, DivisionIs
      <4> QED
        BY <4>2 DEF h
    <3>11. w[k + 1].share.elems[i] = H(k + 1)
      BY <3>2, <3>5, <3>6, <3>8, <3>10
    <3> QED
      BY <3>1, <3>11
  <2>5. H(n) = CountIn(S, q)
    BY HavingAll
  <2> HIDE DEF H
  <2>3. 0..n \subseteq G
    <3> HIDE DEF G
    <3> QED
      BY <2>1, <2>2, IntervalInduction
  <2>4. w[n].share.elems[i] = H(n)
    BY <2>3
  <2> QED
    BY <2>4, <2>5
<1> DEFINE c == w[n].share
<1>4. c \in T /\ w[n] = [ok |-> TRUE, share |-> c]
  <2>1. n \in 0..n
    OBVIOUS
  <2>2. w \in [0..n -> [ok : {TRUE}, share : T]]
    BY <1>2
  <2> HIDE DEF T
  <2>3. w[n] \in [ok : {TRUE}, share : T]
    BY <2>1, <2>2
  <2> QED
    BY <2>3
<1> QED
  BY <1>1, <1>3, <1>4

\* The output shares are those of the reports that can be prepared.
OutsPrepared == param # <<>> => outs = PreparedFor(param[1], reports)

LEMMA OutsArePrepared ==
  ASSUME NEW p, NEW batch, NEW prep, prep = PreparedFor(p, batch)
  PROVE  /\ DOMAIN prep = {r \in batch : vdaf_prepare(p, r) # <<>>}
         /\ \A r \in DOMAIN prep : prep[r] = vdaf_prepare(p, r)
<1> DEFINE all == [r \in batch |-> vdaf_prepare(p, r)]
           D == {r \in DOMAIN all : all[r] # <<>>}
<1>1. prep = [r \in D |-> all[r]]
  BY DEF PreparedFor, Successful, Restrict
<1> QED
  BY <1>1

\* Reports are sent by clients for whom a measurement counts once, and not too many of them for
\* the field or for a count in the result.
CountContract ==
    \A batch \in Batches :
        /\ Cardinality(batch.reports) < P /\ Cardinality(batch.reports) <= MaxCount
        /\ \A r \in batch.reports : /\ r.measurement \in [1..Bits -> {0, 1}]
                                    /\ \A p \in Params : CountsOnce(p, r)

\* A vector is a sequence.
LEMMA SharesAreSeq == ASSUME NEW T, NEW n \in Nat, NEW s \in [1..n -> T] PROVE s \in Seq(T)
OBVIOUS

\* The sum of two shares, as aggregate computes it.
LEMMA SumOfTwo ==
  ASSUME NEW prefixes, Len(prefixes) \in Nat, NEW s \in [1..2 -> Poplar1Share(prefixes)]
  PROVE  /\ aggregate(prefixes, s).share \in Poplar1Share(prefixes)
         /\ \A i \in 1..Len(prefixes) :
               aggregate(prefixes, s).share.elems[i] = (s[1].elems[i] + s[2].elems[i]) % P
<1> DEFINE T == Poplar1Share(prefixes)
           none == zero_vec(prefixes)
           x == s[1]
           y == s[2]
<1>1. 2 \in Nat /\ 0 \in 0..2 /\ 1 \in 0..2 /\ 2 \in 0..2 /\ 1 \in 1..2 /\ 2 \in 1..2 /\ x \in T /\ y \in T
  OBVIOUS
<1>2. PICK w : AreSums(w, prefixes, s, 2) /\ aggregate(prefixes, s) = w[2]
  BY <1>1, Aggregated
<1>3. /\ w[1].share \in T /\ w[2].share \in T /\ none \in T
      /\ w[1] = accumulate(none, x) /\ w[2] = accumulate(w[1].share, y)
  <2>1. /\ w \in [0..2 -> [ok : {TRUE}, share : T]]
        /\ w[0] = [ok |-> TRUE, share |-> none]
        /\ w[1] = accumulate(w[1 - 1].share, s[1]) /\ w[2] = accumulate(w[2 - 1].share, s[2])
    BY <1>1, <1>2 DEF AreSums
  <2> HIDE DEF none, T
  <2> QED
    BY <1>1, <2>1
<1> DEFINE u == w[1].share
           v == w[2].share
<1>4. ASSUME NEW i \in 1..Len(prefixes)
      PROVE  v.elems[i] = (x.elems[i] + y.elems[i]) % P
  <2>1. none.elems[i] = 0
    BY DEF zero_vec, zero, FieldVec
  <2>2. x.elems[i] \in F /\ y.elems[i] \in F
    BY <1>1 DEF Poplar1Share
  <2>3. u = FieldVec(none.kind, [j \in 1..Len(prefixes) |-> (none.elems[j] + x.elems[j]) % P])
    BY <1>1, <1>3, Poplar1Sum
  <2>4. v = FieldVec(u.kind, [j \in 1..Len(prefixes) |-> (u.elems[j] + y.elems[j]) % P])
    <3>1. u \in T
      BY <1>3
    <3> HIDE DEF u
    <3> QED
      BY <1>1, <1>3, <3>1, Poplar1Sum DEF u
  <2> HIDE DEF u, v, none, x, y
  <2>5. u.elems[i] = (none.elems[i] + x.elems[i]) % P /\ v.elems[i] = (u.elems[i] + y.elems[i]) % P
    BY <2>3, <2>4 DEF FieldVec
  <2>6. (0 + x.elems[i]) % P = x.elems[i]
    <3>1. 0 \in F /\ 0 + x.elems[i] = x.elems[i] + 0
      BY <2>2, ModulusAssumption DEF F
    <3> QED
      BY <2>2, <3>1, ModularSum
  <2> QED
    BY <2>1, <2>5, <2>6
<1> QED
  BY <1>2, <1>3, <1>4

\* The output of a report says which prefixes its measurement has.
LEMMA OutputCounts ==
  ASSUME IsPoplar1, CountContract, InBatch, OutsPrepared, NEW p \in Params, Running(p),
         Cardinality(Aggregators) = 2, NEW r \in DOMAIN outs
  PROVE  /\ output(r) \in AggShare(p)
         /\ \A i \in 1..Len(p.prefixes) :
               output(r).elems[i] = IF IsPrefix(p.prefixes[i], r.measurement) THEN 1 ELSE 0
<1> DEFINE prefixes == p.prefixes
           s == [j \in 1..2 |-> outs[r][j - 1]]
<1>1. prefixes \in Seq(Prefix) /\ Len(prefixes) \in Nat /\ AggShare(p) = Poplar1Share(prefixes) /\ param[1] = p
  BY DEF IsPoplar1, Running
<1>2. AggIds(p) = 0..1
  <2>1. vdaf_num_aggregators(p) = 2
    BY DEF IsPoplar1
  <2> QED
    BY <2>1 DEF AggIds
<1>3. s \in [1..2 -> AggShare(p)]
  <2>1. outs[r] \in [0..1 -> AggShare(p)]
    BY <1>2 DEF Running, Typed, OutputShares
  <2> QED
    BY <2>1
<1>4. s \in Seq(AggShare(p))
  <2>1. 2 \in Nat
    OBVIOUS
  <2> HIDE DEF s
  <2> QED
    BY <1>3, <2>1, SharesAreSeq
<1>5. output(r) = aggregate(prefixes, s).share
  <2>1. vdaf_aggregate(p, s) = aggregate(prefixes, s)
    BY <1>4 DEF IsPoplar1
  <2> QED
    BY <1>1, <2>1 DEF output
<1>6. outs[r] = vdaf_prepare(p, r) /\ outs[r] # <<>> /\ r \in reports
  <2>1. outs = PreparedFor(p, reports)
    BY DEF OutsPrepared, Running
  <2>2. /\ DOMAIN outs = {q \in reports : vdaf_prepare(p, q) # <<>>}
        /\ \A q \in DOMAIN outs : outs[q] = vdaf_prepare(p, q)
    BY <2>1, OutsArePrepared
  <2> QED
    BY <2>2
<1>7. \A i \in DOMAIN prefixes : (outs[r][0].elems[i] + outs[r][1].elems[i]) % P =
                                    IF IsPrefix(prefixes[i], r.measurement) THEN 1 ELSE 0
  <2>1. CountsOnce(p, r)
    BY <1>6 DEF InBatch, CountContract
  <2> QED
    BY <1>6, <2>1 DEF CountsOnce
<1>8. s[1] = outs[r][0] /\ s[2] = outs[r][1] /\ DOMAIN prefixes = 1..Len(prefixes)
  BY <1>1
<1> HIDE DEF s, prefixes
<1>9. /\ aggregate(prefixes, s).share \in Poplar1Share(prefixes)
      /\ \A i \in 1..Len(prefixes) :
            aggregate(prefixes, s).share.elems[i] = (s[1].elems[i] + s[2].elems[i]) % P
  BY <1>1, <1>3, SumOfTwo
<1> QED
  BY <1>1, <1>5, <1>7, <1>8, <1>9 DEF prefixes

\* What is collected: a result with exact counts.
Exact(c) ==
    c.res.ok /\ \A i \in DOMAIN c.param.prefixes : c.res.result[i] = CountIn(c.accepted, c.param.prefixes[i])

LEMMA CollectCounts ==
  ASSUME VdafContract, IsPoplar1, CountContract, UnshardContract, InBatch, OutsPrepared,
         NEW p \in Params, Running(p), Collect
  PROVE  \E c : /\ collected' = Append(collected, c) /\ Exact(c) /\ c.param = p /\ c.accepted = DOMAIN outs
               /\ c.res.result \in [1..Len(p.prefixes) -> F]
<1> DEFINE prefixes == p.prefixes
           S == DOMAIN outs
           o == SetToSeq(S)
           n == Cardinality(S)
           clear == [i \in 1..n |-> output(o[i])]
<1>1. /\ prefixes \in Seq(Prefix) /\ Len(prefixes) \in Nat /\ AggShare(p) = Poplar1Share(prefixes)
      /\ param[1] = p /\ vdaf_num_aggregators(p) = 2
  BY DEF IsPoplar1, Running
<1>2. IsFiniteSet(S) /\ n \in Nat /\ IsOrder(o, n, S) /\ Cardinality(Aggregators) = 2
  BY <1>1, CollectorInput, SetToSeqIsOrder
<1>3. n < P /\ n <= MaxCount
  <2>1. PICK batch \in Batches : reports = batch.reports
    BY DEF InBatch
  <2>2. IsFiniteSet(reports) /\ S \subseteq reports
    BY <2>1 DEF VdafContract, ParamContract, Running, Typed
  <2>3. n <= Cardinality(reports) /\ Cardinality(reports) \in Nat
    BY <2>2, FS_Subset, FS_CardinalityType
  <2>4. Cardinality(reports) < P /\ Cardinality(reports) <= MaxCount
    BY <2>1 DEF CountContract
  <2> QED
    BY <1>2, <2>3, <2>4, ModulusAssumption, ParameterAssumption
<1>4. collected' = Append(collected, [param |-> p, accepted |-> S, res |-> in_the_clear(o)])
  <2>1. CollectsOutputs
    BY CollectCollects
  <2>2. o \in [1..n -> S]
    BY <1>2 DEF IsOrder
  <2> QED
    BY <1>1, <1>2, <2>1, <2>2 DEF CollectsOutputs
<1>5. ASSUME NEW k \in 1..n
      PROVE  /\ clear[k] \in AggShare(p)
             /\ \A i \in 1..Len(prefixes) :
                  clear[k].elems[i] = IF IsPrefix(prefixes[i], o[k].measurement) THEN 1 ELSE 0
  <2>1. o[k] \in S
    BY <1>2 DEF IsOrder
  <2>2. clear[k] = output(o[k])
    OBVIOUS
  <2> HIDE DEF clear, o
  <2> QED
    BY <1>2, <2>1, <2>2, OutputCounts
<1>6. in_the_clear(o) = vdaf_unshard(p, clear, n)
  <2>1. DOMAIN o = 1..n
    BY <1>2 DEF IsOrder
  <2> HIDE DEF o
  <2> QED
    BY <1>1, <2>1 DEF in_the_clear
<1> HIDE DEF o
<1>7. clear \in [1..n -> AggShare(p)]
  <2>1. clear = [k \in 1..n |-> clear[k]]
    OBVIOUS
  <2> HIDE DEF clear
  <2> QED
    BY <1>5, <2>1
<1> HIDE DEF clear, n, prefixes
<1>8. clear \in Seq(AggShare(p))
  BY <1>2, <1>7
<1>9. vdaf_unshard(p, clear, n) = unshard(prefixes, clear)
  BY <1>2, <1>8 DEF IsPoplar1, prefixes
<1>10. PICK c \in Poplar1Share(prefixes) :
          /\ aggregate(prefixes, clear) = [ok |-> TRUE, share |-> c]
          /\ \A i \in 1..Len(prefixes) : c.elems[i] = CountIn(S, prefixes[i])
  <2>1. Cardinality(S) < P
    BY <1>3 DEF n
  <2> QED
    BY <1>1, <1>2, <1>5, <1>7, <2>1, CountsAddUp
<1>11. ASSUME NEW i \in 1..Len(prefixes)
       PROVE  ~(c.elems[i] > MaxCount)
  <2> DEFINE H == {r \in S : IsPrefix(prefixes[i], r.measurement)}
  <2>1. Cardinality(H) <= n /\ Cardinality(H) \in Nat
    <3>1. H \in SUBSET S
      OBVIOUS
    <3> HIDE DEF H
    <3> QED
      BY <1>2, <3>1, FS_Subset, FS_CardinalityType DEF n
  <2>2. c.elems[i] = Cardinality(H)
    BY <1>10 DEF CountIn
  <2> HIDE DEF H
  <2> QED
    BY <1>2, <1>3, <2>1, <2>2, ParameterAssumption
<1>12. unshard(prefixes, clear) = [ok |-> TRUE, result |-> c.elems]
  <2> DEFINE sum == aggregate(prefixes, clear)
  <2>1. sum.ok /\ sum.share = c /\ DOMAIN prefixes = 1..Len(prefixes)
    BY <1>1, <1>10
  <2>2. ~(~sum.ok \/ (sum.share.kind = "Leaf" /\ \E i \in DOMAIN prefixes : sum.share.elems[i] > MaxCount))
    BY <1>11, <2>1
  <2>3. unshard(prefixes, clear) =
          IF ~sum.ok \/ (sum.share.kind = "Leaf" /\ \E i \in DOMAIN prefixes : sum.share.elems[i] > MaxCount)
          THEN [ok |-> FALSE] ELSE [ok |-> TRUE, result |-> sum.share.elems]
    BY DEF unshard
  <2> HIDE DEF sum
  <2> QED
    BY <2>1, <2>2, <2>3
<1> DEFINE res == in_the_clear(o)
           e == [param |-> p, accepted |-> S, res |-> res]
<1>13. res = [ok |-> TRUE, result |-> c.elems]
  BY <1>6, <1>9, <1>12
<1> HIDE DEF res, S
<1>14. res.ok /\ res.result = c.elems /\ e.res = res /\ e.param = p /\ e.accepted = S /\ e.param.prefixes = prefixes
  BY <1>13 DEF prefixes
<1>15. Exact(e)
  <2>1. DOMAIN prefixes = 1..Len(prefixes)
    BY <1>1
  <2> HIDE DEF e
  <2> QED
    BY <1>10, <1>14, <2>1 DEF Exact
<1>16. collected' = Append(collected, e)
  BY <1>4 DEF res
<1>17. c.elems \in [1..Len(prefixes) -> F]
  BY <1>10 DEF Poplar1Share
<1> HIDE DEF e
<1>18. e.res.result \in [1..Len(p.prefixes) -> F]
  BY <1>14, <1>17 DEF prefixes
<1> QED
  BY <1>14, <1>15, <1>16, <1>18 DEF S

LEMMA AppendOne ==
  ASSUME NEW S, NEW s \in Seq(S), NEW c
  PROVE  /\ Append(s, c) \in Seq(S \cup {c}) /\ Len(Append(s, c)) = Len(s) + 1
         /\ \A i \in 1..Len(s) : Append(s, c)[i] = s[i]
         /\ Append(s, c)[Len(s) + 1] = c /\ Len(s) \in Nat
<1>1. s \in Seq(S \cup {c}) /\ c \in S \cup {c}
  OBVIOUS
<1>2. Len(s) \in Nat
  OBVIOUS
<1> QED
  BY <1>1, <1>2, AppendProperties

\* The inductive invariant of the counts.
AllExact == (\E S : collected \in Seq(S)) /\ \A i \in 1..Len(collected) : Exact(collected[i])
CInv == IInv /\ OutsPrepared /\ AllExact

\* Only the collector changes what is collected, the parameter and the output shares.
LEMMA OnlyCollect ==
  ASSUME [Next]_vars, ~Collect
  PROVE  UNCHANGED <<reports, param, outs, collected>>
BY DEF Next, vars, Accumulate, AccumulateLate, Merge, Reload

LEMMA CountInit ==
  ASSUME VdafContract, Init
  PROVE  CInv
<1>1. PICK batch \in Batches :
        /\ reports = batch.reports
        /\ param = <<batch.param>>
        /\ outs = PreparedFor(batch.param, batch.reports)
        /\ collected = <<>>
  BY DEF Init
<1>2. OutsPrepared
  BY <1>1 DEF OutsPrepared
<1>3. collected \in Seq({}) /\ Len(collected) = 0
  BY <1>1
<1>4. AllExact
  BY <1>3 DEF AllExact
<1> QED
  BY <1>2, <1>4, InitInv DEF CInv

\* What the collector leaves behind.
LEMMA CollectPrepares ==
  ASSUME Collect
  PROVE  OutsPrepared' /\ reports' = reports /\ param # <<>>
<1> DEFINE res == vdaf_unshard(param[1], [i \in 1..Cardinality(Aggregators) |-> agg_share(i - 1).share],
                               Cardinality(DOMAIN outs))
           next == IF res.ok THEN next_param(param[1], res.result) ELSE <<>>
<1>1. /\ param # <<>> /\ reports' = reports /\ param' = next
      /\ outs' = IF next = <<>> THEN <<>> ELSE PreparedFor(next[1], reports)
  BY DEF Collect
<1> HIDE DEF next
<1> QED
  BY <1>1 DEF OutsPrepared

LEMMA CountNext ==
  ASSUME VdafContract, IsPoplar1, CountContract, UnshardContract, CInv, [Next]_vars
  PROVE  CInv'
<1>1. IInv'
  BY NextInv DEF CInv
<1>2. CASE ~Collect
  <2>1. UNCHANGED <<reports, param, outs, collected>>
    BY <1>2, OnlyCollect
  <2>2. OutsPrepared'
    BY <2>1 DEF CInv, OutsPrepared, PreparedFor
  <2>3. AllExact'
    BY <2>1 DEF CInv, AllExact, Exact, CountIn
  <2> QED
    BY <1>1, <2>2, <2>3 DEF CInv
<1>3. CASE Collect
  <2>1. OutsPrepared' /\ param # <<>> /\ InBatch
    BY <1>3, CollectPrepares DEF CInv, IInv
  <2>2. PICK p \in Params : Running(p)
    BY <2>1 DEF CInv, IInv, Running
  <2>3. PICK c : collected' = Append(collected, c) /\ Exact(c)
    BY <1>3, <2>1, <2>2, CollectCounts DEF CInv
  <2>4. PICK S : collected \in Seq(S)
    BY DEF CInv, AllExact
  <2> DEFINE n == Len(collected)
  <2>5. /\ collected' \in Seq(S \cup {c}) /\ Len(collected') = n + 1 /\ n \in Nat
        /\ \A i \in 1..n : collected'[i] = collected[i]
        /\ collected'[n + 1] = c
    BY <2>3, <2>4, AppendOne
  <2>6. \A i \in 1..n : Exact(collected[i])
    BY DEF CInv, AllExact
  <2> HIDE DEF n
  <2>7. \A i \in 1..Len(collected') : Exact(collected'[i])
    <3> SUFFICES ASSUME NEW i \in 1..n + 1 PROVE Exact(collected'[i])
      BY <2>5
    <3>1. i \in 1..n \/ i = n + 1
      BY <2>5
    <3> QED
      BY <2>3, <2>5, <2>6, <3>1
  <2>8. AllExact'
    BY <2>5, <2>7 DEF AllExact, Exact, CountIn
  <2> QED
    BY <1>1, <2>1, <2>8 DEF CInv
<1> QED
  BY <1>2, <1>3

LEMMA CountsFromExact ==
  ASSUME CInv
  PROVE  CountsAreExact
<1>1. PICK S : collected \in Seq(S)
  BY DEF CInv, AllExact
<1>2. Range(collected) = {collected[i] : i \in 1..Len(collected)}
  BY <1>1 DEF Range
<1>3. \A i \in 1..Len(collected) : Exact(collected[i])
  BY DEF CInv, AllExact
<1> QED
  BY <1>2, <1>3 DEF CountsAreExact, Exact

-----------------------------------------------------------------------------
(* The search for heavy hitters.                                           *)

\* The children of the candidates; those of the first k candidates that are frequent.
Child(prefixes, i, b) == Append(prefixes[i], b)
Children(prefixes) == {Child(prefixes, i, b) : i \in DOMAIN prefixes, b \in {0, 1}}
HasChildren(prefixes, counts, next, k) ==
    \A i \in 1..k : counts[i] >= Threshold =>
        \A b \in {0, 1} : \E j \in 1..Len(next) : next[j] = Child(prefixes, i, b)

\* Two more elements.
LEMMA TwoMore ==
  ASSUME NEW T, NEW s \in Seq(T), NEW x \in T, NEW y \in T
  PROVE  /\ s \o <<x, y>> \in Seq(T) /\ Len(s \o <<x, y>>) = Len(s) + 2
         /\ \A i \in 1..Len(s) : (s \o <<x, y>>)[i] = s[i]
         /\ (s \o <<x, y>>)[Len(s) + 1] = x /\ (s \o <<x, y>>)[Len(s) + 2] = y
<1>1. <<x, y>> \in Seq(T) /\ Len(<<x, y>>) = 2 /\ <<x, y>>[1] = x /\ <<x, y>>[2] = y /\ Len(s) \in Nat
  OBVIOUS
<1> DEFINE z == <<x, y>>
<1> HIDE DEF z
<1>2. z \in Seq(T) /\ Len(z) = 2 /\ z[1] = x /\ z[2] = y
  BY <1>1 DEF z
<1>3. /\ s \o z \in Seq(T) /\ Len(s \o z) = Len(s) + Len(z)
      /\ \A i \in 1..Len(s) + Len(z) : (s \o z)[i] = IF i <= Len(s) THEN s[i] ELSE z[i - Len(s)]
  BY <1>2, ConcatProperties
<1>4. /\ \A i \in 1..Len(s) : i \in 1..Len(s) + 2 /\ i <= Len(s)
      /\ Len(s) + 1 \in 1..Len(s) + 2 /\ Len(s) + 2 \in 1..Len(s) + 2
      /\ ~(Len(s) + 1 <= Len(s)) /\ ~(Len(s) + 2 <= Len(s))
      /\ (Len(s) + 1) - Len(s) = 1 /\ (Len(s) + 2) - Len(s) = 2
  BY <1>1
<1>5. /\ \A i \in 1..Len(s) : (s \o z)[i] = s[i]
      /\ (s \o z)[Len(s) + 1] = x /\ (s \o z)[Len(s) + 2] = y
  BY <1>2, <1>3, <1>4
<1> QED
  BY <1>2, <1>3, <1>5 DEF z

LEMMA StepChildren ==
  ASSUME NEW prefixes, NEW n \in Nat, DOMAIN prefixes = 1..n, NEW counts,
         NEW k \in 0..n - 1, NEW acc \in Seq(Children(prefixes)), HasChildren(prefixes, counts, acc, k),
         NEW next, next = IF counts[k + 1] >= Threshold
                          THEN acc \o <<Append(prefixes[k + 1], 0), Append(prefixes[k + 1], 1)>> ELSE acc
  PROVE  next \in Seq(Children(prefixes)) /\ HasChildren(prefixes, counts, next, k + 1)
<1> DEFINE T == Children(prefixes)
           x == Child(prefixes, k + 1, 0)
           y == Child(prefixes, k + 1, 1)
<1>1. k + 1 \in 1..n /\ k \in Nat /\ \A i \in 1..k + 1 : i \in 1..k \/ i = k + 1
  OBVIOUS
<1>2. x \in T /\ y \in T
  BY <1>1 DEF Children
<1>3. x = Append(prefixes[k + 1], 0) /\ y = Append(prefixes[k + 1], 1)
  BY DEF Child
<1> HIDE DEF x, y, T
<1>4. CASE counts[k + 1] >= Threshold
  <2>1. next = acc \o <<x, y>>
    BY <1>3, <1>4
  <2>2. acc \in Seq(T)
    BY DEF T
  <2>3. /\ next \in Seq(T) /\ Len(next) = Len(acc) + 2 /\ Len(acc) \in Nat
        /\ \A i \in 1..Len(acc) : next[i] = acc[i]
        /\ next[Len(acc) + 1] = x /\ next[Len(acc) + 2] = y
    <3> DEFINE z == acc \o <<x, y>>
    <3>1. /\ z \in Seq(T) /\ Len(z) = Len(acc) + 2
          /\ \A i \in 1..Len(acc) : z[i] = acc[i]
          /\ z[Len(acc) + 1] = x /\ z[Len(acc) + 2] = y
      BY <1>2, <2>2, TwoMore
    <3>2. next = z
      BY <2>1
    <3>3. Len(acc) \in Nat
      BY <2>2
    <3> HIDE DEF z
    <3> QED
      BY <3>1, <3>2, <3>3
  <2>4. ASSUME NEW i \in 1..k + 1, counts[i] >= Threshold, NEW b \in {0, 1}
        PROVE  \E j \in 1..Len(next) : next[j] = Child(prefixes, i, b)
    <3>1. CASE i \in 1..k
      <4>1. PICK j \in 1..Len(acc) : acc[j] = Child(prefixes, i, b)
        BY <2>4, <3>1 DEF HasChildren
      <4>2. j \in 1..Len(next) /\ next[j] = acc[j]
        BY <2>3
      <4> QED
        BY <4>1, <4>2
    <3>2. CASE i = k + 1
      <4>1. Len(acc) + 1 \in 1..Len(next) /\ Len(acc) + 2 \in 1..Len(next)
        BY <2>3
      <4>2. CASE b = 0
        BY <2>3, <3>2, <4>1, <4>2 DEF x
      <4>3. CASE b = 1
        BY <2>3, <3>2, <4>1, <4>3 DEF y
      <4> QED
        BY <4>2, <4>3
    <3> QED
      BY <1>1, <3>1, <3>2
  <2> QED
    BY <2>3, <2>4 DEF HasChildren, T
<1>5. CASE ~(counts[k + 1] >= Threshold)
  <2>1. next = acc
    BY <1>5
  <2> QED
    BY <1>1, <1>5, <2>1 DEF HasChildren
<1> QED
  BY <1>4, <1>5

\* The next candidates are children of the candidates, with all those of the frequent ones.
LEMMA NextPrefixes ==
  ASSUME NEW prefixes, NEW n \in Nat, DOMAIN prefixes = 1..n, NEW counts
  PROVE  /\ next_prefixes(prefixes, counts) \in Seq(Children(prefixes))
         /\ HasChildren(prefixes, counts, next_prefixes(prefixes, counts), n)
<1> DEFINE T == Children(prefixes)
           R == Seq(T)
           s == [i \in DOMAIN prefixes |-> i]
           step(i, next) == IF counts[i] >= Threshold
                            THEN next \o <<Append(prefixes[i], 0), Append(prefixes[i], 1)>> ELSE next
           G == [k \in 1..n |-> [acc \in R |-> step(s[k], acc)]]
           Folds(it) == it = [u \in SUBSET (1..n) |->
                                IF u = {} THEN <<>> ELSE step(s[Max(u)], it[u \ {Max(u)}])]
           iter == CHOOSE it : Folds(it)
<1>1. DOMAIN s = 1..n
  OBVIOUS
<1>2. next_prefixes(prefixes, counts) = iter[1..n]
  BY <1>1 DEF next_prefixes, FoldLeft, MapThenFoldSet
<1>3. <<>> \in R
  OBVIOUS
<1>4. ASSUME NEW k \in 1..n, NEW acc \in R
      PROVE  step(s[k], acc) \in R
  <2> DEFINE x == Child(prefixes, k, 0)
             y == Child(prefixes, k, 1)
  <2>1. x \in T /\ y \in T
    BY DEF Children
  <2>2. s[k] = k
    OBVIOUS
  <2> HIDE DEF T, x, y, s
  <2>3. acc \o <<x, y>> \in R
    BY <2>1, TwoMore
  <2> HIDE DEF R
  <2> QED
    BY <2>2, <2>3 DEF x, y, Child
<1>0. \A k \in 1..n : s[k] = k
  OBVIOUS
<1> HIDE DEF R, s
<1>5. G \in [1..n -> [R -> R]]
  <2> HIDE DEF step
  <2> QED
    BY <1>4
<1>6. \E it : Folds(it)
  <2> HIDE DEF G, step
  <2>1. PICK it : IsFold(it, n, R, <<>>, G)
    BY <1>3, <1>5, FoldExists
  <2>2. /\ it \in [SUBSET (1..n) -> R]
        /\ \A u \in SUBSET (1..n) :
              it[u] = IF u = {} THEN <<>> ELSE G[Max(u)][it[u \ {Max(u)}]]
    BY <2>1 DEF IsFold
  <2>3. ASSUME NEW u \in SUBSET (1..n)
        PROVE  it[u] = IF u = {} THEN <<>> ELSE step(s[Max(u)], it[u \ {Max(u)}])
    <3>1. CASE u = {}
      BY <2>2, <3>1
    <3>2. CASE u # {}
      <4>1. Max(u) \in 1..n
        BY <3>2, MaxOfPositions
      <4>2. it[u \ {Max(u)}] \in R
        BY <2>2, <4>1
      <4>3. G[Max(u)][it[u \ {Max(u)}]] = step(s[Max(u)], it[u \ {Max(u)}])
        BY <4>1, <4>2 DEF G
      <4> QED
        BY <2>2, <3>2, <4>3
    <3> QED
      BY <3>1, <3>2
  <2>4. it = [u \in SUBSET (1..n) |->
                IF u = {} THEN <<>> ELSE step(s[Max(u)], it[u \ {Max(u)}])]
    BY <2>2, <2>3
  <2> QED
    BY <2>4
<1>7. Folds(iter)
  <2> HIDE DEF Folds
  <2> QED
    BY <1>6
<1> HIDE DEF iter
<1> DEFINE w == [k \in 0..n |-> iter[1..k]]
<1>8. w[0] = <<>>
  BY <1>7
<1>9. ASSUME NEW k \in 1..n
      PROVE  w[k] = step(k, w[k - 1])
  <2>1. k \in Nat /\ k > 0 /\ 1..k \in SUBSET (1..n) /\ k \in 0..n /\ k - 1 \in 0..n
    OBVIOUS
  <2>2. Max(1..k) = k /\ (1..k) \ {k} = 1..k - 1 /\ 1..k # {}
    BY <2>1, MaxOfFirst
  <2>3. iter[1..k] = IF 1..k = {} THEN <<>>
                     ELSE step(s[Max(1..k)], iter[(1..k) \ {Max(1..k)}])
    <3> HIDE DEF step
    <3> QED
      BY <1>7, <2>1
  <2> HIDE DEF step
  <2> QED
    BY <1>0, <2>1, <2>2, <2>3
<1> HIDE DEF Folds
<1>14. w[n] = iter[1..n]
  OBVIOUS
<1> HIDE DEF w
<1> DEFINE S == {k \in 0..n : w[k] \in Seq(T) /\ HasChildren(prefixes, counts, w[k], k)}
<1>10. 0 \in S
  <2>1. w[0] \in Seq(T)
    BY <1>3, <1>8 DEF R
  <2>2. HasChildren(prefixes, counts, w[0], 0)
    BY DEF HasChildren
  <2>3. 0 \in 0..n
    OBVIOUS
  <2> QED
    BY <2>1, <2>2, <2>3
<1>11. ASSUME NEW k \in 0..n - 1, k \in S
       PROVE  k + 1 \in S
  <2>1. k + 1 \in 1..n /\ k + 1 \in 0..n /\ (k + 1) - 1 = k
    OBVIOUS
  <2>2. w[k + 1] = step(k + 1, w[k])
    BY <1>9, <2>1
  <2>3. w[k] \in Seq(T) /\ HasChildren(prefixes, counts, w[k], k)
    BY <1>11
  <2>4. w[k + 1] \in Seq(T) /\ HasChildren(prefixes, counts, w[k + 1], k + 1)
    BY <2>2, <2>3, StepChildren
  <2> QED
    BY <2>1, <2>4
<1>12. 0..n \subseteq S
  <2> HIDE DEF S
  <2> QED
    BY <1>10, <1>11, IntervalInduction
<1>13. w[n] \in Seq(T) /\ HasChildren(prefixes, counts, w[n], n)
  BY <1>12
<1> QED
  BY <1>2, <1>13, <1>14

LEMMA AppendBit ==
  ASSUME NEW a \in Nat, NEW q \in [1..a -> {0, 1}], NEW b \in {0, 1}
  PROVE  /\ Append(q, b) \in [1..a + 1 -> {0, 1}] /\ Append(q, b)[a + 1] = b
         /\ \A i \in 1..a : Append(q, b)[i] = q[i]
<1> DEFINE c == Append(q, b)
<1>1. q \in Seq({0, 1}) /\ Len(q) = a
  OBVIOUS
<1>2. c \in Seq({0, 1}) /\ Len(c) = a + 1 /\ c[a + 1] = b /\ \A i \in 1..a : c[i] = q[i]
  BY <1>1, AppendProperties
<1> HIDE DEF c
<1>3. c \in [1..a + 1 -> {0, 1}]
  BY <1>2
<1> QED
  BY <1>2, <1>3 DEF c

Measurement == [1..Bits -> {0, 1}]

\* A prefix, bit by bit.
LEMMA PrefixIs ==
  ASSUME NEW a \in Nat, NEW b \in Nat, NEW s \in [1..a -> {0, 1}], NEW t \in [1..b -> {0, 1}]
  PROVE  IsPrefix(s, t) <=> a <= b /\ \A i \in 1..a : s[i] = t[i]
<1>1. s \in Seq({0, 1}) /\ t \in Seq({0, 1}) /\ Len(s) = a /\ Len(t) = b
  OBVIOUS
<1>2. CASE a <= b
  <2> DEFINE x == SubSeq(s, 1, a)
             y == SubSeq(t, 1, a)
  <2>1. /\ x \in Seq({0, 1}) /\ Len(x) = (IF 1 <= a THEN a - 1 + 1 ELSE 0)
        /\ \A i \in 1..a - 1 + 1 : x[i] = s[1 + i - 1]
    <3>1. \A i \in 1..a : s[i] \in {0, 1}
      OBVIOUS
    <3> QED
      BY <3>1, SubSeqProperties
  <2>2. /\ y \in Seq({0, 1}) /\ Len(y) = (IF 1 <= a THEN a - 1 + 1 ELSE 0)
        /\ \A i \in 1..a - 1 + 1 : y[i] = t[1 + i - 1]
    <3>1. \A i \in 1..a : t[i] \in {0, 1}
      BY <1>2
    <3> QED
      BY <3>1, SubSeqProperties
  <2> HIDE DEF x, y
  <2>3. /\ Len(x) = a /\ Len(y) = a
        /\ \A i \in 1..a : x[i] = s[i] /\ y[i] = t[i]
    <3>1. a - 1 + 1 = a /\ \A i \in 1..a : 1 + i - 1 = i
      OBVIOUS
    <3>2. ~(1 <= a) => a = 0
      OBVIOUS
    <3> QED
      BY <2>1, <2>2, <3>1, <3>2
  <2>4. x = y <=> \A i \in 1..a : x[i] = y[i]
    BY <2>1, <2>2, <2>3, SeqEqual
  <2>5. IsPrefix(s, t) <=> a <= b /\ x = y
    BY <1>1 DEF IsPrefix, x, y
  <2> QED
    BY <1>2, <2>3, <2>4, <2>5
<1>3. CASE ~(a <= b)
  BY <1>1, <1>3 DEF IsPrefix
<1> QED
  BY <1>2, <1>3

\* What has a longer prefix has a shorter one; prefixes of full length are the measurement.
LEMMA PrefixOfPrefix ==
  ASSUME NEW a \in 1..Bits, NEW q \in [1..a -> {0, 1}], NEW m \in Measurement, NEW x \in Measurement,
         IsPrefix(q, m), IsPrefix(m, x)
  PROVE  IsPrefix(q, x) /\ (a = Bits => q = m)
<1>0. Bits \in Nat /\ a \in Nat /\ \A i \in 1..a : i \in 1..Bits
  BY ParameterAssumption
<1>1. \A i \in 1..a : q[i] = m[i]
  BY <1>0, PrefixIs DEF Measurement
<1>2. \A i \in 1..Bits : m[i] = x[i]
  BY <1>0, PrefixIs DEF Measurement
<1>3. IsPrefix(q, x)
  BY <1>0, <1>1, <1>2, PrefixIs DEF Measurement
<1>4. a = Bits => q = m
  BY <1>1 DEF Measurement
<1> QED
  BY <1>3, <1>4

\* The child of a prefix of a measurement.
LEMMA PrefixGrows ==
  ASSUME NEW a \in 1..Bits - 1, NEW q \in [1..a -> {0, 1}], NEW m \in Measurement, IsPrefix(q, m)
  PROVE  m[a + 1] \in {0, 1} /\ IsPrefix(Append(q, m[a + 1]), m)
<1>0. Bits \in Nat /\ a \in Nat /\ a + 1 \in Nat /\ a + 1 \in 1..Bits /\ a + 1 <= Bits
  BY ParameterAssumption
<1>1. \A i \in 1..a : q[i] = m[i]
  BY <1>0, PrefixIs DEF Measurement
<1>2. m[a + 1] \in {0, 1}
  BY <1>0 DEF Measurement
<1> DEFINE c == Append(q, m[a + 1])
<1>3. c \in [1..a + 1 -> {0, 1}] /\ c[a + 1] = m[a + 1] /\ \A i \in 1..a : c[i] = q[i]
  BY <1>0, <1>2, AppendBit
<1> HIDE DEF c
<1>4. \A i \in 1..a + 1 : c[i] = m[i]
  <2>1. \A i \in 1..a + 1 : i \in 1..a \/ i = a + 1
    BY <1>0
  <2> QED
    BY <1>1, <1>3, <2>1
<1>5. IsPrefix(c, m)
  BY <1>0, <1>3, <1>4, PrefixIs DEF Measurement
<1> QED
  BY <1>2, <1>5 DEF c

LEMMA CountGrows ==
  ASSUME NEW S, NEW U, S \subseteq U, IsFiniteSet(U), NEW q, NEW m,
         \A r \in S : IsPrefix(m, r.measurement) => IsPrefix(q, r.measurement)
  PROVE  CountIn(S, m) <= CountIn(U, q) /\ CountIn(S, m) \in Nat /\ CountIn(U, q) \in Nat
<1> DEFINE A == {r \in S : IsPrefix(m, r.measurement)}
           B == {r \in U : IsPrefix(q, r.measurement)}
<1>1. A \subseteq B /\ B \subseteq U
  OBVIOUS
<1>2. CountIn(S, m) = Cardinality(A) /\ CountIn(U, q) = Cardinality(B)
  BY DEF CountIn
<1> HIDE DEF A, B
<1>3. IsFiniteSet(B) /\ IsFiniteSet(A)
  BY <1>1, FS_Subset
<1> QED
  BY <1>1, <1>2, <1>3, FS_Subset, FS_CardinalityType

\* The candidates of one level cover what enough of the reports in S have measured.
Heavy(S, m) == CountIn(S, m) >= Threshold
OneLevel(prefixes, a) == \A i \in DOMAIN prefixes : prefixes[i] \in [1..a -> {0, 1}]
CoversHeavy(S, prefixes) ==
    \A m \in Measurement : Heavy(S, m) => \E i \in DOMAIN prefixes : IsPrefix(prefixes[i], m)
Covers(S, prefixes) == \E a \in 1..Bits : OneLevel(prefixes, a) /\ CoversHeavy(S, prefixes)

\* A prefix of a heavy measurement is frequent.
LEMMA PrefixIsFrequent ==
  ASSUME NEW S, NEW U, S \subseteq U, IsFiniteSet(U), \A r \in U : r.measurement \in Measurement,
         NEW a \in 1..Bits, NEW q \in [1..a -> {0, 1}], NEW m \in Measurement, Heavy(S, m), IsPrefix(q, m)
  PROVE  CountIn(U, q) >= Threshold
<1>1. \A r \in S : IsPrefix(m, r.measurement) => IsPrefix(q, r.measurement)
  BY PrefixOfPrefix
<1>2. CountIn(S, m) <= CountIn(U, q) /\ CountIn(S, m) \in Nat /\ CountIn(U, q) \in Nat
  BY <1>1, CountGrows
<1> QED
  BY <1>2, ThresholdAssumption DEF Heavy

\* One level of the search loses no candidate.
LEMMA SearchLevel ==
  ASSUME NEW S, NEW U, S \subseteq U, IsFiniteSet(U), \A r \in U : r.measurement \in Measurement,
         NEW prefixes, NEW n \in Nat \ {0}, prefixes \in Seq(Prefix), Len(prefixes) = n, Covers(S, prefixes),
         NEW counts, \A i \in 1..n : counts[i] = CountIn(U, prefixes[i])
  PROVE  /\ IsLeaf(prefixes) => \A m \in Measurement : Heavy(S, m) =>
                \E i \in DOMAIN prefixes : prefixes[i] = m /\ counts[i] >= Threshold
         /\ ~IsLeaf(prefixes) => Covers(S, next_prefixes(prefixes, counts))
<1> DEFINE next == next_prefixes(prefixes, counts)
<1>0. DOMAIN prefixes = 1..n /\ 1 \in 1..n /\ Bits \in Nat \ {0}
  BY ParameterAssumption
<1>1. PICK a \in 1..Bits : OneLevel(prefixes, a) /\ CoversHeavy(S, prefixes)
  BY DEF Covers
<1>2. IsLeaf(prefixes) <=> a = Bits
  <2>1. prefixes[1] \in [1..a -> {0, 1}]
    BY <1>0, <1>1 DEF OneLevel
  <2>2. Len(prefixes[1]) = a
    BY <1>0, <2>1
  <2> QED
    BY <1>0, <2>2 DEF IsLeaf, Level
<1>3. ASSUME NEW m \in Measurement, Heavy(S, m)
      PROVE  \E i \in 1..n : /\ IsPrefix(prefixes[i], m) /\ counts[i] >= Threshold
                             /\ prefixes[i] \in [1..a -> {0, 1}]
  <2>1. PICK i \in 1..n : IsPrefix(prefixes[i], m)
    BY <1>0, <1>1, <1>3 DEF CoversHeavy
  <2>2. prefixes[i] \in [1..a -> {0, 1}]
    BY <1>0, <1>1 DEF OneLevel
  <2>3. CountIn(U, prefixes[i]) >= Threshold
    BY <1>3, <2>1, <2>2, PrefixIsFrequent
  <2> QED
    BY <2>1, <2>2, <2>3
<1>4. ASSUME a = Bits, NEW m \in Measurement, Heavy(S, m)
      PROVE  \E i \in 1..n : prefixes[i] = m /\ counts[i] >= Threshold
  <2>1. PICK i \in 1..n : /\ IsPrefix(prefixes[i], m) /\ counts[i] >= Threshold
                          /\ prefixes[i] \in [1..a -> {0, 1}]
    BY <1>3, <1>4
  <2>2. IsPrefix(m, m)
    BY <1>0, PrefixIs DEF Measurement
  <2>3. prefixes[i] = m
    BY <1>4, <2>1, <2>2, PrefixOfPrefix
  <2> QED
    BY <2>1, <2>3
<1>5. ASSUME a # Bits
      PROVE  Covers(S, next)
  <2>1. a \in 1..Bits - 1 /\ a + 1 \in 1..Bits /\ a \in Nat
    BY <1>0, <1>5
  <2>2. next \in Seq(Children(prefixes)) /\ HasChildren(prefixes, counts, next, n)
    BY <1>0, NextPrefixes
  <2> HIDE DEF next
  <2>3. DOMAIN next = 1..Len(next) /\ \A j \in 1..Len(next) : next[j] \in Children(prefixes)
    BY <2>2
  <2>4. ASSUME NEW j \in DOMAIN next
        PROVE  next[j] \in [1..a + 1 -> {0, 1}]
    <3>1. next[j] \in Children(prefixes)
      BY <2>3
    <3>2. PICK i \in DOMAIN prefixes, b \in {0, 1} : next[j] = Child(prefixes, i, b)
      BY <3>1 DEF Children
    <3> DEFINE q == prefixes[i]
    <3>3. q \in [1..a -> {0, 1}]
      BY <1>1 DEF OneLevel
    <3>4. next[j] = Append(q, b)
      BY <3>2 DEF Child
    <3> HIDE DEF q
    <3>5. Append(q, b) \in [1..a + 1 -> {0, 1}]
      BY <2>1, <3>3, AppendBit
    <3> QED
      BY <3>4, <3>5
  <2>5. ASSUME NEW m \in Measurement, Heavy(S, m)
        PROVE  \E j \in DOMAIN next : IsPrefix(next[j], m)
    <3>1. PICK i \in 1..n : /\ IsPrefix(prefixes[i], m) /\ counts[i] >= Threshold
                            /\ prefixes[i] \in [1..a -> {0, 1}]
      BY <1>3, <2>5
    <3>2. m[a + 1] \in {0, 1} /\ IsPrefix(Append(prefixes[i], m[a + 1]), m)
      BY <2>1, <3>1, PrefixGrows
    <3>3. PICK j \in 1..Len(next) : next[j] = Append(prefixes[i], m[a + 1])
      BY <2>2, <3>1, <3>2 DEF HasChildren, Child
    <3> QED
      BY <2>3, <3>2, <3>3
  <2>6. OneLevel(next, a + 1) /\ CoversHeavy(S, next)
    BY <2>4, <2>5 DEF OneLevel, CoversHeavy
  <2> QED
    BY <2>1, <2>6 DEF Covers
<1> QED
  BY <1>0, <1>2, <1>4, <1>5

\* The search begins with the prefixes of length one and goes on with the children of the
\* frequent ones, if there are any.
SearchContract ==
    /\ \A batch \in Batches : batch.param.prefixes = <<<<0>>, <<1>>>>
    /\ \A p \in Params : \A counts \in [1..Len(p.prefixes) -> F] :
          next_param(p, counts) =
              IF IsLeaf(p.prefixes) \/ next_prefixes(p.prefixes, counts) = <<>> THEN <<>>
              ELSE <<[prefixes |-> next_prefixes(p.prefixes, counts)]>>

Honest == {r \in reports : ~r.cheats}

\* What the search ends with.
Finds(c) ==
    LET prefixes == c.param.prefixes
        found == {prefixes[i] : i \in {j \in DOMAIN prefixes :
                      IsLeaf(prefixes) /\ c.res.result[j] >= Threshold}}
    IN  /\ \A m \in Measurement : Heavy(Honest, m) => m \in found
        /\ \A m \in found : CountIn(reports, m) >= Threshold

SInv ==
    /\ CInv
    /\ param # <<>> => Covers(Honest, param[1].prefixes)
    /\ param = <<>> => collected # <<>> /\ Finds(collected[Len(collected)])

LEMMA SearchInit ==
  ASSUME VdafContract, SearchContract, Init
  PROVE  SInv
<1>1. PICK batch \in Batches : reports = batch.reports /\ param = <<batch.param>>
  BY DEF Init
<1> DEFINE q == <<<<0>>, <<1>>>>
<1>2. param # <<>> /\ param[1].prefixes = q
  BY <1>1 DEF SearchContract
<1>3. DOMAIN q = {1, 2} /\ q[1] \in [1..1 -> {0, 1}] /\ q[2] \in [1..1 -> {0, 1}] /\ q[1][1] = 0 /\ q[2][1] = 1
  OBVIOUS
<1> HIDE DEF q
<1>4. 1 \in 1..Bits /\ 1 \in Nat /\ Bits \in Nat /\ 1 <= Bits
  BY ParameterAssumption
<1>5. OneLevel(q, 1)
  BY <1>3 DEF OneLevel
<1>6. ASSUME NEW m \in Measurement
      PROVE  \E i \in DOMAIN q : IsPrefix(q[i], m)
  <2>0. m \in [1..Bits -> {0, 1}]
    BY DEF Measurement
  <2>1. m[1] \in {0, 1} /\ 1..1 = {1}
    BY <1>4, <2>0
  <2>2. CASE m[1] = 0
    <3>1. \A i \in 1..1 : q[1][i] = m[i]
      BY <1>3, <2>1, <2>2
    <3>2. IsPrefix(q[1], m)
      BY <1>3, <1>4, <2>0, <3>1, PrefixIs
    <3> QED
      BY <1>3, <3>2
  <2>3. CASE m[1] = 1
    <3>1. \A i \in 1..1 : q[2][i] = m[i]
      BY <1>3, <2>1, <2>3
    <3>2. IsPrefix(q[2], m)
      BY <1>3, <1>4, <2>0, <3>1, PrefixIs
    <3> QED
      BY <1>3, <3>2
  <2> QED
    BY <2>1, <2>2, <2>3
<1>7. Covers(Honest, q)
  BY <1>4, <1>5, <1>6 DEF Covers, CoversHeavy
<1> QED
  BY <1>2, <1>7, CountInit DEF SInv

\* Every honest report is accepted, and what is accepted was sent.
LEMMA HonestAccepted ==
  ASSUME VdafContract, CountContract, InBatch, OutsPrepared, NEW p \in Params, Running(p)
  PROVE  /\ Honest \subseteq DOMAIN outs /\ DOMAIN outs \subseteq reports /\ IsFiniteSet(reports)
         /\ \A r \in reports : r.measurement \in Measurement
<1>1. PICK batch \in Batches : reports = batch.reports
  BY DEF InBatch
<1>2. IsFiniteSet(reports)
  BY <1>1 DEF VdafContract, ParamContract
<1>3. \A r \in reports : r.measurement \in Measurement /\ CountsOnce(p, r)
  BY <1>1 DEF CountContract, Measurement
<1>4. outs = PreparedFor(p, reports)
  BY DEF OutsPrepared, Running
<1>5. DOMAIN outs = {r \in reports : vdaf_prepare(p, r) # <<>>}
  BY <1>4, OutsArePrepared
<1> QED
  BY <1>2, <1>3, <1>5 DEF Honest, CountsOnce

\* What the collector does with the result.
LEMMA CollectGoesOn ==
  ASSUME Collect
  PROVE  \E e : /\ collected' = Append(collected, e)
                /\ param' = IF e.res.ok THEN next_param(param[1], e.res.result) ELSE <<>>
<1> DEFINE res == vdaf_unshard(param[1], [i \in 1..Cardinality(Aggregators) |-> agg_share(i - 1).share],
                               Cardinality(DOMAIN outs))
           e == [param |-> param[1], accepted |-> DOMAIN outs, res |-> res]
<1>1. /\ collected' = Append(collected, e)
      /\ param' = IF res.ok THEN next_param(param[1], res.result) ELSE <<>>
  BY DEF Collect
<1> HIDE DEF res
<1>2. e.res = res
  OBVIOUS
<1> HIDE DEF e
<1> QED
  BY <1>1, <1>2

\* The end of the search.
LEMMA SearchEnds ==
  ASSUME NEW c, NEW U, Honest \subseteq U, U \subseteq reports, IsFiniteSet(reports),
         NEW prefixes, c.param.prefixes = prefixes,
         \A i \in DOMAIN prefixes : c.res.result[i] = CountIn(U, prefixes[i]),
         \A m \in Measurement : Heavy(Honest, m) =>
            IsLeaf(prefixes) /\ \E i \in DOMAIN prefixes : prefixes[i] = m /\ c.res.result[i] >= Threshold
  PROVE  Finds(c)
<1> DEFINE found == {prefixes[i] : i \in {j \in DOMAIN prefixes :
                        IsLeaf(prefixes) /\ c.res.result[j] >= Threshold}}
<1>1. \A m \in Measurement : Heavy(Honest, m) => m \in found
  OBVIOUS
<1>2. ASSUME NEW m \in found
      PROVE  CountIn(reports, m) >= Threshold
  <2>1. PICK i \in DOMAIN prefixes : m = prefixes[i] /\ c.res.result[i] >= Threshold
    BY <1>2
  <2>2. CountIn(U, m) >= Threshold
    BY <2>1
  <2>3. CountIn(U, m) <= CountIn(reports, m) /\ CountIn(U, m) \in Nat /\ CountIn(reports, m) \in Nat
    BY CountGrows
  <2> QED
    BY <2>2, <2>3, ThresholdAssumption
<1> QED
  BY <1>1, <1>2 DEF Finds

LEMMA SearchCollect ==
  ASSUME VdafContract, IsPoplar1, CountContract, UnshardContract, SearchContract, SInv, Collect, CInv'
  PROVE  SInv'
<1>1. reports' = reports /\ param # <<>> /\ InBatch /\ OutsPrepared
  BY CollectPrepares DEF SInv, CInv, IInv
<1>2. PICK p \in Params : Running(p)
  BY <1>1 DEF SInv, CInv, IInv, Running
<1> DEFINE prefixes == p.prefixes
           n == Len(prefixes)
           U == DOMAIN outs
<1>3. PICK c : /\ collected' = Append(collected, c) /\ Exact(c) /\ c.param = p /\ c.accepted = U
               /\ c.res.result \in [1..n -> F]
  BY <1>1, <1>2, CollectCounts
<1>4. PICK e : /\ collected' = Append(collected, e)
               /\ param' = IF e.res.ok THEN next_param(param[1], e.res.result) ELSE <<>>
  BY CollectGoesOn
<1>5. collected' # <<>> /\ collected'[Len(collected')] = c /\ e = c
  <2>1. PICK S : collected \in Seq(S)
    BY DEF SInv, CInv, AllExact
  <2>2. /\ Len(collected') = Len(collected) + 1 /\ Len(collected) \in Nat
        /\ collected'[Len(collected) + 1] = c
    BY <1>3, <2>1, AppendOne
  <2>3. collected'[Len(collected) + 1] = e
    BY <1>4, <2>1, AppendOne
  <2>4. Len(<<>>) = 0
    OBVIOUS
  <2> QED
    BY <2>2, <2>3, <2>4
<1> DEFINE counts == c.res.result
           next == next_prefixes(prefixes, counts)
<1>6. param' = IF IsLeaf(prefixes) \/ next = <<>> THEN <<>> ELSE <<[prefixes |-> next]>>
  <2>1. c.res.ok /\ param[1] = p
    BY <1>2, <1>3 DEF Exact, Running
  <2>2. param' = next_param(p, counts)
    BY <1>4, <1>5, <2>1
  <2> QED
    BY <1>3, <2>2 DEF SearchContract
<1>7. /\ Honest \subseteq U /\ U \subseteq reports /\ IsFiniteSet(reports) /\ IsFiniteSet(U)
      /\ \A r \in U : r.measurement \in Measurement
  <2>1. /\ Honest \subseteq U /\ U \subseteq reports /\ IsFiniteSet(reports)
        /\ \A r \in reports : r.measurement \in Measurement
    BY <1>1, <1>2, HonestAccepted
  <2>2. IsFiniteSet(U)
    BY <2>1, FS_Subset
  <2> QED
    BY <2>1, <2>2
<1>8. prefixes \in Seq(Prefix) /\ n \in Nat \ {0} /\ DOMAIN prefixes = 1..n
  <2>1. prefixes \in Seq(Prefix) /\ prefixes # <<>>
    BY DEF IsPoplar1
  <2> HIDE DEF prefixes
  <2> QED
    BY <2>1
<1>9. \A i \in 1..n : counts[i] = CountIn(U, prefixes[i])
  BY <1>3, <1>8 DEF Exact
<1>10. Covers(Honest, prefixes)
  BY <1>1, <1>2 DEF SInv, Running
<1>11. Honest' = Honest
  BY <1>1 DEF Honest
<1> HIDE DEF prefixes, n, U, counts, next
<1>12. /\ IsLeaf(prefixes) => \A m \in Measurement : Heavy(Honest, m) =>
            \E i \in DOMAIN prefixes : prefixes[i] = m /\ counts[i] >= Threshold
       /\ ~IsLeaf(prefixes) => Covers(Honest, next)
  <2>1. Len(prefixes) = n
    BY DEF n
  <2> QED
    BY <1>7, <1>8, <1>9, <1>10, <2>1, SearchLevel DEF next
<1>13. ASSUME param' # <<>>
       PROVE  Covers(Honest, param'[1].prefixes)
  BY <1>6, <1>12, <1>13
<1>14. ASSUME param' = <<>>
       PROVE  Finds(c)
  <2>1. ASSUME NEW m \in Measurement, Heavy(Honest, m)
        PROVE  IsLeaf(prefixes) /\ \E i \in DOMAIN prefixes : prefixes[i] = m /\ counts[i] >= Threshold
    <3>1. CASE IsLeaf(prefixes)
      BY <1>12, <2>1, <3>1
    <3>2. CASE ~IsLeaf(prefixes)
      <4>1. next = <<>>
        BY <1>6, <1>14, <3>2
      <4>2. CoversHeavy(Honest, next)
        BY <1>12, <3>2 DEF Covers
      <4>3. DOMAIN next = {}
        BY <4>1
      <4> QED
        BY <2>1, <4>2, <4>3 DEF CoversHeavy
    <3> QED
      BY <3>1, <3>2
  <2>2. c.param.prefixes = prefixes
    BY <1>3 DEF prefixes
  <2>3. \A i \in DOMAIN prefixes : c.res.result[i] = CountIn(U, prefixes[i])
    BY <1>8, <1>9 DEF counts
  <2>4. \A m \in Measurement : Heavy(Honest, m) =>
            IsLeaf(prefixes) /\ \E i \in DOMAIN prefixes : prefixes[i] = m /\ c.res.result[i] >= Threshold
    BY <2>1 DEF counts
  <2> QED
    BY <1>7, <2>2, <2>3, <2>4, SearchEnds
<1>15. Finds(c)' <=> Finds(c)
  BY <1>1 DEF Finds, Honest, CountIn
<1> QED
  BY <1>5, <1>11, <1>13, <1>14, <1>15 DEF SInv

LEMMA SearchNext ==
  ASSUME VdafContract, IsPoplar1, CountContract, UnshardContract, SearchContract, SInv, [Next]_vars
  PROVE  SInv'
<1>1. CInv'
  BY CountNext DEF SInv
<1>2. CASE Collect
  BY <1>1, <1>2, SearchCollect
<1>3. CASE ~Collect
  <2>1. UNCHANGED <<reports, param, outs, collected>>
    BY <1>3, OnlyCollect
  <2> QED
    BY <1>1, <2>1 DEF SInv, Honest, Finds
<1> QED
  BY <1>2, <1>3

LEMMA SearchFinds ==
  ASSUME SInv
  PROVE  FindsHeavyHitters
<1> SUFFICES ASSUME param = <<>>, HoldsPrefixes(collected[1].param)
             PROVE  FindsHeavyHitters
  BY DEF FindsHeavyHitters
<1>1. Finds(collected[Len(collected)])
  BY DEF SInv
<1> QED
  BY <1>1 DEF FindsHeavyHitters, Finds, Honest, Heavy, Measurement

-----------------------------------------------------------------------------
(* The theorems.                                                           *)

\* Aggregation in steps is aggregation at once: for every VDAF that keeps the contract, any
\* number of aggregators, of reports and of partial shares, and any sequence of parameters, the
\* partial shares of an aggregator add up to what Aggregator::aggregate makes of the output
\* shares that it has accumulated (Aggregatable::accumulate and merge of src/vdaf.rs).
THEOREM StepwiseIsOneShot ==
  ASSUME VdafContract
  PROVE  Spec => []StepsAreOneShot
<1>1. Init => IInv
  BY InitInv
<1>2. IInv /\ [Next]_vars => IInv'
  BY NextInv
<1>3. IInv => StepsAreOneShot
  BY InvOneShot
<1> QED
  BY <1>1, <1>2, <1>3, PTL DEF Spec

\* The collector obtains the result of the accepted reports in the clear: whenever a result is
\* collected (Collector::unshard of src/vdaf.rs), it is the one that the sums of the output
\* shares of the accepted reports give, whatever the aggregators did on the way to it.
THEOREM ResultIsOfTheOutputs ==
  ASSUME VdafContract, UnshardContract
  PROVE  Spec => [][collected' # collected => CollectsOutputs]_vars
<1>1. Init => IInv
  BY InitInv
<1>2. IInv /\ [Next]_vars => IInv'
  BY NextInv
<1>3. ASSUME IInv, [Next]_vars
      PROVE  [collected' # collected => CollectsOutputs]_vars
  <2> SUFFICES ASSUME collected' # collected
               PROVE  CollectsOutputs
    OBVIOUS
  <2>1. Next
    BY <1>3 DEF vars
  <2>2. Collect
    BY <2>1 DEF Next, Accumulate, AccumulateLate, Merge, Reload
  <2>3. param # <<>> /\ InBatch
    BY <1>3, <2>2 DEF Collect, IInv
  <2>4. PICK p \in Params : Running(p)
    BY <1>3, <2>3 DEF IInv, Running
  <2> QED
    BY <2>2, <2>3, <2>4, CollectCollects
<1> QED
  BY <1>1, <1>2, <1>3, PTL DEF Spec

\* What the contract asks of sums, of shares of another shape and of the collector is what
\* Poplar1 does (src/vdaf/poplar1.rs: Poplar1FieldVec, Aggregator::aggregate and
\* Collector::unshard): aggregation in steps, at every level of the tree, is aggregation at
\* once, and a share of the other field or of another number of prefixes is refused.
THEOREM Poplar1KeepsTheContract ==
  ASSUME IsPoplar1
  PROVE  SumContract /\ ShapeContract /\ UnshardContract
<1>1. ASSUME NEW p \in Params
      PROVE  /\ IsAddition(AggShare(p), zero_share(p), vdaf_merge)
             /\ IsSummation(AggShare(p), zero_share(p), vdaf_merge, LAMBDA s : vdaf_aggregate(p, s))
  <2> DEFINE prefixes == p.prefixes
             T == AggShare(p)
             none == zero_share(p)
  <2>1. prefixes \in Seq(Prefix) /\ Len(prefixes) \in Nat /\ T = Poplar1Share(prefixes)
    BY DEF IsPoplar1
  <2>2. \A s \in Seq(T) : vdaf_aggregate(p, s) = aggregate(prefixes, s)
    BY DEF IsPoplar1
  <2>3. \A x, y \in T : vdaf_merge(x, y) = accumulate(x, y)
    BY DEF IsPoplar1
  <2> HIDE DEF T, prefixes
  <2>4. /\ aggregate(prefixes, <<>>) = [ok |-> TRUE, share |-> zero_vec(prefixes)]
        /\ \A s \in Seq(T) :
              /\ aggregate(prefixes, s).share \in T
              /\ \A x \in T : aggregate(prefixes, Append(s, x)) = accumulate(aggregate(prefixes, s).share, x)
    BY <2>1, Poplar1Aggregates
  <2>5. none = zero_vec(prefixes) /\ vdaf_aggregate(p, <<>>) = [ok |-> TRUE, share |-> none]
    <3>1. <<>> \in Seq(T)
      OBVIOUS
    <3>2. vdaf_aggregate(p, <<>>) = [ok |-> TRUE, share |-> zero_vec(prefixes)]
      BY <2>2, <2>4, <3>1
    <3> QED
      BY <3>2 DEF zero_share
  <2> HIDE DEF none
  <2>6. /\ none \in T
        /\ \A x, y \in T : \E z \in T : accumulate(x, y) = [ok |-> TRUE, share |-> z]
        /\ \A x, y \in T : accumulate(x, y) = accumulate(y, x)
        /\ \A x, y, z \in T : accumulate(accumulate(x, y).share, z).share = accumulate(x, accumulate(y, z).share).share
        /\ \A x \in T : accumulate(x, none).share = x
    BY <2>1, <2>5, Poplar1Adds DEF IsAddition
  <2>7. \A x, y \in T : accumulate(x, y).share \in T
    BY <2>6
  <2>8. \A x, y, z \in T : vdaf_merge(vdaf_merge(x, y).share, z).share = vdaf_merge(x, vdaf_merge(y, z).share).share
    <3> SUFFICES ASSUME NEW x \in T, NEW y \in T, NEW z \in T
                 PROVE  vdaf_merge(vdaf_merge(x, y).share, z).share = vdaf_merge(x, vdaf_merge(y, z).share).share
      OBVIOUS
    <3> DEFINE u == accumulate(x, y).share
               v == accumulate(y, z).share
    <3>1. u \in T /\ v \in T /\ accumulate(u, z).share = accumulate(x, v).share
      BY <2>6, <2>7
    <3>2. vdaf_merge(x, y).share = u /\ vdaf_merge(y, z).share = v
      BY <2>3
    <3> HIDE DEF u, v
    <3>3. vdaf_merge(u, z) = accumulate(u, z) /\ vdaf_merge(x, v) = accumulate(x, v)
      BY <2>3, <3>1
    <3> QED
      BY <3>1, <3>2, <3>3
  <2>9. IsAddition(T, none, vdaf_merge)
    BY <2>3, <2>6, <2>8 DEF IsAddition
  <2>10. ASSUME NEW s \in Seq(T), NEW x \in T
         PROVE  vdaf_aggregate(p, Append(s, x)) = vdaf_merge(vdaf_aggregate(p, s).share, x)
    <3>1. Append(s, x) \in Seq(T)
      OBVIOUS
    <3> QED
      BY <2>2, <2>3, <2>4, <3>1
  <2>11. IsSummation(T, none, vdaf_merge, LAMBDA s : vdaf_aggregate(p, s))
    BY <2>5, <2>10 DEF IsSummation
  <2> QED
    BY <2>9, <2>11 DEF T, none
<1>2. SumContract
  BY <1>1 DEF SumContract
<1>3. ASSUME NEW p \in Params, NEW q \in Params, NEW x \in AggShare(p), NEW y \in AggShare(q), ~SameShape(y, x)
      PROVE  ~vdaf_merge(x, y).ok
  <2>1. ~(y.kind = x.kind /\ Len(y.elems) = Len(x.elems))
    BY <1>3 DEF IsPoplar1
  <2>2. vdaf_merge(x, y) = accumulate(x, y)
    BY DEF IsPoplar1
  <2>3. accumulate(x, y) = [ok |-> FALSE]
    BY <2>1 DEF accumulate
  <2> QED
    BY <2>2, <2>3
<1>4. ShapeContract
  BY <1>3 DEF ShapeContract
<1>5. ASSUME NEW p \in Params, NEW x \in Seq(AggShare(p)), NEW y \in Seq(AggShare(p)), NEW n \in Nat,
             vdaf_aggregate(p, x) = vdaf_aggregate(p, y)
      PROVE  vdaf_unshard(p, x, n) = vdaf_unshard(p, y, n)
  <2> DEFINE prefixes == p.prefixes
  <2>1. aggregate(prefixes, x) = aggregate(prefixes, y)
    BY <1>5 DEF IsPoplar1
  <2>2. vdaf_unshard(p, x, n) = unshard(prefixes, x) /\ vdaf_unshard(p, y, n) = unshard(prefixes, y)
    BY DEF IsPoplar1
  <2> HIDE DEF prefixes
  <2>3. unshard(prefixes, x) = unshard(prefixes, y)
    BY <2>1 DEF unshard
  <2> QED
    BY <2>2, <2>3
<1>6. UnshardContract
  BY <1>5 DEF UnshardContract
<1> QED
  BY <1>2, <1>4, <1>6

\* The counts of the heavy-hitters search are exact (src/vdaf/poplar1.rs: Collector::unshard),
\* if preparation lets a report count once only (CountContract): at every level, for any number
\* of reports below the modulus, whatever the order of accumulation, the merging of partial
\* shares and the late shares of the level before, the collector obtains for each candidate
\* prefix how many accepted reports have it.
THEOREM CollectorCounts ==
  ASSUME IsPoplar1, CountContract, CodecContract, PrepareContract, ParamContract, PartialsContract
  PROVE  Spec => []CountsAreExact
<1>0. VdafContract /\ UnshardContract
  BY Poplar1KeepsTheContract DEF VdafContract
<1>1. Init => CInv
  BY <1>0, CountInit
<1>2. CInv /\ [Next]_vars => CInv'
  BY <1>0, CountNext
<1>3. CInv => CountsAreExact
  BY CountsFromExact
<1> QED
  BY <1>1, <1>2, <1>3, PTL DEF Spec

\* The search finds the heavy hitters (run_heavy_hitters of src/vdaf/poplar1.rs), for
\* measurements of any length, any threshold and any number of reports below the modulus: it
\* ends with every measurement that at least Threshold honest clients sent and with none that
\* fewer clients sent, whatever the aggregators did on the way and although cheating clients
\* may be accepted at one level and refused at another.  Accepted reports count once
\* (CountContract), and the next candidates reach the aggregators as they were computed
\* (SearchContract).
THEOREM SearchIsComplete ==
  ASSUME IsPoplar1, CountContract, SearchContract,
         CodecContract, PrepareContract, ParamContract, PartialsContract
  PROVE  Spec => []FindsHeavyHitters
<1>0. VdafContract /\ UnshardContract
  BY Poplar1KeepsTheContract DEF VdafContract
<1>1. Init => SInv
  BY <1>0, SearchInit
<1>2. SInv /\ [Next]_vars => SInv'
  BY <1>0, SearchNext
<1>3. SInv => FindsHeavyHitters
  BY SearchFinds
<1> QED
  BY <1>1, <1>2, <1>3, PTL DEF Spec
=============================================================================
