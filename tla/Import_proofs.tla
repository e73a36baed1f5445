---------------------------- MODULE Import_proofs ----------------------------
(***************************************************************************)
(* What the modules BulkWriteBatches and Import say of the split of a      *)
(* write, of an import and of its undo, for any file, any links and any    *)
(* number of failures and of changes by others.                            *)
(*                                                                         *)
(* The split is the result of a recursive function.  Induction over the    *)
(* number of documents (SetInduction) shows what holds after each of them. *)
(*                                                                         *)
(* The invariant of an import, ImportInv, says what has been sent          *)
(* (Sending): requests have no record in common, so what has no result     *)
(* yet is not stored.  What is known to be stored is what the history      *)
(* lists (Recorded), and an undo has the parts of that entry (Parts).      *)
(* Whatever was read has a later revision by now, or is unchanged (Read).  *)
(* Without failures and interference (Clean) it also follows each record   *)
(* and link from the import to its part of the undo.                       *)
(***************************************************************************)
EXTENDS Import, SequenceTheorems, FiniteSetTheorems, TLAPS

-----------------------------------------------------------------------------
(***************************************************************************)
(* Recursion                                                               *)
(***************************************************************************)

\* Induction over a set of numbers: were n the least number outside, the numbers up
\* to n outside would be as many as those without n, which precede them.
LEMMA SetInduction ==
  ASSUME NEW T, 0 \in T, \A n \in Nat : n \in T => n + 1 \in T
  PROVE  Nat \subseteq T
<1> SUFFICES ASSUME NEW n \in Nat, n \notin T PROVE FALSE
  OBVIOUS
<1> DEFINE U == {k \in 0..n : k \notin T}
           pred == [k \in U |-> k - 1]
<1>1. IsFiniteSet(U) /\ Cardinality(U) \in Nat
  <2>1. IsFiniteSet(0..n) /\ U \subseteq 0..n
    BY FS_Interval
  <2> HIDE DEF U
  <2>2. IsFiniteSet(U)
    BY <2>1, FS_Subset
  <2> QED
    BY <2>2, FS_CardinalityType
<1>2. n \in U /\ U \subseteq Nat
  OBVIOUS
<1>3. \A k \in U : k - 1 \in U \ {n}
  <2> SUFFICES ASSUME NEW k \in U PROVE k - 1 \in U \ {n}
    OBVIOUS
  <2>1. k # 0
    OBVIOUS
  <2>2. k - 1 \in Nat /\ (k - 1) + 1 = k
    BY <2>1
  <2>3. k - 1 \notin T
    BY <2>2
  <2> QED
    BY <2>2, <2>3
<1>4. IsFiniteSet(U \ {n}) /\ Cardinality(U \ {n}) = Cardinality(U) - 1
  <2> HIDE DEF U
  <2> QED
    BY <1>1, <1>2, FS_RemoveElement
<1>5. pred \in [U -> U \ {n}]
  BY <1>3
<1> HIDE DEF pred
<1>6. PICK x, y \in U : x # y /\ pred[x] = pred[y]
  <2> HIDE DEF U
  <2> QED
    BY <1>1, <1>4, <1>5, FS_PigeonHole
<1> QED
  BY <1>6, <1>2 DEF pred

\* f does to one number more what step says.
Iterates(f, first, step, m) ==
    f[0] = first /\ \A n \in 1..m : f[n] = step[<<f[n - 1], n>>]

\* There is such a function.
LEMMA Recursion ==
  ASSUME NEW S, NEW first \in S, NEW step \in [S \X Nat -> S], NEW m \in Nat
  PROVE  \E f \in [0..m -> S] : Iterates(f, first, step, m)
<1> DEFINE Holds(f, n) == /\ f \in [0..n -> S] /\ f[0] = first
                          /\ \A k \in 1..n : f[k] = step[<<f[k - 1], k>>]
           T == {n \in Nat : \E f : Holds(f, n)}
<1>1. 0 \in T
  <2> DEFINE f == [n \in 0..0 |-> first]
  <2>1. Holds(f, 0)
    OBVIOUS
  <2> QED
    BY <2>1
<1>2. ASSUME NEW n \in Nat, n \in T PROVE n + 1 \in T
  <2>1. PICK f : Holds(f, n)
    BY <1>2
  <2> DEFINE next == step[<<f[n], n + 1>>]
             g == [k \in 0..(n + 1) |-> IF k <= n THEN f[k] ELSE next]
  <2>2. next \in S
    <3>1. f[n] \in S
      BY <2>1
    <3>2. <<f[n], n + 1>> \in S \X Nat
      BY <3>1
    <3> QED
      BY <3>2
  <2>3. g \in [0..(n + 1) -> S] /\ g[0] = first
    BY <2>1, <2>2
  <2>4. ASSUME NEW k \in 1..(n + 1) PROVE g[k] = step[<<g[k - 1], k>>]
    <3>1. k - 1 \in 0..n /\ g[k - 1] = f[k - 1]
      OBVIOUS
    <3>2. CASE k <= n
      BY <3>1, <3>2, <2>1
    <3>3. CASE k = n + 1
      BY <3>1, <3>3
    <3> QED
      BY <3>2, <3>3
  <2> HIDE DEF g
  <2>5. Holds(g, n + 1)
    BY <2>3, <2>4
  <2> QED
    BY <2>5
<1> HIDE DEF T
<1>3. Nat \subseteq T
  BY <1>1, <1>2, SetInduction
<1> QED
  BY <1>3 DEF T, Iterates

-----------------------------------------------------------------------------
(***************************************************************************)
(* The bytes of a request                                                  *)
(***************************************************************************)

\* How the sum of bytes is built
Sums(f, size, positions) ==
    /\ f \in [0..Len(positions) -> Nat] /\ f[0] = 0
    /\ \A n \in 1..Len(positions) : f[n] = f[n - 1] + size[positions[n]]

\* The bytes of a request are the last of its sums.
LEMMA BytesDoes ==
  ASSUME NEW size \in Seq(Nat), NEW positions \in Seq(1..Len(size))
  PROVE  \E f : Sums(f, size, positions) /\ Bytes(size, positions) = f[Len(positions)]
<1> DEFINE l == Len(positions)
           step == [p \in Nat \X Nat |-> IF p[2] \in 1..l THEN p[1] + size[positions[p[2]]]
                                         ELSE 0]
           Sum(f) == [n \in 0..l |-> IF n = 0 THEN 0 ELSE f[n - 1] + size[positions[n]]]
           sum == CHOOSE f : f = Sum(f)
<1>1. l \in Nat /\ \A n \in 1..l : positions[n] \in 1..Len(size) /\ size[positions[n]] \in Nat
  OBVIOUS
<1>2. Bytes(size, positions) = sum[l]
  BY DEF Bytes
<1>3. step \in [Nat \X Nat -> Nat]
  BY <1>1
<1>4. \A x \in Nat : \A n \in 1..l : step[<<x, n>>] = x + size[positions[n]]
  <2> SUFFICES ASSUME NEW x \in Nat, NEW n \in 1..l
               PROVE  step[<<x, n>>] = x + size[positions[n]]
    OBVIOUS
  <2>1. <<x, n>> \in Nat \X Nat
    BY <1>1
  <2> QED
    BY <2>1
<1> HIDE DEF step, l
<1>5. PICK f \in [0..l -> Nat] : f[0] = 0 /\ \A n \in 1..l : f[n] = step[<<f[n - 1], n>>]
  <2> DEFINE S == Nat
             zero == 0
  <2>1. zero \in S /\ l \in Nat /\ step \in [S \X Nat -> S]
    BY <1>1, <1>3
  <2> HIDE DEF sum, S, zero
  <2>2. \E f \in [0..l -> S] : Iterates(f, zero, step, l)
    BY <2>1, Recursion
  <2> QED
    BY <2>2 DEF S, zero, Iterates
<1>6. f = Sum(f)
  <2> DEFINE g == Sum(f)
  <2>1. ASSUME NEW n \in 0..l PROVE f[n] = g[n]
    <3>1. CASE n = 0
      BY <3>1, <1>1, <1>5
    <3>2. CASE n # 0
      <4>1. n \in 1..l /\ n - 1 \in 0..l
        BY <3>2, <1>1
      <4>2. f[n] = step[<<f[n - 1], n>>]
        BY <4>1, <1>5
      <4>3. f[n - 1] \in Nat
        BY <4>1
      <4> QED
        BY <3>2, <4>1, <4>2, <4>3, <1>4
    <3> QED
      BY <3>1, <3>2
  <2>2. f = [n \in 0..l |-> f[n]] /\ g = [n \in 0..l |-> g[n]]
    OBVIOUS
  <2> HIDE DEF g
  <2>3. f = g
    BY <2>1, <2>2
  <2> QED
    BY <2>3 DEF g
<1>7. sum = Sum(sum)
  BY <1>6
<1> HIDE DEF sum
<1>8. sum[0] = 0 /\ \A n \in 1..l : sum[n] = sum[n - 1] + size[positions[n]]
  <2> DEFINE g == Sum(sum)
  <2>1. g[0] = 0 /\ \A n \in 1..l : g[n] = sum[n - 1] + size[positions[n]]
    BY <1>1
  <2>2. sum = g
    BY <1>7
  <2> HIDE DEF g
  <2> QED
    BY <2>1, <2>2
<1>9. \A n \in Nat : n <= l => sum[n] \in Nat
  <2> DEFINE T == {n \in Nat : n <= l => sum[n] \in Nat}
  <2>1. 0 \in T
    BY <1>8
  <2>2. ASSUME NEW n \in Nat, n \in T PROVE n + 1 \in T
    <3> SUFFICES ASSUME n + 1 <= l PROVE sum[n + 1] \in Nat
      OBVIOUS
    <3>1. n + 1 \in 1..l /\ sum[n] \in Nat /\ (n + 1) - 1 = n
      BY <2>2, <1>1
    <3>2. sum[n + 1] = sum[n] + size[positions[n + 1]]
      BY <3>1, <1>8
    <3>3. size[positions[n + 1]] \in Nat
      BY <3>1, <1>1
    <3> QED
      BY <3>1, <3>2, <3>3
  <2> HIDE DEF T
  <2>3. Nat \subseteq T
    BY <2>1, <2>2, SetInduction
  <2> QED
    BY <2>3 DEF T
<1>10. sum \in [0..l -> Nat]
  <2>1. sum = [n \in 0..l |-> sum[n]]
    BY <1>7
  <2> QED
    BY <2>1, <1>9
<1> QED
  BY <1>2, <1>8, <1>10 DEF Sums, l

\* There is one such sum.
Begins(p, q) == Len(p) <= Len(q) /\ \A n \in 1..Len(p) : p[n] = q[n]

\* Sums depend on the positions that are added.
LEMMA SumsAgree ==
  ASSUME NEW size, NEW p \in Seq(1..Len(size)), NEW q \in Seq(1..Len(size)), Begins(p, q),
         NEW f, Sums(f, size, p), NEW g, Sums(g, size, q)
  PROVE  f[Len(p)] = g[Len(p)]
<1> DEFINE T == {n \in Nat : n <= Len(p) => f[n] = g[n]}
<1>1. 0 \in T
  BY DEF Sums
<1>2. ASSUME NEW n \in Nat, n \in T PROVE n + 1 \in T
  <2> SUFFICES ASSUME n + 1 <= Len(p) PROVE f[n + 1] = g[n + 1]
    OBVIOUS
  <2>1. n + 1 \in 1..Len(p) /\ n + 1 \in 1..Len(q) /\ (n + 1) - 1 = n /\ f[n] = g[n]
    BY <1>2 DEF Begins
  <2>2. p[n + 1] = q[n + 1]
    BY <2>1 DEF Begins
  <2> QED
    BY <2>1, <2>2 DEF Sums
<1> HIDE DEF T
<1>3. Nat \subseteq T
  BY <1>1, <1>2, SetInduction
<1> QED
  BY <1>3 DEF T

\* A document adds its bytes to those of the request.
LEMMA BytesAppend ==
  ASSUME NEW size \in Seq(Nat), NEW positions \in Seq(1..Len(size)), NEW i \in 1..Len(size)
  PROVE  /\ Bytes(size, positions) \in Nat
         /\ Bytes(size, Append(positions, i)) = Bytes(size, positions) + size[i]
<1> DEFINE more == Append(positions, i)
<1>1. /\ more \in Seq(1..Len(size)) /\ Len(more) = Len(positions) + 1
      /\ more[Len(more)] = i /\ \A n \in 1..Len(positions) : positions[n] = more[n]
      /\ Len(positions) \in Nat
  OBVIOUS
<1> HIDE DEF more
<1>2. PICK f : Sums(f, size, positions) /\ Bytes(size, positions) = f[Len(positions)]
  BY BytesDoes
<1>3. PICK g : Sums(g, size, more) /\ Bytes(size, more) = g[Len(more)]
  BY <1>1, BytesDoes
<1>4. f[Len(positions)] = g[Len(positions)]
  <2>1. Begins(positions, more)
    BY <1>1 DEF Begins
  <2> QED
    BY <1>1, <1>2, <1>3, <2>1, SumsAgree
<1>5. f[Len(positions)] \in Nat
  <2>1. Len(positions) \in 0..Len(positions)
    BY <1>1
  <2> QED
    BY <1>2, <2>1 DEF Sums
<1>6. Len(more) \in 1..Len(more) /\ Len(more) - 1 = Len(positions)
  BY <1>1
<1>7. g[Len(more)] = g[Len(positions)] + size[i]
  BY <1>1, <1>3, <1>6 DEF Sums
<1> QED
  BY <1>2, <1>3, <1>4, <1>5, <1>7 DEF more

\* A request with one document has its bytes.
LEMMA BytesOne ==
  ASSUME NEW size \in Seq(Nat), NEW i \in 1..Len(size)
  PROVE  Bytes(size, <<i>>) = size[i]
<1> DEFINE none == <<>>
<1>1. none \in Seq(1..Len(size)) /\ Append(none, i) = <<i>> /\ Len(none) = 0
  OBVIOUS
<1> HIDE DEF none
<1>2. PICK f : Sums(f, size, none) /\ Bytes(size, none) = f[Len(none)]
  BY <1>1, BytesDoes
<1>3. Bytes(size, none) = 0
  BY <1>1, <1>2 DEF Sums
<1>4. Bytes(size, Append(none, i)) = Bytes(size, none) + size[i]
  BY <1>1, BytesAppend
<1>5. size[i] \in Nat
  OBVIOUS
<1> QED
  BY <1>1, <1>3, <1>4, <1>5

-----------------------------------------------------------------------------
(***************************************************************************)
(* The requests of a write                                                 *)
(***************************************************************************)

\* What a sequence is with one element more
LEMMA AppendDoes ==
  ASSUME NEW S, NEW s \in Seq(S), NEW e \in S
  PROVE  LET t == Append(s, e)
         IN /\ t \in Seq(S) /\ t # <<>> /\ Len(s) \in Nat /\ Len(t) = Len(s) + 1
            /\ t[Len(s) + 1] = e /\ \A k \in 1..Len(s) : t[k] = s[k]
            /\ DOMAIN t = 1..(Len(s) + 1) /\ DOMAIN s = 1..Len(s)
  OBVIOUS

\* So is a sequence with only one.
LEMMA OneDoes ==
  ASSUME NEW S, NEW e \in S
  PROVE  LET t == <<e>>
         IN t \in Seq(S) /\ t # <<>> /\ Len(t) = 1 /\ t[1] = e /\ DOMAIN t = 1..1
  OBVIOUS

Position(size) == 1..Len(size)
Splitting(size) == [requests : Seq(Seq(Position(size))), current : Seq(Position(size)),
                    currentBytes : Nat]

\* The requests that are closed, when n documents have been taken
AreClosed(size, requests, n) ==
    /\ requests \in Seq(Seq(Position(size)))
    /\ \A k \in 1..Len(requests) :
          /\ Lists(requests[k], FirstOf(requests, k)) /\ Fits(size, requests[k])
          /\ ToSet(requests[k]) \subseteq 1..n
    /\ \A k \in 1..(Len(requests) - 1) : IsFull(size, requests[k], requests[k + 1])
    /\ \A k, l \in 1..Len(requests) :
          k # l => ToSet(requests[k]) \cap ToSet(requests[l]) = {}

\* The one that is being filled follows them.
IsCurrent(size, requests, current, n) ==
    /\ current \in Seq(Position(size))
    /\ Lists(current, FirstOf(requests, Len(requests) + 1)) /\ Fits(size, current)
    /\ current[Len(current)] = n /\ ToSet(current) \subseteq 1..n
    /\ requests # <<>> => IsFull(size, requests[Len(requests)], current)
    /\ \A k \in 1..Len(requests) : ToSet(requests[k]) \cap ToSet(current) = {}

\* A request is closed.
LEMMA CloseDoes ==
  ASSUME NEW size \in Seq(Nat), NEW n \in Nat, NEW requests, NEW current,
         AreClosed(size, requests, n), IsCurrent(size, requests, current, n)
  PROVE  LET new == Append(requests, current)
         IN /\ AreClosed(size, new, n) /\ Len(new) = Len(requests) + 1
            /\ new # <<>> /\ new[Len(new)] = current
            /\ FirstOf(new, Len(new) + 1) = n + 1
            /\ \A k \in 1..Len(new) : \A d \in ToSet(new[k]) : d \in 1..n
<1> DEFINE new == Append(requests, current)
           l == Len(requests)
<1>1. requests \in Seq(Seq(Position(size))) /\ current \in Seq(Position(size))
  BY DEF AreClosed, IsCurrent
<1>2. /\ new \in Seq(Seq(Position(size))) /\ new # <<>> /\ l \in Nat /\ Len(new) = l + 1
      /\ new[l + 1] = current /\ \A k \in 1..l : new[k] = requests[k]
  <2> DEFINE S == Seq(Position(size))
  <2>1. requests \in Seq(S) /\ current \in S
    BY <1>1
  <2> HIDE DEF S
  <2>2. /\ new \in Seq(S) /\ new # <<>> /\ l \in Nat /\ Len(new) = l + 1
        /\ new[l + 1] = current /\ \A k \in 1..l : new[k] = requests[k]
    BY <2>1, AppendDoes
  <2> QED
    BY <2>2 DEF S
<1> HIDE DEF new
<1>3. \A k \in 1..(l + 1) : k \in 1..l \/ k = l + 1
  BY <1>2
<1>4. requests = <<>> <=> l = 0
  BY <1>1
<1>5. /\ \A k \in 1..l : /\ Lists(requests[k], FirstOf(requests, k))
                         /\ Fits(size, requests[k]) /\ ToSet(requests[k]) \subseteq 1..n
      /\ \A k \in 1..(l - 1) : IsFull(size, requests[k], requests[k + 1])
      /\ \A k, m \in 1..l : k # m => ToSet(requests[k]) \cap ToSet(requests[m]) = {}
  BY DEF AreClosed
<1>6. /\ Lists(current, FirstOf(requests, l + 1)) /\ Fits(size, current)
      /\ current[Len(current)] = n /\ ToSet(current) \subseteq 1..n
      /\ l # 0 => IsFull(size, requests[l], current)
      /\ \A k \in 1..l : ToSet(requests[k]) \cap ToSet(current) = {}
  BY <1>4 DEF IsCurrent
<1> HIDE DEF l
<1>7. \A k \in 1..(l + 1) : FirstOf(new, k) = FirstOf(requests, k)
  <2> SUFFICES ASSUME NEW k \in 1..(l + 1) PROVE FirstOf(new, k) = FirstOf(requests, k)
    OBVIOUS
  <2>1. k # 1 => k - 1 \in 1..l
    BY <1>2
  <2>2. k # 1 => new[k - 1] = requests[k - 1]
    BY <1>2, <2>1
  <2> QED
    BY <2>2 DEF FirstOf
<1>8. \A k \in 1..(l + 1) : /\ Lists(new[k], FirstOf(new, k))
                            /\ Fits(size, new[k]) /\ ToSet(new[k]) \subseteq 1..n
  BY <1>2, <1>3, <1>5, <1>6, <1>7
<1>9. \A k \in 1..l : IsFull(size, new[k], new[k + 1])
  <2> SUFFICES ASSUME NEW k \in 1..l PROVE IsFull(size, new[k], new[k + 1])
    OBVIOUS
  <2>1. CASE k = l
    BY <1>2, <1>6, <2>1
  <2>2. CASE k # l
    <3>1. k \in 1..(l - 1) /\ k + 1 \in 1..l
      BY <1>2, <2>2
    <3> QED
      BY <1>2, <1>5, <3>1
  <2> QED
    BY <2>1, <2>2
<1>10. \A k, m \in 1..(l + 1) : k # m => ToSet(new[k]) \cap ToSet(new[m]) = {}
  <2> SUFFICES ASSUME NEW k \in 1..(l + 1), NEW m \in 1..(l + 1), k # m
               PROVE  ToSet(new[k]) \cap ToSet(new[m]) = {}
    OBVIOUS
  <2> HIDE DEF ToSet
  <2>1. CASE k \in 1..l /\ m \in 1..l
    BY <1>2, <1>5, <2>1
  <2>2. CASE k = l + 1 /\ m \in 1..l
    BY <1>2, <1>6, <2>2
  <2>3. CASE k \in 1..l /\ m = l + 1
    BY <1>2, <1>6, <2>3
  <2> QED
    BY <1>3, <2>1, <2>2, <2>3
<1>11. (l + 1) - 1 = l /\ (l + 1) + 1 # 1 /\ ((l + 1) + 1) - 1 = l + 1
  BY <1>2
<1>12. AreClosed(size, new, n)
  BY <1>2, <1>8, <1>9, <1>10, <1>11 DEF AreClosed
<1>13. FirstOf(new, Len(new) + 1) = n + 1
  BY <1>2, <1>6, <1>11 DEF FirstOf
<1>14. \A k \in 1..Len(new) : \A d \in ToSet(new[k]) : d \in 1..n
  BY <1>2, <1>8
<1> QED
  BY <1>2, <1>12, <1>13, <1>14 DEF new, l

\* A new request is begun.
LEMMA BeginDoes ==
  ASSUME NEW size \in Seq(Nat), NEW n \in Nat, n + 1 \in Position(size), NEW requests,
         AreClosed(size, requests, n), FirstOf(requests, Len(requests) + 1) = n + 1,
         requests # <<>> => IsFull(size, requests[Len(requests)], <<n + 1>>)
  PROVE  IsCurrent(size, requests, <<n + 1>>, n + 1) /\ AreClosed(size, requests, n + 1)
<1> DEFINE i == n + 1
           one == <<i>>
<1>1. one \in Seq(Position(size)) /\ one # <<>> /\ Len(one) = 1 /\ one[1] = i
      /\ DOMAIN one = 1..1
  BY OneDoes
<1>2. 1..n \subseteq 1..i /\ i \notin 1..n /\ i \in 1..i
  OBVIOUS
<1> HIDE DEF one, i
<1>3. ToSet(one) = {i}
  BY <1>1 DEF ToSet
<1>4. Fits(size, one)
  BY <1>1, LimitsAssumption DEF Fits
<1>5. Lists(one, i)
  BY <1>1 DEF Lists
<1>6. \A k \in 1..Len(requests) : ToSet(requests[k]) \subseteq 1..n
  BY DEF AreClosed
<1>7. \A k \in 1..Len(requests) : ToSet(requests[k]) \cap ToSet(one) = {}
  BY <1>2, <1>3, <1>6
<1>8. AreClosed(size, requests, i)
  BY <1>2 DEF AreClosed
<1>9. ToSet(one) \subseteq 1..i
  BY <1>2, <1>3
<1>10. FirstOf(requests, Len(requests) + 1) = i
  BY DEF i
<1>11. requests # <<>> => IsFull(size, requests[Len(requests)], one)
  BY DEF i, one
<1>12. IsCurrent(size, requests, one, i)
  BY <1>1, <1>4, <1>5, <1>7, <1>9, <1>10, <1>11 DEF IsCurrent
<1> QED
  BY <1>8, <1>12 DEF one, i

\* The request takes one document more.
LEMMA FillDoes ==
  ASSUME NEW size \in Seq(Nat), NEW n \in Nat, n + 1 \in Position(size), NEW requests,
         NEW current, AreClosed(size, requests, n), IsCurrent(size, requests, current, n),
         Len(current) < MaxDocuments, Bytes(size, current) + size[n + 1] <= MaxBytes
  PROVE  /\ IsCurrent(size, requests, Append(current, n + 1), n + 1)
         /\ AreClosed(size, requests, n + 1)
<1> DEFINE i == n + 1
           longer == Append(current, i)
           l == Len(current)
<1>1. /\ current \in Seq(Position(size))
      /\ Lists(current, FirstOf(requests, Len(requests) + 1))
      /\ current[l] = n /\ ToSet(current) \subseteq 1..n
      /\ requests # <<>> => IsFull(size, requests[Len(requests)], current)
      /\ \A k \in 1..Len(requests) : ToSet(requests[k]) \cap ToSet(current) = {}
  BY DEF IsCurrent
<1>2. /\ longer \in Seq(Position(size)) /\ longer # <<>> /\ l \in Nat /\ Len(longer) = l + 1
      /\ longer[l + 1] = i /\ \A k \in 1..l : longer[k] = current[k]
      /\ DOMAIN longer = 1..(l + 1) /\ DOMAIN current = 1..l
  <2>1. current \in Seq(Position(size)) /\ i \in Position(size)
    BY <1>1
  <2> HIDE DEF i
  <2> QED
    BY <2>1, AppendDoes
<1>3. l # 0
  BY <1>1 DEF Lists
<1>4. Bytes(size, longer) = Bytes(size, current) + size[i] /\ Bytes(size, current) \in Nat
  BY <1>1, BytesAppend DEF Position
<1>5. 1..n \subseteq 1..i /\ i \notin 1..n /\ i \in 1..i
  OBVIOUS
<1> HIDE DEF longer, l
<1>6. longer[1] = current[1]
  BY <1>2, <1>3
<1>7. \A j \in 1..l : longer[j + 1] = longer[j] + 1
  <2> SUFFICES ASSUME NEW j \in 1..l PROVE longer[j + 1] = longer[j] + 1
    OBVIOUS
  <2>1. CASE j = l
    BY <1>1, <1>2, <2>1
  <2>2. CASE j # l
    <3>1. j \in 1..(l - 1) /\ j + 1 \in 1..l
      BY <1>2, <2>2
    <3>2. current[j + 1] = current[j] + 1
      BY <1>1, <3>1 DEF Lists, l
    <3> QED
      BY <1>2, <3>1, <3>2
  <2> QED
    BY <2>1, <2>2
<1>8. ToSet(longer) = ToSet(current) \cup {i}
  <2>1. \A j \in 1..(l + 1) : j \in 1..l \/ j = l + 1
    BY <1>2
  <2>2. 1..l \subseteq 1..(l + 1) /\ l + 1 \in 1..(l + 1)
    BY <1>2
  <2> HIDE DEF i
  <2> QED
    BY <1>2, <2>1, <2>2 DEF ToSet
<1>9. Fits(size, longer)
  <2>1. size[i] \in Nat /\ MaxDocuments \in Nat /\ MaxBytes \in Nat
    BY LimitsAssumption DEF Position
  <2>2. Len(longer) <= MaxDocuments
    BY <1>2, <2>1 DEF l
  <2>3. Bytes(size, longer) <= MaxBytes
    BY <1>4
  <2> QED
    BY <2>2, <2>3 DEF Fits
<1>10. (l + 1) - 1 = l
  BY <1>2
<1>11. Lists(longer, FirstOf(requests, Len(requests) + 1))
  BY <1>1, <1>2, <1>6, <1>7, <1>10 DEF Lists
<1>12. requests # <<>> => IsFull(size, requests[Len(requests)], longer)
  BY <1>1, <1>6 DEF IsFull
<1> HIDE DEF i
<1>13. \A k \in 1..Len(requests) : ToSet(requests[k]) \subseteq 1..n
  BY DEF AreClosed
<1>14. \A k \in 1..Len(requests) : ToSet(requests[k]) \cap ToSet(longer) = {}
  BY <1>1, <1>5, <1>8, <1>13
<1>15. ToSet(longer) \subseteq 1..i
  BY <1>1, <1>5, <1>8
<1>16. AreClosed(size, requests, i)
  BY <1>5 DEF AreClosed
<1>17. IsCurrent(size, requests, longer, i)
  BY <1>2, <1>9, <1>11, <1>12, <1>14, <1>15 DEF IsCurrent
<1> QED
  BY <1>16, <1>17 DEF longer, i

\* What the loop keeps: the requests so far list the first n documents.
Split(s, size, n) ==
    /\ s \in Splitting(size)
    /\ AreClosed(size, s.requests, n)
    /\ IF n = 0 THEN s = Start
       ELSE IsCurrent(size, s.requests, s.current, n)
            /\ s.currentBytes = Bytes(size, s.current)

\* The state of the loop has its type.
LEMMA AddTyped ==
  ASSUME NEW size \in Seq(Nat), NEW s \in Splitting(size), NEW i \in Position(size)
  PROVE  Add(s, size, i) \in Splitting(size)
<1> DEFINE S == Seq(Position(size))
           one == <<i>>
           longer == Append(s.current, i)
           requests == Append(s.requests, s.current)
<1>1. s.requests \in Seq(S) /\ s.current \in S /\ s.currentBytes \in Nat
  BY DEF Splitting
<1>2. size[i] \in Nat
  BY DEF Position
<1>3. one \in S
  BY OneDoes
<1>4. longer \in S
  BY <1>1, AppendDoes
<1> HIDE DEF S
<1>5. requests \in Seq(S)
  BY <1>1, AppendDoes
<1> HIDE DEF one, longer, requests
<1>6. Add(s, size, i) = [requests |-> requests, current |-> one, currentBytes |-> size[i]]
      \/ Add(s, size, i) = [s EXCEPT !.current = longer, !.currentBytes = s.currentBytes + size[i]]
  BY DEF Add, one, longer, requests
<1> DEFINE bytes == s.currentBytes + size[i]
<1>7. bytes \in Nat
  BY <1>1, <1>2
<1> HIDE DEF bytes
<1>8. CASE Add(s, size, i) = [requests |-> requests, current |-> one, currentBytes |-> size[i]]
  BY <1>2, <1>3, <1>5, <1>8 DEF Splitting, S
<1>9. CASE Add(s, size, i) = [s EXCEPT !.current = longer, !.currentBytes = bytes]
  BY <1>4, <1>7, <1>9 DEF Splitting, S
<1> QED
  BY <1>6, <1>8, <1>9 DEF bytes

\* One document more
LEMMA AddKeeps ==
  ASSUME NEW size \in Seq(Nat), NEW n \in Nat, n + 1 \in Position(size), NEW s,
         Split(s, size, n)
  PROVE  Split(Add(s, size, n + 1), size, n + 1)
<1> DEFINE i == n + 1
           t == Add(s, size, i)
           one == <<i>>
           longer == Append(s.current, i)
           closed == Append(s.requests, s.current)
<1>1. /\ s \in Splitting(size) /\ AreClosed(size, s.requests, n)
      /\ s.requests \in Seq(Seq(Position(size))) /\ s.current \in Seq(Position(size))
      /\ s.currentBytes \in Nat /\ Len(s.current) \in Nat
      /\ i \in Position(size) /\ i # 0 /\ size[i] \in Nat
  BY DEF Split, Splitting, Position
<1>2. MaxBytes \in Nat /\ MaxDocuments \in Nat
  BY LimitsAssumption
<1>3. t \in Splitting(size)
  BY <1>1, AddTyped
<1>4. s.current # <<>> <=> n # 0
  <2>1. n = 0 => s.current = <<>>
    BY DEF Split, Start
  <2>2. n # 0 => s.current # <<>>
    BY DEF Split, IsCurrent, Lists
  <2> QED
    BY <2>1, <2>2
<1>5. Bytes(size, one) = size[i]
  BY <1>1, BytesOne DEF Position
<1>6. CASE n = 0
  <2>1. s = Start /\ s.requests = <<>> /\ s.current = <<>> /\ s.currentBytes = 0
    BY <1>6 DEF Split, Start
  <2>2. t = [s EXCEPT !.current = longer, !.currentBytes = s.currentBytes + size[i]]
    BY <2>1 DEF Add
  <2>3. longer = one
    BY <2>1
  <2>4. s.currentBytes + size[i] = size[i]
    BY <1>1, <2>1
  <2>5. t.requests = s.requests /\ t.current = one /\ t.currentBytes = size[i]
    BY <1>1, <2>2, <2>3, <2>4 DEF Splitting
  <2>6. FirstOf(s.requests, Len(s.requests) + 1) = i
    BY <1>6, <2>1 DEF FirstOf
  <2>7. IsCurrent(size, s.requests, one, i) /\ AreClosed(size, s.requests, i)
    BY <1>1, <2>1, <2>6, BeginDoes
  <2> HIDE DEF t, one, i
  <2> QED
    BY <1>1, <1>3, <1>5, <2>5, <2>7 DEF Split, i, t
<1>7. CASE n # 0
  <2>1. IsCurrent(size, s.requests, s.current, n) /\ s.currentBytes = Bytes(size, s.current)
    BY <1>7 DEF Split
  <2>2. CASE s.currentBytes + size[i] > MaxBytes \/ Len(s.current) >= MaxDocuments
    <3>1. t = [requests |-> closed, current |-> one, currentBytes |-> size[i]]
      BY <1>4, <1>7, <2>2 DEF Add
    <3>2. t.requests = closed /\ t.current = one /\ t.currentBytes = size[i]
      BY <3>1
    <3>3. /\ AreClosed(size, closed, n) /\ closed # <<>>
          /\ closed[Len(closed)] = s.current
          /\ FirstOf(closed, Len(closed) + 1) = i
      <4> DEFINE front == s.requests
                 last == s.current
      <4>1. /\ closed = Append(front, last)
            /\ AreClosed(size, front, n) /\ IsCurrent(size, front, last, n)
        BY <1>1, <2>1
      <4> HIDE DEF closed, front, last
      <4>2. /\ AreClosed(size, closed, n) /\ closed # <<>>
            /\ closed[Len(closed)] = last
            /\ FirstOf(closed, Len(closed) + 1) = n + 1
        BY <4>1, CloseDoes
      <4> QED
        BY <4>2 DEF last
    <3>4. IsFull(size, s.current, one)
      <4>1. one[1] = i /\ Len(s.current) <= MaxDocuments
        BY <2>1 DEF IsCurrent, Fits
      <4> QED
        BY <1>1, <1>2, <2>1, <2>2, <4>1 DEF IsFull
    <3> HIDE DEF closed
    <3>5. IsCurrent(size, closed, one, i) /\ AreClosed(size, closed, i)
      BY <1>1, <3>3, <3>4, BeginDoes
    <3> HIDE DEF t, one, i
    <3> QED
      BY <1>1, <1>3, <1>5, <3>2, <3>5 DEF Split, i, t
  <2>3. CASE ~(s.currentBytes + size[i] > MaxBytes \/ Len(s.current) >= MaxDocuments)
    <3>1. t = [s EXCEPT !.current = longer, !.currentBytes = s.currentBytes + size[i]]
      BY <2>3 DEF Add
    <3>2. /\ t.requests = s.requests /\ t.current = longer
          /\ t.currentBytes = s.currentBytes + size[i]
      <4> HIDE DEF longer
      <4> DEFINE bytes == s.currentBytes + size[i]
      <4> HIDE DEF bytes
      <4>1. t = [s EXCEPT !.current = longer, !.currentBytes = bytes]
        BY <3>1 DEF bytes
      <4>2. t.requests = s.requests /\ t.current = longer /\ t.currentBytes = bytes
        BY <1>1, <4>1 DEF Splitting
      <4> QED
        BY <4>2 DEF bytes
    <3>3. Len(s.current) < MaxDocuments /\ Bytes(size, s.current) + size[i] <= MaxBytes
      BY <1>1, <1>2, <2>1, <2>3
    <3>4. IsCurrent(size, s.requests, longer, i) /\ AreClosed(size, s.requests, i)
      BY <1>1, <2>1, <3>3, FillDoes
    <3>5. Bytes(size, longer) = Bytes(size, s.current) + size[i]
      BY <1>1, BytesAppend DEF Position
    <3>6. t.currentBytes = Bytes(size, longer)
      BY <2>1, <3>2, <3>5
    <3> HIDE DEF t, longer, i
    <3> QED
      BY <1>1, <1>3, <3>2, <3>4, <3>6 DEF Split, i, t
  <2> QED
    BY <2>2, <2>3
<1> QED
  BY <1>6, <1>7

\* The loop goes through all documents.
LEMMA SplitDoes ==
  ASSUME NEW size \in Seq(Nat)
  PROVE  \E s : Split(s, size, Len(size)) /\ SplitIntoRequests(size) = Closed(s)
<1> DEFINE l == Len(size)
           S == Splitting(size)
           step == [p \in S \X Nat |-> IF p[2] \in 1..l THEN Add(p[1], size, p[2]) ELSE p[1]]
           Loop(f) == [n \in 0..l |-> IF n = 0 THEN Start ELSE Add(f[n - 1], size, n)]
           after == CHOOSE f : f = Loop(f)
<1>1. l \in Nat /\ SplitIntoRequests(size) = Closed(after[l])
  BY DEF SplitIntoRequests
<1>2. Start \in S
  <2>1. \A T : <<>> \in Seq(T)
    OBVIOUS
  <2> QED
    BY <2>1 DEF Start, Splitting
<1>3. \A s \in S : \A n \in 1..l : Add(s, size, n) \in S
  BY AddTyped DEF Position
<1> HIDE DEF S, l
<1>4. step \in [S \X Nat -> S]
  BY <1>3
<1>5. \A s \in S : \A n \in 1..l : step[<<s, n>>] = Add(s, size, n)
  <2> SUFFICES ASSUME NEW s \in S, NEW n \in 1..l PROVE step[<<s, n>>] = Add(s, size, n)
    OBVIOUS
  <2>1. <<s, n>> \in S \X Nat
    BY <1>1
  <2> QED
    BY <2>1
<1> HIDE DEF step
<1>6. PICK f \in [0..l -> S] : Iterates(f, Start, step, l)
  <2> HIDE DEF after
  <2> QED
    BY <1>1, <1>2, <1>4, Recursion
<1>7. f = Loop(f)
  <2> DEFINE g == Loop(f)
  <2>1. ASSUME NEW n \in 0..l PROVE f[n] = g[n]
    <3>1. CASE n = 0
      BY <3>1, <1>1, <1>6 DEF Iterates
    <3>2. CASE n # 0
      <4>1. n \in 1..l /\ n - 1 \in 0..l
        BY <3>2, <1>1
      <4>2. f[n] = step[<<f[n - 1], n>>]
        BY <4>1, <1>6 DEF Iterates
      <4>3. f[n - 1] \in S
        BY <4>1, <1>6
      <4> QED
        BY <3>2, <4>1, <4>2, <4>3, <1>5
    <3> QED
      BY <3>1, <3>2
  <2>2. f = [n \in 0..l |-> f[n]] /\ g = [n \in 0..l |-> g[n]]
    BY <1>6
  <2> HIDE DEF g
  <2>3. f = g
    BY <2>1, <2>2
  <2> QED
    BY <2>3 DEF g
<1>8. after = Loop(after)
  BY <1>7
<1> HIDE DEF after
<1>9. after[0] = Start /\ \A n \in 1..l : after[n] = Add(after[n - 1], size, n)
  <2> DEFINE g == Loop(after)
  <2>1. g[0] = Start /\ \A n \in 1..l : g[n] = Add(after[n - 1], size, n)
    BY <1>1
  <2>2. after = g
    BY <1>8
  <2> HIDE DEF g
  <2> QED
    BY <2>1, <2>2
<1>10. \A n \in Nat : n <= l => Split(after[n], size, n)
  <2> DEFINE T == {n \in Nat : n <= l => Split(after[n], size, n)}
  <2>1. 0 \in T
    <3>1. Start.requests = <<>>
      BY DEF Start
    <3>2. AreClosed(size, <<>>, 0)
      BY DEF AreClosed
    <3>3. Split(Start, size, 0)
      BY <1>2, <3>1, <3>2 DEF Split, S
    <3> QED
      BY <1>9, <3>3
  <2>2. ASSUME NEW n \in Nat, n \in T PROVE n + 1 \in T
    <3> SUFFICES ASSUME n + 1 <= l PROVE Split(after[n + 1], size, n + 1)
      OBVIOUS
    <3>1. n + 1 \in 1..l /\ (n + 1) - 1 = n /\ Split(after[n], size, n)
      BY <2>2, <1>1
    <3>2. after[n + 1] = Add(after[n], size, n + 1)
      BY <1>9, <3>1
    <3>3. n + 1 \in Position(size)
      BY <3>1 DEF Position, l
    <3> QED
      BY <3>1, <3>2, <3>3, AddKeeps
  <2> HIDE DEF T
  <2>3. Nat \subseteq T
    BY <2>1, <2>2, SetInduction
  <2> QED
    BY <2>3 DEF T
<1>11. Split(after[l], size, l)
  BY <1>1, <1>10
<1> QED
  BY <1>1, <1>11 DEF l

\* When the loop is over, all requests are closed.
LEMMA RequestsClosed ==
  ASSUME NEW size \in Seq(Nat)
  PROVE  LET requests == SplitIntoRequests(size)
         IN /\ AreClosed(size, requests, Len(size))
            /\ FirstOf(requests, Len(requests) + 1) = Len(size) + 1
<1> DEFINE requests == SplitIntoRequests(size)
           n == Len(size)
<1>1. PICK s : Split(s, size, n) /\ requests = Closed(s)
  BY SplitDoes
<1>2. n \in Nat
  OBVIOUS
<1> HIDE DEF requests
<1>3. CASE n = 0
  <2>1. requests = <<>>
    BY <1>1, <1>3 DEF Split, Start, Closed
  <2> QED
    BY <1>1, <1>3, <2>1 DEF Split, Start, FirstOf, requests
<1>4. CASE n # 0
  <2>1. AreClosed(size, s.requests, n) /\ IsCurrent(size, s.requests, s.current, n)
    BY <1>1, <1>4 DEF Split
  <2>2. requests = Append(s.requests, s.current)
    BY <1>1, <2>1 DEF Closed, IsCurrent, Lists
  <2>3. AreClosed(size, requests, n) /\ FirstOf(requests, Len(requests) + 1) = n + 1
    <3> DEFINE front == s.requests
               last == s.current
    <3>1. /\ requests = Append(front, last)
          /\ AreClosed(size, front, n) /\ IsCurrent(size, front, last, n)
      BY <2>1, <2>2
    <3> HIDE DEF front, last, n
    <3> QED
      BY <1>2, <3>1, CloseDoes
  <2> QED
    BY <2>3 DEF requests
<1> QED
  BY <1>3, <1>4

\* Every document is sent once and in order, within the limits and without waste, for any
\* documents and limits.
THEOREM SplitCorrect ==
  \A size \in Seq(Nat) : IsSplit(size, SplitIntoRequests(size))
<1> SUFFICES ASSUME NEW size \in Seq(Nat) PROVE IsSplit(size, SplitIntoRequests(size))
  OBVIOUS
<1>1. LET requests == SplitIntoRequests(size)
      IN DOMAIN requests = 1..Len(requests)
  BY RequestsClosed DEF AreClosed
<1> QED
  BY <1>1, RequestsClosed DEF IsSplit, AreClosed

\* The requests have different documents.
LEMMA RequestsDiffer ==
  ASSUME NEW size \in Seq(Nat)
  PROVE  LET requests == SplitIntoRequests(size)
         IN /\ requests \in Seq(Seq(1..Len(size)))
            /\ \A k, l \in 1..Len(requests) :
                  k # l => ToSet(requests[k]) \cap ToSet(requests[l]) = {}
  BY RequestsClosed DEF AreClosed, Position

-----------------------------------------------------------------------------
(***************************************************************************)
(* The inductive invariant                                                 *)
(***************************************************************************)

\* The records of a request
DocsOf(k) == {File[i] : i \in ToSet(Requests[k])}

\* While the records are sent, the results are those of the requests before the next one;
\* afterwards the app knows what is stored, apart from lost responses.
Sending ==
    /\ ~WriteIsOver =>
          /\ import.saved = {} /\ lost = {} /\ ~import.stopped
          /\ written = {r \in Records : import.result[r] = "ok"}
          /\ import.next \in 1..Len(Requests)
          /\ import.pc = "prepare" => import.next = 1
          /\ import.next = 1 => written = {}
          /\ \A k \in import.next..Len(Requests) : \A r \in DocsOf(k) :
                import.result[r] = "none"
    /\ StoredAreReported

\* The history lists what is known to be stored, and the undo is about that.
Recorded ==
    /\ history \subseteq {EntryFor(import.saved)}
    /\ import.pc \notin {"completed", "partial", "failed"} =>
          history = {} /\ ~unrecorded /\ undo.pc = "none"
    /\ import.pc \in {"completed", "partial"} /\ undo.pc = "none" /\ ~unrecorded =>
          history # {}
    /\ import.pc = "failed" /\ ~unrecorded => import.saved = {}
    /\ undo.pc # "none" => undo.item = EntryFor(import.saved)

\* The parts of the undo
Parts ==
    /\ undo.pc = "none" => \A t \in Tasks : task[t].pc = "off"
    /\ undo.pc # "none" => \A t \in Tasks : task[t].pc = "off" <=> t \notin PartsOf(undo.item)
    /\ undo.pc = "undone" => \A t \in Tasks : task[t].pc \in {"off", "done"}

\* A record or a link target that was read is still the same, or has a later revision.
StillRecord(r, rev, value) == rev <= db[r].rev /\ (rev = db[r].rev => value = db[r].value)
StillTarget(t, seen) ==
    /\ seen.rev <= target[t].rev
    /\ seen.rev = target[t].rev => seen.seen = target[t].links /\ seen.others = target[t].others

\* What is written was read before: the imported records, ...
EntitiesRead ==
    /\ import.pc # "prepare" => \A r \in Existing : entity[r].previous # "absent"
    /\ import.pc = "records" =>
          \A r \in Records : StillRecord(r, entity[r].rev, entity[r].previous)

\* ... those that the undo removes or reverts, ...
PartsRead ==
    \A t \in Tasks : \A r \in Records :
        t \in {<<"remove", r>>, <<"revert", r>>} /\ task[t].pc = "write" =>
            /\ task[t].value # "absent"
            /\ StillRecord(r, task[t].rev, task[t].value)

\* ... and the link targets.
LinksRead ==
    \A l \in Links \ Indirect : link[l].pc = "save" => StillTarget(Target[l], link[l])
UnlinksRead ==
    \A l \in Links \ Indirect :
        task[<<"unlink", l>>].pc = "write" => StillTarget(Target[l], task[<<"unlink", l>>])

Read == EntitiesRead /\ PartsRead /\ LinksRead /\ UnlinksRead

ImportInv == TypeOK /\ Sending /\ Recorded /\ Parts /\ Read /\ NextSaveFits

-----------------------------------------------------------------------------
(***************************************************************************)
(* Without failures and others                                             *)
(***************************************************************************)
Clean == edits = 0 /\ faults = 0 /\ DistinctTargets

\* The value that a record had before the import
Original(r) == IF r \in Existing THEN "old" ELSE "absent"

\* The part of the undo that is about a record
PartOf(r) == IF r \in Existing THEN <<"revert", r>> ELSE <<"remove", r>>

\* What has been imported is there until its part of the undo is over.
CleanRecords ==
    /\ lost = {} /\ ~unrecorded
    /\ import.pc # "prepare" => \A r \in Records : entity[r].previous = Original(r)
    /\ import.pc = "records" => \A r \in Records \ written : entity[r].rev = db[r].rev
    /\ \A r \in Records \ written : db[r].value = Original(r)
    /\ \A r \in written :
          /\ task[PartOf(r)].pc \in {"off", "load", "write"} => db[r].value = "imported"
          /\ task[PartOf(r)].pc = "write" => task[PartOf(r)].rev = db[r].rev
          /\ task[PartOf(r)].pc = "done" => r \in ByReference \/ db[r].value = Original(r)
    /\ task[<<"history">>].pc = "done" => history = {}

\* All link actions are done when the import goes on, and write to what they have read.
CleanLinks ==
    /\ \A l \in Links : link[l].pc # "failed"
    /\ import.pc \in {"prepare", "records"} => \A l \in Links : link[l].pc = "off"
    /\ import.pc = "links" => import.saved = Records
    /\ import.pc # "links" => \A l \in Links : link[l].pc \in {"off", "done"}
    /\ \A l \in Links \ Indirect :
          link[l].pc = "save" => link[l].rev = target[Target[l]].rev

\* Links are those of actions, until they are undone.
CleanUnlinks ==
    /\ (relations # {} \/ \E t \in Targets : target[t].links # {}) =>
          WriteIsOver /\ import.saved = Records
    /\ \A x \in relations : x[1] \in Indirect
    /\ \A t \in Targets : \A x \in target[t].links : x[1] \notin Indirect /\ Target[x[1]] = t
    /\ \A l \in Indirect :
          /\ task[<<"unlink", l>>].pc = "write" =>
                {x \in relations : x[1] = l /\ x[2] \in undo.item.created}
                    \subseteq task[<<"unlink", l>>].seen
          /\ task[<<"unlink", l>>].pc = "done" =>
                \A x \in relations : x[1] = l => x[2] \notin undo.item.created
    /\ \A l \in Links \ Indirect :
          /\ task[<<"unlink", l>>].pc = "write" =>
                task[<<"unlink", l>>].rev = target[Target[l]].rev
          /\ task[<<"unlink", l>>].pc = "done" =>
                \A x \in target[Target[l]].links : x[1] = l => x[2] \notin undo.item.created

CleanInv == ImportInv /\ (Clean => CleanRecords /\ CleanLinks /\ CleanUnlinks)

-----------------------------------------------------------------------------
(***************************************************************************)
(* Types                                                                   *)
(***************************************************************************)
EntityState == [rev : Nat, previous : Value]
Ends == {"done", "failed"}

\* The fields
LEMMA ImportFields ==
  ASSUME NEW i \in ImportState
  PROVE  /\ i.pc \in {"prepare", "records", "links", "history", "reporting", "completed",
                      "partial", "failed"}
         /\ i.next \in Nat /\ i.result \in [Records -> {"none", "ok", "error"}]
         /\ i.stopped \in BOOLEAN /\ i.saved \in SUBSET Records
  BY DEF ImportState

\* Fields of a link action
LEMMA LinkFields ==
  ASSUME NEW s \in LinkState
  PROVE  /\ s.pc \in {"off", "load", "save", "done", "failed"} /\ s.rev \in Nat
         /\ s.seen \in SUBSET (Links \X Records) /\ s.others \in Nat
  BY DEF LinkState

\* Fields of a part of the undo
LEMMA TaskFields ==
  ASSUME NEW s \in TaskState
  PROVE  /\ s.pc \in {"off", "load", "write", "done", "failed"} /\ s.rev \in Nat
         /\ s.value \in Value /\ s.seen \in SUBSET (Links \X Records) /\ s.others \in Nat
  BY DEF TaskState

\* Fields of a document
LEMMA DocumentFields ==
  ASSUME NEW d \in Document
  PROVE  d.rev \in Nat /\ d.value \in Value
  BY DEF Document

\* Fields of a link target
LEMMA TargetFields ==
  ASSUME NEW t \in TargetDocument
  PROVE  t.rev \in Nat /\ t.links \in SUBSET (Links \X Records) /\ t.others \in Nat
  BY DEF TargetDocument

\* Links and parts of the undo that are not under way
LEMMA NoLinkTyped ==
  ASSUME NEW pc \in {"off", "load", "save", "done", "failed"}
  PROVE  /\ [NoLink EXCEPT !.pc = pc] \in LinkState /\ [NoLink EXCEPT !.pc = pc].pc = pc
         /\ NoLink \in LinkState /\ NoLink.pc = "off"
  BY DEF NoLink, LinkState

\* The same for parts of the undo
LEMMA NoTaskTyped ==
  ASSUME NEW pc \in {"off", "load", "write", "done", "failed"}
  PROVE  /\ [NoTask EXCEPT !.pc = pc] \in TaskState /\ [NoTask EXCEPT !.pc = pc].pc = pc
         /\ NoTask \in TaskState /\ NoTask.pc = "off"
  BY DEF NoTask, TaskState, Value

\* A set with at most one element
LEMMA AtMostOne ==
  ASSUME NEW S, S = {} \/ \E e : S = {e}
  PROVE  Cardinality(S) <= 1
<1>1. CASE S = {}
  BY <1>1, FS_EmptySet
<1>2. ASSUME NEW e, S = {e} PROVE Cardinality(S) <= 1
  BY <1>2, FS_Singleton
<1> QED
  BY <1>1, <1>2

\* What the assumptions say of the file
LEMMA FileFacts ==
  /\ Existing \subseteq Records /\ ByReference \subseteq Existing
  /\ DOMAIN File = 1..Len(File) /\ Len(File) \in Nat
  /\ \A i \in DOMAIN File : File[i] \in Records
  /\ \A i, j \in DOMAIN File : File[i] = File[j] => i = j
  BY FileAssumption

\* The requests have different records.
LEMMA RequestsDo ==
  ASSUME TypeOK
  PROVE  /\ Len(Requests) \in Nat \ {0}
         /\ \A k \in 1..Len(Requests) : DocsOf(k) \subseteq Records
         /\ \A k, l \in 1..Len(Requests) : k # l => DocsOf(k) \cap DocsOf(l) = {}
<1> DEFINE n == Len(File)
           split == SplitIntoRequests(setting.size)
           all == [i \in DOMAIN File |-> i]
<1>1. n \in Nat /\ DOMAIN File = 1..n
  BY FileFacts
<1>2. setting.size \in Seq(Nat) /\ Len(setting.size) = n
  <2>1. setting.size \in [1..n -> Nat]
    BY <1>1, SizesAssumption DEF TypeOK
  <2> QED
    BY <1>1, <2>1
<1>3. /\ split \in Seq(Seq(1..n))
      /\ \A k, l \in 1..Len(split) : k # l => ToSet(split[k]) \cap ToSet(split[l]) = {}
  BY <1>2, RequestsDiffer
<1>4. all \in Seq(1..n)
  BY <1>1
<1> HIDE DEF all, split, n
<1>5. /\ Requests \in Seq(Seq(1..n)) /\ Requests # <<>>
      /\ \A k, l \in 1..Len(Requests) : k # l => ToSet(Requests[k]) \cap ToSet(Requests[l]) = {}
  <2>1. CASE setting.remote /\ Len(split) > 1
    <3>1. Requests = split
      BY <2>1 DEF Requests, split
    <3> DEFINE S == Seq(1..n)
    <3>2. split \in Seq(S)
      BY <1>3
    <3> HIDE DEF S
    <3>3. Requests \in Seq(S) /\ Requests # <<>>
      BY <2>1, <3>1, <3>2
    <3> QED
      BY <1>3, <3>1, <3>3 DEF S
  <2>2. CASE ~(setting.remote /\ Len(split) > 1)
    <3>1. Requests = <<all>>
      BY <2>2 DEF Requests, split, all
    <3> DEFINE S == Seq(1..n)
    <3>2. all \in S
      BY <1>4
    <3> HIDE DEF S
    <3>3. /\ Requests \in Seq(S) /\ Requests # <<>> /\ Len(Requests) = 1
      BY <3>1, <3>2, OneDoes
    <3> QED
      BY <3>3 DEF S
  <2> QED
    BY <2>1, <2>2
<1>6. Len(Requests) \in Nat \ {0}
  BY <1>5
<1>7. \A k \in 1..Len(Requests) : ToSet(Requests[k]) \subseteq DOMAIN File
  <2> SUFFICES ASSUME NEW k \in 1..Len(Requests) PROVE ToSet(Requests[k]) \subseteq DOMAIN File
    OBVIOUS
  <2>1. Requests[k] \in Seq(1..n)
    BY <1>5
  <2> QED
    BY <1>1, <2>1 DEF ToSet
<1>8. \A k \in 1..Len(Requests) : DocsOf(k) \subseteq Records
  BY <1>7, FileFacts DEF DocsOf
<1>9. ASSUME NEW k \in 1..Len(Requests), NEW l \in 1..Len(Requests), k # l
      PROVE  DocsOf(k) \cap DocsOf(l) = {}
  <2> SUFFICES ASSUME NEW i \in ToSet(Requests[k]), NEW j \in ToSet(Requests[l]),
                      File[i] = File[j]
               PROVE  FALSE
    BY DEF DocsOf
  <2>1. i = j
    BY <1>7, FileFacts
  <2> QED
    BY <1>5, <1>9, <2>1
<1> QED
  BY <1>6, <1>8, <1>9

-----------------------------------------------------------------------------
(***************************************************************************)
(* What the parts of the actions do                                        *)
(***************************************************************************)

\* Documents are stored as a next revision with the imported value.
LEMMA StoreDocsDoes ==
  ASSUME TypeOK, NEW docs \in SUBSET Records, NEW new, new = StoreDocs(docs)
  PROVE  /\ new \in [Records -> Document]
         /\ \A r \in docs : new[r].rev = db[r].rev + 1 /\ new[r].value = "imported"
         /\ \A r \in Records \ docs : new[r] = db[r]
<1>1. \A r \in Records : db[r].rev \in Nat
  BY DocumentFields DEF TypeOK
<1>2. \A r \in docs : new[r] = [rev |-> db[r].rev + 1, value |-> "imported"]
  BY DEF StoreDocs
<1>3. \A r \in Records \ docs : new[r] = db[r]
  BY DEF StoreDocs
<1>4. \A r \in docs : /\ new[r] \in Document
                      /\ new[r].rev = db[r].rev + 1 /\ new[r].value = "imported"
  <2> SUFFICES ASSUME NEW r \in docs
               PROVE  /\ new[r] \in Document
                      /\ new[r].rev = db[r].rev + 1 /\ new[r].value = "imported"
    OBVIOUS
  <2>1. new[r] = [rev |-> db[r].rev + 1, value |-> "imported"]
    BY <1>2
  <2>2. db[r].rev + 1 \in Nat
    BY <1>1
  <2> QED
    BY <2>1, <2>2 DEF Document, Value
<1>5. new = [r \in Records |-> new[r]]
  BY DEF StoreDocs
<1>6. \A r \in Records : new[r] \in Document
  BY <1>3, <1>4 DEF TypeOK
<1> HIDE DEF Document
<1> QED
  BY <1>3, <1>4, <1>5, <1>6

\* Only documents that the app knows the revision of are stored.
LEMMA FittingDoes ==
  ASSUME NEW docs \in SUBSET Records
  PROVE  /\ Fitting(docs) \subseteq docs
         /\ \A r \in Fitting(docs) : db[r].rev = entity[r].rev
         /\ \A r \in docs : db[r].rev = entity[r].rev => r \in Fitting(docs)
  BY DEF Fitting

\* When the write is over, the records that are marked as stored are to be reported.
LEMMA SettledDoes ==
  ASSUME NEW i \in ImportState, i.saved = {}, NEW j, j = Settled(i)
  PROVE  /\ j \in ImportState /\ j.pc \in {"links", "reporting", "failed"}
         /\ j.saved = {r \in Records : i.result[r] = "ok"}
         /\ j.pc = "failed" => j.saved = {}
         /\ j.pc = "links" => j.saved = Records
<1> DEFINE ok == {r \in Records : i.result[r] = "ok"}
<1>1. ok \in SUBSET Records
  OBVIOUS
<1> HIDE DEF ok
<1>2. CASE ok = Records
  <2>1. j = [i EXCEPT !.pc = "links", !.saved = ok]
    BY <1>2 DEF Settled, ok
  <2> QED
    BY <1>1, <1>2, <2>1 DEF ImportState, ok
<1>3. CASE ok # Records /\ ok = {}
  <2>1. j = [i EXCEPT !.pc = "failed"]
    BY <1>3 DEF Settled, ok
  <2>2. j \in ImportState /\ j.pc = "failed" /\ j.saved = ok
    BY <1>3, <2>1 DEF ImportState
  <2> QED
    BY <1>3, <2>2 DEF ok
<1>4. CASE ok # Records /\ ok # {}
  <2>1. j = [i EXCEPT !.pc = "reporting", !.saved = ok]
    BY <1>4 DEF Settled, ok
  <2>2. j \in ImportState /\ j.pc = "reporting" /\ j.saved = ok
    BY <1>1, <2>1 DEF ImportState
  <2> QED
    BY <2>2 DEF ok
<1> QED
  BY <1>2, <1>3, <1>4

\* Direct link actions begin with a request for their target.
LEMMA StartLinksDoes ==
  ASSUME TypeOK, NEW i \in ImportState, StartLinks(i)
  PROVE  /\ import' \in ImportState /\ import'.saved = i.saved
         /\ i.pc # "links" => import'.pc = i.pc /\ link' = link
         /\ i.pc = "links" => import'.pc \in {"links", "history"}
         /\ import'.pc = "history" /\ i.pc = "links" => Links = {}
         /\ link' \in [Links -> LinkState]
         /\ i.pc = "links" => \A l \in Links : link'[l].pc \in {"load", "save"}
         /\ \A l \in Links \ Indirect : link'[l].pc = "save" => link'[l] = link[l]
<1>1. /\ import' \in ImportState /\ import'.saved = i.saved
      /\ i.pc # "links" => import'.pc = i.pc
      /\ i.pc = "links" => import'.pc \in {"links", "history"}
      /\ import'.pc = "history" /\ i.pc = "links" => Links = {}
  BY ImportFields DEF StartLinks, ImportState
<1>2. CASE i.pc # "links"
  BY <1>1, <1>2 DEF StartLinks, TypeOK
<1>3. CASE i.pc = "links"
  <2> DEFINE begin(l) == [NoLink EXCEPT !.pc = IF l \in Indirect THEN "save" ELSE "load"]
  <2>1. link' = [l \in Links |-> begin(l)]
    BY <1>3 DEF StartLinks
  <2>2. \A l \in Links : /\ begin(l) \in LinkState /\ begin(l).pc \in {"load", "save"}
                         /\ l \notin Indirect => begin(l).pc = "load"
    BY NoLinkTyped
  <2> HIDE DEF begin
  <2> QED
    BY <1>1, <1>3, <2>1, <2>2
<1> QED
  BY <1>2, <1>3

\* The write goes on, or it is over and the stored records have their revisions.
LEMMA ProceedDoes ==
  ASSUME TypeOK, NEW i \in ImportState, i.saved = {}, i.pc = "records",
         NEW d \in [Records -> Document], Proceed(i, d)
  PROVE  /\ import' \in ImportState
         /\ link' \in [Links -> LinkState]
         /\ entity' \in [Records -> EntityState]
         /\ \A r \in Records : entity'[r].previous = entity[r].previous
         /\ \A l \in Links \ Indirect : link'[l].pc = "save" => link'[l] = link[l]
         /\ MoreRequests(i) => import' = i /\ UNCHANGED <<entity, link>>
         /\ ~MoreRequests(i) =>
              /\ import'.pc \in {"links", "history", "reporting", "failed"}
              /\ import'.saved = {r \in Records : i.result[r] = "ok"}
              /\ import'.pc = "failed" => import'.saved = {}
              /\ import'.pc = "links" => import'.saved = Records
              /\ import'.pc = "history" => Links = {}
              /\ import'.pc # "links" => Links = {} \/ link' = link
              /\ import'.pc = "links" => \A l \in Links : link'[l].pc \in {"load", "save"}
              /\ \A r \in Records :
                    entity'[r].rev = IF i.result[r] = "ok" THEN d[r].rev ELSE entity[r].rev
<1>1. CASE MoreRequests(i)
  BY <1>1 DEF Proceed, TypeOK, EntityState
<1>2. CASE ~MoreRequests(i)
  <2>1. StartLinks(Settled(i)) /\ ApplyStoredRevisions(i.result, d)
    BY <1>2 DEF Proceed
  <2>2. PICK j : j = Settled(i)
    OBVIOUS
  <2>3. /\ j \in ImportState /\ j.pc \in {"links", "reporting", "failed"}
        /\ j.saved = {r \in Records : i.result[r] = "ok"}
        /\ j.pc = "failed" => j.saved = {}
        /\ j.pc = "links" => j.saved = Records
    BY <2>2, SettledDoes
  <2>4. /\ import' \in ImportState /\ import'.saved = j.saved
        /\ j.pc # "links" => import'.pc = j.pc /\ link' = link
        /\ j.pc = "links" => import'.pc \in {"links", "history"}
        /\ import'.pc = "history" /\ j.pc = "links" => Links = {}
        /\ link' \in [Links -> LinkState]
        /\ j.pc = "links" => \A l \in Links : link'[l].pc \in {"load", "save"}
        /\ \A l \in Links \ Indirect : link'[l].pc = "save" => link'[l] = link[l]
    BY <2>1, <2>2, <2>3, StartLinksDoes
  <2> DEFINE saved(r) == [entity[r] EXCEPT !.rev = d[r].rev]
             new(r) == IF i.result[r] = "ok" THEN saved(r) ELSE entity[r]
  <2>5. \A r \in Records : entity[r] \in EntityState /\ d[r].rev \in Nat
    BY DocumentFields DEF TypeOK, EntityState
  <2>6. \A r \in Records : /\ saved(r) \in EntityState
                           /\ saved(r).rev = d[r].rev /\ saved(r).previous = entity[r].previous
    BY <2>5 DEF EntityState
  <2>7. entity' = [r \in Records |-> new(r)]
    BY <2>1 DEF ApplyStoredRevisions
  <2> HIDE DEF saved
  <2>8. \A r \in Records : /\ new(r) \in EntityState
                           /\ new(r).previous = entity[r].previous
                           /\ new(r).rev = IF i.result[r] = "ok" THEN d[r].rev ELSE entity[r].rev
    BY <2>5, <2>6
  <2> HIDE DEF new
  <2>9. /\ entity' \in [Records -> EntityState]
        /\ \A r \in Records :
              /\ entity'[r].previous = entity[r].previous
              /\ entity'[r].rev = IF i.result[r] = "ok" THEN d[r].rev ELSE entity[r].rev
    BY <2>7, <2>8
  <2> QED
    BY <1>2, <2>3, <2>4, <2>9
<1> QED
  BY <1>1, <1>2

\* A link action ends, and with the last one, or one that fails, the links.
LEMMA LinkEndsDoes ==
  ASSUME TypeOK, NEW l \in Links, NEW pc \in Ends, LinkEnds(l, pc)
  PROVE  /\ link' \in [Links -> LinkState] /\ link'[l].pc = pc
         /\ \A k \in Links \ {l} : link'[k] = link[k]
         /\ import' \in ImportState
         /\ import'.saved = import.saved
         /\ import.pc # "links" => import' = import
         /\ import.pc = "links" =>
              /\ import'.pc \in {"links", "reporting", "history"}
              /\ import'.pc = "reporting" => pc = "failed"
              /\ import'.pc = "history" => \A k \in Links \ {l} : link[k].pc = "done"
<1>1. [NoLink EXCEPT !.pc = pc] \in LinkState /\ [NoLink EXCEPT !.pc = pc].pc = pc
  BY NoLinkTyped DEF Ends
<1> DEFINE new == [NoLink EXCEPT !.pc = pc]
<1>2. link' = [link EXCEPT ![l] = new]
  BY DEF LinkEnds
<1> HIDE DEF new
<1>3. /\ link' \in [Links -> LinkState] /\ link'[l].pc = pc
      /\ \A k \in Links \ {l} : link'[k] = link[k]
  BY <1>1, <1>2 DEF TypeOK, new
<1>4. /\ import' \in ImportState
      /\ import'.saved = import.saved
      /\ import.pc # "links" => import' = import
  BY DEF LinkEnds, TypeOK, ImportState
<1>5. ASSUME import.pc = "links"
      PROVE  /\ import'.pc \in {"links", "reporting", "history"}
             /\ import'.pc = "reporting" => pc = "failed"
             /\ import'.pc = "history" => \A k \in Links \ {l} : link[k].pc = "done"
  <2>1. CASE pc = "failed"
    BY <1>5, <2>1 DEF LinkEnds, TypeOK, ImportState
  <2>2. CASE pc # "failed" /\ \A k \in Links \ {l} : link[k].pc = "done"
    BY <1>5, <2>2 DEF LinkEnds, TypeOK, ImportState
  <2>3. CASE pc # "failed" /\ ~ \A k \in Links \ {l} : link[k].pc = "done"
    BY <1>5, <2>3 DEF LinkEnds, TypeOK, ImportState
  <2> QED
    BY <2>1, <2>2, <2>3
<1> QED
  BY <1>3, <1>4, <1>5

\* A part of the undo ends, and with the last one, or one that fails, the undo.
LEMMA TaskEndsDoes ==
  ASSUME TypeOK, NEW t \in Tasks, NEW ok \in BOOLEAN, TaskEnds(t, ok)
  PROVE  /\ task' \in [Tasks -> TaskState] /\ task'[t].pc \in Ends
         /\ ok => task'[t].pc = "done"
         /\ \A s \in Tasks \ {t} : task'[s] = task[s]
         /\ undo' \in [pc : {"none", "running", "undone", "failed"}, item : Entry]
         /\ undo'.item = undo.item
         /\ undo'.pc = "none" <=> undo.pc = "none"
         /\ undo'.pc = "undone" =>
              \/ undo.pc = "undone"
              \/ task'[t].pc = "done" /\ \A s \in Tasks \ {t} : task[s].pc \in {"off", "done"}
<1> DEFINE pc == IF ok \/ t[1] = "remove" THEN "done" ELSE "failed"
           new == [NoTask EXCEPT !.pc = pc]
           phase == IF undo.pc # "running" THEN undo.pc
                    ELSE IF pc = "failed" THEN "failed"
                    ELSE IF \A s \in Tasks \ {t} : task[s].pc \in {"off", "done"}
                         THEN "undone" ELSE undo.pc
<1>1. pc \in {"done", "failed"} /\ (ok => pc = "done")
  OBVIOUS
<1>2. task' = [task EXCEPT ![t] = new]
  BY DEF TaskEnds
<1>3. undo' = [undo EXCEPT !.pc = phase]
  BY DEF TaskEnds
<1> HIDE DEF pc
<1>4. new \in TaskState /\ new.pc = pc
  BY <1>1, NoTaskTyped
<1> HIDE DEF new
<1>5. /\ task' \in [Tasks -> TaskState] /\ task'[t].pc = pc
      /\ \A s \in Tasks \ {t} : task'[s] = task[s]
  BY <1>2, <1>4 DEF TypeOK
<1>6. /\ phase \in {"none", "running", "undone", "failed"}
      /\ phase = "none" <=> undo.pc = "none"
      /\ phase = "undone" =>
           \/ undo.pc = "undone"
           \/ pc = "done" /\ \A s \in Tasks \ {t} : task[s].pc \in {"off", "done"}
  BY <1>1 DEF TypeOK
<1> HIDE DEF phase
<1>7. /\ undo' \in [pc : {"none", "running", "undone", "failed"}, item : Entry]
      /\ undo'.item = undo.item /\ undo'.pc = phase
  BY <1>3, <1>6 DEF TypeOK
<1> QED
  BY <1>1, <1>5, <1>6, <1>7 DEF Ends

\* What an entry lists
LEMMA EntryDoes ==
  ASSUME NEW saved \in SUBSET Records
  PROVE  /\ EntryFor(saved) \in Entry
         /\ EntryFor(saved).created = saved \ Existing
         /\ EntryFor(saved).updated = saved \cap Existing
  BY DEF EntryFor, Entry

\* The parts of an undo
LEMMA TasksAre ==
  /\ \A r \in Records : <<"remove", r>> \in Tasks
  /\ \A r \in Existing : <<"revert", r>> \in Tasks
  /\ \A l \in Links : <<"unlink", l>> \in Tasks
  /\ <<"history">> \in Tasks
  /\ \A r : <<"revert", r>> \in Tasks => r \in Existing
  BY DEF Tasks

\* ... which are those of an undo
LEMMA PartsOfAre ==
  ASSUME NEW item
  PROVE  /\ \A r \in Records : <<"remove", r>> \in PartsOf(item) <=> r \in item.created
         /\ \A r \in Existing : <<"revert", r>> \in PartsOf(item) <=> r \in item.updated
         /\ \A l \in Links : <<"unlink", l>> \in PartsOf(item)
         /\ <<"history">> \in PartsOf(item)
  BY TasksAre DEF PartsOf

-----------------------------------------------------------------------------
(***************************************************************************)
(* What keeps the parts of the invariant                                   *)
(***************************************************************************)

\* The write is not touched.
LEMMA SendingSame ==
  ASSUME Sending, UNCHANGED <<import, written, lost, setting>>
  PROVE  Sending'
  BY DEF Sending, WriteIsOver, StoredAreReported, DocsOf, Requests

\* It is over, and what it has reported stays.
LEMMA SendingOver ==
  ASSUME Sending, WriteIsOver, UNCHANGED <<written, lost>>,
         import'.saved = import.saved, import'.pc \notin {"prepare", "records"}
  PROVE  Sending'
<1>1. WriteIsOver'
  BY DEF WriteIsOver
<1>2. StoredAreReported'
  BY DEF Sending, StoredAreReported
<1> QED
  BY <1>1, <1>2 DEF Sending

\* The record of the import is not touched, ...
LEMMA RecordedSame ==
  ASSUME Recorded, UNCHANGED <<history, import, unrecorded, undo>>
  PROVE  Recorded'
  BY DEF Recorded, EntryFor

\* ... or only by its undo.
LEMMA RecordedInUndo ==
  ASSUME Recorded, UNCHANGED <<import, unrecorded>>, history' \in {history, {}},
         undo.pc # "none", undo'.pc # "none", undo'.item = undo.item
  PROVE  Recorded'
  BY DEF Recorded, EntryFor

\* Records have later revisions when they change, or do not change.
LEMMA RecordsStill ==
  ASSUME TypeOK, db' \in [Records -> Document],
         \A r \in Records : db'[r] = db[r] \/ db'[r].rev > db[r].rev,
         NEW r \in Records, NEW rev \in Nat, NEW value, StillRecord(r, rev, value)
  PROVE  rev <= db'[r].rev /\ (rev = db'[r].rev => value = db'[r].value)
<1>1. db[r].rev \in Nat /\ db'[r].rev \in Nat
  BY DocumentFields DEF TypeOK
<1> QED
  BY <1>1 DEF StillRecord

\* So do link targets.
LEMMA TargetsStill ==
  ASSUME TypeOK, target' \in [Targets -> TargetDocument],
         \A t \in Targets : target'[t] = target[t] \/ target'[t].rev > target[t].rev,
         NEW t \in Targets, NEW s, s.rev \in Nat, StillTarget(t, s)
  PROVE  /\ s.rev <= target'[t].rev
         /\ s.rev = target'[t].rev => s.seen = target'[t].links /\ s.others = target'[t].others
<1>1. target[t].rev \in Nat /\ target'[t].rev \in Nat
  BY TargetFields DEF TypeOK
<1> QED
  BY <1>1 DEF StillTarget

\* What was read of the imported records stays as it was, ...
LEMMA EntitiesReadKept ==
  ASSUME TypeOK, EntitiesRead, db' \in [Records -> Document],
         \A r \in Records : db'[r] = db[r] \/ db'[r].rev > db[r].rev,
         import.pc # "prepare" \/ import'.pc = "prepare",
         \A r \in Records : entity'[r].previous = entity[r].previous,
         import'.pc = "records" => import.pc = "records" /\ entity' = entity
  PROVE  EntitiesRead'
<1>1. import'.pc # "prepare" => \A r \in Existing : entity'[r].previous # "absent"
  BY FileFacts DEF EntitiesRead
<1>2. ASSUME import'.pc = "records", NEW r \in Records
      PROVE  StillRecord(r, entity[r].rev, entity[r].previous)'
  <2>1. StillRecord(r, entity[r].rev, entity[r].previous)
    BY <1>2 DEF EntitiesRead
  <2>2. entity[r].rev \in Nat
    BY DEF TypeOK
  <2> DEFINE rev == entity[r].rev
             previous == entity[r].previous
  <2> HIDE DEF rev, previous
  <2>3. rev <= db'[r].rev /\ (rev = db'[r].rev => previous = db'[r].value)
    BY <2>1, <2>2, RecordsStill DEF rev, previous
  <2> QED
    BY <1>2, <2>3 DEF StillRecord, rev, previous
<1> QED
  BY <1>1, <1>2 DEF EntitiesRead

\* ... what the parts of the undo have read, ...
LEMMA PartsReadKept ==
  ASSUME TypeOK, PartsRead, db' \in [Records -> Document],
         \A r \in Records : db'[r] = db[r] \/ db'[r].rev > db[r].rev,
         \A t \in Tasks : \A r \in Records :
            t \in {<<"remove", r>>, <<"revert", r>>} /\ task'[t].pc = "write" =>
                task'[t] = task[t]
  PROVE  PartsRead'
<1> SUFFICES ASSUME NEW t \in Tasks, NEW r \in Records,
                    t \in {<<"remove", r>>, <<"revert", r>>}, task'[t].pc = "write"
             PROVE  task'[t].value # "absent" /\ StillRecord(r, task[t].rev, task[t].value)'
  BY DEF PartsRead
<1>1. task'[t] = task[t]
  OBVIOUS
<1>2. task[t].value # "absent" /\ StillRecord(r, task[t].rev, task[t].value)
  BY <1>1 DEF PartsRead
<1>3. task[t].rev \in Nat
  BY TaskFields DEF TypeOK
<1> DEFINE rev == task[t].rev
           value == task[t].value
<1> HIDE DEF rev, value
<1>4. rev <= db'[r].rev /\ (rev = db'[r].rev => value = db'[r].value)
  BY <1>2, <1>3, RecordsStill DEF rev, value
<1> QED
  BY <1>1, <1>2, <1>4 DEF StillRecord, rev, value

\* ... what the link actions have read, ...
LEMMA LinksReadKept ==
  ASSUME TypeOK, LinksRead, target' \in [Targets -> TargetDocument],
         \A t \in Targets : target'[t] = target[t] \/ target'[t].rev > target[t].rev,
         \A l \in Links \ Indirect : link'[l].pc = "save" => link'[l] = link[l]
  PROVE  LinksRead'
<1> SUFFICES ASSUME NEW l \in Links \ Indirect, link'[l].pc = "save"
             PROVE  StillTarget(Target[l], link[l])'
  BY DEF LinksRead
<1>1. link'[l] = link[l] /\ StillTarget(Target[l], link[l])
  BY DEF LinksRead
<1>2. Target[l] \in Targets /\ link[l].rev \in Nat
  BY LinksAssumption, LinkFields DEF TypeOK
<1> DEFINE s == link[l]
           t == Target[l]
<1> HIDE DEF s, t
<1>3. /\ s.rev <= target'[t].rev
      /\ s.rev = target'[t].rev => s.seen = target'[t].links /\ s.others = target'[t].others
  BY <1>1, <1>2, TargetsStill DEF s, t
<1> QED
  BY <1>1, <1>3 DEF StillTarget, s, t

\* ... and what the undo has read of their targets.
LEMMA UnlinksReadKept ==
  ASSUME TypeOK, UnlinksRead, target' \in [Targets -> TargetDocument],
         \A t \in Targets : target'[t] = target[t] \/ target'[t].rev > target[t].rev,
         \A l \in Links : task'[<<"unlink", l>>].pc = "write" =>
            task'[<<"unlink", l>>] = task[<<"unlink", l>>]
  PROVE  UnlinksRead'
<1> SUFFICES ASSUME NEW l \in Links \ Indirect, task'[<<"unlink", l>>].pc = "write"
             PROVE  StillTarget(Target[l], task[<<"unlink", l>>])'
  BY DEF UnlinksRead
<1> DEFINE part == <<"unlink", l>>
<1>1. task'[part] = task[part] /\ StillTarget(Target[l], task[part])
  BY DEF UnlinksRead
<1>2. Target[l] \in Targets /\ task[part].rev \in Nat
  BY LinksAssumption, TasksAre, TaskFields DEF TypeOK
<1> DEFINE s == task[part]
           t == Target[l]
<1> HIDE DEF s, t
<1>3. /\ s.rev <= target'[t].rev
      /\ s.rev = target'[t].rev => s.seen = target'[t].links /\ s.others = target'[t].others
  BY <1>1, <1>2, TargetsStill DEF s, t
<1> QED
  BY <1>1, <1>3 DEF StillTarget, s, t

\* All that was read, while nothing more is
LEMMA ReadKept ==
  ASSUME TypeOK, Read, db' \in [Records -> Document], target' \in [Targets -> TargetDocument],
         \A r \in Records : db'[r] = db[r] \/ db'[r].rev > db[r].rev,
         \A t \in Targets : target'[t] = target[t] \/ target'[t].rev > target[t].rev,
         import.pc # "prepare" \/ import'.pc = "prepare",
         \A r \in Records : entity'[r].previous = entity[r].previous,
         import'.pc = "records" => import.pc = "records" /\ entity' = entity,
         \A t \in Tasks : task'[t].pc = "write" => task'[t] = task[t],
         \A l \in Links \ Indirect : link'[l].pc = "save" => link'[l] = link[l]
  PROVE  Read'
<1>1. EntitiesRead'
  BY EntitiesReadKept DEF Read
<1>2. PartsRead'
  BY PartsReadKept DEF Read
<1>3. LinksRead'
  BY LinksReadKept DEF Read
<1>4. UnlinksRead'
  BY UnlinksReadKept, TasksAre DEF Read
<1> QED
  BY <1>1, <1>2, <1>3, <1>4 DEF Read

\* A part of the undo that is under way belongs to an undo, which belongs to an import.
LEMMA PartUnderWay ==
  ASSUME TypeOK, Recorded, Parts, NEW t \in Tasks, task[t].pc \in {"load", "write"}
  PROVE  /\ undo.pc \notin {"none", "undone"} /\ t \in PartsOf(undo.item)
         /\ import.pc \in {"completed", "partial", "failed"}
         /\ undo.item = EntryFor(import.saved)
  BY DEF Recorded, Parts

-----------------------------------------------------------------------------
(***************************************************************************)
(* Steps of links and of parts of the undo                                 *)
(***************************************************************************)

\* A link action ends.
LEMMA LinkStep ==
  ASSUME ImportInv, NEW l \in Links, NEW pc \in Ends, LinkEnds(l, pc), faults' \in Nat,
         UNCHANGED <<db, history, entity, undo, task, setting, edits, written, lost, unrecorded>>,
         target' \in [Targets -> TargetDocument], relations' \subseteq Links \X Records,
         \A t \in Targets : target'[t] = target[t] \/ target'[t].rev > target[t].rev
  PROVE  ImportInv'
<1>1. /\ TypeOK /\ Sending /\ Recorded /\ Parts /\ Read /\ NextSaveFits
  BY DEF ImportInv
<1>2. /\ link' \in [Links -> LinkState] /\ link'[l].pc = pc
      /\ \A k \in Links \ {l} : link'[k] = link[k]
      /\ import' \in ImportState /\ import'.saved = import.saved
      /\ import.pc # "links" => import' = import
      /\ import.pc = "links" => import'.pc \in {"links", "reporting", "history"}
  BY <1>1, LinkEndsDoes
<1>3. TypeOK'
  BY <1>1, <1>2 DEF TypeOK
<1>4. Sending'
  <2>1. CASE import.pc # "links"
    BY <1>1, <1>2, <2>1, SendingSame
  <2>2. CASE import.pc = "links"
    <3>1. WriteIsOver /\ import'.pc \notin {"prepare", "records"}
      BY <1>2, <2>2 DEF WriteIsOver
    <3> QED
      BY <1>1, <1>2, <3>1, SendingOver
  <2> QED
    BY <2>1, <2>2
<1>5. Recorded'
  <2>1. CASE import.pc # "links"
    BY <1>1, <1>2, <2>1, RecordedSame
  <2>2. CASE import.pc = "links"
    BY <1>1, <1>2, <2>2 DEF Recorded
  <2> QED
    BY <2>1, <2>2
<1>6. Parts'
  BY <1>1 DEF Parts, PartsOf
<1>7. Read'
  <2>1. db' \in [Records -> Document] /\ \A r \in Records : db'[r] = db[r]
    BY <1>1 DEF TypeOK
  <2>2. \A k \in Links \ Indirect : link'[k].pc = "save" => link'[k] = link[k]
    BY <1>2 DEF Ends
  <2> QED
    BY <1>1, <1>2, <2>1, <2>2, ReadKept
<1>8. NextSaveFits'
  <2>1. WriteIsOver' => WriteIsOver
    BY <1>2 DEF WriteIsOver
  <2> QED
    BY <1>1, <1>2, <2>1 DEF NextSaveFits
<1> QED
  BY <1>3, <1>4, <1>5, <1>6, <1>7, <1>8 DEF ImportInv

\* A part of the undo ends.
LEMMA TaskStep ==
  ASSUME ImportInv, NEW t \in Tasks, NEW ok \in BOOLEAN, TaskEnds(t, ok), faults' \in Nat,
         task[t].pc \in {"load", "write"}, history' \in {history, {}},
         UNCHANGED <<appVars, setting, edits, ghostVars>>,
         db' \in [Records -> Document], target' \in [Targets -> TargetDocument],
         relations' \subseteq Links \X Records,
         \A r \in Records : db'[r] = db[r] \/ db'[r].rev > db[r].rev,
         \A s \in Targets : target'[s] = target[s] \/ target'[s].rev > target[s].rev
  PROVE  ImportInv'
<1>1. /\ TypeOK /\ Sending /\ Recorded /\ Parts /\ Read /\ NextSaveFits
      /\ UNCHANGED <<import, entity, link, written, lost, unrecorded>>
  BY DEF ImportInv, appVars, ghostVars
<1>2. /\ task' \in [Tasks -> TaskState] /\ task'[t].pc \in Ends
      /\ \A s \in Tasks \ {t} : task'[s] = task[s]
      /\ undo' \in [pc : {"none", "running", "undone", "failed"}, item : Entry]
      /\ undo'.item = undo.item
      /\ undo'.pc = "none" <=> undo.pc = "none"
      /\ undo'.pc = "undone" =>
           \/ undo.pc = "undone"
           \/ task'[t].pc = "done" /\ \A s \in Tasks \ {t} : task[s].pc \in {"off", "done"}
  BY <1>1, TaskEndsDoes
<1>3. /\ undo.pc \notin {"none", "undone"} /\ t \in PartsOf(undo.item)
  BY <1>1, PartUnderWay
<1>4. TypeOK'
  <2>1. history' \subseteq Entry /\ Cardinality(history') <= 1
    <3>1. CASE history' = {}
      BY <3>1, AtMostOne
    <3>2. CASE history' = history
      BY <1>1, <3>2 DEF TypeOK
    <3> QED
      BY <3>1, <3>2
  <2> QED
    BY <1>1, <1>2, <2>1 DEF TypeOK
<1>5. Sending'
  BY <1>1, SendingSame
<1>6. Recorded'
  BY <1>1, <1>2, <1>3, RecordedInUndo
<1>7. Parts'
  <2>1. \A s \in Tasks : task'[s].pc = "off" <=> task[s].pc = "off"
    BY <1>2 DEF Ends
  <2>2. \A s \in Tasks : task'[s].pc = "off" <=> s \notin PartsOf(undo.item)
    BY <1>1, <1>3, <2>1 DEF Parts
  <2>3. PartsOf(undo.item)' = PartsOf(undo.item)
    BY <1>2 DEF PartsOf
  <2>4. undo'.pc = "undone" => \A s \in Tasks : task'[s].pc \in {"off", "done"}
    BY <1>2, <1>3
  <2> QED
    BY <1>2, <1>3, <2>2, <2>3, <2>4 DEF Parts
<1>8. Read'
  <2>1. \A s \in Tasks : task'[s].pc = "write" => task'[s] = task[s]
    BY <1>2 DEF Ends
  <2> QED
    BY <1>1, <2>1, ReadKept
<1>9. NextSaveFits'
  BY <1>2, <1>3 DEF NextSaveFits
<1> QED
  BY <1>4, <1>5, <1>6, <1>7, <1>8, <1>9 DEF ImportInv

\* A part of the undo has loaded what it is about.
LEMMA LoadStep ==
  ASSUME ImportInv, NEW t \in Tasks, NEW new \in TaskState, new.pc = "write",
         task[t].pc = "load", task' = [task EXCEPT ![t] = new],
         UNCHANGED <<docVars, appVars, undo, envVars, ghostVars>>
  PROVE  /\ TypeOK' /\ Sending' /\ Recorded' /\ Parts' /\ NextSaveFits'
         /\ EntitiesRead' /\ LinksRead'
         /\ (\A r \in Records : t \notin {<<"remove", r>>, <<"revert", r>>}) => PartsRead'
         /\ (\A l \in Links : t # <<"unlink", l>>) => UnlinksRead'
<1>1. /\ TypeOK /\ Sending /\ Recorded /\ Parts /\ Read /\ NextSaveFits
      /\ UNCHANGED <<db, target, relations, history, import, entity, link, undo, setting,
                     edits, faults, written, lost, unrecorded>>
  BY DEF ImportInv, docVars, appVars, envVars, ghostVars
<1>2. /\ task' \in [Tasks -> TaskState] /\ task'[t] = new
      /\ \A s \in Tasks \ {t} : task'[s] = task[s]
  BY <1>1 DEF TypeOK
<1>3. TypeOK'
  BY <1>1, <1>2 DEF TypeOK
<1>4. Sending'
  BY <1>1, SendingSame
<1>5. Recorded'
  BY <1>1, RecordedSame
<1>6. Parts'
  <2>1. undo.pc \notin {"none", "undone"} /\ t \in PartsOf(undo.item)
    BY <1>1, PartUnderWay
  <2>2. \A s \in Tasks : task'[s].pc = "off" <=> s \notin PartsOf(undo.item)
    BY <1>1, <1>2, <2>1 DEF Parts
  <2>3. PartsOf(undo.item)' = PartsOf(undo.item)
    BY <1>1 DEF PartsOf
  <2> QED
    BY <1>1, <2>1, <2>2, <2>3 DEF Parts
<1>7. NextSaveFits'
  BY <1>1 DEF NextSaveFits, WriteIsOver
<1>8. /\ db' \in [Records -> Document] /\ target' \in [Targets -> TargetDocument]
      /\ \A r \in Records : db'[r] = db[r] \/ db'[r].rev > db[r].rev
      /\ \A s \in Targets : target'[s] = target[s] \/ target'[s].rev > target[s].rev
  BY <1>1 DEF TypeOK
<1>9. EntitiesRead'
  BY <1>1, <1>8, EntitiesReadKept DEF Read
<1>10. LinksRead'
  BY <1>1, <1>8, LinksReadKept DEF Read
<1>11. ASSUME \A r \in Records : t \notin {<<"remove", r>>, <<"revert", r>>}
       PROVE  PartsRead'
  BY <1>1, <1>2, <1>8, <1>11, PartsReadKept DEF Read
<1>12. ASSUME \A l \in Links : t # <<"unlink", l>>
       PROVE  UnlinksRead'
  BY <1>1, <1>2, <1>8, <1>12, UnlinksReadKept, TasksAre DEF Read
<1> QED
  BY <1>3, <1>4, <1>5, <1>6, <1>7, <1>9, <1>10, <1>11, <1>12

-----------------------------------------------------------------------------
(***************************************************************************)
(* The steps of the import                                                 *)
(***************************************************************************)

\* Nothing is sent, linked or undone in the beginning.
LEMMA InitKeeps ==
  ASSUME Init
  PROVE  ImportInv
<1>1. TypeOK
  <2>1. db \in [Records -> Document]
    BY DEF Init, Document, Value
  <2>2. target \in [Targets -> TargetDocument]
    BY DEF Init, TargetDocument
  <2>3. history \subseteq Entry /\ Cardinality(history) <= 1
    BY AtMostOne DEF Init
  <2>4. import \in ImportState
    BY DEF Init, ImportState
  <2>5. entity \in [Records -> [rev : Nat, previous : Value]]
    BY DEF Init, Value
  <2>6. link \in [Links -> LinkState]
    BY NoLinkTyped DEF Init
  <2>7. undo \in [pc : {"none", "running", "undone", "failed"}, item : Entry]
    BY DEF Init, Entry, NoEntry
  <2>8. task \in [Tasks -> TaskState]
    BY NoTaskTyped DEF Init
  <2> QED
    BY <2>1, <2>2, <2>3, <2>4, <2>5, <2>6, <2>7, <2>8 DEF Init, TypeOK
<1>2. Sending
  <2>1. import.pc = "prepare" /\ import.next = 1 /\ ~import.stopped /\ import.saved = {}
        /\ \A r \in Records : import.result[r] = "none"
    BY DEF Init
  <2>2. import.next \in 1..Len(Requests)
    BY <1>1, <2>1, RequestsDo
  <2>3. \A k \in import.next..Len(Requests) : DocsOf(k) \subseteq Records
    BY <1>1, <2>1, RequestsDo
  <2> QED
    BY <2>1, <2>2, <2>3 DEF Sending, WriteIsOver, StoredAreReported, Init
<1>3. Recorded
  BY DEF Init, Recorded
<1>4. Parts
  BY NoTaskTyped DEF Init, Parts
<1>5. Read
  <2>1. \A t \in Tasks : task[t].pc = "off"
    BY NoTaskTyped DEF Init
  <2>2. \A l \in Links : link[l].pc = "off"
    BY NoLinkTyped DEF Init
  <2>3. EntitiesRead
    BY DEF Init, EntitiesRead
  <2>4. PartsRead
    BY <2>1 DEF PartsRead
  <2>5. LinksRead /\ UnlinksRead
    BY <2>1, <2>2, TasksAre DEF LinksRead, UnlinksRead
  <2> QED
    BY <2>3, <2>4, <2>5 DEF Read
<1>6. NextSaveFits
  BY DEF Init, NextSaveFits, WriteIsOver
<1> QED
  BY <1>1, <1>2, <1>3, <1>4, <1>5, <1>6 DEF ImportInv

\* The entities have the revisions and values that were just read.
LEMMA PrepareKeeps ==
  ASSUME ImportInv, Prepare
  PROVE  ImportInv'
<1>1. /\ TypeOK /\ Sending /\ Recorded /\ Parts /\ Read /\ NextSaveFits
      /\ UNCHANGED <<db, target, relations, history, link, undo, task, setting,
                     edits, faults, written, lost, unrecorded>>
      /\ import.pc = "prepare" /\ \A r \in Existing : db[r].value # "absent"
      /\ entity' = [r \in Records |-> [rev |-> db[r].rev, previous |-> db[r].value]]
      /\ import' = [import EXCEPT !.pc = "records"]
  BY DEF ImportInv, Prepare, docVars, undoVars, envVars, ghostVars
<1>2. /\ import' \in ImportState /\ import'.pc = "records" /\ import'.next = import.next
      /\ import'.result = import.result /\ import'.stopped = import.stopped
      /\ import'.saved = import.saved
  BY <1>1 DEF TypeOK, ImportState
<1>3. TypeOK'
  <2>1. \A r \in Records : db[r].rev \in Nat /\ db[r].value \in Value
    BY <1>1, DocumentFields DEF TypeOK
  <2>2. entity' \in [Records -> [rev : Nat, previous : Value]]
    BY <1>1, <2>1
  <2> QED
    BY <1>1, <1>2, <2>2 DEF TypeOK
<1>4. Sending'
  <2>1. ~WriteIsOver /\ ~WriteIsOver'
    BY <1>1, <1>2 DEF WriteIsOver
  <2>2. Requests' = Requests /\ \A k : DocsOf(k)' = DocsOf(k)
    BY <1>1 DEF Requests, DocsOf
  <2> QED
    BY <1>1, <1>2, <2>1, <2>2 DEF Sending, StoredAreReported
<1>5. Recorded'
  BY <1>1, <1>2 DEF Recorded
<1>6. Parts'
  BY <1>1 DEF Parts, PartsOf
<1>7. Read'
  <2>1. EntitiesRead'
    <3>1. \A r \in Records : db[r].rev \in Nat
      BY <1>1, DocumentFields DEF TypeOK
    <3>2. \A r \in Records : entity'[r].rev = db[r].rev /\ entity'[r].previous = db[r].value
      BY <1>1
    <3> QED
      BY <1>1, <3>1, <3>2, FileFacts DEF EntitiesRead, StillRecord
  <2>2. PartsRead' /\ LinksRead' /\ UnlinksRead'
    BY <1>1 DEF Read, PartsRead, LinksRead, UnlinksRead, StillRecord, StillTarget
  <2> QED
    BY <2>1, <2>2 DEF Read
<1>8. NextSaveFits'
  BY <1>2 DEF NextSaveFits, WriteIsOver
<1> QED
  BY <1>3, <1>4, <1>5, <1>6, <1>7, <1>8 DEF ImportInv

\* Nothing is written without the permissions.
LEMMA PermissionDeniedKeeps ==
  ASSUME ImportInv, PermissionDenied
  PROVE  ImportInv'
<1>1. /\ TypeOK /\ Sending /\ Recorded /\ Parts /\ Read /\ NextSaveFits
      /\ UNCHANGED <<db, target, relations, history, entity, link, undo, task, setting,
                     edits, written, lost, unrecorded>>
      /\ import.pc = "records" /\ import.next = 1 /\ faults' = faults + 1
      /\ import' = [import EXCEPT !.pc = "failed"]
  BY DEF ImportInv, PermissionDenied, docVars, undoVars, ghostVars, RequestFails
<1>2. import' \in ImportState /\ import'.pc = "failed" /\ import'.saved = import.saved
  BY <1>1 DEF TypeOK, ImportState
<1>3. TypeOK'
  BY <1>1, <1>2 DEF TypeOK
<1>4. import.saved = {} /\ written = {} /\ lost = {}
  BY <1>1 DEF Sending, WriteIsOver
<1>5. Sending'
  BY <1>1, <1>2, <1>4 DEF Sending, WriteIsOver, StoredAreReported
<1>6. Recorded'
  BY <1>1, <1>2, <1>4 DEF Recorded
<1>7. Parts'
  BY <1>1 DEF Parts, PartsOf
<1>8. Read'
  BY <1>1, <1>2 DEF Read, EntitiesRead, PartsRead, LinksRead, UnlinksRead, StillRecord, StillTarget
<1>9. NextSaveFits'
  BY <1>2, <1>4 DEF NextSaveFits
<1> QED
  BY <1>3, <1>5, <1>6, <1>7, <1>8, <1>9 DEF ImportInv

\* A link action loads its target.
LEMMA LoadTargetKeeps ==
  ASSUME ImportInv, NEW l \in Links, LoadTarget(l)
  PROVE  ImportInv'
<1> DEFINE t == target[Target[l]]
           new == [pc |-> "save", rev |-> t.rev, seen |-> t.links, others |-> t.others]
<1>1. /\ TypeOK /\ Sending /\ Recorded /\ Parts /\ Read /\ NextSaveFits
      /\ UNCHANGED <<db, target, relations, history, import, entity, undo, task, setting,
                     edits, faults, written, lost, unrecorded>>
      /\ link' = [link EXCEPT ![l] = new]
  BY DEF ImportInv, LoadTarget, docVars, undoVars, envVars, ghostVars
<1>2. t.rev \in Nat /\ t.links \in SUBSET (Links \X Records) /\ t.others \in Nat
  BY <1>1, LinksAssumption, TargetFields DEF TypeOK
<1>3. new \in LinkState /\ new.rev = t.rev /\ new.seen = t.links /\ new.others = t.others
  BY <1>2 DEF LinkState
<1> HIDE DEF new
<1>4. /\ link' \in [Links -> LinkState] /\ link'[l] = new
      /\ \A k \in Links \ {l} : link'[k] = link[k]
  BY <1>1, <1>3 DEF TypeOK
<1>5. TypeOK'
  BY <1>1, <1>4 DEF TypeOK
<1>6. Sending'
  BY <1>1, SendingSame
<1>7. Recorded'
  BY <1>1, RecordedSame
<1>8. Parts'
  BY <1>1 DEF Parts, PartsOf
<1>9. Read'
  <2>1. EntitiesRead' /\ PartsRead' /\ UnlinksRead'
    BY <1>1 DEF Read, EntitiesRead, PartsRead, UnlinksRead, StillRecord, StillTarget
  <2>2. StillTarget(Target[l], link[l])'
    BY <1>1, <1>2, <1>3, <1>4 DEF StillTarget
  <2>3. \A k \in (Links \ Indirect) \ {l} : link'[k].pc = "save" => StillTarget(Target[k], link[k])'
    BY <1>1, <1>4 DEF Read, LinksRead, StillTarget
  <2>4. LinksRead'
    BY <2>2, <2>3 DEF LinksRead
  <2> QED
    BY <2>1, <2>4 DEF Read
<1>10. NextSaveFits'
  BY <1>1 DEF NextSaveFits, WriteIsOver
<1> QED
  BY <1>5, <1>6, <1>7, <1>8, <1>9, <1>10 DEF ImportInv

\* What a link action saves
LEMMA NewTargetDoes ==
  ASSUME TypeOK, NEW t \in Targets, NEW seen, NEW links, links \subseteq Links \X Records,
         seen.rev = target[t].rev, seen.others \in Nat,
         target' = [target EXCEPT ![t] = NewTarget(seen, links)]
  PROVE  /\ target' \in [Targets -> TargetDocument]
         /\ target'[t].rev > target[t].rev /\ target'[t].links = links
         /\ target'[t].others = seen.others
         /\ \A s \in Targets \ {t} : target'[s] = target[s]
<1>1. target[t].rev \in Nat
  BY TargetFields DEF TypeOK
<1> DEFINE new == NewTarget(seen, links)
<1>2. /\ new \in TargetDocument
      /\ new.rev = target[t].rev + 1 /\ new.links = links /\ new.others = seen.others
  BY <1>1 DEF NewTarget, TargetDocument
<1>3. target' = [target EXCEPT ![t] = new]
  OBVIOUS
<1> HIDE DEF new
<1>4. /\ target' \in [Targets -> TargetDocument] /\ target'[t] = new
      /\ \A s \in Targets \ {t} : target'[s] = target[s]
  BY <1>2, <1>3 DEF TypeOK
<1> QED
  BY <1>1, <1>2, <1>4

\* The target is saved, in a later revision, or the action fails.
LEMMA SaveTargetKeeps ==
  ASSUME ImportInv, NEW l \in Links, SaveTarget(l)
  PROVE  ImportInv'
<1> DEFINE t == Target[l]
           links == link[l].seen \cup {<<l, r>> : r \in Records}
           new == NewTarget(link[l], links)
           fits == target[t].rev = link[l].rev
<1>1. /\ TypeOK /\ link[l].pc = "save"
      /\ UNCHANGED <<db, relations, history, entity, undo, task, setting, edits, written, lost,
                     unrecorded>>
  BY DEF ImportInv, SaveTarget, undoVars, ghostVars
<1>2. t \in Targets /\ links \subseteq Links \X Records /\ link[l].others \in Nat
  BY <1>1, LinksAssumption, LinkFields DEF TypeOK
<1>3. /\ target' = target \/ (fits /\ target' = [target EXCEPT ![t] = new])
      /\ faults' \in Nat
      /\ \E pc \in Ends : LinkEnds(l, pc)
  BY <1>1 DEF SaveTarget, Ends, ResponseLost, RequestFails, TypeOK
<1>4. /\ target' \in [Targets -> TargetDocument]
      /\ \A s \in Targets : target'[s] = target[s] \/ target'[s].rev > target[s].rev
  <2>1. CASE target' = target
    BY <1>1, <2>1 DEF TypeOK
  <2>2. CASE fits /\ target' = [target EXCEPT ![t] = new]
    <3> DEFINE seen == link[l]
    <3>1. /\ seen.rev = target[t].rev /\ seen.others \in Nat
          /\ target' = [target EXCEPT ![t] = NewTarget(seen, links)]
      BY <1>2, <2>2
    <3> HIDE DEF seen, links, t
    <3>2. /\ target' \in [Targets -> TargetDocument]
          /\ target'[t].rev > target[t].rev
          /\ \A s \in Targets \ {t} : target'[s] = target[s]
      BY <1>1, <1>2, <3>1, NewTargetDoes
    <3> QED
      BY <3>2
  <2> QED
    BY <1>3, <2>1, <2>2
<1>5. PICK pc \in Ends : LinkEnds(l, pc)
  BY <1>3
<1>6. relations' \subseteq Links \X Records
  BY <1>1 DEF TypeOK
<1> QED
  BY <1>1, <1>3, <1>4, <1>5, <1>6, LinkStep

\* Relations have no revisions.
LEMMA SaveRelationsKeeps ==
  ASSUME ImportInv, NEW l \in Links, SaveRelations(l)
  PROVE  ImportInv'
<1>1. /\ TypeOK /\ faults' \in Nat
      /\ UNCHANGED <<db, target, history, entity, undo, task, setting, edits, written, lost,
                     unrecorded>>
      /\ \E stored \in SUBSET Records : relations' = relations \cup {<<l, r>> : r \in stored}
      /\ \E pc \in Ends : LinkEnds(l, pc)
  <2>1. /\ TypeOK
        /\ UNCHANGED <<db, target, history, entity, undo, task, setting, edits, written, lost,
                       unrecorded>>
    BY DEF ImportInv, SaveRelations, undoVars, ghostVars
  <2>2. PICK stored \in SUBSET Records :
           /\ relations' = relations \cup {<<l, r>> : r \in stored}
           /\ \/ stored = Records /\ LinkEnds(l, "done") /\ UNCHANGED faults
              \/ stored # Records /\ RequestFails /\ LinkEnds(l, "failed")
              \/ ResponseLost /\ LinkEnds(l, "failed")
    BY DEF SaveRelations
  <2>3. faults' \in Nat /\ \E pc \in Ends : LinkEnds(l, pc)
    BY <2>1, <2>2 DEF TypeOK, Ends, ResponseLost, RequestFails
  <2> QED
    BY <2>1, <2>2, <2>3
<1>2. PICK pc \in Ends : LinkEnds(l, pc)
  BY <1>1
<1>3. relations' \subseteq Links \X Records /\ target' \in [Targets -> TargetDocument]
  BY <1>1 DEF TypeOK
<1> QED
  BY <1>1, <1>2, <1>3, LinkStep

\* A failure ends the action, and touches no document.
LEMMA LinkFailsKeeps ==
  ASSUME ImportInv, NEW l \in Links, LinkFails(l)
  PROVE  ImportInv'
<1>1. /\ TypeOK /\ faults' \in Nat /\ "failed" \in Ends /\ LinkEnds(l, "failed")
      /\ UNCHANGED <<db, target, relations, history, entity, undo, task, setting, edits,
                     written, lost, unrecorded>>
  BY DEF ImportInv, TypeOK, LinkFails, docVars, undoVars, ghostVars, Ends, RequestFails
<1>2. relations' \subseteq Links \X Records /\ target' \in [Targets -> TargetDocument]
  BY <1>1 DEF TypeOK
<1> QED
  BY <1>1, <1>2, LinkStep

\* The next request has records without a result, which later requests do not have.
LEMMA NextDocsAre ==
  ASSUME TypeOK, Sending, import.pc = "records"
  PROVE  /\ NextDocs \subseteq Records /\ \A r \in NextDocs : import.result[r] = "none"
         /\ NextDocs \cap written = {}
         /\ \A k \in (import.next + 1)..Len(Requests) : DocsOf(k) \cap NextDocs = {}
<1>1. NextDocs = DocsOf(import.next)
  BY DEF NextDocs, DocsOf
<1>2. import.next \in 1..Len(Requests) /\ Len(Requests) \in Nat
  BY RequestsDo DEF Sending, WriteIsOver
<1>3. NextDocs \subseteq Records
  BY <1>1, <1>2, RequestsDo
<1>4. \A r \in NextDocs : import.result[r] = "none"
  BY <1>1, <1>2 DEF Sending, WriteIsOver
<1>5. NextDocs \cap written = {}
  BY <1>3, <1>4 DEF Sending, WriteIsOver
<1>6. ASSUME NEW k \in (import.next + 1)..Len(Requests)
      PROVE  DocsOf(k) \cap NextDocs = {}
  <2>1. k \in 1..Len(Requests) /\ k # import.next
    BY <1>2, <1>6
  <2> QED
    BY <1>1, <1>2, <2>1, RequestsDo
<1> QED
  BY <1>3, <1>4, <1>5, <1>6

\* What a step of the write does not touch, and what it does to the types
LEMMA WriteKeeps ==
  ASSUME TypeOK, Recorded, Parts, Read, import.pc = "records",
         UNCHANGED <<target, relations, history, undo, task, setting, edits, unrecorded>>,
         faults' \in Nat, db' \in [Records -> Document],
         \A r \in Records : db'[r] = db[r] \/ db'[r].rev > db[r].rev,
         written' \subseteq Records, lost' \subseteq Records, import' \in ImportState,
         import'.pc = "failed" => import'.saved = {}, import'.saved = {} \/ import'.pc # "records",
         import'.pc \in {"records", "links", "history", "reporting", "failed"},
         link' \in [Links -> LinkState], entity' \in [Records -> EntityState],
         \A r \in Records : entity'[r].previous = entity[r].previous,
         \A l \in Links \ Indirect : link'[l].pc = "save" => link'[l] = link[l],
         import'.pc = "records" => entity' = entity
  PROVE  TypeOK' /\ Recorded' /\ Parts' /\ Read'
<1>1. TypeOK'
  BY DEF TypeOK, EntityState
<1>2. Recorded'
  BY DEF Recorded
<1>3. Parts'
  BY DEF Parts, PartsOf
<1>4. Read'
  <2>1. /\ target' \in [Targets -> TargetDocument]
        /\ \A t \in Targets : target'[t] = target[t] \/ target'[t].rev > target[t].rev
    BY DEF TypeOK
  <2> QED
    BY <2>1, ReadKept
<1> QED
  BY <1>1, <1>2, <1>3, <1>4

\* What a request does, whose documents are stored or not: the write goes on with i, or
\* it is over.
RequestDoes(stored, i) ==
    /\ stored \subseteq NextDocs /\ written' = written \cup stored
    /\ faults' = faults => stored = Fitting(NextDocs)
    /\ db' \in [Records -> Document]
    /\ \A r \in stored : db'[r].rev = db[r].rev + 1 /\ db'[r].value = "imported"
    /\ \A r \in Records \ stored : db'[r] = db[r]
    /\ i \in ImportState /\ i.next = import.next + 1
    /\ i.pc = "records" /\ i.saved = {} /\ ~i.stopped
    /\ \A r \in Records \ NextDocs : i.result[r] = import.result[r]
    /\ {r \in Records : i.result[r] = "ok"} = written'
    /\ import' \in ImportState /\ link' \in [Links -> LinkState]
    /\ entity' \in [Records -> EntityState]
    /\ \A r \in Records : entity'[r].previous = entity[r].previous
    /\ \A l \in Links \ Indirect : link'[l].pc = "save" => link'[l] = link[l]
    /\ MoreRequests(i) => import' = i /\ UNCHANGED <<entity, link>>
    /\ ~MoreRequests(i) =>
         /\ import'.pc \in {"links", "history", "reporting", "failed"}
         /\ import'.saved = {r \in Records : i.result[r] = "ok"}
         /\ import'.pc = "failed" => import'.saved = {}
         /\ import'.pc = "links" => import'.saved = Records
         /\ import'.pc # "links" => Links = {} \/ link' = link
         /\ import'.pc = "links" => \A l \in Links : link'[l].pc \in {"load", "save"}
         /\ \A r \in Records :
               entity'[r].rev = IF i.result[r] = "ok" THEN db'[r].rev ELSE entity[r].rev

\* Later requests have other records, so that results are never overwritten.
LEMMA WriteRequestDoes ==
  ASSUME ImportInv, WriteRequest
  PROVE  \E stored, i : RequestDoes(stored, i)
<1>1. /\ TypeOK /\ Sending /\ Recorded /\ Parts /\ Read /\ NextSaveFits
      /\ import.pc = "records"
      /\ UNCHANGED <<target, relations, history, undo, task, setting, edits, lost, unrecorded>>
  BY DEF ImportInv, WriteRequest, undoVars
<1>2. PICK refused \in SUBSET NextDocs :
         /\ IF refused = {} THEN UNCHANGED faults ELSE setting.remote /\ RequestFails
         /\ LET stored == Fitting(NextDocs \ refused)
                result == [r \in Records |-> IF r \in stored THEN "ok"
                                             ELSE IF r \in NextDocs THEN "error"
                                             ELSE import.result[r]]
            IN /\ db' = StoreDocs(stored)
               /\ written' = written \cup stored
               /\ Proceed([import EXCEPT !.next = @ + 1, !.result = result], db')
  BY DEF WriteRequest
<1> DEFINE stored == Fitting(NextDocs \ refused)
           result == [r \in Records |-> IF r \in stored THEN "ok"
                                        ELSE IF r \in NextDocs THEN "error"
                                        ELSE import.result[r]]
           i == [import EXCEPT !.next = import.next + 1, !.result = result]
<1>3. /\ db' = StoreDocs(stored) /\ written' = written \cup stored /\ Proceed(i, db')
      /\ faults' \in Nat
  BY <1>1, <1>2 DEF RequestFails, TypeOK
<1>4. /\ NextDocs \subseteq Records /\ \A r \in NextDocs : import.result[r] = "none"
      /\ NextDocs \cap written = {}
      /\ \A k \in (import.next + 1)..Len(Requests) : DocsOf(k) \cap NextDocs = {}
  BY <1>1, NextDocsAre
<1>5. stored \subseteq NextDocs /\ (faults' = faults => stored = Fitting(NextDocs))
  <2>1. stored \subseteq NextDocs
    BY <1>4, FittingDoes
  <2>2. faults' = faults => refused = {}
    BY <1>1, <1>2 DEF RequestFails, TypeOK
  <2> QED
    BY <2>1, <2>2
<1> HIDE DEF stored
<1>6. /\ import \in ImportState /\ import.next \in Nat
      /\ import.result \in [Records -> {"none", "ok", "error"}]
      /\ import.saved = {} /\ ~import.stopped /\ lost = {}
      /\ written = {r \in Records : import.result[r] = "ok"}
      /\ import.next \in 1..Len(Requests) /\ Len(Requests) \in Nat
      /\ \A k \in import.next..Len(Requests) : \A r \in DocsOf(k) : import.result[r] = "none"
  BY <1>1, ImportFields, RequestsDo DEF TypeOK, Sending, WriteIsOver
<1>7. /\ result \in [Records -> {"none", "ok", "error"}]
      /\ \A r \in Records : result[r] = IF r \in stored THEN "ok"
                                        ELSE IF r \in NextDocs THEN "error"
                                        ELSE import.result[r]
  BY <1>6
<1> HIDE DEF result
<1>8. /\ i \in ImportState /\ i.next = import.next + 1 /\ i.result = result
      /\ i.pc = "records" /\ i.saved = {} /\ ~i.stopped
  <2> DEFINE next == import.next + 1
  <2>1. next \in Nat
    BY <1>6
  <2> HIDE DEF next
  <2>2. i = [import EXCEPT !.next = next, !.result = result]
    BY DEF next
  <2>3. /\ i \in ImportState /\ i.next = next /\ i.result = result
        /\ i.pc = import.pc /\ i.saved = import.saved /\ i.stopped = import.stopped
    BY <1>6, <1>7, <2>1, <2>2 DEF ImportState
  <2> QED
    BY <1>1, <1>6, <2>3 DEF next
<1> HIDE DEF i
<1>9. /\ db' \in [Records -> Document]
      /\ \A r \in stored : db'[r].rev = db[r].rev + 1 /\ db'[r].value = "imported"
      /\ \A r \in Records \ stored : db'[r] = db[r]
  BY <1>1, <1>3, <1>4, <1>5, StoreDocsDoes
<1>11. /\ import' \in ImportState
       /\ link' \in [Links -> LinkState]
       /\ entity' \in [Records -> EntityState]
       /\ \A r \in Records : entity'[r].previous = entity[r].previous
       /\ \A l \in Links \ Indirect : link'[l].pc = "save" => link'[l] = link[l]
       /\ MoreRequests(i) => import' = i /\ UNCHANGED <<entity, link>>
       /\ ~MoreRequests(i) =>
            /\ import'.pc \in {"links", "history", "reporting", "failed"}
            /\ import'.saved = {r \in Records : i.result[r] = "ok"}
            /\ import'.pc = "failed" => import'.saved = {}
            /\ import'.pc = "links" => import'.saved = Records
            /\ import'.pc # "links" => Links = {} \/ link' = link
            /\ import'.pc = "links" => \A l \in Links : link'[l].pc \in {"load", "save"}
            /\ \A r \in Records :
                  entity'[r].rev = IF i.result[r] = "ok" THEN db'[r].rev ELSE entity[r].rev
  BY <1>1, <1>3, <1>8, <1>9, ProceedDoes
<1>12. {r \in Records : i.result[r] = "ok"} = written'
  BY <1>3, <1>4, <1>5, <1>6, <1>7, <1>8
<1>13. \A r \in Records \ NextDocs : i.result[r] = import.result[r]
  BY <1>5, <1>7, <1>8
<1>14. RequestDoes(stored, i)
  BY <1>3, <1>5, <1>8, <1>9, <1>11, <1>12, <1>13 DEF RequestDoes
<1> QED
  BY <1>14

\* After a request, or after the last one, the app knows what is stored.
LEMMA WriteRequestKeeps ==
  ASSUME ImportInv, WriteRequest
  PROVE  ImportInv'
<1>1. /\ TypeOK /\ Sending /\ Recorded /\ Parts /\ Read /\ NextSaveFits
      /\ import.pc = "records"
      /\ UNCHANGED <<target, relations, history, undo, task, setting, edits, lost, unrecorded>>
  BY DEF ImportInv, WriteRequest, undoVars
<1>2. PICK stored, i : RequestDoes(stored, i)
  BY WriteRequestDoes
<1>3. faults' \in Nat
  BY <1>1 DEF WriteRequest, RequestFails, TypeOK
<1>4. /\ NextDocs \subseteq Records
      /\ \A k \in (import.next + 1)..Len(Requests) : DocsOf(k) \cap NextDocs = {}
  BY <1>1, NextDocsAre
<1>5. stored \subseteq NextDocs /\ written' = written \cup stored
  BY <1>2 DEF RequestDoes
<1>6. /\ lost = {} /\ import.next \in 1..Len(Requests) /\ Len(Requests) \in Nat
      /\ \A k \in import.next..Len(Requests) : \A r \in DocsOf(k) : import.result[r] = "none"
  BY <1>1, RequestsDo DEF Sending, WriteIsOver
<1>7. \A r \in Records \ NextDocs : i.result[r] = import.result[r]
  BY <1>2 DEF RequestDoes
<1>8. /\ i \in ImportState /\ i.next = import.next + 1
      /\ i.pc = "records" /\ i.saved = {} /\ ~i.stopped
  BY <1>2 DEF RequestDoes
<1>9. /\ db' \in [Records -> Document]
      /\ \A r \in stored : db'[r].rev = db[r].rev + 1 /\ db'[r].value = "imported"
      /\ \A r \in Records \ stored : db'[r] = db[r]
  BY <1>2 DEF RequestDoes
<1>10. \A r \in Records : db'[r] = db[r] \/ db'[r].rev > db[r].rev
  BY <1>1, <1>9, DocumentFields DEF TypeOK
<1>11. /\ import' \in ImportState
       /\ link' \in [Links -> LinkState]
       /\ entity' \in [Records -> EntityState]
       /\ \A r \in Records : entity'[r].previous = entity[r].previous
       /\ \A l \in Links \ Indirect : link'[l].pc = "save" => link'[l] = link[l]
       /\ MoreRequests(i) => import' = i /\ UNCHANGED <<entity, link>>
       /\ ~MoreRequests(i) =>
            /\ import'.pc \in {"links", "history", "reporting", "failed"}
            /\ import'.saved = {r \in Records : i.result[r] = "ok"}
            /\ import'.pc = "failed" => import'.saved = {}
            /\ \A r \in Records :
                  entity'[r].rev = IF i.result[r] = "ok" THEN db'[r].rev ELSE entity[r].rev
  BY <1>2 DEF RequestDoes
<1>12. {r \in Records : i.result[r] = "ok"} = written'
  BY <1>2 DEF RequestDoes
<1>13. TypeOK' /\ Recorded' /\ Parts' /\ Read'
  <2>1. written' \subseteq Records /\ lost' \subseteq Records
    BY <1>1, <1>12 DEF TypeOK
  <2> QED
    BY <1>1, <1>3, <1>8, <1>9, <1>10, <1>11, <2>1, WriteKeeps
<1>14. Sending'
  <2>1. CASE MoreRequests(i)
    <3>1. import' = i /\ import.next + 1 <= Len(Requests)
      BY <1>8, <1>11, <2>1 DEF MoreRequests
    <3>2. import'.next \in 1..Len(Requests) /\ import'.next # 1
      BY <1>6, <1>8, <3>1
    <3>3. Requests' = Requests /\ \A k : DocsOf(k)' = DocsOf(k)
      BY <1>1 DEF Requests, DocsOf
    <3>4. ASSUME NEW k \in (import.next + 1)..Len(Requests), NEW r \in DocsOf(k)
          PROVE  i.result[r] = "none"
      <4>1. k \in import.next..Len(Requests) /\ k \in 1..Len(Requests)
        BY <1>6
      <4>2. import.result[r] = "none" /\ r \notin NextDocs /\ r \in Records
        BY <1>1, <1>4, <1>6, <3>4, <4>1, RequestsDo
      <4> QED
        BY <1>7, <4>2
    <3>5. ~WriteIsOver'
      BY <1>8, <3>1 DEF WriteIsOver
    <3>6. \A k \in import'.next..Len(Requests') : \A r \in DocsOf(k)' : import'.result[r] = "none"
      BY <1>8, <3>1, <3>3, <3>4
    <3>7. written' = {r \in Records : import'.result[r] = "ok"}
      BY <1>12, <3>1
    <3> QED
      BY <1>1, <1>6, <1>8, <3>1, <3>2, <3>3, <3>5, <3>6, <3>7 DEF Sending, StoredAreReported
  <2>2. CASE ~MoreRequests(i)
    <3>1. WriteIsOver'
      BY <1>11, <2>2 DEF WriteIsOver
    <3>2. import'.saved = written' \ lost'
      BY <1>1, <1>6, <1>11, <1>12, <2>2
    <3> QED
      BY <3>1, <3>2 DEF Sending, StoredAreReported
  <2> QED
    BY <2>1, <2>2
<1>15. NextSaveFits'
  <2>1. CASE MoreRequests(i)
    BY <1>8, <1>11, <2>1 DEF NextSaveFits, WriteIsOver
  <2>2. CASE ~MoreRequests(i)
    BY <1>11, <2>2 DEF NextSaveFits
  <2> QED
    BY <2>1, <2>2
<1> QED
  BY <1>13, <1>14, <1>15 DEF ImportInv

\* When a request fails, what it stored is what the app does not know of.
LEMMA WriteRequestFailsKeeps ==
  ASSUME ImportInv, WriteRequestFails
  PROVE  ImportInv'
<1> DEFINE stored == Fitting(NextDocs)
           i == [import EXCEPT !.stopped = TRUE]
<1>1. /\ TypeOK /\ Sending /\ Recorded /\ Parts /\ Read /\ NextSaveFits
      /\ import.pc = "records" /\ faults' \in Nat
      /\ UNCHANGED <<target, relations, history, undo, task, setting, edits, unrecorded>>
      /\ \/ UNCHANGED <<db, written, lost>>
         \/ db' = StoreDocs(stored) /\ written' = written \cup stored /\ lost' = lost \cup stored
      /\ Proceed(i, db)
  BY DEF ImportInv, WriteRequestFails, undoVars, ResponseLost, RequestFails, TypeOK
<1>2. /\ NextDocs \subseteq Records /\ NextDocs \cap written = {}
  BY <1>1, NextDocsAre
<1>3. stored \subseteq NextDocs
  BY <1>2, FittingDoes
<1> HIDE DEF stored
<1>4. /\ import \in ImportState /\ import.saved = {} /\ lost = {}
      /\ written = {r \in Records : import.result[r] = "ok"}
  BY <1>1 DEF TypeOK, Sending, WriteIsOver
<1>5. /\ i \in ImportState /\ i.result = import.result
      /\ i.pc = "records" /\ i.saved = {} /\ i.stopped
  BY <1>1, <1>4 DEF ImportState
<1> HIDE DEF i
<1>6. /\ db' \in [Records -> Document]
      /\ \A r \in Records : db'[r] = db[r] \/ db'[r].rev > db[r].rev
      /\ \A r \in Records \ NextDocs : db'[r] = db[r]
  <2>1. CASE UNCHANGED <<db, written, lost>>
    BY <1>1, <2>1 DEF TypeOK
  <2>2. CASE db' = StoreDocs(stored)
    <3>1. /\ db' \in [Records -> Document]
          /\ \A r \in stored : db'[r].rev = db[r].rev + 1
          /\ \A r \in Records \ stored : db'[r] = db[r]
      BY <1>1, <1>2, <1>3, <2>2, StoreDocsDoes
    <3> QED
      BY <1>1, <1>3, <3>1, DocumentFields DEF TypeOK
  <2> QED
    BY <1>1, <2>1, <2>2
<1>7. /\ import' \in ImportState
      /\ link' \in [Links -> LinkState]
      /\ entity' \in [Records -> EntityState]
      /\ \A r \in Records : entity'[r].previous = entity[r].previous
      /\ \A l \in Links \ Indirect : link'[l].pc = "save" => link'[l] = link[l]
      /\ import'.pc \in {"links", "history", "reporting", "failed"}
      /\ import'.saved = {r \in Records : i.result[r] = "ok"}
      /\ import'.pc = "failed" => import'.saved = {}
      /\ \A r \in Records :
            entity'[r].rev = IF i.result[r] = "ok" THEN db[r].rev ELSE entity[r].rev
  <2>1. db \in [Records -> Document] /\ ~MoreRequests(i)
    BY <1>1, <1>5 DEF TypeOK, MoreRequests
  <2> QED
    BY <1>1, <1>5, <2>1, ProceedDoes
<1>8. import'.saved = written
  BY <1>4, <1>5, <1>7
<1>9. TypeOK' /\ Recorded' /\ Parts' /\ Read'
  <2>1. written' \subseteq Records /\ lost' \subseteq Records
    BY <1>1, <1>2, <1>3 DEF TypeOK
  <2> QED
    BY <1>1, <1>6, <1>7, <2>1, WriteKeeps
<1>10. Sending'
  <2>1. WriteIsOver'
    BY <1>7 DEF WriteIsOver
  <2>2. import'.saved = written' \ lost'
    BY <1>1, <1>2, <1>3, <1>4, <1>8
  <2> QED
    BY <2>1, <2>2 DEF Sending, StoredAreReported
<1>11. NextSaveFits'
  <2>1. \A r \in written : r \in Records /\ r \notin NextDocs /\ i.result[r] = "ok"
    BY <1>2, <1>4, <1>5
  <2> QED
    BY <1>6, <1>7, <1>8, <2>1 DEF NextSaveFits
<1> QED
  BY <1>9, <1>10, <1>11 DEF ImportInv

\* A history entry is saved, or not.
LEMMA HistoryStep ==
  ASSUME ImportInv, import.pc \in {"history", "reporting"}, NEW pc,
         import' = [import EXCEPT !.pc = pc], pc \in {"completed", "partial", "failed"},
         history' = {EntryFor(import.saved)} \/ (history' = history /\ unrecorded'),
         unrecorded' \in BOOLEAN, pc = "failed" => unrecorded', faults' \in Nat,
         UNCHANGED <<db, target, relations, entity, link, undo, task, setting, edits,
                     written, lost>>
  PROVE  ImportInv'
<1>1. /\ TypeOK /\ Sending /\ Recorded /\ Parts /\ Read /\ NextSaveFits
      /\ history = {} /\ undo.pc = "none"
  BY DEF ImportInv, Recorded
<1>2. import' \in ImportState /\ import'.pc = pc /\ import'.saved = import.saved
  BY <1>1 DEF TypeOK, ImportState
<1>3. TypeOK'
  <2>1. import.saved \in SUBSET Records
    BY <1>1, ImportFields DEF TypeOK
  <2>2. EntryFor(import.saved) \in Entry
    BY <2>1, EntryDoes
  <2> DEFINE e == EntryFor(import.saved)
  <2> HIDE DEF e
  <2>3. e \in Entry /\ (history' = {e} \/ history' = {})
    BY <1>1, <2>2 DEF e
  <2>4. history' \subseteq Entry /\ Cardinality(history') <= 1
    BY <2>3, AtMostOne
  <2> QED
    BY <1>1, <1>2, <2>4 DEF TypeOK
<1>4. Sending'
  BY <1>1, <1>2, SendingOver DEF WriteIsOver
<1>5. Recorded'
  BY <1>1, <1>2 DEF Recorded, EntryFor
<1>6. Parts'
  BY <1>1 DEF Parts, PartsOf
<1>7. Read'
  BY <1>1, <1>2 DEF Read, EntitiesRead, PartsRead, LinksRead, UnlinksRead, StillRecord, StillTarget
<1>8. NextSaveFits'
  BY <1>1, <1>2 DEF NextSaveFits, WriteIsOver
<1> QED
  BY <1>3, <1>4, <1>5, <1>6, <1>7, <1>8 DEF ImportInv

\* The entry is saved when the import is complete or reported as partial.
LEMMA SaveHistoryKeeps ==
  ASSUME ImportInv, SaveHistory
  PROVE  ImportInv'
<1> DEFINE pc == IF import.pc = "history" THEN "completed" ELSE "partial"
<1>1. /\ import.pc \in {"history", "reporting"} /\ history' = {EntryFor(import.saved)}
      /\ import' = [import EXCEPT !.pc = pc] /\ pc \in {"completed", "partial", "failed"}
      /\ pc # "failed" /\ unrecorded' \in BOOLEAN /\ faults' \in Nat
      /\ UNCHANGED <<db, target, relations, entity, link, undo, task, setting, edits,
                     written, lost>>
  BY DEF ImportInv, TypeOK, SaveHistory, undoVars, envVars, ghostVars
<1> HIDE DEF pc
<1> QED
  BY <1>1, HistoryStep

\* When this fails, it is known that the entry may be missing.
LEMMA SaveHistoryFailsKeeps ==
  ASSUME ImportInv, SaveHistoryFails
  PROVE  ImportInv'
<1> DEFINE pc == IF import.pc = "history" THEN "failed" ELSE "partial"
<1>1. /\ import.pc \in {"history", "reporting"}
      /\ history' = {EntryFor(import.saved)} \/ history' = history
      /\ import' = [import EXCEPT !.pc = pc] /\ pc \in {"completed", "partial", "failed"}
      /\ unrecorded' = TRUE /\ faults' \in Nat
      /\ UNCHANGED <<db, target, relations, entity, link, undo, task, setting, edits,
                     written, lost>>
  BY DEF ImportInv, TypeOK, SaveHistoryFails, undoVars, RequestFails, ResponseLost
<1> HIDE DEF pc
<1> QED
  BY <1>1, HistoryStep

\* The undo begins with the parts of the entry.
LEMMA UndoImportKeeps ==
  ASSUME ImportInv, UndoImport
  PROVE  ImportInv'
<1> DEFINE item == CHOOSE e \in history : TRUE
           begin(t) == [NoTask EXCEPT !.pc = IF t[1] = "history" THEN "write" ELSE "load"]
           new(t) == IF t \notin PartsOf(item) THEN NoTask ELSE begin(t)
<1>1. /\ TypeOK /\ Sending /\ Recorded /\ Parts /\ Read /\ NextSaveFits
      /\ undo.pc = "none" /\ history # {}
      /\ import.pc \in {"completed", "partial", "failed"}
      /\ undo' = [pc |-> "running", item |-> item]
      /\ task' = [t \in Tasks |-> new(t)]
      /\ UNCHANGED <<db, target, relations, history, import, entity, link, setting,
                     edits, faults, written, lost, unrecorded>>
  BY DEF ImportInv, UndoImport, docVars, appVars, envVars, ghostVars
<1>2. item \in history
  BY <1>1
<1> HIDE DEF item
<1>3. item \in Entry /\ item = EntryFor(import.saved)
  BY <1>1, <1>2 DEF TypeOK, Recorded
<1>4. \A t \in Tasks : begin(t) \in TaskState
                       /\ begin(t).pc = IF t[1] = "history" THEN "write" ELSE "load"
  BY NoTaskTyped
<1>5. NoTask \in TaskState /\ NoTask.pc = "off"
  BY NoTaskTyped
<1> HIDE DEF begin
<1>6. \A t \in Tasks : /\ new(t) \in TaskState
                       /\ new(t).pc = "off" <=> t \notin PartsOf(item)
                       /\ new(t).pc = "write" => t[1] = "history"
  BY <1>4, <1>5
<1> HIDE DEF new
<1>7. /\ task' \in [Tasks -> TaskState]
      /\ \A t \in Tasks : /\ task'[t].pc = "off" <=> t \notin PartsOf(item)
                          /\ task'[t].pc = "write" => t[1] = "history"
  BY <1>1, <1>6
<1>8. TypeOK'
  BY <1>1, <1>3, <1>7 DEF TypeOK
<1>9. Sending'
  BY <1>1, SendingSame
<1>10. Recorded'
  BY <1>1, <1>3 DEF Recorded, EntryFor
<1>11. Parts'
  <2>1. PartsOf(undo.item)' = PartsOf(item)
    BY <1>1 DEF PartsOf
  <2> QED
    BY <1>1, <1>7, <2>1 DEF Parts
<1>12. Read'
  <2>1. EntitiesRead' /\ LinksRead'
    BY <1>1 DEF Read, EntitiesRead, LinksRead, StillRecord, StillTarget
  <2>2. PartsRead'
    BY <1>7 DEF PartsRead
  <2>3. UnlinksRead'
    BY <1>7, TasksAre DEF UnlinksRead
  <2> QED
    BY <2>1, <2>2, <2>3 DEF Read
<1>13. NextSaveFits'
  BY <1>1 DEF NextSaveFits
<1> QED
  BY <1>8, <1>9, <1>10, <1>11, <1>12, <1>13 DEF ImportInv

\* A part fails, and touches no document.
LEMMA TaskFailsKeeps ==
  ASSUME ImportInv, NEW t \in Tasks, TaskFails(t)
  PROVE  ImportInv'
<1>1. /\ TypeOK /\ faults' \in Nat /\ task[t].pc \in {"load", "write"} /\ TaskEnds(t, FALSE)
      /\ UNCHANGED <<appVars, setting, edits, ghostVars>>
      /\ UNCHANGED <<db, target, relations, history>>
  <2>1. TypeOK
    BY DEF ImportInv
  <2>2. /\ task[t].pc \in {"load", "write"} /\ RequestFails /\ TaskEnds(t, FALSE)
        /\ UNCHANGED <<appVars, setting, edits, ghostVars>> /\ UNCHANGED docVars
    BY DEF TaskFails
  <2>3. faults' \in Nat
    BY <2>1, <2>2 DEF TypeOK, RequestFails
  <2>4. UNCHANGED <<db, target, relations, history>>
    BY <2>2 DEF docVars
  <2> QED
    BY <2>1, <2>2, <2>3, <2>4
<1>2. /\ db' \in [Records -> Document] /\ target' \in [Targets -> TargetDocument]
      /\ relations' \subseteq Links \X Records
      /\ \A r \in Records : db'[r] = db[r]
      /\ \A s \in Targets : target'[s] = target[s]
  BY <1>1 DEF TypeOK
<1> QED
  BY <1>1, <1>2, TaskStep

\* A part loads its record, or finds it gone and ends.
LEMMA LoadRecordKeeps ==
  ASSUME ImportInv, NEW t \in Tasks, NEW r \in Records, LoadRecord(t, r)
  PROVE  ImportInv'
<1>1. /\ TypeOK /\ t \in {<<"remove", r>>, <<"revert", r>>} /\ task[t].pc = "load"
      /\ UNCHANGED <<docVars, appVars, envVars, ghostVars>>
      /\ UNCHANGED <<db, target, relations, history, setting, edits, faults>>
  BY DEF ImportInv, LoadRecord, docVars, envVars
<1>2. /\ db' \in [Records -> Document] /\ target' \in [Targets -> TargetDocument]
      /\ relations' \subseteq Links \X Records /\ faults' \in Nat
      /\ \A q \in Records : db'[q] = db[q]
      /\ \A s \in Targets : target'[s] = target[s]
  BY <1>1 DEF TypeOK
<1>3. CASE db[r].value = "absent"
  <2>1. TaskEnds(t, FALSE)
    BY <1>3 DEF LoadRecord
  <2> QED
    BY <1>1, <1>2, <2>1, TaskStep
<1>4. CASE db[r].value # "absent"
  <2> DEFINE new == [NoTask EXCEPT !.pc = "write", !.rev = db[r].rev, !.value = db[r].value]
  <2>1. task' = [task EXCEPT ![t] = new] /\ UNCHANGED undo
    BY <1>4 DEF LoadRecord
  <2>2. db[r].rev \in Nat /\ db[r].value \in Value
    BY <1>1, DocumentFields DEF TypeOK
  <2>3. /\ new \in TaskState /\ new.pc = "write"
        /\ new.rev = db[r].rev /\ new.value = db[r].value
    BY <2>2 DEF NoTask, TaskState
  <2> HIDE DEF new
  <2>4. /\ TypeOK' /\ Sending' /\ Recorded' /\ Parts' /\ NextSaveFits'
        /\ EntitiesRead' /\ LinksRead'
        /\ (\A l \in Links : t # <<"unlink", l>>) => UnlinksRead'
    BY <1>1, <2>1, <2>3, LoadStep
  <2>5. UnlinksRead'
    BY <1>1, <2>4
  <2>6. PartsRead'
    <3> SUFFICES ASSUME NEW s \in Tasks, NEW q \in Records,
                        s \in {<<"remove", q>>, <<"revert", q>>}, task'[s].pc = "write"
                 PROVE  task'[s].value # "absent" /\ StillRecord(q, task[s].rev, task[s].value)'
      BY DEF PartsRead
    <3>1. CASE s = t
      <4>1. q = r /\ task'[s] = new
        BY <1>1, <2>1, <3>1 DEF TypeOK
      <4> QED
        BY <1>1, <1>4, <2>2, <2>3, <4>1 DEF StillRecord
    <3>2. CASE s # t
      <4>1. task'[s] = task[s]
        BY <1>1, <2>1, <3>2 DEF TypeOK
      <4> QED
        BY <1>1, <4>1 DEF ImportInv, Read, PartsRead, StillRecord
    <3> QED
      BY <3>1, <3>2
  <2> QED
    BY <2>4, <2>5, <2>6 DEF ImportInv, Read
<1> QED
  BY <1>3, <1>4

\* What the undo saves
LEMMA WriteRecordDoes ==
  ASSUME TypeOK, NEW t \in Tasks, NEW r \in Records, WriteRecord(t, r)
  PROVE  /\ t \in {<<"remove", r>>, <<"revert", r>>} /\ task[t].pc = "write"
         /\ db' \in [Records -> Document]
         /\ \A q \in Records \ {r} : db'[q] = db[q]
         /\ \/ db' = db
            \/ /\ db[r].rev = task[t].rev /\ db'[r].rev = db[r].rev + 1
               /\ db'[r].value = IF t[1] = "remove" THEN "absent"
                                                    ELSE UndoneValue(r, task[t].value)
         /\ \E ok \in BOOLEAN : TaskEnds(t, ok)
<1> DEFINE value == IF t[1] = "remove" THEN "absent" ELSE UndoneValue(r, task[t].value)
           fits == db[r].rev = task[t].rev
           new == [rev |-> db[r].rev + 1, value |-> value]
<1>1. /\ t \in {<<"remove", r>>, <<"revert", r>>} /\ task[t].pc = "write"
      /\ db' = IF fits THEN [db EXCEPT ![r] = new] ELSE db
      /\ \E ok \in BOOLEAN : TaskEnds(t, ok)
  BY DEF WriteRecord
<1>2. value \in Value /\ db[r].rev + 1 \in Nat
  <2>1. db[r].rev \in Nat
    BY DocumentFields DEF TypeOK
  <2>2. task[t].value \in Value /\ entity[r].previous \in Value
    BY TaskFields DEF TypeOK
  <2> QED
    BY <2>1, <2>2 DEF UndoneValue, Value
<1> HIDE DEF value
<1>3. new \in Document /\ new.rev = db[r].rev + 1 /\ new.value = value
  BY <1>2 DEF Document
<1> HIDE DEF new
<1>4. CASE fits
  <2>1. /\ db' \in [Records -> Document] /\ db'[r] = new
        /\ \A q \in Records \ {r} : db'[q] = db[q]
    BY <1>1, <1>3, <1>4 DEF TypeOK
  <2> QED
    BY <1>1, <1>3, <1>4, <2>1 DEF value
<1>5. CASE ~fits
  BY <1>1, <1>5 DEF TypeOK
<1> QED
  BY <1>4, <1>5

\* A part writes its record in a later revision, or not.
LEMMA WriteRecordKeeps ==
  ASSUME ImportInv, NEW t \in Tasks, NEW r \in Records, WriteRecord(t, r)
  PROVE  ImportInv'
<1>1. /\ TypeOK /\ faults' \in Nat
      /\ UNCHANGED <<appVars, setting, edits, ghostVars>>
      /\ UNCHANGED <<target, relations, history>>
  <2>1. TypeOK
    BY DEF ImportInv
  <2>2. /\ UNCHANGED <<target, relations, history, appVars, setting, edits, ghostVars>>
        /\ UNCHANGED faults \/ ResponseLost
    BY DEF WriteRecord
  <2>3. faults' \in Nat
    BY <2>1, <2>2 DEF TypeOK, ResponseLost, RequestFails
  <2> QED
    BY <2>1, <2>2, <2>3
<1>2. /\ task[t].pc = "write" /\ db' \in [Records -> Document]
      /\ \A q \in Records \ {r} : db'[q] = db[q]
      /\ db' = db \/ db'[r].rev = db[r].rev + 1
      /\ \E ok \in BOOLEAN : TaskEnds(t, ok)
  BY <1>1, WriteRecordDoes
<1>3. \A q \in Records : db'[q] = db[q] \/ db'[q].rev > db[q].rev
  BY <1>1, <1>2, DocumentFields DEF TypeOK
<1>4. /\ target' \in [Targets -> TargetDocument] /\ relations' \subseteq Links \X Records
      /\ \A s \in Targets : target'[s] = target[s]
  BY <1>1 DEF TypeOK
<1>5. PICK ok \in BOOLEAN : TaskEnds(t, ok)
  BY <1>2
<1> QED
  BY <1>1, <1>2, <1>3, <1>4, <1>5, TaskStep

\* A part loads the target, or the relations, that its action has written.
LEMMA LoadLinksKeeps ==
  ASSUME ImportInv, NEW l \in Links, LoadLinks(l)
  PROVE  ImportInv'
<1> DEFINE part == <<"unlink", l>>
           t == target[Target[l]]
           created == {x \in relations : x[1] = l /\ x[2] \in undo.item.created}
           direct == [NoTask EXCEPT !.pc = "write", !.rev = t.rev, !.seen = t.links,
                                    !.others = t.others]
           indirect == [NoTask EXCEPT !.pc = "write", !.seen = created]
           new == IF l \in Indirect THEN indirect ELSE direct
<1>1. /\ TypeOK /\ task[part].pc = "load" /\ part \in Tasks
      /\ task' = [task EXCEPT ![part] = new]
      /\ UNCHANGED <<docVars, appVars, undo, envVars, ghostVars>>
  BY TasksAre DEF ImportInv, LoadLinks
<1>2. /\ t.rev \in Nat /\ t.links \in SUBSET (Links \X Records) /\ t.others \in Nat
  BY <1>1, LinksAssumption, TargetFields DEF TypeOK
<1>3. created \in SUBSET (Links \X Records)
  BY <1>1 DEF TypeOK
<1> HIDE DEF t, created
<1>4. /\ direct \in TaskState /\ direct.pc = "write"
      /\ direct.rev = t.rev /\ direct.seen = t.links /\ direct.others = t.others
  BY <1>2 DEF NoTask, TaskState, Value
<1>5. indirect \in TaskState /\ indirect.pc = "write"
  BY <1>3 DEF NoTask, TaskState, Value
<1> HIDE DEF direct, indirect
<1>6. new \in TaskState /\ new.pc = "write"
  BY <1>4, <1>5
<1> HIDE DEF new
<1>7. /\ TypeOK' /\ Sending' /\ Recorded' /\ Parts' /\ NextSaveFits'
      /\ EntitiesRead' /\ LinksRead'
      /\ (\A r \in Records : part \notin {<<"remove", r>>, <<"revert", r>>}) => PartsRead'
  BY <1>1, <1>6, LoadStep
<1>8. PartsRead'
  BY <1>7
<1>9. UnlinksRead'
  <2> SUFFICES ASSUME NEW k \in Links \ Indirect, task'[<<"unlink", k>>].pc = "write"
               PROVE  StillTarget(Target[k], task[<<"unlink", k>>])'
    BY DEF UnlinksRead
  <2>1. target' = target
    BY <1>1 DEF docVars
  <2>2. CASE k = l
    <3>1. task'[part] = direct
      BY <1>1, <2>2 DEF TypeOK, new
    <3> QED
      BY <1>2, <1>4, <2>1, <2>2, <3>1 DEF StillTarget, t
  <2>3. CASE k # l
    <3>1. task'[<<"unlink", k>>] = task[<<"unlink", k>>]
      BY <1>1, <2>3, TasksAre DEF TypeOK
    <3> QED
      BY <2>1, <3>1 DEF ImportInv, Read, UnlinksRead, StillTarget
  <2> QED
    BY <2>2, <2>3
<1> QED
  BY <1>7, <1>8, <1>9 DEF ImportInv, Read

\* What the undo saves of a link target
LEMMA WriteLinksDoes ==
  ASSUME TypeOK, NEW l \in Links, WriteLinks(l)
  PROVE  /\ task[<<"unlink", l>>].pc = "write" /\ l \notin Indirect
         /\ target' \in [Targets -> TargetDocument]
         /\ \A s \in Targets \ {Target[l]} : target'[s] = target[s]
         /\ \/ target' = target
            \/ /\ task[<<"unlink", l>>].rev = target[Target[l]].rev
               /\ target'[Target[l]].rev > target[Target[l]].rev
               /\ target'[Target[l]].others = task[<<"unlink", l>>].others
               /\ target'[Target[l]].links = task[<<"unlink", l>>].seen
                                                \ {<<l, r>> : r \in undo.item.created}
         /\ \E ok \in BOOLEAN : TaskEnds(<<"unlink", l>>, ok)
<1> DEFINE t == Target[l]
           seen == task[<<"unlink", l>>]
           links == seen.seen \ {<<l, r>> : r \in undo.item.created}
           fits == target[t].rev = seen.rev
<1>1. /\ seen.pc = "write" /\ l \notin Indirect
      /\ target' = IF fits THEN [target EXCEPT ![t] = NewTarget(seen, links)] ELSE target
      /\ \E ok \in BOOLEAN : TaskEnds(<<"unlink", l>>, ok)
  BY DEF WriteLinks
<1>2. t \in Targets /\ links \subseteq Links \X Records /\ seen.others \in Nat
  BY LinksAssumption, TasksAre, TaskFields DEF TypeOK
<1>3. CASE fits
  <2>1. seen.rev = target[t].rev /\ target' = [target EXCEPT ![t] = NewTarget(seen, links)]
    BY <1>1, <1>3
  <2> HIDE DEF seen, links, t
  <2>2. /\ target' \in [Targets -> TargetDocument]
        /\ target'[t].rev > target[t].rev /\ target'[t].links = links
        /\ target'[t].others = seen.others
        /\ \A s \in Targets \ {t} : target'[s] = target[s]
    BY <1>2, <2>1, NewTargetDoes
  <2> QED
    BY <1>1, <2>1, <2>2 DEF seen, links, t
<1>4. CASE ~fits
  BY <1>1, <1>4 DEF TypeOK
<1> QED
  BY <1>3, <1>4

\* A part saves the target in a later revision, or not.
LEMMA WriteLinksKeeps ==
  ASSUME ImportInv, NEW l \in Links, WriteLinks(l)
  PROVE  ImportInv'
<1>1. TypeOK
  BY DEF ImportInv
<1>2. /\ UNCHANGED <<db, relations, history, appVars, setting, edits, ghostVars>>
      /\ UNCHANGED faults \/ ResponseLost
  BY DEF WriteLinks
<1>3. faults' \in Nat
  BY <1>1, <1>2 DEF TypeOK, ResponseLost, RequestFails
<1> DEFINE part == <<"unlink", l>>
<1>4. /\ task[part].pc = "write" /\ target' \in [Targets -> TargetDocument]
      /\ \A s \in Targets : target'[s] = target[s] \/ target'[s].rev > target[s].rev
      /\ \E ok \in BOOLEAN : TaskEnds(part, ok)
  BY <1>1, WriteLinksDoes
<1>5. /\ db' \in [Records -> Document] /\ relations' \subseteq Links \X Records
      /\ \A q \in Records : db'[q] = db[q]
  BY <1>1, <1>2 DEF TypeOK
<1>6. PICK ok \in BOOLEAN : TaskEnds(part, ok)
  BY <1>4
<1>7. part \in Tasks
  BY TasksAre
<1> HIDE DEF part
<1> QED
  BY <1>2, <1>3, <1>4, <1>5, <1>6, <1>7, TaskStep

\* A part removes relations, or some of them.
LEMMA RemoveRelationsKeeps ==
  ASSUME ImportInv, NEW l \in Links, RemoveRelations(l)
  PROVE  ImportInv'
<1> DEFINE part == <<"unlink", l>>
<1>1. TypeOK
  BY DEF ImportInv
<1>2. /\ UNCHANGED <<db, target, history, appVars, setting, edits, ghostVars>>
      /\ UNCHANGED faults \/ RequestFails
      /\ task[part].pc = "write"
      /\ \E ok \in BOOLEAN : TaskEnds(part, ok)
      /\ relations' \subseteq relations
  BY DEF RemoveRelations
<1>3. faults' \in Nat
  BY <1>1, <1>2 DEF TypeOK, RequestFails
<1>4. /\ db' \in [Records -> Document] /\ relations' \subseteq Links \X Records
      /\ target' \in [Targets -> TargetDocument]
      /\ \A q \in Records : db'[q] = db[q]
      /\ \A s \in Targets : target'[s] = target[s]
  BY <1>1, <1>2 DEF TypeOK
<1>5. PICK ok \in BOOLEAN : TaskEnds(part, ok)
  BY <1>2
<1>6. part \in Tasks
  BY TasksAre
<1> HIDE DEF part
<1> QED
  BY <1>2, <1>3, <1>4, <1>5, <1>6, TaskStep

\* The last part removes the entry.
LEMMA RemoveHistoryKeeps ==
  ASSUME ImportInv, RemoveHistory
  PROVE  ImportInv'
<1> DEFINE part == <<"history">>
<1>1. TypeOK
  BY DEF ImportInv
<1>2. /\ UNCHANGED <<db, target, relations, appVars, envVars, ghostVars>>
      /\ task[part].pc = "write" /\ TaskEnds(part, TRUE) /\ history' = {}
  BY DEF RemoveHistory
<1>3. UNCHANGED <<setting, edits, faults>>
  BY <1>2 DEF envVars
<1>4. /\ db' \in [Records -> Document] /\ relations' \subseteq Links \X Records
      /\ target' \in [Targets -> TargetDocument] /\ faults' \in Nat
      /\ \A q \in Records : db'[q] = db[q]
      /\ \A s \in Targets : target'[s] = target[s]
  BY <1>1, <1>2, <1>3 DEF TypeOK
<1>5. part \in Tasks
  BY TasksAre
<1> HIDE DEF part
<1> QED
  BY <1>2, <1>3, <1>4, <1>5, TaskStep

-----------------------------------------------------------------------------
(***************************************************************************)
(* Others                                                                  *)
(***************************************************************************)

\* Others change a document to a later revision.
LEMMA OtherStep ==
  ASSUME ImportInv, UseEdit,
         UNCHANGED <<relations, history, appVars, undoVars, setting, faults, ghostVars>>,
         db' \in [Records -> Document], target' \in [Targets -> TargetDocument],
         \A r \in Records : db'[r] = db[r] \/ db'[r].rev > db[r].rev,
         \A s \in Targets : target'[s] = target[s] \/ target'[s].rev > target[s].rev
  PROVE  ImportInv'
<1>1. /\ TypeOK /\ Sending /\ Recorded /\ Parts /\ Read /\ edits' = edits + 1
      /\ UNCHANGED <<relations, history, import, entity, link, undo, task, setting, faults,
                     written, lost, unrecorded>>
  BY DEF ImportInv, UseEdit, appVars, undoVars, ghostVars
<1>2. TypeOK'
  BY <1>1 DEF TypeOK
<1>3. Sending'
  BY <1>1, SendingSame
<1>4. Recorded'
  BY <1>1, RecordedSame
<1>5. Parts'
  BY <1>1 DEF Parts, PartsOf
<1>6. Read'
  BY <1>1, ReadKept
<1>7. NextSaveFits'
  BY <1>1 DEF NextSaveFits, TypeOK
<1> QED
  BY <1>2, <1>3, <1>4, <1>5, <1>6, <1>7 DEF ImportInv

\* A record changes to a later revision.
LEMMA OtherEditKeeps ==
  ASSUME ImportInv, NEW r \in Records, OtherEdit(r)
  PROVE  ImportInv'
<1>1. TypeOK
  BY DEF ImportInv
<1>2. /\ UseEdit
      /\ UNCHANGED <<target, relations, history, appVars, undoVars, setting, faults, ghostVars>>
  BY DEF OtherEdit
<1>3. PICK value \in {db[r].value, "edited", "absent"} :
         db' = [db EXCEPT ![r] = [rev |-> db[r].rev + 1, value |-> value]]
  BY DEF OtherEdit
<1> DEFINE new == [rev |-> db[r].rev + 1, value |-> value]
<1>4. db[r].rev \in Nat /\ db[r].value \in Value
  BY <1>1, DocumentFields DEF TypeOK
<1>5. new \in Document /\ new.rev = db[r].rev + 1
  BY <1>3, <1>4 DEF Document, Value
<1> HIDE DEF new
<1>6. /\ db' \in [Records -> Document] /\ db'[r] = new
      /\ \A q \in Records \ {r} : db'[q] = db[q]
  BY <1>1, <1>3, <1>5 DEF TypeOK, new
<1>7. \A q \in Records : db'[q] = db[q] \/ db'[q].rev > db[q].rev
  BY <1>4, <1>5, <1>6
<1>8. target' \in [Targets -> TargetDocument] /\ \A s \in Targets : target'[s] = target[s]
  BY <1>1, <1>2 DEF TypeOK
<1> QED
  BY <1>2, <1>6, <1>7, <1>8, OtherStep

\* So does a link target.
LEMMA OtherLinkKeeps ==
  ASSUME ImportInv, NEW t \in Targets, OtherLink(t)
  PROVE  ImportInv'
<1>1. TypeOK
  BY DEF ImportInv
<1>2. /\ UseEdit
      /\ UNCHANGED <<db, relations, history, appVars, undoVars, setting, faults, ghostVars>>
      /\ target' = [target EXCEPT ![t].rev = @ + 1, ![t].others = @ + 1]
  BY DEF OtherLink
<1> DEFINE new == [target[t] EXCEPT !.rev = @ + 1, !.others = @ + 1]
<1>3. target[t] \in TargetDocument /\ target[t].rev \in Nat /\ target[t].others \in Nat
  BY <1>1, TargetFields DEF TypeOK
<1>4. new \in TargetDocument /\ new.rev = target[t].rev + 1
  <2> DEFINE s == target[t]
             rev == s.rev + 1
             others == s.others + 1
  <2>1. s \in TargetDocument /\ rev \in Nat /\ others \in Nat
    BY <1>3
  <2>2. new = [s EXCEPT !.rev = rev, !.others = others]
    OBVIOUS
  <2> HIDE DEF new, s, rev, others
  <2>3. new \in TargetDocument /\ new.rev = rev
    BY <2>1, <2>2 DEF TargetDocument
  <2> QED
    BY <2>3 DEF rev, s
<1>5. target' = [target EXCEPT ![t] = new]
  BY <1>1, <1>2, <1>3 DEF TypeOK, TargetDocument
<1> HIDE DEF new
<1>6. /\ target' \in [Targets -> TargetDocument] /\ target'[t] = new
      /\ \A s \in Targets \ {t} : target'[s] = target[s]
  BY <1>1, <1>4, <1>5 DEF TypeOK
<1>7. \A s \in Targets : target'[s] = target[s] \/ target'[s].rev > target[s].rev
  BY <1>3, <1>4, <1>6
<1>8. db' \in [Records -> Document] /\ \A q \in Records : db'[q] = db[q]
  BY <1>1, <1>2 DEF TypeOK
<1> QED
  BY <1>2, <1>6, <1>7, <1>8, OtherStep

-----------------------------------------------------------------------------
\* Nothing changes.
LEMMA StutterKeeps ==
  ASSUME ImportInv, UNCHANGED vars
  PROVE  ImportInv'
<1>1. UNCHANGED <<db, target, relations, history, import, entity, link, undo, task, setting,
                  edits, faults, written, lost, unrecorded>>
  BY DEF vars, docVars, appVars, undoVars, envVars, ghostVars
<1>2. TypeOK /\ Sending /\ Recorded /\ Parts /\ Read /\ NextSaveFits
  BY DEF ImportInv
<1>3. TypeOK' /\ Sending' /\ Recorded'
  BY <1>1, <1>2, SendingSame, RecordedSame DEF TypeOK
<1>4. Parts' /\ NextSaveFits'
  BY <1>1, <1>2 DEF Parts, PartsOf, NextSaveFits, WriteIsOver
<1>5. Read'
  BY <1>1, <1>2 DEF Read, EntitiesRead, PartsRead, LinksRead, UnlinksRead, StillRecord, StillTarget
<1> QED
  BY <1>3, <1>4, <1>5 DEF ImportInv

\* Every step keeps the invariant.
LEMMA NextKeeps ==
  ASSUME ImportInv, [Next]_vars
  PROVE  ImportInv'
<1>1. CASE Write
  BY <1>1, PrepareKeeps, WriteRequestKeeps, WriteRequestFailsKeeps, PermissionDeniedKeeps DEF Write
<1>2. CASE \E l \in Links : Link(l)
  BY <1>2, LoadTargetKeeps, SaveTargetKeeps, SaveRelationsKeeps, LinkFailsKeeps DEF Link
<1>3. CASE SaveHistory \/ SaveHistoryFails
  BY <1>3, SaveHistoryKeeps, SaveHistoryFailsKeeps
<1>4. CASE Undo
  BY <1>4, UndoImportKeeps, TaskFailsKeeps, LoadRecordKeeps, WriteRecordKeeps, LoadLinksKeeps,
     WriteLinksKeeps, RemoveRelationsKeeps, RemoveHistoryKeeps DEF Undo
<1>5. CASE Others
  <2>1. Existing \cup written \subseteq Records
    BY FileFacts DEF ImportInv, TypeOK
  <2> QED
    BY <1>5, <2>1, OtherEditKeeps, OtherLinkKeeps DEF Others
<1>6. CASE UNCHANGED vars
  BY <1>6, StutterKeeps
<1> QED
  BY <1>1, <1>2, <1>3, <1>4, <1>5, <1>6 DEF Next

\* The invariant holds in every reachable state.
LEMMA ImportInvariant == Spec => []ImportInv
<1>1. Init => ImportInv
  BY InitKeeps
<1>2. ImportInv /\ [Next]_vars => ImportInv'
  BY NextKeeps
<1> QED
  BY <1>1, <1>2, PTL DEF Spec

\* The state of an import and of its undo has its type.
THEOREM TypeCorrect == Spec => []TypeOK
<1>1. ImportInv => TypeOK
  BY DEF ImportInv
<1> QED
  BY <1>1, ImportInvariant, PTL

\* The write of an import is split into requests that list its documents in order, each
\* once, within both budgets and none closed too early.
THEOREM RequestsCorrect == Spec => []RequestsAreASplit
<1>1. ImportInv => RequestsAreASplit
  <2> SUFFICES ASSUME ImportInv PROVE RequestsAreASplit
    OBVIOUS
  <2>1. setting.size \in Seq(Nat)
    <3>1. setting.size \in [1..Len(File) -> Nat]
      BY SizesAssumption, FileFacts DEF ImportInv, TypeOK
    <3> QED
      BY <3>1, FileFacts
  <2> QED
    BY <2>1, SplitCorrect DEF RequestsAreASplit
<1> QED
  BY <1>1, ImportInvariant, PTL

\* The import reports what it has stored, whatever documents and requests fail.
THEOREM ReportedCorrect == Spec => []StoredAreReported
<1>1. ImportInv => StoredAreReported
  BY DEF ImportInv, Sending
<1> QED
  BY <1>1, ImportInvariant, PTL

\* Entities that an import has stored are saved again without a conflict.
THEOREM NextSaveCorrect == Spec => []NextSaveFits
<1>1. ImportInv => NextSaveFits
  BY DEF ImportInv
<1> QED
  BY <1>1, ImportInvariant, PTL

\* The import history lists what the import has stored, so that it can be undone.
THEOREM HistoryCorrect == Spec => []StoredAreInHistory
<1>1. ImportInv => StoredAreInHistory
  <2> SUFFICES ASSUME ImportInv, import.pc \in {"completed", "partial", "failed"},
                      undo.pc = "none", ~unrecorded, NEW r \in written \ lost
               PROVE  \E e \in history : IF r \in Existing THEN r \in e.updated
                                                            ELSE r \in e.created
    BY DEF StoredAreInHistory
  <2>1. TypeOK /\ Sending /\ Recorded
    BY DEF ImportInv
  <2>2. import.saved = written \ lost
    BY <2>1 DEF Sending, StoredAreReported, WriteIsOver
  <2>3. import.saved \in SUBSET Records
    BY <2>1, ImportFields DEF TypeOK
  <2>4. history # {} /\ history \subseteq {EntryFor(import.saved)}
    BY <2>1, <2>2 DEF Recorded
  <2>5. /\ EntryFor(import.saved).created = import.saved \ Existing
        /\ EntryFor(import.saved).updated = import.saved \cap Existing
    BY <2>3, EntryDoes
  <2> QED
    BY <2>2, <2>4, <2>5
<1> QED
  BY <1>1, ImportInvariant, PTL

-----------------------------------------------------------------------------
(***************************************************************************)
(* What others have changed                                                *)
(***************************************************************************)

\* An existing record is not deleted, and does not lose what others have changed, ...
RecordSurvives(r, new) ==
    /\ db[r].value # "absent" => new[r].value # "absent"
    /\ db[r].value = "edited" /\ entity[r].previous # "edited" => new[r].value = "edited"

\* ... neither when the import is written, ...
LEMMA StoreDocsSurvives ==
  ASSUME ImportInv, import.pc = "records", NEW docs \in SUBSET Records,
         NEW new, new = StoreDocs(Fitting(docs)), NEW r \in Existing
  PROVE  RecordSurvives(r, new)
<1>1. TypeOK /\ Read /\ r \in Records
  BY FileFacts DEF ImportInv
<1> DEFINE stored == Fitting(docs)
<1>2. /\ stored \in SUBSET Records /\ \A q \in stored : db[q].rev = entity[q].rev
  BY FittingDoes
<1>3. new = StoreDocs(stored)
  OBVIOUS
<1> HIDE DEF stored
<1>4. /\ \A q \in stored : new[q].value = "imported"
      /\ \A q \in Records \ stored : new[q] = db[q]
  BY <1>1, <1>2, <1>3, StoreDocsDoes
<1>5. CASE r \in stored
  <2>1. entity[r].previous = db[r].value
    BY <1>1, <1>2, <1>5 DEF Read, EntitiesRead, StillRecord
  <2> QED
    BY <1>4, <1>5, <2>1 DEF RecordSurvives
<1>6. CASE r \notin stored
  BY <1>1, <1>4, <1>6 DEF RecordSurvives
<1> QED
  BY <1>5, <1>6

\* ... nor when it is undone: only records that the import has created are removed.
LEMMA WriteRecordSurvives ==
  ASSUME ImportInv, NEW t \in Tasks, NEW q \in Records, WriteRecord(t, q), NEW r \in Existing
  PROVE  RecordSurvives(r, db')
<1>1. /\ TypeOK /\ Recorded /\ Parts /\ Read /\ r \in Records
  BY FileFacts DEF ImportInv
<1>2. /\ t \in {<<"remove", q>>, <<"revert", q>>} /\ task[t].pc = "write"
      /\ \A p \in Records \ {q} : db'[p] = db[p]
      /\ \/ db' = db
         \/ /\ db[q].rev = task[t].rev
            /\ db'[q].value = IF t[1] = "remove" THEN "absent" ELSE UndoneValue(q, task[t].value)
  BY <1>1, WriteRecordDoes
<1>3. CASE r # q \/ db' = db
  <2>1. db'[r] = db[r]
    BY <1>1, <1>2, <1>3
  <2> QED
    BY <2>1 DEF RecordSurvives
<1>4. CASE r = q /\ db' # db
  <2>1. /\ t \in PartsOf(undo.item) /\ undo.item = EntryFor(import.saved)
        /\ import.pc # "prepare"
    BY <1>1, <1>2, PartUnderWay
  <2>2. import.saved \in SUBSET Records
    BY <1>1, ImportFields DEF TypeOK
  <2>3. t # <<"remove", q>>
    BY <1>4, <2>1, <2>2, EntryDoes, PartsOfAre
  <2>4. t = <<"revert", q>>
    BY <1>2, <2>3
  <2>5. db'[r].value = UndoneValue(r, task[t].value)
    BY <1>2, <1>4, <2>4
  <2>6. db[r].rev = task[t].rev
    BY <1>2, <1>4
  <2>7. task[t].value # "absent" /\ task[t].value = db[r].value
    BY <1>1, <1>2, <1>4, <2>4, <2>6 DEF Read, PartsRead, StillRecord
  <2>8. entity[r].previous # "absent"
    BY <1>1, <2>1 DEF Read, EntitiesRead
  <2> QED
    BY <2>5, <2>7, <2>8 DEF UndoneValue, RecordSurvives
<1> QED
  BY <1>3, <1>4

\* A link action saves what it has read, with its links.
LEMMA SaveTargetSurvives ==
  ASSUME ImportInv, NEW l \in Links, SaveTarget(l), NEW s \in Targets
  PROVE  target'[s].others = target[s].others
<1> DEFINE t == Target[l]
           links == link[l].seen \cup {<<l, r>> : r \in Records}
           seen == link[l]
           fits == target[t].rev = seen.rev
<1>1. TypeOK /\ Read /\ seen.pc = "save" /\ l \notin Indirect
  BY DEF ImportInv, SaveTarget
<1>2. t \in Targets /\ links \subseteq Links \X Records /\ seen.others \in Nat
  BY <1>1, LinksAssumption, LinkFields DEF TypeOK
<1>3. target' = target \/ (fits /\ target' = [target EXCEPT ![t] = NewTarget(seen, links)])
  BY DEF SaveTarget
<1>4. fits => seen.others = target[t].others
  BY <1>1 DEF Read, LinksRead, StillTarget
<1>5. CASE fits /\ target' = [target EXCEPT ![t] = NewTarget(seen, links)]
  <2>1. seen.rev = target[t].rev
    BY <1>5
  <2>2. target' = [target EXCEPT ![t] = NewTarget(seen, links)] /\ seen.others = target[t].others
    BY <1>4, <1>5
  <2> HIDE DEF seen, links, t
  <2>3. /\ target'[t].others = seen.others
        /\ \A p \in Targets \ {t} : target'[p] = target[p]
    BY <1>1, <1>2, <2>1, <2>2, NewTargetDoes
  <2> QED
    BY <2>2, <2>3
<1> QED
  BY <1>3, <1>5

\* So does its undo.
LEMMA WriteLinksSurvives ==
  ASSUME ImportInv, NEW l \in Links, WriteLinks(l), NEW s \in Targets
  PROVE  target'[s].others = target[s].others
<1>1. TypeOK /\ Read
  BY DEF ImportInv
<1>2. /\ task[<<"unlink", l>>].pc = "write" /\ l \notin Indirect
      /\ \A p \in Targets \ {Target[l]} : target'[p] = target[p]
      /\ \/ target' = target
         \/ /\ task[<<"unlink", l>>].rev = target[Target[l]].rev
            /\ target'[Target[l]].others = task[<<"unlink", l>>].others
  BY <1>1, WriteLinksDoes
<1>3. task[<<"unlink", l>>].rev = target[Target[l]].rev
        => task[<<"unlink", l>>].others = target[Target[l]].others
  BY <1>1, <1>2 DEF Read, UnlinksRead, StillTarget
<1> QED
  BY <1>2, <1>3

\* A step that others do not take
Survive ==
    /\ \A r \in Existing : RecordSurvives(r, db')
    /\ \A t \in Targets : target'[t].others = target[t].others

\* Steps that write no document lose nothing.
LEMMA NothingLostWithout ==
  ASSUME UNCHANGED <<db, target>>
  PROVE  Survive
  BY DEF Survive, RecordSurvives

\* Every step of the import and of the undo leaves what others have changed.
LEMMA StepSurvives ==
  ASSUME ImportInv, [Next]_vars, edits' = edits
  PROVE  Survive
<1>1. CASE Prepare \/ PermissionDenied
  <2>1. UNCHANGED <<db, target>>
    BY <1>1 DEF Prepare, PermissionDenied, docVars
  <2> QED
    BY <2>1, NothingLostWithout
<1>2. ASSUME WriteRequest \/ WriteRequestFails PROVE Survive
  <2>1. import.pc = "records" /\ target' = target
    BY <1>2 DEF WriteRequest, WriteRequestFails
  <2>2. NextDocs \subseteq Records
    BY <2>1, NextDocsAre DEF ImportInv
  <2>3. db' = db \/ \E docs \in SUBSET Records : db' = StoreDocs(Fitting(docs))
    <3>1. CASE WriteRequest
      <4>1. PICK refused \in SUBSET NextDocs : db' = StoreDocs(Fitting(NextDocs \ refused))
        BY <3>1 DEF WriteRequest
      <4> QED
        BY <2>2, <4>1
    <3>2. CASE WriteRequestFails
      <4>1. db' = db \/ db' = StoreDocs(Fitting(NextDocs))
        BY <3>2 DEF WriteRequestFails
      <4> QED
        BY <2>2, <4>1
    <3> QED
      BY <1>2, <3>1, <3>2
  <2>4. CASE db' = db
    BY <2>1, <2>4, NothingLostWithout
  <2>5. ASSUME NEW docs \in SUBSET Records, db' = StoreDocs(Fitting(docs))
        PROVE  Survive
    BY <2>1, <2>5, StoreDocsSurvives DEF Survive
  <2> QED
    BY <2>3, <2>4, <2>5
<1>3. ASSUME NEW l \in Links, Link(l) PROVE Survive
  <2>1. CASE SaveTarget(l)
    <3>1. db' = db
      BY <2>1 DEF SaveTarget
    <3> QED
      BY <2>1, <3>1, SaveTargetSurvives DEF Survive, RecordSurvives
  <2>2. CASE LoadTarget(l) \/ SaveRelations(l) \/ LinkFails(l)
    <3>1. UNCHANGED <<db, target>>
      BY <2>2 DEF LoadTarget, SaveRelations, LinkFails, docVars
    <3> QED
      BY <3>1, NothingLostWithout
  <2> QED
    BY <1>3, <2>1, <2>2 DEF Link
<1>4. CASE SaveHistory \/ SaveHistoryFails
  <2>1. UNCHANGED <<db, target>>
    BY <1>4 DEF SaveHistory, SaveHistoryFails
  <2> QED
    BY <2>1, NothingLostWithout
<1>5. CASE UndoImport \/ RemoveHistory
  <2>1. UNCHANGED <<db, target>>
    BY <1>5 DEF UndoImport, RemoveHistory, docVars
  <2> QED
    BY <2>1, NothingLostWithout
<1>6. ASSUME NEW t \in Tasks, TaskFails(t) \/ \E r \in Records : LoadRecord(t, r)
      PROVE  Survive
  <2>1. UNCHANGED <<db, target>>
    BY <1>6 DEF TaskFails, LoadRecord, docVars
  <2> QED
    BY <2>1, NothingLostWithout
<1>7. ASSUME NEW t \in Tasks, NEW r \in Records, WriteRecord(t, r)
      PROVE  Survive
  <2>1. target' = target
    BY <1>7 DEF WriteRecord
  <2> QED
    BY <1>7, <2>1, WriteRecordSurvives DEF Survive
<1>8. ASSUME NEW l \in Links, LoadLinks(l) \/ RemoveRelations(l)
      PROVE  Survive
  <2>1. UNCHANGED <<db, target>>
    BY <1>8 DEF LoadLinks, RemoveRelations, docVars
  <2> QED
    BY <2>1, NothingLostWithout
<1>9. ASSUME NEW l \in Links, WriteLinks(l)
      PROVE  Survive
  <2>1. db' = db
    BY <1>9 DEF WriteLinks
  <2> QED
    BY <1>9, <2>1, WriteLinksSurvives DEF Survive, RecordSurvives
<1>10. ~Others
  <2>1. edits \in Nat
    BY DEF ImportInv, TypeOK
  <2>2. ~UseEdit
    BY <2>1 DEF UseEdit
  <2> QED
    BY <2>2 DEF Others, OtherEdit, OtherLink
<1>11. CASE UNCHANGED vars
  <2>1. UNCHANGED <<db, target>>
    BY <1>11 DEF vars, docVars
  <2> QED
    BY <2>1, NothingLostWithout
<1>12. CASE Undo
  BY <1>5, <1>6, <1>7, <1>8, <1>9, <1>12 DEF Undo
<1> QED
  BY <1>1, <1>2, <1>3, <1>4, <1>10, <1>11, <1>12 DEF Next, Write

\* Neither the import nor its undo deletes an existing record or writes over what others
\* have changed since it read it.
THEOREM OthersSurvive == Spec => OthersChangesSurvive
<1>1. ImportInv /\ [Next]_vars =>
        [edits' = edits =>
          /\ \A r \in Existing : db[r].value # "absent" => db'[r].value # "absent"
          /\ \A r \in Existing : db[r].value = "edited" /\ entity[r].previous # "edited"
                => db'[r].value = "edited"
          /\ \A t \in Targets : target'[t].others = target[t].others]_vars
  BY StepSurvives DEF Survive, RecordSurvives
<1> QED
  BY <1>1, ImportInvariant, PTL DEF Spec, OthersChangesSurvive

-----------------------------------------------------------------------------
(***************************************************************************)
(* Without failures and others: what the steps keep                        *)
(***************************************************************************)
CleanState == Clean /\ CleanRecords /\ CleanLinks /\ CleanUnlinks

\* Each record has a part of its own.
LEMMA PartOfDoes ==
  ASSUME NEW r \in Records
  PROVE  /\ PartOf(r) \in Tasks /\ PartOf(r) \in {<<"remove", r>>, <<"revert", r>>}
         /\ \A q \in Records : PartOf(q) = PartOf(r) => q = r
         /\ PartOf(r) # <<"history">> /\ \A l : PartOf(r) # <<"unlink", l>>
  BY TasksAre DEF PartOf

\* The part of the undo that is about a record, if it is under way
LEMMA PartIs ==
  ASSUME ImportInv, lost = {}, NEW t \in Tasks, NEW r \in Records,
         t \in {<<"remove", r>>, <<"revert", r>>}, task[t].pc \in {"load", "write"}
  PROVE  t = PartOf(r) /\ r \in written
<1>1. TypeOK /\ Sending /\ Recorded /\ Parts
  BY DEF ImportInv
<1>2. /\ t \in PartsOf(undo.item) /\ undo.item = EntryFor(import.saved)
      /\ import.pc \in {"completed", "partial", "failed"}
  BY <1>1, PartUnderWay
<1>3. import.saved = written
  BY <1>1, <1>2 DEF Sending, StoredAreReported, WriteIsOver
<1>4. /\ undo.item.created = written \ Existing /\ undo.item.updated = written \cap Existing
  BY <1>1, <1>2, <1>3, EntryDoes DEF TypeOK
<1>5. CASE t = <<"remove", r>>
  BY <1>2, <1>4, <1>5, PartsOfAre DEF PartOf
<1>6. CASE t = <<"revert", r>>
  <2>1. r \in Existing
    BY <1>6, TasksAre
  <2> QED
    BY <1>2, <1>4, <1>6, <2>1, PartsOfAre DEF PartOf
<1> QED
  BY <1>5, <1>6

\* Records and their parts of the undo are not touched.
LEMMA CleanRecordsKept ==
  ASSUME CleanRecords, UNCHANGED <<db, entity, written, lost, unrecorded>>,
         import'.pc = "prepare" \/ import.pc # "prepare",
         import'.pc = "records" => import.pc = "records",
         \A r \in Records : task'[PartOf(r)] = task[PartOf(r)],
         written \subseteq Records,
         task'[<<"history">>].pc = "done" => history' = {}
  PROVE  CleanRecords'
<1>1. \A r \in written : task'[PartOf(r)] = task[PartOf(r)]
  OBVIOUS
<1>2. \A r : PartOf(r)' = PartOf(r) /\ Original(r)' = Original(r)
  BY DEF PartOf, Original
<1> QED
  BY <1>1, <1>2 DEF CleanRecords

\* Links are not touched, and not under way.
LEMMA CleanLinksKept ==
  ASSUME CleanLinks, link' = link, import.pc # "links", import'.pc # "links",
         import'.pc \in {"prepare", "records"} => import.pc \in {"prepare", "records"}
  PROVE  CleanLinks'
  BY DEF CleanLinks

\* Neither are targets and relations, nor the parts of the undo that are about them.
LEMMA CleanUnlinksKept ==
  ASSUME CleanUnlinks, UNCHANGED <<relations, target>>,
         WriteIsOver => import'.saved = import.saved /\ import'.pc \notin {"prepare", "records"},
         \/ \A l \in Links : task'[<<"unlink", l>>].pc \notin {"write", "done"}
         \/ /\ undo'.item = undo.item
            /\ \A l \in Links : task'[<<"unlink", l>>] = task[<<"unlink", l>>]
  PROVE  CleanUnlinks'
<1>1. (relations' # {} \/ \E t \in Targets : target'[t].links # {}) =>
         WriteIsOver' /\ import'.saved = Records
  BY DEF CleanUnlinks, WriteIsOver
<1>2. /\ \A x \in relations' : x[1] \in Indirect
      /\ \A t \in Targets : \A x \in target'[t].links : x[1] \notin Indirect /\ Target[x[1]] = t
  BY DEF CleanUnlinks
<1>3. /\ \A l \in Indirect :
          /\ task'[<<"unlink", l>>].pc = "write" =>
                {x \in relations' : x[1] = l /\ x[2] \in undo'.item.created}
                    \subseteq task'[<<"unlink", l>>].seen
          /\ task'[<<"unlink", l>>].pc = "done" =>
                \A x \in relations' : x[1] = l => x[2] \notin undo'.item.created
      /\ \A l \in Links \ Indirect :
          /\ task'[<<"unlink", l>>].pc = "write" =>
                task'[<<"unlink", l>>].rev = target'[Target[l]].rev
          /\ task'[<<"unlink", l>>].pc = "done" =>
                \A x \in target'[Target[l]].links : x[1] = l => x[2] \notin undo'.item.created
  BY LinksAssumption DEF CleanUnlinks
<1> QED
  BY <1>1, <1>2, <1>3 DEF CleanUnlinks

-----------------------------------------------------------------------------
(***************************************************************************)
(* Steps of the import                                                     *)
(***************************************************************************)

\* Nothing is imported in the beginning.
LEMMA InitClean ==
  ASSUME Init
  PROVE  CleanRecords /\ CleanLinks /\ CleanUnlinks
<1>1. \A t \in Tasks : task[t].pc = "off"
  BY NoTaskTyped DEF Init
<1>2. \A l \in Links : link[l].pc = "off"
  BY NoLinkTyped DEF Init
<1>3. CleanRecords
  BY <1>1, TasksAre DEF Init, CleanRecords, Original
<1>4. CleanLinks
  BY <1>2 DEF Init, CleanLinks
<1>5. CleanUnlinks
  BY <1>1, TasksAre, LinksAssumption DEF Init, CleanUnlinks
<1> QED
  BY <1>3, <1>4, <1>5

\* All records are read before the first one is written.
LEMMA PrepareClean ==
  ASSUME ImportInv, CleanState, Prepare
  PROVE  CleanRecords' /\ CleanLinks' /\ CleanUnlinks'
<1>1. /\ TypeOK /\ Sending /\ CleanRecords /\ CleanLinks /\ CleanUnlinks
      /\ import.pc = "prepare"
      /\ UNCHANGED <<db, target, relations, history, link, undo, task, setting,
                     written, lost, unrecorded>>
      /\ entity' = [r \in Records |-> [rev |-> db[r].rev, previous |-> db[r].value]]
      /\ import' = [import EXCEPT !.pc = "records"]
  BY DEF ImportInv, CleanState, Prepare, docVars, undoVars, envVars, ghostVars
<1>2. import' \in ImportState /\ import'.pc = "records" /\ import'.saved = import.saved
  BY <1>1 DEF TypeOK, ImportState
<1>3. written = {}
  BY <1>1 DEF Sending, WriteIsOver
<1>4. \A r \in Records : entity'[r].rev = db[r].rev /\ entity'[r].previous = Original(r)
  BY <1>1, <1>3 DEF CleanRecords
<1>5. CleanRecords'
  BY <1>1, <1>2, <1>3, <1>4 DEF CleanRecords, Original
<1>6. CleanLinks'
  BY <1>1, <1>2, CleanLinksKept
<1>7. CleanUnlinks'
  BY <1>1, <1>2, CleanUnlinksKept DEF WriteIsOver
<1> QED
  BY <1>5, <1>6, <1>7

\* Without interference all documents of a request fit.
LEMMA WriteRequestClean ==
  ASSUME ImportInv, CleanState, WriteRequest, faults' = faults
  PROVE  CleanRecords' /\ CleanLinks' /\ CleanUnlinks'
<1>1. /\ TypeOK /\ Sending /\ Recorded /\ Parts /\ CleanRecords /\ CleanLinks /\ CleanUnlinks
      /\ import.pc = "records"
      /\ UNCHANGED <<target, relations, history, undo, task, setting, lost, unrecorded>>
  BY DEF ImportInv, CleanState, WriteRequest, undoVars
<1>2. PICK stored, i : RequestDoes(stored, i)
  BY WriteRequestDoes
<1>3. /\ NextDocs \subseteq Records /\ NextDocs \cap written = {}
  BY <1>1, NextDocsAre
<1>4. stored = NextDocs /\ written' = written \cup NextDocs
  <2>1. stored = Fitting(NextDocs) /\ written' = written \cup stored
    BY <1>2 DEF RequestDoes
  <2>2. \A r \in NextDocs : db[r].rev = entity[r].rev
    BY <1>1, <1>3 DEF CleanRecords
  <2>3. Fitting(NextDocs) = NextDocs
    BY <1>3, <2>2, FittingDoes
  <2> QED
    BY <2>1, <2>3
<1>5. /\ \A r \in NextDocs : db'[r].rev = db[r].rev + 1 /\ db'[r].value = "imported"
      /\ \A r \in Records \ NextDocs : db'[r] = db[r]
  BY <1>2, <1>4 DEF RequestDoes
<1>6. \A r \in Records : entity'[r].previous = entity[r].previous
  BY <1>2 DEF RequestDoes
<1>7. /\ MoreRequests(i) => import' = i /\ i.pc = "records" /\ UNCHANGED <<entity, link>>
      /\ ~MoreRequests(i) =>
           /\ import'.pc \in {"links", "history", "reporting", "failed"}
           /\ import'.pc = "links" => import'.saved = Records
           /\ import'.pc # "links" => Links = {} \/ link' = link
           /\ import'.pc = "links" => \A l \in Links : link'[l].pc \in {"load", "save"}
  BY <1>2 DEF RequestDoes
<1>8. undo.pc = "none" /\ \A t \in Tasks : task[t].pc = "off"
  BY <1>1 DEF Recorded, Parts
<1>9. \A r \in Records : task[PartOf(r)].pc = "off"
  BY <1>8, PartOfDoes
<1>10. CleanRecords'
  <2>1. import'.pc = "records" => entity' = entity
    BY <1>7
  <2>2. \A r \in Records \ written' : r \in Records \ written /\ db'[r] = db[r]
    BY <1>4, <1>5
  <2>3. \A r \in written' : r \in Records /\ db'[r].value = "imported"
    <3>1. \A r \in written : r \in Records /\ db[r].value = "imported" /\ r \notin NextDocs
      BY <1>1, <1>3, <1>9 DEF CleanRecords, TypeOK
    <3> QED
      BY <1>3, <1>4, <1>5, <3>1
  <2>4. task'[<<"history">>].pc = "off"
    BY <1>1, <1>8, TasksAre
  <2>5. \A r \in Records : task'[PartOf(r)].pc = "off" /\ Original(r)' = Original(r)
    BY <1>1, <1>9 DEF Original
  <2>6. /\ lost' = {} /\ ~unrecorded' /\ \A r \in Records : entity'[r].previous = Original(r)
    BY <1>1, <1>6 DEF CleanRecords
  <2>7. import'.pc = "records" => \A r \in Records \ written' : entity'[r].rev = db'[r].rev
    BY <1>1, <2>1, <2>2 DEF CleanRecords
  <2>8. \A r \in Records \ written' : db'[r].value = Original(r)
    BY <1>1, <2>2 DEF CleanRecords
  <2>9. \A r \in written' : task'[PartOf(r)].pc = "off" /\ PartOf(r)' = PartOf(r)
    BY <2>3, <2>5 DEF PartOf
  <2>10. \A r : Original(r)' = Original(r)
    BY DEF Original
  <2> QED
    BY <2>3, <2>4, <2>6, <2>7, <2>8, <2>9, <2>10 DEF CleanRecords
<1>11. CleanLinks'
  <2>1. \A l \in Links : link[l].pc = "off"
    BY <1>1 DEF CleanLinks
  <2>2. CASE import'.pc # "links"
    <3>1. \A l \in Links : link'[l].pc = "off"
      BY <1>7, <2>1, <2>2
    <3> QED
      BY <2>2, <3>1 DEF CleanLinks
  <2>3. CASE import'.pc = "links"
    <3>1. \A l \in Links : link'[l].pc \in {"load", "save"}
      BY <1>1, <1>7, <2>3
    <3>2. \A l \in Links \ Indirect : link'[l].pc # "save"
      <4>1. \A l \in Links \ Indirect : link'[l].pc = "save" => link'[l] = link[l]
        BY <1>2 DEF RequestDoes
      <4> QED
        BY <2>1, <4>1
    <3> QED
      BY <1>7, <2>3, <3>1, <3>2 DEF CleanLinks
  <2> QED
    BY <2>2, <2>3
<1>12. CleanUnlinks'
  BY <1>1, CleanUnlinksKept DEF WriteIsOver
<1> QED
  BY <1>10, <1>11, <1>12

\* The target is read while nobody else writes it.
LEMMA LoadTargetClean ==
  ASSUME ImportInv, CleanState, NEW l \in Links, LoadTarget(l)
  PROVE  CleanRecords' /\ CleanLinks' /\ CleanUnlinks'
<1> DEFINE t == target[Target[l]]
           new == [pc |-> "save", rev |-> t.rev, seen |-> t.links, others |-> t.others]
<1>1. /\ TypeOK /\ Recorded /\ Parts /\ CleanRecords /\ CleanLinks /\ CleanUnlinks
      /\ link[l].pc = "load"
      /\ UNCHANGED <<db, target, relations, history, import, entity, undo, task,
                     written, lost, unrecorded>>
      /\ link' = [link EXCEPT ![l] = new]
  BY DEF ImportInv, CleanState, LoadTarget, docVars, undoVars, ghostVars
<1>2. new.pc = "save" /\ new.rev = t.rev
  OBVIOUS
<1> HIDE DEF new
<1>3. link'[l] = new /\ \A k \in Links \ {l} : link'[k] = link[k]
  BY <1>1 DEF TypeOK
<1>4. import.pc = "links"
  BY <1>1 DEF CleanLinks
<1>5. CleanLinks'
  BY <1>1, <1>2, <1>3, <1>4 DEF CleanLinks
<1>6. CleanRecords'
  BY <1>1, CleanRecordsKept DEF CleanRecords, TypeOK
<1>7. CleanUnlinks'
  BY <1>1, <1>4, CleanUnlinksKept
<1> QED
  BY <1>5, <1>6, <1>7

\* A link action that is under way is done, and no undo has begun.
LEMMA LinkDoneClean ==
  ASSUME ImportInv, CleanState, NEW l \in Links, LinkEnds(l, "done"), link[l].pc = "save",
         UNCHANGED <<db, history, entity, undo, task, written, lost, unrecorded>>,
         \A k \in Links \ Indirect : k # l => target'[Target[k]].rev = target[Target[k]].rev
  PROVE  CleanRecords' /\ CleanLinks'
<1>1. /\ TypeOK /\ CleanRecords /\ CleanLinks /\ import.pc = "links" /\ import.saved = Records
  BY DEF ImportInv, CleanState, CleanLinks
<1>2. "done" \in Ends
  BY DEF Ends
<1>3. /\ link'[l].pc = "done"
      /\ \A k \in Links \ {l} : link'[k] = link[k]
      /\ import'.saved = import.saved
      /\ import'.pc \in {"links", "history"}
      /\ import'.pc = "history" => \A k \in Links \ {l} : link[k].pc = "done"
  <2> DEFINE done == "done"
  <2> HIDE DEF done
  <2>1. done \in Ends /\ LinkEnds(l, done)
    BY <1>2 DEF done
  <2>2. /\ link'[l].pc = done
        /\ \A k \in Links \ {l} : link'[k] = link[k]
        /\ import'.saved = import.saved
        /\ import'.pc \in {"links", "reporting", "history"}
        /\ import'.pc = "reporting" => done = "failed"
        /\ import'.pc = "history" => \A k \in Links \ {l} : link[k].pc = "done"
    BY <1>1, <2>1, LinkEndsDoes
  <2> QED
    BY <2>2 DEF done
<1>4. CleanRecords'
  BY <1>1, <1>3, CleanRecordsKept DEF CleanRecords, TypeOK
<1>5. CleanLinks'
  BY <1>1, <1>3 DEF CleanLinks
<1> QED
  BY <1>4, <1>5

\* So it fits, and has the links it had and those of the action.
LEMMA SaveTargetClean ==
  ASSUME ImportInv, CleanState, NEW l \in Links, SaveTarget(l), faults' = faults
  PROVE  CleanRecords' /\ CleanLinks' /\ CleanUnlinks'
<1> DEFINE t == Target[l]
           seen == link[l]
           links == seen.seen \cup {<<l, r>> : r \in Records}
<1>1. /\ TypeOK /\ Read /\ CleanRecords /\ CleanLinks /\ CleanUnlinks /\ DistinctTargets
      /\ Recorded /\ Parts
      /\ link[l].pc = "save" /\ l \notin Indirect
      /\ UNCHANGED <<db, relations, history, entity, undo, task, written, lost, unrecorded>>
  BY DEF ImportInv, CleanState, Clean, SaveTarget, undoVars, ghostVars
<1>2. target[t].rev = seen.rev /\ import.pc = "links"
  BY <1>1 DEF CleanLinks
<1>3. target' = [target EXCEPT ![t] = NewTarget(seen, links)] /\ LinkEnds(l, "done")
  <2>1. ~ResponseLost
    BY <1>1 DEF ResponseLost, RequestFails, TypeOK
  <2> QED
    BY <1>2, <2>1 DEF SaveTarget
<1>4. t \in Targets /\ links \subseteq Links \X Records /\ seen.others \in Nat
  BY <1>1, LinksAssumption, LinkFields DEF TypeOK
<1>5. seen.seen = target[t].links
  BY <1>1, <1>2 DEF Read, LinksRead, StillTarget
<1>6. /\ target'[t].links = links
      /\ \A s \in Targets \ {t} : target'[s] = target[s]
  <2> HIDE DEF t, seen, links
  <2> QED
    BY <1>1, <1>2, <1>3, <1>4, NewTargetDoes
<1>7. \A k \in Links \ Indirect : k # l => Target[k] # t /\ Target[k] \in Targets
  BY <1>1, LinksAssumption DEF DistinctTargets
<1>8. CleanRecords' /\ CleanLinks'
  BY <1>1, <1>3, <1>6, <1>7, LinkDoneClean
<1>9. CleanUnlinks'
  <2>1. WriteIsOver' /\ import'.saved = Records
    <3>1. import.saved = Records
      BY <1>1, <1>2 DEF CleanLinks
    <3>2. import'.saved = import.saved /\ import'.pc \in {"links", "reporting", "history"}
      BY <1>1, <1>2, <1>3, LinkEndsDoes DEF Ends
    <3> QED
      BY <3>1, <3>2 DEF WriteIsOver
  <2>2. \A s \in Targets : \A x \in target'[s].links : x[1] \notin Indirect /\ Target[x[1]] = s
    <3>1. \A x \in links : x[1] \notin Indirect /\ Target[x[1]] = t
      BY <1>1, <1>4, <1>5 DEF CleanUnlinks
    <3> QED
      BY <1>1, <1>6, <3>1 DEF CleanUnlinks
  <2>3. \A k \in Links : task'[<<"unlink", k>>].pc = "off"
    BY <1>1, <1>2, TasksAre DEF Recorded, Parts
  <2> QED
    BY <1>1, <2>1, <2>2, <2>3, LinksAssumption DEF CleanUnlinks
<1> QED
  BY <1>8, <1>9

\* Relations are those of the action.
LEMMA SaveRelationsClean ==
  ASSUME ImportInv, CleanState, NEW l \in Links, SaveRelations(l), faults' = faults
  PROVE  CleanRecords' /\ CleanLinks' /\ CleanUnlinks'
<1>1. /\ TypeOK /\ CleanRecords /\ CleanLinks /\ CleanUnlinks /\ Recorded /\ Parts
      /\ link[l].pc = "save" /\ l \in Indirect
      /\ UNCHANGED <<db, target, history, entity, undo, task, written, lost, unrecorded>>
  BY DEF ImportInv, CleanState, SaveRelations, undoVars, ghostVars
<1>2. /\ LinkEnds(l, "done") /\ import.pc = "links"
      /\ relations' = relations \cup {<<l, r>> : r \in Records}
  <2>1. ~ResponseLost /\ ~RequestFails
    BY <1>1 DEF ResponseLost, RequestFails, TypeOK
  <2> QED
    BY <1>1, <2>1 DEF SaveRelations, CleanLinks
<1>3. CleanRecords' /\ CleanLinks'
  BY <1>1, <1>2, LinkDoneClean
<1>4. CleanUnlinks'
  <2>1. WriteIsOver' /\ import'.saved = Records
    <3>1. import.saved = Records
      BY <1>1, <1>2 DEF CleanLinks
    <3>2. import'.saved = import.saved /\ import'.pc \in {"links", "reporting", "history"}
      BY <1>1, <1>2, LinkEndsDoes DEF Ends
    <3> QED
      BY <3>1, <3>2 DEF WriteIsOver
  <2>2. \A x \in relations' : x[1] \in Indirect
    BY <1>1, <1>2 DEF CleanUnlinks
  <2>3. \A k \in Links : task'[<<"unlink", k>>].pc = "off"
    BY <1>1, <1>2, TasksAre DEF Recorded, Parts
  <2> QED
    BY <1>1, <2>1, <2>2, <2>3, LinksAssumption DEF CleanUnlinks
<1> QED
  BY <1>3, <1>4

\* The links are done by then, and the undo has not begun.
LEMMA SaveHistoryClean ==
  ASSUME ImportInv, CleanState, SaveHistory
  PROVE  CleanRecords' /\ CleanLinks' /\ CleanUnlinks'
<1>1. /\ TypeOK /\ Recorded /\ Parts /\ CleanRecords /\ CleanLinks /\ CleanUnlinks
      /\ import.pc \in {"history", "reporting"}
      /\ UNCHANGED <<db, target, relations, entity, link, undo, task, written, lost, unrecorded>>
      /\ import' = [import EXCEPT !.pc = IF import.pc = "history" THEN "completed"
                                                                  ELSE "partial"]
  BY DEF ImportInv, CleanState, SaveHistory, undoVars, ghostVars
<1>2. import'.pc \in {"completed", "partial"} /\ import'.saved = import.saved
  BY <1>1 DEF TypeOK, ImportState
<1>3. \A t \in Tasks : task[t].pc = "off"
  BY <1>1 DEF Recorded, Parts
<1>4. CleanRecords'
  BY <1>1, <1>2, <1>3, CleanRecordsKept, TasksAre DEF TypeOK
<1>5. CleanLinks'
  BY <1>1, <1>2, CleanLinksKept
<1>6. CleanUnlinks'
  BY <1>1, <1>2, CleanUnlinksKept
<1> QED
  BY <1>4, <1>5, <1>6

-----------------------------------------------------------------------------
(***************************************************************************)
(* Steps of the undo                                                       *)
(***************************************************************************)

\* While an import is undone, its links are not under way.
LEMMA UndoLinksClean ==
  ASSUME ImportInv, CleanState, undo.pc # "none", UNCHANGED <<link, import>>
  PROVE  CleanLinks'
<1>1. import.pc \in {"completed", "partial", "failed"} /\ CleanLinks
  BY DEF ImportInv, TypeOK, ImportState, Recorded, CleanState
<1> QED
  BY <1>1, CleanLinksKept

\* Its parts end without failures.
LEMMA TaskDoneClean ==
  ASSUME ImportInv, NEW t \in Tasks, task[t].pc \in {"load", "write"}, TaskEnds(t, TRUE)
  PROVE  /\ task'[t].pc = "done" /\ undo'.item = undo.item /\ undo.pc # "none"
         /\ WriteIsOver
         /\ \A s \in Tasks \ {t} : task'[s] = task[s]
<1>1. TypeOK /\ Recorded /\ Parts
  BY DEF ImportInv
<1> DEFINE ok == TRUE
<1>2. ok \in BOOLEAN /\ ok
  OBVIOUS
<1> HIDE DEF ok
<1>3. TaskEnds(t, ok)
  BY <1>2 DEF ok
<1>4. /\ task'[t].pc = "done" /\ undo'.item = undo.item
      /\ \A s \in Tasks \ {t} : task'[s] = task[s]
  BY <1>1, <1>2, <1>3, TaskEndsDoes
<1> QED
  BY <1>1, <1>4, PartUnderWay DEF WriteIsOver

\* The parts of the undo begin with a load.
LEMMA UndoImportClean ==
  ASSUME ImportInv, CleanState, UndoImport
  PROVE  CleanRecords' /\ CleanLinks' /\ CleanUnlinks'
<1> DEFINE item == CHOOSE e \in history : TRUE
           begin(t) == [NoTask EXCEPT !.pc = IF t[1] = "history" THEN "write" ELSE "load"]
           new(t) == IF t \notin PartsOf(item) THEN NoTask ELSE begin(t)
<1>1. /\ TypeOK /\ Recorded /\ Parts /\ CleanRecords /\ CleanLinks /\ CleanUnlinks
      /\ undo.pc = "none" /\ import.pc \in {"completed", "partial", "failed"}
      /\ task' = [t \in Tasks |-> new(t)]
      /\ UNCHANGED <<db, target, relations, history, import, entity, link,
                     written, lost, unrecorded>>
  BY DEF ImportInv, CleanState, UndoImport, docVars, appVars, ghostVars
<1>2. \A t \in Tasks : begin(t).pc = IF t[1] = "history" THEN "write" ELSE "load"
  BY NoTaskTyped
<1>3. NoTask.pc = "off"
  BY NoTaskTyped
<1> HIDE DEF begin
<1>4. \A t \in Tasks : new(t).pc \in {"off", "load", "write"}
                       /\ (new(t).pc = "write" => t[1] = "history")
  BY <1>2, <1>3
<1> HIDE DEF new
<1>5. \A t \in Tasks : task'[t].pc \in {"off", "load", "write"}
                       /\ (task'[t].pc = "write" => t[1] = "history")
  BY <1>1, <1>4
<1>6. CleanRecords'
  <2>1. \A r \in Records : task[PartOf(r)].pc = "off"
    BY <1>1, PartOfDoes DEF Parts
  <2>2. \A r \in Records : task'[PartOf(r)].pc \in {"off", "load"}
    <3>1. \A r \in Records : PartOf(r) \in Tasks /\ PartOf(r)[1] # "history"
      BY PartOfDoes DEF PartOf
    <3> QED
      BY <1>5, <3>1
  <2>3. task'[<<"history">>].pc # "done"
    BY <1>5, TasksAre
  <2>4. \A r : PartOf(r)' = PartOf(r) /\ Original(r)' = Original(r)
    BY DEF PartOf, Original
  <2>5. \A r \in written : r \in Records
    BY <1>1 DEF TypeOK
  <2> QED
    BY <1>1, <2>1, <2>2, <2>3, <2>4, <2>5 DEF CleanRecords
<1>7. CleanLinks'
  BY <1>1, CleanLinksKept
<1>8. CleanUnlinks'
  <2>1. \A l \in Links : task'[<<"unlink", l>>].pc \notin {"write", "done"}
    BY <1>5, TasksAre
  <2> QED
    BY <1>1, <2>1, CleanUnlinksKept
<1> QED
  BY <1>6, <1>7, <1>8

\* The record is there, as it was imported.
LEMMA LoadRecordClean ==
  ASSUME ImportInv, CleanState, NEW t \in Tasks, NEW r \in Records, LoadRecord(t, r)
  PROVE  CleanRecords' /\ CleanLinks' /\ CleanUnlinks'
<1> DEFINE new == [NoTask EXCEPT !.pc = "write", !.rev = db[r].rev, !.value = db[r].value]
<1>1. /\ TypeOK /\ Recorded /\ Parts /\ CleanRecords /\ CleanLinks /\ CleanUnlinks
      /\ t \in {<<"remove", r>>, <<"revert", r>>} /\ task[t].pc = "load"
      /\ UNCHANGED <<db, target, relations, history, import, entity, link,
                     written, lost, unrecorded>>
  BY DEF ImportInv, CleanState, LoadRecord, docVars, appVars, ghostVars
<1>2. t = PartOf(r) /\ r \in written
  BY <1>1, PartIs DEF CleanRecords
<1>3. db[r].value = "imported"
  BY <1>1, <1>2 DEF CleanRecords
<1>4. task' = [task EXCEPT ![t] = new] /\ undo' = undo
  BY <1>3 DEF LoadRecord
<1>5. new.pc = "write" /\ new.rev = db[r].rev
  BY DEF NoTask
<1> HIDE DEF new
<1>6. task'[t] = new /\ \A s \in Tasks \ {t} : task'[s] = task[s]
  BY <1>1, <1>4 DEF TypeOK
<1>7. CleanRecords'
  <2>1. \A q \in written \ {r} : task'[PartOf(q)] = task[PartOf(q)]
    BY <1>1, <1>2, <1>6, PartOfDoes DEF TypeOK
  <2>2. task'[PartOf(r)].pc = "write" /\ task'[PartOf(r)].rev = db[r].rev
    BY <1>2, <1>5, <1>6
  <2>3. task'[<<"history">>] = task[<<"history">>]
    BY <1>2, <1>6, TasksAre, PartOfDoes
  <2>4. \A q : PartOf(q)' = PartOf(q) /\ Original(q)' = Original(q)
    BY DEF PartOf, Original
  <2> QED
    BY <1>1, <1>3, <2>1, <2>2, <2>3, <2>4 DEF CleanRecords
<1>8. undo.pc # "none" /\ WriteIsOver
  BY <1>1, PartUnderWay DEF WriteIsOver
<1>9. CleanLinks'
  BY <1>1, <1>8, UndoLinksClean
<1>10. CleanUnlinks'
  <2>1. \A l \in Links : task'[<<"unlink", l>>] = task[<<"unlink", l>>]
    BY <1>2, <1>6, TasksAre, PartOfDoes
  <2> QED
    BY <1>1, <1>4, <1>8, <2>1, CleanUnlinksKept DEF WriteIsOver
<1> QED
  BY <1>7, <1>9, <1>10

\* It fits, and is removed or as it was before, unless it is compared by reference.
LEMMA WriteRecordClean ==
  ASSUME ImportInv, CleanState, NEW t \in Tasks, NEW r \in Records, WriteRecord(t, r),
         faults' = faults
  PROVE  CleanRecords' /\ CleanLinks' /\ CleanUnlinks'
<1> DEFINE value == IF t[1] = "remove" THEN "absent" ELSE UndoneValue(r, task[t].value)
           new == [rev |-> db[r].rev + 1, value |-> value]
<1>1. /\ TypeOK /\ Recorded /\ Parts /\ Read /\ CleanRecords /\ CleanLinks /\ CleanUnlinks
      /\ t \in {<<"remove", r>>, <<"revert", r>>} /\ task[t].pc = "write"
      /\ UNCHANGED <<target, relations, history, import, entity, link,
                     written, lost, unrecorded>>
  BY DEF ImportInv, CleanState, WriteRecord, appVars, ghostVars
<1>2. t = PartOf(r) /\ r \in written
  BY <1>1, PartIs DEF CleanRecords
<1>3. db[r].value = "imported" /\ db[r].rev = task[t].rev
  BY <1>1, <1>2 DEF CleanRecords
<1>4. db' = [db EXCEPT ![r] = new] /\ TaskEnds(t, TRUE)
  <2>1. ~ResponseLost
    BY <1>1 DEF ResponseLost, RequestFails, TypeOK
  <2> QED
    BY <1>3, <2>1 DEF WriteRecord
<1>5. new.value = value
  OBVIOUS
<1> HIDE DEF value, new
<1>6. db'[r].value = value /\ \A q \in Records \ {r} : db'[q] = db[q]
  BY <1>1, <1>4, <1>5 DEF TypeOK
<1>7. r \in ByReference \/ value = Original(r)
  <2>1. CASE r \in Existing
    <3>1. t[1] = "revert"
      BY <1>2, <2>1 DEF PartOf
    <3>2. task[t].value = "imported"
      BY <1>1, <1>3 DEF Read, PartsRead, StillRecord
    <3>3. entity[r].previous = Original(r)
      BY <1>1 DEF CleanRecords, Recorded, Parts
    <3> QED
      BY <3>1, <3>2, <3>3 DEF value, UndoneValue
  <2>2. CASE r \notin Existing
    BY <1>2, <2>2 DEF PartOf, Original, value
  <2> QED
    BY <2>1, <2>2
<1>8. /\ task'[t].pc = "done" /\ undo'.item = undo.item /\ undo.pc # "none"
      /\ WriteIsOver
      /\ \A s \in Tasks \ {t} : task'[s] = task[s]
  BY <1>1, <1>4, TaskDoneClean
<1>9. CleanRecords'
  <2>1. \A q \in written \ {r} : task'[PartOf(q)] = task[PartOf(q)] /\ db'[q] = db[q]
    BY <1>1, <1>2, <1>6, <1>8, PartOfDoes DEF TypeOK
  <2>2. \A q \in Records \ written : db'[q] = db[q]
    BY <1>2, <1>6
  <2>3. task'[PartOf(r)].pc = "done"
    BY <1>2, <1>8
  <2>4. task'[<<"history">>] = task[<<"history">>]
    BY <1>2, <1>8, TasksAre, PartOfDoes
  <2>5. \A q : PartOf(q)' = PartOf(q) /\ Original(q)' = Original(q)
    BY DEF PartOf, Original
  <2>6. import.pc # "records"
    BY <1>8 DEF WriteIsOver
  <2> QED
    BY <1>1, <1>6, <1>7, <2>1, <2>2, <2>3, <2>4, <2>5, <2>6 DEF CleanRecords
<1>10. CleanLinks'
  BY <1>1, <1>8, UndoLinksClean
<1>11. CleanUnlinks'
  <2>1. \A l \in Links : task'[<<"unlink", l>>] = task[<<"unlink", l>>]
    BY <1>2, <1>8, TasksAre, PartOfDoes
  <2> QED
    BY <1>1, <1>8, <2>1, CleanUnlinksKept DEF WriteIsOver
<1> QED
  BY <1>9, <1>10, <1>11

\* A part of the undo that is not about records
LEMMA UnlinkRecordsClean ==
  ASSUME ImportInv, CleanState, NEW l \in Links,
         UNCHANGED <<db, history, import, entity, written, lost, unrecorded>>,
         \A s \in Tasks \ {<<"unlink", l>>} : task'[s] = task[s]
  PROVE  CleanRecords'
<1>1. CleanRecords /\ written \subseteq Records
  BY DEF ImportInv, TypeOK, CleanState
<1>2. /\ \A r \in Records : task'[PartOf(r)] = task[PartOf(r)]
      /\ task'[<<"history">>] = task[<<"history">>]
  BY TasksAre, PartOfDoes
<1>3. task'[<<"history">>].pc = "done" => history' = {}
  BY <1>1, <1>2 DEF CleanRecords
<1> QED
  BY <1>1, <1>2, <1>3, CleanRecordsKept

\* The links to undo are among those that are read.
LEMMA LoadLinksClean ==
  ASSUME ImportInv, CleanState, NEW l \in Links, LoadLinks(l)
  PROVE  CleanRecords' /\ CleanLinks' /\ CleanUnlinks'
<1> DEFINE part == <<"unlink", l>>
           t == target[Target[l]]
           created == {x \in relations : x[1] = l /\ x[2] \in undo.item.created}
           direct == [NoTask EXCEPT !.pc = "write", !.rev = t.rev, !.seen = t.links,
                                    !.others = t.others]
           indirect == [NoTask EXCEPT !.pc = "write", !.seen = created]
           new == IF l \in Indirect THEN indirect ELSE direct
<1>1. /\ TypeOK /\ Recorded /\ Parts /\ CleanRecords /\ CleanLinks /\ CleanUnlinks
      /\ task[part].pc = "load" /\ part \in Tasks
      /\ task' = [task EXCEPT ![part] = new]
      /\ UNCHANGED <<db, target, relations, history, import, entity, link, undo,
                     written, lost, unrecorded>>
  BY TasksAre DEF ImportInv, CleanState, LoadLinks, docVars, appVars, ghostVars
<1> HIDE DEF created, t
<1>2. /\ direct.pc = "write" /\ direct.rev = t.rev
      /\ indirect.pc = "write" /\ indirect.seen = created
  BY DEF NoTask
<1> HIDE DEF direct, indirect
<1>3. task'[part] = new /\ \A s \in Tasks \ {part} : task'[s] = task[s]
  BY <1>1 DEF TypeOK
<1>4. undo.pc # "none" /\ WriteIsOver
  BY <1>1, PartUnderWay DEF WriteIsOver
<1>5. CleanRecords'
  BY <1>1, <1>3, UnlinkRecordsClean
<1>6. CleanLinks'
  BY <1>1, <1>4, UndoLinksClean
<1>7. CleanUnlinks'
  <2>1. \A k \in Links \ {l} : task'[<<"unlink", k>>] = task[<<"unlink", k>>]
    BY <1>3, TasksAre
  <2>2. (relations' # {} \/ \E s \in Targets : target'[s].links # {}) =>
           WriteIsOver' /\ import'.saved = Records
    BY <1>1 DEF CleanUnlinks, WriteIsOver
  <2>3. /\ \A x \in relations' : x[1] \in Indirect
        /\ \A s \in Targets : \A x \in target'[s].links : x[1] \notin Indirect /\ Target[x[1]] = s
    BY <1>1 DEF CleanUnlinks
  <2>4. ASSUME NEW k \in Indirect
        PROVE  /\ task'[<<"unlink", k>>].pc = "write" =>
                     {x \in relations' : x[1] = k /\ x[2] \in undo'.item.created}
                         \subseteq task'[<<"unlink", k>>].seen
               /\ task'[<<"unlink", k>>].pc = "done" =>
                     \A x \in relations' : x[1] = k => x[2] \notin undo'.item.created
    <3>1. CASE k = l
      BY <1>1, <1>2, <1>3, <3>1 DEF created
    <3>2. CASE k # l
      BY <1>1, <2>1, <3>2, LinksAssumption DEF CleanUnlinks
    <3> QED
      BY <3>1, <3>2
  <2>5. ASSUME NEW k \in Links \ Indirect
        PROVE  /\ task'[<<"unlink", k>>].pc = "write" =>
                     task'[<<"unlink", k>>].rev = target'[Target[k]].rev
               /\ task'[<<"unlink", k>>].pc = "done" =>
                     \A x \in target'[Target[k]].links :
                         x[1] = k => x[2] \notin undo'.item.created
    <3>1. CASE k = l
      BY <1>1, <1>2, <1>3, <3>1 DEF t
    <3>2. CASE k # l
      BY <1>1, <2>1, <3>2 DEF CleanUnlinks
    <3> QED
      BY <3>1, <3>2
  <2> QED
    BY <2>2, <2>3, <2>4, <2>5 DEF CleanUnlinks
<1> QED
  BY <1>5, <1>6, <1>7

\* The target fits, and has no links to created records any more.
LEMMA WriteLinksClean ==
  ASSUME ImportInv, CleanState, NEW l \in Links, WriteLinks(l), faults' = faults
  PROVE  CleanRecords' /\ CleanLinks' /\ CleanUnlinks'
<1> DEFINE part == <<"unlink", l>>
           t == Target[l]
           seen == task[part]
           removed == {<<l, r>> : r \in undo.item.created}
           links == seen.seen \ removed
<1>1. /\ TypeOK /\ Read /\ CleanRecords /\ CleanLinks /\ CleanUnlinks /\ DistinctTargets
      /\ task[part].pc = "write" /\ l \notin Indirect
      /\ UNCHANGED <<db, relations, history, import, entity, link, written, lost, unrecorded>>
  BY DEF ImportInv, CleanState, Clean, WriteLinks, appVars, ghostVars
<1>2. target[t].rev = seen.rev
  BY <1>1 DEF CleanUnlinks
<1>3. target' = [target EXCEPT ![t] = NewTarget(seen, links)] /\ TaskEnds(part, TRUE)
  <2>1. ~ResponseLost
    BY <1>1 DEF ResponseLost, RequestFails, TypeOK
  <2> QED
    BY <1>2, <2>1 DEF WriteLinks
<1>4. /\ t \in Targets /\ part \in Tasks /\ seen.others \in Nat
      /\ seen.seen \subseteq Links \X Records /\ links \subseteq Links \X Records
  BY <1>1, LinksAssumption, TasksAre, TaskFields DEF TypeOK
<1>5. seen.seen = target[t].links
  BY <1>1, <1>2 DEF Read, UnlinksRead, StillTarget
<1>6. /\ target'[t].links = links
      /\ \A s \in Targets \ {t} : target'[s] = target[s]
  <2> HIDE DEF t, seen, links
  <2> QED
    BY <1>1, <1>2, <1>3, <1>4, NewTargetDoes
<1>7. \A k \in Links \ Indirect : k # l => Target[k] # t /\ Target[k] \in Targets
  BY <1>1, LinksAssumption DEF DistinctTargets
<1>8. /\ task'[part].pc = "done" /\ undo'.item = undo.item /\ undo.pc # "none"
      /\ WriteIsOver
      /\ \A s \in Tasks \ {part} : task'[s] = task[s]
  <2> HIDE DEF part
  <2> QED
    BY <1>1, <1>3, <1>4, TaskDoneClean
<1>9. CleanRecords'
  BY <1>1, <1>8, UnlinkRecordsClean
<1>10. CleanLinks'
  BY <1>1, <1>8, UndoLinksClean
<1>11. \A s \in Targets : target'[s].links \subseteq target[s].links
  BY <1>5, <1>6
<1>12. \A x \in links : x[1] = l => x[2] \notin undo.item.created
  BY <1>4
<1>13. CleanUnlinks'
  <2>1. \A k \in Links \ {l} : task'[<<"unlink", k>>] = task[<<"unlink", k>>]
    BY <1>8, TasksAre
  <2>2. (relations' # {} \/ \E s \in Targets : target'[s].links # {}) =>
           WriteIsOver' /\ import'.saved = Records
    BY <1>1, <1>11 DEF CleanUnlinks, WriteIsOver
  <2>3. /\ \A x \in relations' : x[1] \in Indirect
        /\ \A s \in Targets : \A x \in target'[s].links : x[1] \notin Indirect /\ Target[x[1]] = s
    BY <1>1, <1>11 DEF CleanUnlinks
  <2>4. ASSUME NEW k \in Indirect
        PROVE  /\ task'[<<"unlink", k>>].pc = "write" =>
                     {x \in relations' : x[1] = k /\ x[2] \in undo'.item.created}
                         \subseteq task'[<<"unlink", k>>].seen
               /\ task'[<<"unlink", k>>].pc = "done" =>
                     \A x \in relations' : x[1] = k => x[2] \notin undo'.item.created
    BY <1>1, <1>8, <2>1, LinksAssumption DEF CleanUnlinks
  <2>5. ASSUME NEW k \in Links \ Indirect
        PROVE  /\ task'[<<"unlink", k>>].pc = "write" =>
                     task'[<<"unlink", k>>].rev = target'[Target[k]].rev
               /\ task'[<<"unlink", k>>].pc = "done" =>
                     \A x \in target'[Target[k]].links :
                         x[1] = k => x[2] \notin undo'.item.created
    <3>1. CASE k = l
      BY <1>6, <1>8, <1>12, <3>1
    <3>2. CASE k # l
      BY <1>1, <1>6, <1>7, <1>8, <2>1, <3>2 DEF CleanUnlinks
    <3> QED
      BY <3>1, <3>2
  <2> QED
    BY <2>2, <2>3, <2>4, <2>5 DEF CleanUnlinks
<1> QED
  BY <1>9, <1>10, <1>13

\* Neither are there relations of the action to them.
LEMMA RemoveRelationsClean ==
  ASSUME ImportInv, CleanState, NEW l \in Links, RemoveRelations(l), faults' = faults
  PROVE  CleanRecords' /\ CleanLinks' /\ CleanUnlinks'
<1> DEFINE part == <<"unlink", l>>
<1>1. /\ TypeOK /\ CleanRecords /\ CleanLinks /\ CleanUnlinks
      /\ task[part].pc = "write" /\ l \in Indirect /\ part \in Tasks
      /\ UNCHANGED <<db, target, history, import, entity, link, written, lost, unrecorded>>
  BY TasksAre DEF ImportInv, CleanState, RemoveRelations, appVars, ghostVars
<1>2. relations' = relations \ task[part].seen /\ TaskEnds(part, TRUE)
  <2>1. ~RequestFails
    BY <1>1 DEF RequestFails, TypeOK
  <2> QED
    BY <2>1 DEF RemoveRelations
<1>3. /\ task'[part].pc = "done" /\ undo'.item = undo.item /\ undo.pc # "none"
      /\ WriteIsOver
      /\ \A s \in Tasks \ {part} : task'[s] = task[s]
  <2> HIDE DEF part
  <2> QED
    BY <1>1, <1>2, TaskDoneClean
<1>4. CleanRecords'
  BY <1>1, <1>3, UnlinkRecordsClean
<1>5. CleanLinks'
  BY <1>1, <1>3, UndoLinksClean
<1>6. \A x \in relations' : x[1] = l => x[2] \notin undo.item.created
  <2>1. {x \in relations : x[1] = l /\ x[2] \in undo.item.created} \subseteq task[part].seen
    BY <1>1 DEF CleanUnlinks
  <2> QED
    BY <1>2, <2>1
<1>7. relations' \subseteq relations
  BY <1>2
<1>8. CleanUnlinks'
  <2>1. \A k \in Links \ {l} : task'[<<"unlink", k>>] = task[<<"unlink", k>>]
    BY <1>3, TasksAre
  <2>2. (relations' # {} \/ \E s \in Targets : target'[s].links # {}) =>
           WriteIsOver' /\ import'.saved = Records
    BY <1>1, <1>7 DEF CleanUnlinks, WriteIsOver
  <2>3. /\ \A x \in relations' : x[1] \in Indirect
        /\ \A s \in Targets : \A x \in target'[s].links : x[1] \notin Indirect /\ Target[x[1]] = s
    BY <1>1, <1>7 DEF CleanUnlinks
  <2>4. ASSUME NEW k \in Indirect
        PROVE  /\ task'[<<"unlink", k>>].pc = "write" =>
                     {x \in relations' : x[1] = k /\ x[2] \in undo'.item.created}
                         \subseteq task'[<<"unlink", k>>].seen
               /\ task'[<<"unlink", k>>].pc = "done" =>
                     \A x \in relations' : x[1] = k => x[2] \notin undo'.item.created
    <3>1. CASE k = l
      BY <1>3, <1>6, <3>1
    <3>2. CASE k # l
      BY <1>1, <1>3, <1>7, <2>1, <3>2, LinksAssumption DEF CleanUnlinks
    <3> QED
      BY <3>1, <3>2
  <2>5. ASSUME NEW k \in Links \ Indirect
        PROVE  /\ task'[<<"unlink", k>>].pc = "write" =>
                     task'[<<"unlink", k>>].rev = target'[Target[k]].rev
               /\ task'[<<"unlink", k>>].pc = "done" =>
                     \A x \in target'[Target[k]].links :
                         x[1] = k => x[2] \notin undo'.item.created
    <3>1. task'[<<"unlink", k>>] = task[<<"unlink", k>>]
      BY <1>1, <2>1
    <3> QED
      BY <1>1, <1>3, <3>1 DEF CleanUnlinks
  <2> QED
    BY <2>2, <2>3, <2>4, <2>5 DEF CleanUnlinks
<1> QED
  BY <1>4, <1>5, <1>8

\* The entry is gone.
LEMMA RemoveHistoryClean ==
  ASSUME ImportInv, CleanState, RemoveHistory
  PROVE  CleanRecords' /\ CleanLinks' /\ CleanUnlinks'
<1> DEFINE part == <<"history">>
<1>1. /\ TypeOK /\ CleanRecords /\ CleanLinks /\ CleanUnlinks
      /\ task[part].pc = "write" /\ part \in Tasks /\ TaskEnds(part, TRUE) /\ history' = {}
      /\ UNCHANGED <<db, target, relations, import, entity, link, written, lost, unrecorded>>
  BY TasksAre DEF ImportInv, CleanState, RemoveHistory, appVars, ghostVars
<1>2. /\ undo'.item = undo.item /\ undo.pc # "none" /\ WriteIsOver
      /\ \A s \in Tasks \ {part} : task'[s] = task[s]
  <2> HIDE DEF part
  <2> QED
    BY <1>1, TaskDoneClean
<1>3. CleanRecords'
  BY <1>1, <1>2, PartOfDoes, CleanRecordsKept DEF TypeOK
<1>4. CleanLinks'
  BY <1>1, <1>2, UndoLinksClean
<1>5. CleanUnlinks'
  <2>1. \A l \in Links : task'[<<"unlink", l>>] = task[<<"unlink", l>>]
    BY <1>2, TasksAre
  <2> QED
    BY <1>1, <1>2, <2>1, CleanUnlinksKept DEF WriteIsOver
<1> QED
  BY <1>3, <1>4, <1>5

\* Nothing changes.
LEMMA StutterClean ==
  ASSUME ImportInv, CleanState, UNCHANGED vars
  PROVE  CleanRecords' /\ CleanLinks' /\ CleanUnlinks'
<1>1. UNCHANGED <<db, target, relations, history, import, entity, link, undo, task,
                  written, lost, unrecorded>>
  BY DEF vars, docVars, appVars, undoVars, ghostVars
<1>2. CleanRecords /\ CleanLinks /\ CleanUnlinks /\ written \subseteq Records
  BY DEF CleanState, ImportInv, TypeOK
<1>3. CleanRecords'
  BY <1>1, <1>2, CleanRecordsKept DEF CleanRecords
<1>4. CleanLinks'
  BY <1>1, <1>2 DEF CleanLinks
<1>5. CleanUnlinks'
  BY <1>1, <1>2, CleanUnlinksKept DEF WriteIsOver
<1> QED
  BY <1>3, <1>4, <1>5

-----------------------------------------------------------------------------
\* As long as nothing fails and nobody interferes, every step keeps all of this.
LEMMA NextClean ==
  ASSUME ImportInv, CleanState, [Next]_vars, Clean'
  PROVE  CleanRecords' /\ CleanLinks' /\ CleanUnlinks'
<1>1. edits = 0 /\ edits' = 0 /\ faults = 0 /\ faults' = 0
  BY DEF CleanState, Clean
<1>2. ~RequestFails /\ ~UseEdit
  BY <1>1 DEF RequestFails, UseEdit
<1>3. ~Others
  BY <1>2 DEF Others, OtherEdit, OtherLink
<1>4. ~WriteRequestFails /\ ~PermissionDenied /\ ~SaveHistoryFails
  BY <1>2 DEF WriteRequestFails, PermissionDenied, SaveHistoryFails, ResponseLost
<1>5. (\A l : ~LinkFails(l)) /\ (\A t : ~TaskFails(t))
  BY <1>2 DEF LinkFails, TaskFails
<1>6. CASE Write
  BY <1>1, <1>4, <1>6, PrepareClean, WriteRequestClean DEF Write
<1>7. CASE \E l \in Links : Link(l)
  BY <1>1, <1>5, <1>7, LoadTargetClean, SaveTargetClean, SaveRelationsClean DEF Link
<1>8. CASE SaveHistory
  BY <1>8, SaveHistoryClean
<1>9. CASE Undo
  BY <1>1, <1>5, <1>9, UndoImportClean, LoadRecordClean, WriteRecordClean, LoadLinksClean,
     WriteLinksClean, RemoveRelationsClean, RemoveHistoryClean DEF Undo
<1>10. CASE UNCHANGED vars
  BY <1>10, StutterClean
<1> QED
  BY <1>3, <1>4, <1>6, <1>7, <1>8, <1>9, <1>10 DEF Next

\* Changes by others and faults are only counted up.
LEMMA StepCounts ==
  ASSUME [Next]_vars
  PROVE  /\ edits' = edits \/ edits' = edits + 1
         /\ faults' = faults \/ faults' = faults + 1
<1>1. CASE Write
  BY <1>1 DEF Write, Prepare, WriteRequest, WriteRequestFails, PermissionDenied, envVars,
     RequestFails, ResponseLost
<1>2. CASE \E l \in Links : Link(l)
  BY <1>2 DEF Link, LoadTarget, SaveTarget, SaveRelations, LinkFails, envVars, RequestFails,
     ResponseLost
<1>3. CASE SaveHistory \/ SaveHistoryFails
  BY <1>3 DEF SaveHistory, SaveHistoryFails, envVars, RequestFails, ResponseLost
<1>4. CASE Undo
  BY <1>4 DEF Undo, UndoImport, TaskFails, LoadRecord, WriteRecord, LoadLinks, WriteLinks,
     RemoveRelations, RemoveHistory, envVars, RequestFails, ResponseLost
<1>5. CASE Others
  BY <1>5 DEF Others, OtherEdit, OtherLink, UseEdit
<1>6. CASE UNCHANGED vars
  BY <1>6 DEF vars, envVars
<1> QED
  BY <1>1, <1>2, <1>3, <1>4, <1>5, <1>6 DEF Next

\* This invariant holds in every reachable state, too.
LEMMA CleanInvariant == Spec => []CleanInv
<1>1. Init => CleanInv
  BY InitKeeps, InitClean DEF CleanInv
<1>2. CleanInv /\ [Next]_vars => CleanInv'
  <2> SUFFICES ASSUME CleanInv, [Next]_vars PROVE CleanInv'
    OBVIOUS
  <2>1. ImportInv /\ ImportInv'
    BY NextKeeps DEF CleanInv
  <2>2. Clean' => Clean
    <3>1. edits \in Nat /\ faults \in Nat
      BY <2>1 DEF ImportInv, TypeOK
    <3> QED
      BY <3>1, StepCounts DEF Clean, DistinctTargets
  <2>3. Clean' => CleanRecords' /\ CleanLinks' /\ CleanUnlinks'
    BY <2>1, <2>2, NextClean DEF CleanInv, CleanState
  <2> QED
    BY <2>1, <2>3 DEF CleanInv
<1> QED
  BY <1>1, <1>2, PTL DEF Spec

-----------------------------------------------------------------------------
(***************************************************************************)
(* What an undo has taken back, whatever fails and whoever interferes      *)
(***************************************************************************)

\* Only the import brings imported values, before there is an undo, which restores none.
TakenBack ==
    /\ \A r \in Existing : entity[r].previous # "imported"
    /\ import.pc = "prepare" => \A r \in Existing : db[r].value # "imported"
    /\ \A r \in Existing \ ByReference :
          task[<<"revert", r>>].pc = "done" => db[r].value # "imported"
    /\ task[<<"history">>].pc = "done" => history = {}

\* A part that fails is not done, unless it removes a record.
LEMMA TaskFailed ==
  ASSUME TypeOK, NEW t \in Tasks, TaskEnds(t, FALSE), t[1] # "remove"
  PROVE  task'[t].pc # "done"
<1>1. task' = [task EXCEPT ![t] = [NoTask EXCEPT !.pc = "failed"]]
  BY DEF TaskEnds
<1>2. [NoTask EXCEPT !.pc = "failed"].pc = "failed"
  BY NoTaskTyped
<1>3. task'[t] = [NoTask EXCEPT !.pc = "failed"]
  BY <1>1 DEF TypeOK
<1> QED
  BY <1>2, <1>3

\* The import writes while there is no undo.
LEMMA WriteTakesBack ==
  ASSUME ImportInv, TakenBack, Write
  PROVE  TakenBack'
<1>1. /\ TypeOK /\ import.pc \in {"prepare", "records"} /\ task' = task
      /\ \A t \in Tasks : task[t].pc = "off"
  BY DEF ImportInv, Recorded, Parts, Write, Prepare, WriteRequest, WriteRequestFails,
         PermissionDenied, undoVars
<1>2. SUFFICES /\ import'.pc # "prepare"
               /\ \A r \in Existing : entity'[r].previous # "imported"
  BY <1>1, TasksAre DEF TakenBack
<1>3. CASE Prepare
  <2>1. import' = [import EXCEPT !.pc = "records"] /\ import.pc = "prepare"
    BY <1>3 DEF Prepare
  <2>2. import'.pc = "records"
    BY <1>1, <2>1 DEF TypeOK, ImportState
  <2>3. \A r \in Records : entity'[r].previous = db[r].value
    BY <1>3 DEF Prepare
  <2> QED
    BY <2>1, <2>2, <2>3, FileFacts DEF TakenBack
<1>4. CASE WriteRequest
  <2>1. PICK stored, i : RequestDoes(stored, i)
    BY <1>4, WriteRequestDoes
  <2>2. /\ i.pc = "records"
        /\ MoreRequests(i) => import' = i
        /\ ~MoreRequests(i) => import'.pc \in {"links", "history", "reporting", "failed"}
        /\ \A r \in Records : entity'[r].previous = entity[r].previous
    BY <2>1 DEF RequestDoes
  <2> QED
    BY <2>2, FileFacts DEF TakenBack
<1>5. CASE WriteRequestFails
  <2> DEFINE i == [import EXCEPT !.stopped = TRUE]
  <2>1. import.pc = "records" /\ import.saved = {} /\ Proceed(i, db)
    BY <1>5 DEF WriteRequestFails, ImportInv, Sending, WriteIsOver
  <2>2. i \in ImportState /\ i.pc = "records" /\ i.saved = {}
    BY <1>1, <2>1 DEF TypeOK, ImportState
  <2>3. db \in [Records -> Document]
    BY <1>1 DEF TypeOK
  <2> HIDE DEF i
  <2>4. /\ MoreRequests(i) => import' = i
        /\ ~MoreRequests(i) => import'.pc \in {"links", "history", "reporting", "failed"}
        /\ \A r \in Records : entity'[r].previous = entity[r].previous
    BY <1>1, <2>1, <2>2, <2>3, ProceedDoes
  <2> QED
    BY <2>2, <2>4, FileFacts DEF TakenBack
<1>6. CASE PermissionDenied
  <2>1. import' = [import EXCEPT !.pc = "failed"] /\ entity' = entity
    BY <1>6 DEF PermissionDenied
  <2>2. import'.pc = "failed"
    BY <1>1, <2>1 DEF TypeOK, ImportState
  <2> QED
    BY <2>1, <2>2 DEF TakenBack
<1> QED
  BY <1>3, <1>4, <1>5, <1>6 DEF Write

\* Links and the history do not touch records, and the history is saved before an undo.
LEMMA AfterwardsTakesBack ==
  ASSUME ImportInv, TakenBack,
         (\E l \in Links : Link(l)) \/ SaveHistory \/ SaveHistoryFails
  PROVE  TakenBack'
<1>1. UNCHANGED <<db, entity, task>>
  BY DEF Link, LoadTarget, SaveTarget, SaveRelations, LinkFails, SaveHistory,
         SaveHistoryFails, docVars, undoVars
<1>2. import'.pc = "prepare" => import.pc = "prepare"
  BY DEF ImportInv, TypeOK, ImportState, Link, LoadTarget, SaveTarget, SaveRelations,
         LinkFails, LinkEnds, SaveHistory, SaveHistoryFails
<1>3. task[<<"history">>].pc = "done" => history' = {}
  <2>1. CASE \E l \in Links : Link(l)
    <3>1. history' = history
      BY <2>1 DEF Link, LoadTarget, SaveTarget, SaveRelations, LinkFails, docVars
    <3> QED
      BY <3>1 DEF TakenBack
  <2>2. CASE SaveHistory \/ SaveHistoryFails
    <3>1. undo.pc = "none"
      BY <2>2 DEF SaveHistory, SaveHistoryFails, ImportInv, Recorded
    <3> QED
      BY <3>1, TasksAre DEF ImportInv, Parts
  <2> QED
    BY <2>1, <2>2
<1> QED
  BY <1>1, <1>2, <1>3 DEF TakenBack

\* A value that is restored is not the imported one.
LEMMA WriteRecordTakesBack ==
  ASSUME ImportInv, TakenBack, NEW t \in Tasks, NEW r \in Records, WriteRecord(t, r)
  PROVE  TakenBack'
<1>1. TypeOK /\ UNCHANGED <<history, entity, import>>
  BY DEF ImportInv, WriteRecord, appVars
<1>2. /\ t \in {<<"remove", r>>, <<"revert", r>>} /\ task[t].pc = "write"
      /\ \A q \in Records \ {r} : db'[q] = db[q]
      /\ \/ db' = db
         \/ /\ db[r].rev = task[t].rev
            /\ db'[r].value = IF t[1] = "remove" THEN "absent"
                                                 ELSE UndoneValue(r, task[t].value)
      /\ \E ok \in BOOLEAN : TaskEnds(t, ok)
  BY <1>1, WriteRecordDoes
<1>3. \A s \in Tasks \ {t} : task'[s] = task[s]
  BY <1>1, <1>2, TaskEndsDoes
<1>4. import.pc # "prepare"
  BY <1>2, PartUnderWay DEF ImportInv
<1>5. r \in Existing \ ByReference => UndoneValue(r, task[t].value) # "imported"
  BY DEF TakenBack, UndoneValue
<1>6. ASSUME NEW q \in Existing \ ByReference, task'[<<"revert", q>>].pc = "done"
      PROVE  db'[q].value # "imported"
  <2>1. CASE q # r
    <3>1. <<"revert", q>> # t /\ <<"revert", q>> \in Tasks
      BY <1>2, <2>1, TasksAre
    <3> QED
      BY <1>2, <1>3, <1>6, <2>1, <3>1, FileFacts DEF TakenBack
  <2>2. CASE q = r /\ t = <<"remove", r>>
    <3>1. <<"revert", q>> # t /\ <<"revert", q>> \in Tasks
      BY <2>2, TasksAre
    <3> QED
      BY <1>2, <1>3, <1>6, <2>2, <3>1 DEF TakenBack
  <2>3. CASE q = r /\ t = <<"revert", r>>
    <3>1. db[r].rev = task[t].rev \/ TaskEnds(t, FALSE)
      BY DEF WriteRecord
    <3>2. ~TaskEnds(t, FALSE)
      BY <1>1, <1>6, <2>3, TaskFailed
    <3>3. db[r].rev = task[t].rev /\ t[1] = "revert"
      BY <2>3, <3>1, <3>2
    <3>4. db'[r].value = UndoneValue(r, task[t].value)
      <4>1. db' = [db EXCEPT ![r] = [rev |-> db[r].rev + 1,
                                     value |-> UndoneValue(r, task[t].value)]]
        BY <3>3 DEF WriteRecord
      <4> QED
        BY <1>1, <4>1 DEF TypeOK
    <3> QED
      BY <1>5, <1>6, <2>3, <3>4
  <2> QED
    BY <1>2, <2>1, <2>2, <2>3
<1>7. task'[<<"history">>] = task[<<"history">>]
  BY <1>2, <1>3, TasksAre
<1> QED
  BY <1>1, <1>4, <1>6, <1>7 DEF TakenBack

\* The other steps of an undo
LEMMA UndoTakesBack ==
  ASSUME ImportInv, TakenBack, Undo
  PROVE  TakenBack'
<1>1. TypeOK
  BY DEF ImportInv
<1>2. CASE UndoImport
  <2>1. \A t \in Tasks : task'[t].pc # "done"
    <3> DEFINE item == CHOOSE e \in history : TRUE
    <3>1. \A t \in Tasks :
             task'[t] = IF t \notin PartsOf(item) THEN NoTask
                        ELSE [NoTask EXCEPT !.pc = IF t[1] = "history" THEN "write" ELSE "load"]
      BY <1>2 DEF UndoImport
    <3> QED
      BY <3>1, NoTaskTyped
  <2> QED
    BY <1>2, <2>1, TasksAre DEF UndoImport, docVars, appVars, TakenBack
<1>3. ASSUME NEW t \in Tasks, TaskFails(t) PROVE TakenBack'
  <2>1. UNCHANGED <<db, history, import, entity>> /\ TaskEnds(t, FALSE)
    BY <1>3 DEF TaskFails, docVars, appVars
  <2>2. \A s \in Tasks : s[1] # "remove" /\ task'[s].pc = "done" => task[s].pc = "done"
    BY <1>1, <2>1, TaskFailed, TaskEndsDoes
  <2> QED
    BY <2>1, <2>2, TasksAre DEF TakenBack
<1>4. ASSUME NEW t \in Tasks, NEW r \in Records, LoadRecord(t, r) PROVE TakenBack'
  <2>1. UNCHANGED <<db, history, import, entity>>
    BY <1>4 DEF LoadRecord, docVars, appVars
  <2>2. ASSUME NEW s \in Tasks, s[1] # "remove", task'[s].pc = "done" PROVE task[s].pc = "done"
    <3>1. CASE db[r].value = "absent"
      <4>1. TaskEnds(t, FALSE)
        BY <1>4, <3>1 DEF LoadRecord
      <4> QED
        BY <1>1, <2>2, <4>1, TaskFailed, TaskEndsDoes
    <3>2. CASE db[r].value # "absent"
      <4>1. task' = [task EXCEPT ![t] = [NoTask EXCEPT !.pc = "write", !.rev = db[r].rev,
                                                       !.value = db[r].value]]
        BY <1>4, <3>2 DEF LoadRecord
      <4>2. task'[t].pc = "write" /\ \A u \in Tasks \ {t} : task'[u] = task[u]
        BY <1>1, <4>1 DEF TypeOK, NoTask
      <4> QED
        BY <2>2, <4>2
    <3> QED
      BY <3>1, <3>2
  <2> QED
    BY <2>1, <2>2, TasksAre DEF TakenBack
<1>5. ASSUME NEW l \in Links, LoadLinks(l) \/ WriteLinks(l) \/ RemoveRelations(l)
      PROVE  TakenBack'
  <2>1. UNCHANGED <<db, history, import, entity>>
    BY <1>5 DEF LoadLinks, WriteLinks, RemoveRelations, docVars, appVars
  <2>2. /\ \A s \in Tasks \ {<<"unlink", l>>} : task'[s] = task[s]
    <3>1. CASE LoadLinks(l)
      BY <1>1, <3>1 DEF LoadLinks, TypeOK
    <3>2. CASE WriteLinks(l) \/ RemoveRelations(l)
      <4>1. \E ok \in BOOLEAN : TaskEnds(<<"unlink", l>>, ok)
        BY <3>2 DEF WriteLinks, RemoveRelations
      <4> QED
        BY <1>1, <4>1, TasksAre, TaskEndsDoes
    <3> QED
      BY <1>5, <3>1, <3>2
  <2> QED
    BY <2>1, <2>2, TasksAre DEF TakenBack
<1>6. CASE RemoveHistory
  <2>1. UNCHANGED <<db, import, entity>> /\ history' = {} /\ TaskEnds(<<"history">>, TRUE)
    BY <1>6 DEF RemoveHistory, appVars
  <2>2. \A s \in Tasks \ {<<"history">>} : task'[s] = task[s]
    BY <1>1, <2>1, TasksAre, TaskEndsDoes
  <2> QED
    BY <2>1, <2>2, TasksAre DEF TakenBack
<1> QED
  BY <1>2, <1>3, <1>4, <1>5, <1>6, WriteRecordTakesBack DEF Undo

\* Others bring no imported values.
LEMMA OthersTakeBack ==
  ASSUME ImportInv, TakenBack, Others \/ UNCHANGED vars
  PROVE  TakenBack'
<1>1. UNCHANGED <<history, import, entity, task>>
  BY DEF Others, OtherEdit, OtherLink, vars, docVars, appVars, undoVars
<1>2. \A r \in Records : db'[r].value = "imported" => db[r].value = "imported"
  <2>1. ASSUME NEW r \in Existing \cup written, OtherEdit(r)
        PROVE  \A q \in Records : db'[q].value = "imported" => db[q].value = "imported"
    <3>1. PICK value \in {db[r].value, "edited", "absent"} :
             db' = [db EXCEPT ![r] = [rev |-> db[r].rev + 1, value |-> value]]
      BY <2>1 DEF OtherEdit
    <3> QED
      BY <3>1 DEF ImportInv, TypeOK
  <2> QED
    BY <2>1 DEF Others, OtherLink, vars, docVars
<1> QED
  BY <1>1, <1>2, FileFacts DEF TakenBack

\* An undo that resolves has taken back all imported values that are compared by value,
\* whoever interferes and whatever fails; without failures or interference it leaves
\* nothing of the import but what the property names.
THEOREM UndoneCorrect == Spec => []UndoneIsGone
<1>1. CleanInv /\ TakenBack => UndoneIsGone
  <2> SUFFICES ASSUME CleanInv, TakenBack, undo.pc = "undone"
               PROVE  /\ \A r \in undo.item.updated \ ByReference : db[r].value # "imported"
                      /\ history = {}
                      /\ edits = 0 /\ faults = 0 /\ DistinctTargets =>
                            /\ \A r \in Records \ ByReference :
                                  db[r].value = IF r \in Existing THEN "old" ELSE "absent"
                            /\ \A x \in relations : x[2] \in Existing
                            /\ \A t \in Targets : \A x \in target[t].links : x[2] \in Existing
    BY DEF UndoneIsGone
  <2>1. TypeOK /\ Sending /\ Recorded /\ Parts
    BY DEF CleanInv, ImportInv
  <2>2. import.pc \in {"completed", "partial", "failed"} /\ undo.item = EntryFor(import.saved)
    BY <2>1 DEF Recorded
  <2>3. import.saved \subseteq Records
    BY <2>1, ImportFields DEF TypeOK
  <2>4. /\ undo.item.created = import.saved \ Existing
        /\ undo.item.updated = import.saved \cap Existing
    BY <2>2, <2>3, EntryDoes
  <2>5. \A t \in Tasks : t \in PartsOf(undo.item) => task[t].pc = "done"
    BY <2>1 DEF Parts
  <2>6. history = {}
    BY <2>5, PartsOfAre, TasksAre DEF TakenBack
  <2>7. ASSUME NEW r \in undo.item.updated \ ByReference PROVE db[r].value # "imported"
    <3>1. r \in Existing \ ByReference /\ task[<<"revert", r>>].pc = "done"
      BY <2>4, <2>5, PartsOfAre, TasksAre
    <3> QED
      BY <3>1 DEF TakenBack
  <2>8. ASSUME edits = 0, faults = 0, DistinctTargets
        PROVE  /\ \A r \in Records \ ByReference :
                     db[r].value = IF r \in Existing THEN "old" ELSE "absent"
               /\ \A x \in relations : x[2] \in Existing
               /\ \A t \in Targets : \A x \in target[t].links : x[2] \in Existing
    <3>1. CleanRecords /\ CleanLinks /\ CleanUnlinks
      BY <2>8 DEF CleanInv, Clean
    <3>2. import.saved = written
      BY <2>1, <2>2, <3>1 DEF Sending, StoredAreReported, WriteIsOver, CleanRecords
    <3>3. \A r \in written : task[PartOf(r)].pc = "done"
      BY <2>3, <2>4, <2>5, <3>2, PartsOfAre, TasksAre DEF PartOf
    <3>4. \A r \in Records : r \in ByReference \/ db[r].value = Original(r)
      BY <3>1, <3>3 DEF CleanRecords
    <3>5. \A l \in Links : task[<<"unlink", l>>].pc = "done"
      BY <2>5, PartsOfAre, TasksAre
    <3>6. ASSUME NEW x \in relations PROVE x[2] \in Existing
      <4>1. x[1] \in Indirect /\ x[2] \in Records /\ import.saved = Records
        BY <2>1, <3>1 DEF CleanUnlinks, TypeOK
      <4>2. x[2] \notin undo.item.created
        BY <3>1, <3>5, <4>1, LinksAssumption DEF CleanUnlinks
      <4> QED
        BY <2>4, <4>1, <4>2
    <3>7. ASSUME NEW t \in Targets, NEW x \in target[t].links PROVE x[2] \in Existing
      <4>1. target[t].links \subseteq Links \X Records
        BY <2>1, TargetFields DEF TypeOK
      <4>2. /\ x[1] \in Links \ Indirect /\ Target[x[1]] = t
            /\ x[2] \in Records /\ import.saved = Records
        BY <3>1, <4>1 DEF CleanUnlinks
      <4>3. x[2] \notin undo.item.created
        BY <3>1, <3>5, <4>2 DEF CleanUnlinks
      <4> QED
        BY <2>4, <4>2, <4>3
    <3> QED
      BY <3>4, <3>6, <3>7 DEF Original
  <2> QED
    BY <2>6, <2>7, <2>8
<1>2. Init => TakenBack
  <2>1. ASSUME Init PROVE \A t \in Tasks : task[t].pc = "off"
    BY <2>1, NoTaskTyped DEF Init
  <2> QED
    BY <2>1, TasksAre, FileFacts DEF Init, TakenBack
<1>3. ImportInv /\ TakenBack /\ [Next]_vars => TakenBack'
  BY WriteTakesBack, AfterwardsTakesBack, UndoTakesBack, OthersTakeBack DEF Next
<1>4. CleanInv => ImportInv
  BY DEF CleanInv
<1> QED
  BY <1>1, <1>2, <1>3, <1>4, CleanInvariant, PTL DEF Spec
=============================================================================
