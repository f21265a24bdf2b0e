--------------------------- MODULE FreeListProofs ---------------------------
(***************************************************************************)
(* What the operations on a page do, for lists of every length: the binary *)
(* search, taking from a range, giving a range back, and the loop that     *)
(* gives back what no longer stalls. The last and the first are loops, so  *)
(* these proofs begin with induction over the natural numbers.             *)
(***************************************************************************)
EXTENDS FreeList, WellFoundedInduction, SequenceTheorems, TLAPS

(***************************************************************************)
(* Induction                                                               *)
(***************************************************************************)

\* A set of natural numbers has a least element.
LEMMA LeastNatural ==
    ASSUME NEW T, T \subseteq Nat, T # {}
    PROVE  \E n \in T : \A m \in T : n <= m
<1> DEFINE R == {p \in Nat \X Nat : p[1] < p[2]}
<1>1. IsWellFoundedOn(R, Nat)
  BY NatLessThanWellFounded, Zenon DEF OpToRel
<1>2. \E n \in T : \A m \in T : ~ (<<m, n>> \in R)
  <2> HIDE DEF R
  <2> QED
    BY <1>1, WFMin
<1>3. PICK n \in T : \A m \in T : ~ (<<m, n>> \in R)
  BY <1>2
<1>4. \A m \in T : n <= m
  <2> TAKE m \in T
  <2>1. m \in Nat /\ n \in Nat
    OBVIOUS
  <2>2. ~ (m < n)
    BY <1>3, <2>1
  <2> QED
    BY <2>1, <2>2
<1> QED
  BY <1>4

\* A set that holds 0 and with each number the next one holds all.
LEMMA NatSetInduction ==
    ASSUME NEW S, 0 \in S, \A n \in Nat : n \in S => n + 1 \in S
    PROVE  \A n \in Nat : n \in S
<1> SUFFICES ASSUME \E n \in Nat : n \notin S PROVE FALSE
  OBVIOUS
<1> DEFINE T == Nat \ S
<1>1. PICK n \in T : \A m \in T : n <= m
  <2>1. T # {} /\ T \subseteq Nat
    OBVIOUS
  <2> QED
    BY <2>1, LeastNatural
<1>2. n # 0
  OBVIOUS
<1>3. n - 1 \in Nat /\ n - 1 \notin T
  BY <1>1, <1>2
<1> QED
  BY <1>1, <1>2, <1>3

\* f starts from base and makes N steps.
Iterates(f, N, base, step) == f[0] = base /\ \A n \in 1 .. N : f[n] = step[<<n, f[n - 1]>>]

\* Such a function exists.
LEMMA Iteration ==
    ASSUME NEW N \in Nat, NEW S, NEW base \in S, NEW step \in [(1 .. N) \X S -> S]
    PROVE  \E f \in [0 .. N -> S] : Iterates(f, N, base, step)
<1> DEFINE Follows(f, k) == f[0] = base /\ \A n \in 1 .. k : f[n] = step[<<n, f[n - 1]>>]
           Reached == {k \in Nat : k <= N => \E f \in [0 .. k -> S] : Follows(f, k)}
<1>1. 0 \in Reached
  <2>1. [n \in 0 .. 0 |-> base] \in [0 .. 0 -> S] /\ Follows([n \in 0 .. 0 |-> base], 0)
    OBVIOUS
  <2> QED
    BY <2>1
<1>2. \A k \in Nat : k \in Reached => k + 1 \in Reached
  <2> SUFFICES ASSUME NEW k \in Nat, k \in Reached, k + 1 <= N
               PROVE  \E f \in [0 .. k + 1 -> S] : Follows(f, k + 1)
    OBVIOUS
  <2>1. PICK f \in [0 .. k -> S] : Follows(f, k)
    OBVIOUS
  <2> DEFINE g == [n \in 0 .. k + 1 |-> IF n <= k THEN f[n] ELSE step[<<k + 1, f[k]>>]]
  <2>2. f[k] \in S /\ k + 1 \in 1 .. N
    OBVIOUS
  <2>3. step[<<k + 1, f[k]>>] \in S
    BY <2>2
  <2>4. g \in [0 .. k + 1 -> S]
    BY <2>1, <2>3
  <2>5. g[0] = base
    BY <2>1
  <2>6. ASSUME NEW n \in 1 .. k + 1 PROVE g[n] = step[<<n, g[n - 1]>>]
    <3>1. CASE n <= k
      <4>1. n \in 1 .. k /\ n - 1 \in 0 .. k /\ n - 1 <= k
        BY <3>1
      <4> QED
        BY <4>1, <2>1
    <3>2. CASE n = k + 1
      <4>1. n - 1 = k /\ k \in 0 .. k + 1 /\ n \in 0 .. k + 1 /\ ~(n <= k)
        BY <3>2
      <4>2. g[n - 1] = f[k] /\ g[n] = step[<<k + 1, f[k]>>]
        BY <4>1
      <4> QED
        BY <4>2, <3>2
    <3> QED
      BY <3>1, <3>2
  <2> QED
    BY <2>4, <2>5, <2>6
<1>3. N \in Reached
  <2> HIDE DEF Reached
  <2> QED
    BY <1>1, <1>2, NatSetInduction
<1> QED
  BY <1>3 DEF Iterates

(***************************************************************************)
(* The binary search                                                       *)
(***************************************************************************)

\* Whatever the positions below are: the search returns a position that is not one of
\* them, or the end, and the position before it is one of them, or there is none.
LEMMA LowerBoundFinds ==
    ASSUME NEW list, NEW below, Len(list) \in Nat
    PROVE  LET n == LowerBound(list, below)
           IN  /\ n \in 1 .. Len(list) + 1
               /\ n <= Len(list) => n \notin below
               /\ n > 1 => n - 1 \in below
<1> DEFINE N == Len(list)
           S == [first : Nat, count : Nat]
           Halved(s) == LET half == s.count \div 2
                            middle == s.first + half
                        IN  CASE s.count = 0 -> s
                              [] s.count > 0 /\ middle \in below ->
                                   [first |-> middle + 1, count |-> s.count - half - 1]
                              [] s.count > 0 /\ middle \notin below ->
                                   [first |-> s.first, count |-> half]
           start == [first |-> 1, count |-> N]
           step == [p \in (1 .. N) \X S |-> Halved(p[2])]
           Search(f) == [n \in 0 .. N |-> IF n = 0 THEN start ELSE Halved(f[n - 1])]
           searched == CHOOSE f : f = Search(f)
<1>1. ASSUME NEW s \in S
      PROVE  /\ Halved(s) \in S
             /\ s.count # 0 => Halved(s).count < s.count
             /\ s.count = 0 => Halved(s) = s
             /\ Halved(s).first + Halved(s).count <= s.first + s.count
             /\ Halved(s).first >= s.first
             /\ Halved(s).first # s.first => Halved(s).first - 1 \in below
             /\ \/ Halved(s).first + Halved(s).count = s.first + s.count
                \/ Halved(s).first + Halved(s).count \notin below
  <2> DEFINE half == s.count \div 2
  <2>1. s.first \in Nat /\ s.count \in Nat /\ half \in Nat /\ (s.count > 0 => half < s.count)
    OBVIOUS
  <2>2. CASE s.count = 0
    BY <2>1, <2>2
  <2>3. CASE s.count > 0 /\ s.first + half \in below
    <3>1. Halved(s) = [first |-> s.first + half + 1, count |-> s.count - half - 1]
      BY <2>1, <2>3
    <3> HIDE DEF Halved, half
    <3> QED
      BY <2>1, <2>3, <3>1
  <2>4. CASE s.count > 0 /\ s.first + half \notin below
    <3>1. Halved(s) = [first |-> s.first, count |-> half]
      BY <2>1, <2>4
    <3> HIDE DEF Halved, half
    <3> QED
      BY <2>1, <2>4, <3>1
  <2> HIDE DEF Halved, half
  <2> QED
    BY <2>1, <2>2, <2>3, <2>4
<1> HIDE DEF Halved
<1>2. start \in S /\ step \in [(1 .. N) \X S -> S] /\ N \in Nat
  BY <1>1
<1>3. searched = Search(searched)
  <2>1. PICK f \in [0 .. N -> S] : Iterates(f, N, start, step)
    <3> HIDE DEF S, N, start, step
    <3> QED
      BY <1>2, Iteration
  <2>2. f = Search(f)
    <3>1. ASSUME NEW n \in 1 .. N PROVE f[n] = Halved(f[n - 1])
      BY <2>1, n - 1 \in 0 .. N, f[n - 1] \in S DEF Iterates
    <3> QED
      BY <2>1, <3>1 DEF Iterates
  <2> QED
    BY <2>2, Zenon
\* After k rounds the search stands between what is below and what is not.
<1> DEFINE Between(k) ==
              LET s == searched[k]
              IN  /\ s \in S
                  /\ s.first \in 1 .. N + 1
                  /\ s.first + s.count <= N + 1
                  /\ s.count <= N - k
                  /\ s.first > 1 => s.first - 1 \in below
                  /\ s.first + s.count <= N => s.first + s.count \notin below
           Good == {k \in Nat : k <= N => Between(k)}
<1>4. searched[0] = start /\ \A k \in Nat : k + 1 <= N => searched[k + 1] = Halved(searched[k])
  <2> HIDE DEF searched
  <2>1. searched[0] = start
    BY <1>2, <1>3
  <2>2. ASSUME NEW k \in Nat, k + 1 <= N PROVE searched[k + 1] = Halved(searched[k])
    <3>1. k + 1 \in 0 .. N /\ k + 1 # 0 /\ (k + 1) - 1 = k
      BY <1>2, <2>2
    <3> QED
      BY <1>3, <3>1
  <2> QED
    BY <2>1, <2>2
<1> HIDE DEF searched
<1>5. 0 \in Good
  BY <1>2, <1>4
<1>6. \A k \in Nat : k \in Good => k + 1 \in Good
  <2> SUFFICES ASSUME NEW k \in Nat, k + 1 <= N, Between(k) PROVE Between(k + 1)
    BY <1>2
  <2> DEFINE s == searched[k]
             r == searched[k + 1]
  <2>1. /\ r \in S /\ s \in S
        /\ s.count # 0 => r.count < s.count
        /\ s.count = 0 => r = s
        /\ r.first + r.count <= s.first + s.count
        /\ r.first >= s.first
        /\ r.first # s.first => r.first - 1 \in below
        /\ \/ r.first + r.count = s.first + s.count
           \/ r.first + r.count \notin below
    BY <1>1, <1>4
  <2>2. s.first \in Nat /\ s.count \in Nat /\ r.first \in Nat /\ r.count \in Nat
    BY <2>1
  <2>3. /\ s.first \in 1 .. N + 1
        /\ s.first + s.count <= N + 1
        /\ s.count <= N - k
        /\ s.first > 1 => s.first - 1 \in below
        /\ s.first + s.count <= N => s.first + s.count \notin below
    OBVIOUS
  <2> HIDE DEF s, r, N
  <2>4. r.first \in 1 .. N + 1 /\ r.first + r.count <= N + 1 /\ r.count <= N - (k + 1)
    BY <1>2, <2>1, <2>2, <2>3
  <2>5. r.first > 1 => r.first - 1 \in below
    BY <1>2, <2>1, <2>2, <2>3
  <2>6. r.first + r.count <= N => r.first + r.count \notin below
    BY <1>2, <2>1, <2>2, <2>3
  <2> QED
    BY <2>1, <2>4, <2>5, <2>6 DEF r
<1>7. Between(N)
  <2>1. N \in Good
    <3> HIDE DEF Good, N
    <3> QED
      BY <1>2, <1>5, <1>6, NatSetInduction
  <2> QED
    BY <1>2, <2>1
<1>8. searched[N].count = 0 /\ searched[N].first \in Nat
  BY <1>2, <1>7
<1>9. LowerBound(list, below) = searched[N].first
  BY Zenon DEF LowerBound, searched, Halved
<1> HIDE DEF N
<1> QED
  BY <1>2, <1>7, <1>8, <1>9 DEF N

(***************************************************************************)
(* Lists of ranges                                                         *)
(***************************************************************************)

\* What is in a sequence after an element has been removed.
LEMMA Removed ==
    ASSUME NEW T, NEW s \in Seq(T), NEW n \in 1 .. Len(s)
    PROVE  /\ RemoveAt(s, n) \in Seq(T)
           /\ Len(RemoveAt(s, n)) = Len(s) - 1
           /\ \A m \in 1 .. Len(s) - 1 : RemoveAt(s, n)[m] = IF m < n THEN s[m] ELSE s[m + 1]
<1> DEFINE a == SubSeq(s, 1, n - 1)
           b == SubSeq(s, n + 1, Len(s))
<1>1. Len(s) \in Nat /\ \A m \in 1 .. Len(s) : s[m] \in T
  BY LenProperties, ElementOfSeq
<1>2. a \in Seq(T) /\ Len(a) = n - 1 /\ \A m \in 1 .. n - 1 : a[m] = s[m]
  <2>1. 1 \in Int /\ n - 1 \in Int /\ \A m \in 1 .. n - 1 : s[m] \in T
    BY <1>1
  <2> QED
    BY <1>1, <2>1, SubSeqProperties
<1>3. b \in Seq(T) /\ Len(b) = Len(s) - n /\ \A m \in 1 .. Len(s) - n : b[m] = s[n + m]
  <2>1. n + 1 \in Int /\ Len(s) \in Int /\ \A m \in n + 1 .. Len(s) : s[m] \in T
    BY <1>1
  <2> QED
    BY <1>1, <2>1, SubSeqProperties
<1> HIDE DEF a, b
<1>4. /\ a \o b \in Seq(T)
      /\ Len(a \o b) = Len(a) + Len(b)
      /\ \A m \in 1 .. Len(a) + Len(b) : (a \o b)[m] = IF m <= Len(a) THEN a[m] ELSE b[m - Len(a)]
  BY <1>2, <1>3, ConcatProperties
<1>5. ASSUME NEW m \in 1 .. Len(s) - 1 PROVE (a \o b)[m] = IF m < n THEN s[m] ELSE s[m + 1]
  <2>1. CASE m < n
    BY <1>1, <1>2, <1>3, <1>4, <2>1
  <2>2. CASE ~(m < n)
    <3> DEFINE k == m - (n - 1)
    <3>1. k \in 1 .. Len(s) - n /\ n + k = m + 1 /\ m \in 1 .. Len(a) + Len(b) /\ ~(m <= Len(a))
      BY <1>1, <1>2, <1>3, <2>2
    <3>2. (a \o b)[m] = b[m - Len(a)] /\ m - Len(a) = k
      BY <1>2, <1>4, <3>1
    <3> HIDE DEF k
    <3>3. b[k] = s[n + k]
      BY <1>3, <3>1
    <3> QED
      BY <2>2, <3>1, <3>2, <3>3
  <2> QED
    BY <2>1, <2>2
<1>6. RemoveAt(s, n) = a \o b
  BY DEF RemoveAt, a, b
<1>7. Len(a \o b) = Len(s) - 1
  BY <1>1, <1>2, <1>3, <1>4
<1> QED
  BY <1>4, <1>5, <1>6, <1>7, Zenon

\* And after one has been inserted.
InsertsAt(t, s, n, e) ==
    \A m \in 1 .. Len(s) + 1 : t[m] = IF m < n THEN s[m] ELSE IF m = n THEN e ELSE s[m - 1]

\* What is in a sequence after an element has been inserted.
LEMMA Inserted ==
    ASSUME NEW T, NEW s \in Seq(T), NEW n \in 1 .. Len(s) + 1, NEW e \in T
    PROVE  /\ InsertAt(s, n, e) \in Seq(T)
           /\ Len(InsertAt(s, n, e)) = Len(s) + 1
           /\ InsertsAt(InsertAt(s, n, e), s, n, e)
<1> DEFINE a == SubSeq(s, 1, n - 1)
           b == SubSeq(s, n, Len(s))
<1>1. Len(s) \in Nat /\ \A m \in 1 .. Len(s) : s[m] \in T
  BY LenProperties, ElementOfSeq
<1>2. a \in Seq(T) /\ Len(a) = n - 1 /\ \A m \in 1 .. n - 1 : a[m] = s[m]
  <2>1. 1 \in Int /\ n - 1 \in Int /\ \A m \in 1 .. n - 1 : s[m] \in T
    BY <1>1
  <2> QED
    BY <1>1, <2>1, SubSeqProperties
<1>3. b \in Seq(T) /\ Len(b) = Len(s) - n + 1 /\ \A m \in 1 .. Len(s) - n + 1 : b[m] = s[n + m - 1]
  <2>1. n \in Int /\ Len(s) \in Int /\ \A m \in n .. Len(s) : s[m] \in T
    BY <1>1
  <2>2. /\ b \in Seq(T)
        /\ Len(b) = IF n <= Len(s) THEN Len(s) - n + 1 ELSE 0
        /\ \A m \in 1 .. Len(s) - n + 1 : b[m] = s[n + m - 1]
    BY <2>1, SubSeqProperties
  <2> QED
    BY <1>1, <2>2
<1> HIDE DEF a, b
<1>4. /\ Append(a, e) \in Seq(T)
      /\ Len(Append(a, e)) = n
      /\ \A m \in 1 .. n : Append(a, e)[m] = IF m < n THEN a[m] ELSE e
  BY <1>1, <1>2, AppendProperties
<1> DEFINE c == Append(a, e)
<1> HIDE DEF c
<1>5. /\ c \o b \in Seq(T)
      /\ Len(c \o b) = Len(c) + Len(b)
      /\ \A m \in 1 .. Len(c) + Len(b) : (c \o b)[m] = IF m <= Len(c) THEN c[m] ELSE b[m - Len(c)]
  BY <1>3, <1>4, ConcatProperties DEF c
<1>6. ASSUME NEW m \in 1 .. Len(s) + 1
      PROVE  (c \o b)[m] = IF m < n THEN s[m] ELSE IF m = n THEN e ELSE s[m - 1]
  <2>1. Len(c) = n /\ Len(c) + Len(b) = Len(s) + 1
    BY <1>1, <1>3, <1>4 DEF c
  <2>2. CASE m <= n
    <3>1. (c \o b)[m] = c[m]
      BY <1>1, <1>5, <2>1, <2>2
    <3>2. c[m] = IF m < n THEN s[m] ELSE e
      BY <1>1, <1>2, <1>4, <2>2 DEF c
    <3> QED
      BY <2>2, <3>1, <3>2
  <2>3. CASE m > n
    <3> DEFINE k == m - n
    <3>1. k \in 1 .. Len(s) - n + 1 /\ n + k - 1 = m - 1 /\ m \in 1 .. Len(c) + Len(b) /\ ~(m <= Len(c))
      BY <1>1, <2>1, <2>3
    <3>2. (c \o b)[m] = b[m - Len(c)] /\ m - Len(c) = k
      BY <1>5, <2>1, <3>1
    <3> HIDE DEF k
    <3>3. b[k] = s[n + k - 1]
      BY <1>3, <3>1
    <3> QED
      BY <2>3, <3>1, <3>2, <3>3
  <2>4. m <= n \/ m > n
    BY <1>1
  <2> QED
    BY <2>2, <2>3, <2>4, Zenon
<1>7. InsertAt(s, n, e) = c \o b
  BY <1>2, AppendIsConcat DEF InsertAt, a, b, c
<1>8. InsertsAt(c \o b, s, n, e)
  BY <1>6, Zenon DEF InsertsAt
<1>9. Len(c \o b) = Len(s) + 1
  BY <1>1, <1>3, <1>4, <1>5 DEF c
<1> QED
  BY <1>5, <1>7, <1>8, <1>9

\* The ends of the range at a position.
Begin(list, n) == list[n].first
End(list, n) == list[n].last

\* Ranges in order, no two of which touch, in a page of size P. A range may be empty, but
\* only at the end of the page: a block that takes the whole of a new page leaves one.
Apart(list, N, P) ==
    /\ \A n \in 1 .. N : Begin(list, n) \in Int /\ End(list, n) \in Int
    /\ \A n \in 1 .. N : Begin(list, n) <= End(list, n)
    /\ \A n \in 1 .. N : Begin(list, n) = End(list, n) => Begin(list, n) = P
    /\ \A m \in 1 .. N : \A n \in 1 .. N : m < n => End(list, m) < Begin(list, n)

Holds(u, list, N) == \E n \in 1 .. N : Begin(list, n) <= u /\ u < End(list, n)

\* How the ranges of rest come from the N ranges of list: without the one at n; with
\* another end for it; with a range put before it; with it melted into the one before.
Without(rest, list, N, n) ==
    \A m \in 1 .. N - 1 :
        /\ Begin(rest, m) = IF m < n THEN Begin(list, m) ELSE Begin(list, m + 1)
        /\ End(rest, m) = IF m < n THEN End(list, m) ELSE End(list, m + 1)
WithFirst(rest, list, N, n, f) ==
    \A m \in 1 .. N :
        /\ Begin(rest, m) = IF m = n THEN f ELSE Begin(list, m)
        /\ End(rest, m) = End(list, m)
WithLast(rest, list, N, n, l) ==
    \A m \in 1 .. N :
        /\ Begin(rest, m) = Begin(list, m)
        /\ End(rest, m) = IF m = n THEN l ELSE End(list, m)
With(rest, list, N, n, f, l) ==
    \A m \in 1 .. N + 1 :
        /\ Begin(rest, m) = IF m < n THEN Begin(list, m) ELSE IF m = n THEN f ELSE Begin(list, m - 1)
        /\ End(rest, m) = IF m < n THEN End(list, m) ELSE IF m = n THEN l ELSE End(list, m - 1)
Melted(rest, list, N, n) ==
    \A m \in 1 .. N - 1 :
        /\ Begin(rest, m) = IF m < n THEN Begin(list, m) ELSE Begin(list, m + 1)
        /\ End(rest, m) = IF m < n - 1 THEN End(list, m) ELSE End(list, m + 1)

\* rest, of M ranges, holds what list does and the units from f up to l; or all but those.
Gains(rest, M, list, N, P, f, l) ==
    /\ Apart(rest, M, P)
    /\ \A u \in Int : Holds(u, rest, M) <=> Holds(u, list, N) \/ (f <= u /\ u < l)
Loses(rest, M, list, N, P, f, l) ==
    /\ Apart(rest, M, P)
    /\ \A u \in Int : Holds(u, rest, M) <=> Holds(u, list, N) /\ ~(f <= u /\ u < l)

\* A list without one of its ranges.
LEMMA Drop ==
    ASSUME NEW N \in Nat, NEW P \in Nat, NEW list, NEW n \in 1 .. N,
           Apart(list, N, P),
           NEW rest,
           Without(rest, list, N, n)
    PROVE  Loses(rest, N - 1, list, N, P, Begin(list, n), End(list, n))
<1> USE DEF Without, Loses
<1>1. Apart(rest, N - 1, P)
  BY DEF Apart
<1>2. ASSUME NEW u \in Int, Holds(u, rest, N - 1) PROVE Holds(u, list, N) /\ ~(Begin(list, n) <= u /\ u < End(list, n))
  BY <1>2 DEF Holds, Apart
<1>3. ASSUME NEW u \in Int, Holds(u, list, N), ~(Begin(list, n) <= u /\ u < End(list, n)) PROVE Holds(u, rest, N - 1)
  <2>1. PICK k \in 1 .. N : Begin(list, k) <= u /\ u < End(list, k)
    BY <1>3 DEF Holds
  <2>2. k < n \/ k > n
    BY <1>3, <2>1
  <2>3. CASE k < n
    BY <2>1, <2>3 DEF Holds
  <2>4. CASE k > n
    BY <2>1, <2>4, k - 1 \in 1 .. N - 1 DEF Holds
  <2> QED
    BY <2>2, <2>3, <2>4
<1> QED
  BY <1>1, <1>2, <1>3

\* A list of which one range loses units at its front.
LEMMA Shrink ==
    ASSUME NEW N \in Nat, NEW P \in Nat, NEW list, NEW n \in 1 .. N,
           Apart(list, N, P), NEW f \in Int, Begin(list, n) <= f, f < End(list, n),
           NEW rest,
           WithFirst(rest, list, N, n, f)
    PROVE  Loses(rest, N, list, N, P, Begin(list, n), f)
<1> USE DEF WithFirst, Loses
<1>1. Apart(rest, N, P)
  BY DEF Apart
<1>2. ASSUME NEW u \in Int, Holds(u, rest, N) PROVE Holds(u, list, N) /\ ~(Begin(list, n) <= u /\ u < f)
  BY <1>2 DEF Holds, Apart
<1>3. ASSUME NEW u \in Int, Holds(u, list, N), ~(Begin(list, n) <= u /\ u < f) PROVE Holds(u, rest, N)
  BY <1>3 DEF Holds
<1> QED
  BY <1>1, <1>2, <1>3

\* The range from f to l belongs before position n of a list that holds none of its units.
Fits(f, l, n, list, N) ==
    /\ n \in 1 .. N + 1
    /\ n <= N => l <= Begin(list, n)
    /\ n > 1 => Begin(list, n - 1) < f /\ End(list, n - 1) <= f

\* The search for f leads to that position.
LEMMA FitsIn ==
    ASSUME NEW N \in Nat, NEW P \in Nat, NEW list,
           Apart(list, N, P), NEW f \in Int, NEW l \in Int, f < l, l <= P,
           \A u \in Int : Holds(u, list, N) => ~(f <= u /\ u < l),
           NEW n \in 1 .. N + 1, n <= N => f <= Begin(list, n), n > 1 => Begin(list, n - 1) < f
    PROVE  Fits(f, l, n, list, N)
<1>1. ASSUME n <= N PROVE l <= Begin(list, n)
  <2>1. n \in 1 .. N /\ Begin(list, n) \in Int /\ End(list, n) \in Int
    BY <1>1 DEF Apart
  <2>2. CASE Begin(list, n) = End(list, n)
    BY <2>1, <2>2 DEF Apart
  <2>3. CASE Begin(list, n) < End(list, n)
    <3>1. Holds(Begin(list, n), list, N)
      BY <2>1, <2>3 DEF Holds
    <3> QED
      BY <1>1, <2>1, <3>1
  <2> QED
    BY <2>1, <2>2, <2>3 DEF Apart
<1>2. ASSUME n > 1 PROVE Begin(list, n - 1) < f /\ End(list, n - 1) <= f
  <2>1. n - 1 \in 1 .. N /\ Begin(list, n - 1) \in Int /\ End(list, n - 1) \in Int
    BY <1>2 DEF Apart
  <2>2. CASE End(list, n - 1) > f
    <3>1. Holds(f, list, N)
      BY <1>2, <2>1, <2>2 DEF Holds
    <3> QED
      BY <3>1
  <2> QED
    BY <1>2, <2>1, <2>2
<1> QED
  BY <1>1, <1>2 DEF Fits

\* A range that touches no other is put between them.
LEMMA Put ==
    ASSUME NEW N \in Nat, NEW P \in Nat, NEW list,
           Apart(list, N, P), NEW f \in Int, NEW l \in Int, f < l, l <= P,
           NEW n \in 1 .. N + 1, Fits(f, l, n, list, N), n <= N => l # Begin(list, n), n > 1 => End(list, n - 1) # f,
           NEW rest,
           With(rest, list, N, n, f, l)
    PROVE  Gains(rest, N + 1, list, N, P, f, l)
<1> USE DEF With, Gains
<1>1. Apart(rest, N + 1, P)
  <2>1. ASSUME NEW m \in 1 .. N + 1 PROVE Begin(rest, m) <= End(rest, m) /\ (Begin(rest, m) = End(rest, m) => Begin(rest, m) = P)
    BY DEF Apart, Fits
  <2>2. ASSUME NEW j \in 1 .. N, j < n PROVE End(list, j) < f
    BY <2>2 DEF Apart, Fits
  <2>3. ASSUME NEW j \in 1 .. N, n <= j PROVE l < Begin(list, j)
    BY <2>3 DEF Apart, Fits
  <2>4. ASSUME NEW j \in 1 .. N + 1, NEW m \in 1 .. N + 1, j < m PROVE End(rest, j) < Begin(rest, m)
    <3>1. CASE j < n /\ m < n
      BY <2>4, <3>1 DEF Apart
    <3>2. CASE j < n /\ m = n
      BY <2>2, <2>4, <3>2
    <3>3. CASE j < n /\ m > n
      BY <2>4, <3>3, m - 1 \in 1 .. N DEF Apart
    <3>4. CASE j = n
      BY <2>3, <2>4, <3>4, m - 1 \in 1 .. N
    <3>5. CASE j > n
      BY <2>4, <3>5, m - 1 \in 1 .. N, j - 1 \in 1 .. N DEF Apart
    <3> QED
      BY <2>4, <3>1, <3>2, <3>3, <3>4, <3>5
  <2> QED
    BY <2>1, <2>4 DEF Apart
<1>2. ASSUME NEW u \in Int, Holds(u, rest, N + 1) PROVE Holds(u, list, N) \/ (f <= u /\ u < l)
  <2>1. PICK m \in 1 .. N + 1 : Begin(rest, m) <= u /\ u < End(rest, m)
    BY <1>2 DEF Holds
  <2> QED
    BY <2>1, m - 1 \in 1 .. N \/ m <= n DEF Holds
<1>3. ASSUME NEW u \in Int, f <= u, u < l PROVE Holds(u, rest, N + 1)
  BY <1>3 DEF Holds
<1>4. ASSUME NEW u \in Int, Holds(u, list, N) PROVE Holds(u, rest, N + 1)
  <2>1. PICK k \in 1 .. N : Begin(list, k) <= u /\ u < End(list, k)
    BY <1>4 DEF Holds
  <2>2. CASE k < n
    BY <2>1, <2>2 DEF Holds
  <2>3. CASE k >= n
    BY <2>1, <2>3, k + 1 \in 1 .. N + 1 DEF Holds
  <2> QED
    BY <2>2, <2>3
<1> QED
  BY <1>1, <1>2, <1>3, <1>4

\* A range that begins where the one before it ends.
LEMMA JoinPrev ==
    ASSUME NEW N \in Nat, NEW P \in Nat, NEW list,
           Apart(list, N, P), NEW f \in Int, NEW l \in Int, f < l, l <= P,
           NEW n \in 2 .. N + 1, Fits(f, l, n, list, N), n <= N => l # Begin(list, n), End(list, n - 1) = f,
           NEW rest,
           WithLast(rest, list, N, n - 1, l)
    PROVE  Gains(rest, N, list, N, P, f, l)
<1> USE DEF WithLast, Gains
<1>0. n - 1 \in 1 .. N
  OBVIOUS
<1>1. Apart(rest, N, P)
  <2>1. ASSUME NEW m \in 1 .. N PROVE Begin(list, m) <= End(rest, m) /\ (Begin(list, m) = End(rest, m) => Begin(list, m) = P)
    BY <1>0 DEF Apart, Fits
  <2>2. ASSUME NEW j \in 1 .. N, n <= j PROVE l < Begin(list, j)
    BY <2>2 DEF Apart, Fits
  <2>3. ASSUME NEW j \in 1 .. N, NEW m \in 1 .. N, j < m PROVE End(rest, j) < Begin(list, m)
    BY <2>2, <2>3 DEF Apart
  <2> QED
    BY <2>1, <2>3 DEF Apart
<1>2. ASSUME NEW u \in Int, Holds(u, rest, N) PROVE Holds(u, list, N) \/ (f <= u /\ u < l)
  BY <1>0, <1>2 DEF Holds
<1>3. ASSUME NEW u \in Int, f <= u, u < l PROVE Holds(u, rest, N)
  <2>1. Begin(rest, n - 1) <= u /\ u < End(rest, n - 1)
    BY <1>0, <1>3 DEF Fits, Apart
  <2> QED
    BY <1>0, <2>1 DEF Holds
<1>4. ASSUME NEW u \in Int, Holds(u, list, N) PROVE Holds(u, rest, N)
  BY <1>0, <1>4 DEF Holds
<1> QED
  BY <1>1, <1>2, <1>3, <1>4

\* A range that ends where the next one begins.
LEMMA JoinNext ==
    ASSUME NEW N \in Nat, NEW P \in Nat, NEW list,
           Apart(list, N, P), NEW f \in Int, NEW l \in Int, f < l, l <= P,
           NEW n \in 1 .. N, Fits(f, l, n, list, N), l = Begin(list, n), n > 1 => End(list, n - 1) # f,
           NEW rest,
           WithFirst(rest, list, N, n, f)
    PROVE  Gains(rest, N, list, N, P, f, l)
<1> USE DEF WithFirst, Gains
<1>1. Apart(rest, N, P)
  <2>1. ASSUME NEW m \in 1 .. N PROVE Begin(rest, m) <= End(list, m) /\ (Begin(rest, m) = End(list, m) => Begin(rest, m) = P)
    BY DEF Apart, Fits
  <2>2. ASSUME NEW j \in 1 .. N, j < n PROVE End(list, j) < f
    BY <2>2 DEF Apart, Fits
  <2>3. ASSUME NEW j \in 1 .. N, NEW m \in 1 .. N, j < m PROVE End(list, j) < Begin(rest, m)
    BY <2>2, <2>3 DEF Apart
  <2> QED
    BY <2>1, <2>3 DEF Apart
<1>2. ASSUME NEW u \in Int, Holds(u, rest, N) PROVE Holds(u, list, N) \/ (f <= u /\ u < l)
  BY <1>2 DEF Holds
<1>3. ASSUME NEW u \in Int, f <= u, u < l PROVE Holds(u, rest, N)
  BY <1>3 DEF Holds, Apart
<1>4. ASSUME NEW u \in Int, Holds(u, list, N) PROVE Holds(u, rest, N)
  BY <1>4 DEF Holds
<1> QED
  BY <1>1, <1>2, <1>3, <1>4

\* A range that fills the gap between two.
LEMMA JoinBoth ==
    ASSUME NEW N \in Nat, NEW P \in Nat, NEW list,
           Apart(list, N, P), NEW f \in Int, NEW l \in Int, f < l, l <= P,
           NEW n \in 2 .. N, Fits(f, l, n, list, N), l = Begin(list, n), End(list, n - 1) = f,
           NEW rest,
           Melted(rest, list, N, n)
    PROVE  Gains(rest, N - 1, list, N, P, f, l)
<1> USE DEF Melted, Gains
<1>0. n - 1 \in 1 .. N - 1 /\ n - 1 \in 1 .. N /\ Begin(rest, n - 1) = Begin(list, n - 1) /\ End(rest, n - 1) = End(list, n)
  OBVIOUS
<1>1. Apart(rest, N - 1, P)
  <2>1. ASSUME NEW m \in 1 .. N - 1 PROVE Begin(rest, m) <= End(rest, m) /\ (Begin(rest, m) = End(rest, m) => Begin(rest, m) = P)
    <3>1. CASE m < n - 1 \/ m >= n
      BY <3>1 DEF Apart
    <3>2. CASE m = n - 1
      BY <1>0, <3>2 DEF Apart
    <3> QED
      BY <3>1, <3>2
  <2>2. ASSUME NEW j \in 1 .. N - 1, NEW m \in 1 .. N - 1, j < m PROVE End(rest, j) < Begin(rest, m)
    <3>1. End(rest, j) = End(list, j) \/ End(rest, j) = End(list, j + 1)
      OBVIOUS
    <3>2. CASE j < n - 1
      BY <2>2, <3>2 DEF Apart
    <3>3. CASE j >= n - 1
      BY <2>2, <3>3, j + 1 \in 1 .. N, m + 1 \in 1 .. N, j + 1 < m + 1 DEF Apart
    <3> QED
      BY <3>2, <3>3
  <2> QED
    BY <2>1, <2>2 DEF Apart
<1>2. ASSUME NEW u \in Int, Holds(u, rest, N - 1) PROVE Holds(u, list, N) \/ (f <= u /\ u < l)
  <2>1. PICK m \in 1 .. N - 1 : Begin(rest, m) <= u /\ u < End(rest, m)
    BY <1>2 DEF Holds
  <2>2. CASE m < n - 1
    BY <2>1, <2>2 DEF Holds
  <2>3. CASE m = n - 1
    BY <1>0, <2>1, <2>3 DEF Holds
  <2>4. CASE m >= n
    BY <2>1, <2>4, m + 1 \in 1 .. N DEF Holds
  <2> QED
    BY <2>2, <2>3, <2>4
<1>3. ASSUME NEW u \in Int, f <= u, u < l PROVE Holds(u, rest, N - 1)
  BY <1>0, <1>3 DEF Holds, Apart
<1>4. ASSUME NEW u \in Int, Holds(u, list, N) PROVE Holds(u, rest, N - 1)
  <2>1. PICK k \in 1 .. N : Begin(list, k) <= u /\ u < End(list, k)
    BY <1>4 DEF Holds
  <2>2. CASE k < n - 1
    BY <2>1, <2>2 DEF Holds
  <2>3. CASE k = n - 1 \/ k = n
    BY <1>0, <2>1, <2>3 DEF Holds, Apart
  <2>4. CASE k > n
    BY <2>1, <2>4, k - 1 \in 1 .. N - 1 DEF Holds
  <2> QED
    BY <2>2, <2>3, <2>4
<1> QED
  BY <1>1, <1>2, <1>3, <1>4

(***************************************************************************)
(* Free lists                                                              *)
(***************************************************************************)

\* Ranges of a page of size P whose ends are among E: the multiples of the segment size,
\* or all.
Ends(E, P) == P \in Nat /\ E \in SUBSET (0 .. P)
Spans(E) == [first : E, last : E]

\* A free list.
Ordered(list, E, P) == list \in Seq(Spans(E)) /\ Apart(list, Len(list), P)

ListUnits(list) == UNION {Units(list[n]) : n \in DOMAIN list}

\* A list of ranges, for the provers.
LEMMA SpansOf ==
    ASSUME NEW P, NEW E, Ends(E, P), NEW list \in Seq(Spans(E))
    PROVE  /\ Len(list) \in Nat
           /\ DOMAIN list = 1 .. Len(list)
           /\ \A n \in 1 .. Len(list) :
                /\ list[n] \in Spans(E)
                /\ Begin(list, n) \in E /\ Begin(list, n) \in Int
                /\ End(list, n) \in E /\ End(list, n) \in Int
                /\ Units(list[n]) = Begin(list, n) .. End(list, n) - 1
<1>1. Len(list) \in Nat /\ DOMAIN list = 1 .. Len(list)
  BY LenProperties
<1>2. \A e \in E : e \in Int
  BY DEF Ends
<1>3. ASSUME NEW n \in 1 .. Len(list)
      PROVE  /\ list[n] \in Spans(E)
             /\ Begin(list, n) \in E /\ Begin(list, n) \in Int
             /\ End(list, n) \in E /\ End(list, n) \in Int
             /\ Units(list[n]) = Begin(list, n) .. End(list, n) - 1
  <2>1. list[n] \in Spans(E)
    BY ElementOfSeq
  <2>2. Begin(list, n) \in E /\ End(list, n) \in E
    BY <2>1 DEF Spans, Begin, End
  <2>3. Units(list[n]) = Begin(list, n) .. End(list, n) - 1
    BY Zenon DEF Units, Begin, End
  <2> QED
    BY <1>2, <2>1, <2>2, <2>3
<1> QED
  BY <1>1, <1>3

\* The units of a list are those that one of its ranges holds.
LEMMA HoldsUnits ==
    ASSUME NEW P, NEW E, Ends(E, P), NEW list \in Seq(Spans(E))
    PROVE  \A u : u \in ListUnits(list) <=> u \in Int /\ Holds(u, list, Len(list))
<1> TAKE u
<1>1. u \in ListUnits(list) <=> \E n \in 1 .. Len(list) : u \in Units(list[n])
  BY SpansOf, Zenon DEF ListUnits
<1>2. ASSUME NEW n \in 1 .. Len(list)
      PROVE  u \in Units(list[n]) <=> u \in Int /\ Begin(list, n) <= u /\ u < End(list, n)
  <2>1. Begin(list, n) \in Int /\ End(list, n) \in Int
    BY SpansOf
  <2>2. Units(list[n]) = Begin(list, n) .. End(list, n) - 1
    BY SpansOf
  <2> QED
    BY <2>1, <2>2
<1> QED
  BY <1>1, <1>2 DEF Holds

\* The four ways in which the operations change a list.
LEMMA RemovedRange ==
    ASSUME NEW P, NEW E, Ends(E, P), NEW list \in Seq(Spans(E)),
           NEW n \in 1 .. Len(list)
    PROVE  /\ RemoveAt(list, n) \in Seq(Spans(E)) /\ Len(RemoveAt(list, n)) = Len(list) - 1
           /\ Without(RemoveAt(list, n), list, Len(list), n)
<1> DEFINE rest == RemoveAt(list, n)
<1>1. /\ rest \in Seq(Spans(E))
      /\ Len(rest) = Len(list) - 1
      /\ \A m \in 1 .. Len(list) - 1 : rest[m] = IF m < n THEN list[m] ELSE list[m + 1]
  BY Removed
<1>2. ASSUME NEW m \in 1 .. Len(list) - 1
      PROVE  /\ Begin(rest, m) = IF m < n THEN Begin(list, m) ELSE Begin(list, m + 1)
             /\ End(rest, m) = IF m < n THEN End(list, m) ELSE End(list, m + 1)
  BY <1>1, Zenon DEF Begin, End
<1> QED
  BY <1>1, <1>2, Zenon DEF Without

\* Inserting a range adds it to the list at its place.
LEMMA InsertedRange ==
    ASSUME NEW P, NEW E, Ends(E, P), NEW list \in Seq(Spans(E)),
           NEW n \in 1 .. Len(list) + 1, NEW f \in E, NEW l \in E
    PROVE  /\ InsertAt(list, n, Span(f, l)) \in Seq(Spans(E))
           /\ Len(InsertAt(list, n, Span(f, l))) = Len(list) + 1
           /\ With(InsertAt(list, n, Span(f, l)), list, Len(list), n, f, l)
<1> DEFINE range == Span(f, l)
           rest == InsertAt(list, n, Span(f, l))
<1>0. range \in Spans(E) /\ range.first = f /\ range.last = l
  BY DEF Span, Spans
<1> HIDE DEF range
<1>1. /\ rest \in Seq(Spans(E))
      /\ Len(rest) = Len(list) + 1
      /\ InsertsAt(rest, list, n, range)
  BY <1>0, Inserted DEF range
<1>2. ASSUME NEW m \in 1 .. Len(list) + 1
      PROVE  /\ Begin(rest, m) = IF m < n THEN Begin(list, m) ELSE IF m = n THEN f ELSE Begin(list, m - 1)
             /\ End(rest, m) = IF m < n THEN End(list, m) ELSE IF m = n THEN l ELSE End(list, m - 1)
  BY <1>0, <1>1, Zenon DEF Begin, End, InsertsAt
<1> QED
  BY <1>1, <1>2, Zenon DEF With

SetFirst(list, n, e) == [list EXCEPT ![n].first = e]

\* Moving the start of a range changes nothing else.
LEMMA MovedFirst ==
    ASSUME NEW P, NEW E, Ends(E, P), NEW list \in Seq(Spans(E)),
           NEW n \in 1 .. Len(list), NEW e \in E
    PROVE  /\ SetFirst(list, n, e) \in Seq(Spans(E)) /\ Len(SetFirst(list, n, e)) = Len(list)
           /\ WithFirst(SetFirst(list, n, e), list, Len(list), n, e)
<1> DEFINE rest == SetFirst(list, n, e)
<1> DEFINE r == [list[n] EXCEPT !.first = e]
<1>1. list[n] \in Spans(E)
  BY SpansOf
<1>2. r \in Spans(E) /\ r.first = e /\ r.last = list[n].last
  BY <1>1 DEF Spans
<1>3. rest = [list EXCEPT ![n] = r]
  BY Zenon DEF SetFirst
<1> HIDE DEF r, rest
<1>4. /\ rest \in Seq(Spans(E))
      /\ Len(rest) = Len(list)
      /\ \A m \in 1 .. Len(list) : rest[m] = IF m = n THEN r ELSE list[m]
  BY <1>2, <1>3, ExceptSeq
<1>5. ASSUME NEW m \in 1 .. Len(list)
      PROVE  /\ Begin(rest, m) = IF m = n THEN e ELSE Begin(list, m)
             /\ End(rest, m) = End(list, m)
  <2>1. rest[m] = IF m = n THEN r ELSE list[m]
    BY <1>4
  <2>2. CASE m = n
    <3>1. rest[m] = r
      BY <2>1, <2>2
    <3> QED
      BY <1>2, <2>2, <3>1, Zenon DEF Begin, End
  <2>3. CASE m # n
    <3>1. rest[m] = list[m]
      BY <2>1, <2>3
    <3> QED
      BY <2>3, <3>1, Zenon DEF Begin, End
  <2> QED
    BY <2>2, <2>3
<1> QED
  BY <1>4, <1>5, Zenon DEF WithFirst, rest

SetLast(list, n, e) == [list EXCEPT ![n].last = e]

\* Moving the end of a range changes nothing else.
LEMMA MovedLast ==
    ASSUME NEW P, NEW E, Ends(E, P), NEW list \in Seq(Spans(E)),
           NEW n \in 1 .. Len(list), NEW e \in E
    PROVE  /\ SetLast(list, n, e) \in Seq(Spans(E)) /\ Len(SetLast(list, n, e)) = Len(list)
           /\ WithLast(SetLast(list, n, e), list, Len(list), n, e)
<1> DEFINE rest == SetLast(list, n, e)
<1> DEFINE r == [list[n] EXCEPT !.last = e]
<1>1. list[n] \in Spans(E)
  BY SpansOf
<1>2. r \in Spans(E) /\ r.first = list[n].first /\ r.last = e
  BY <1>1 DEF Spans
<1>3. rest = [list EXCEPT ![n] = r]
  BY Zenon DEF SetLast
<1> HIDE DEF r, rest
<1>4. /\ rest \in Seq(Spans(E))
      /\ Len(rest) = Len(list)
      /\ \A m \in 1 .. Len(list) : rest[m] = IF m = n THEN r ELSE list[m]
  BY <1>2, <1>3, ExceptSeq
<1>5. ASSUME NEW m \in 1 .. Len(list)
      PROVE  /\ Begin(rest, m) = Begin(list, m)
             /\ End(rest, m) = IF m = n THEN e ELSE End(list, m)
  <2>1. rest[m] = IF m = n THEN r ELSE list[m]
    BY <1>4
  <2>2. CASE m = n
    <3>1. rest[m] = r
      BY <2>1, <2>2
    <3> QED
      BY <1>2, <2>2, <3>1, Zenon DEF Begin, End
  <2>3. CASE m # n
    <3>1. rest[m] = list[m]
      BY <2>1, <2>3
    <3> QED
      BY <2>3, <3>1, Zenon DEF Begin, End
  <2> QED
    BY <2>2, <2>3
<1> QED
  BY <1>4, <1>5, Zenon DEF WithLast, rest

\* What a list of free ranges holds, in terms of its units.
LEMMA UnitsLost ==
    ASSUME NEW P, NEW E, Ends(E, P), NEW list \in Seq(Spans(E)), NEW rest \in Seq(Spans(E)),
           NEW f \in Int, NEW l \in Int, Loses(rest, Len(rest), list, Len(list), P, f, l)
    PROVE  Ordered(rest, E, P) /\ ListUnits(rest) = ListUnits(list) \ (f .. l - 1)
<1>1. ASSUME NEW u PROVE u \in ListUnits(rest) <=> u \in ListUnits(list) /\ u \notin f .. l - 1
  <2>1. u \in ListUnits(rest) <=> u \in Int /\ Holds(u, rest, Len(rest))
    BY HoldsUnits
  <2>2. u \in ListUnits(list) <=> u \in Int /\ Holds(u, list, Len(list))
    BY HoldsUnits
  <2> QED
    BY <2>1, <2>2 DEF Loses
<1> QED
  BY <1>1 DEF Loses, Ordered

\* A list that gains a range stays ordered and gains just the units of the range.
LEMMA UnitsGained ==
    ASSUME NEW P, NEW E, Ends(E, P), NEW list \in Seq(Spans(E)), NEW rest \in Seq(Spans(E)),
           NEW f \in Int, NEW l \in Int, Gains(rest, Len(rest), list, Len(list), P, f, l)
    PROVE  Ordered(rest, E, P) /\ ListUnits(rest) = ListUnits(list) \cup (f .. l - 1)
<1>1. ASSUME NEW u PROVE u \in ListUnits(rest) <=> u \in ListUnits(list) \/ u \in f .. l - 1
  <2>1. u \in ListUnits(rest) <=> u \in Int /\ Holds(u, rest, Len(rest))
    BY HoldsUnits
  <2>2. u \in ListUnits(list) <=> u \in Int /\ Holds(u, list, Len(list))
    BY HoldsUnits
  <2> QED
    BY <2>1, <2>2 DEF Gains
<1> QED
  BY <1>1 DEF Gains, Ordered

\* Taking size from the front of a range leaves a free list without just these units.
LEMMA TakeFromList ==
    ASSUME NEW P, NEW E, Ends(E, P), NEW list, Ordered(list, E, P),
           NEW n \in 1 .. Len(list), NEW size \in Nat \ {0},
           Begin(list, n) + size <= End(list, n), Begin(list, n) + size \in E
    PROVE  LET taken == Begin(list, n) .. (Begin(list, n) + size) - 1
               rest == TakeFrom(list, n, size)
           IN  /\ Ordered(rest, E, P)
               /\ taken \subseteq ListUnits(list)
               /\ ListUnits(rest) = ListUnits(list) \ taken
<1> DEFINE N == Len(list)
           f == Begin(list, n) + size
           taken == Begin(list, n) .. (Begin(list, n) + size) - 1
           rest == TakeFrom(list, n, size)
<1>1. list \in Seq(Spans(E)) /\ Apart(list, N, P)
  BY DEF Ordered
<1>2. /\ P \in Nat /\ N \in Nat /\ n \in 1 .. N
      /\ Begin(list, n) \in Int /\ End(list, n) \in Int /\ f \in Int /\ f \in E
      /\ Begin(list, n) < f /\ f <= End(list, n) /\ End(list, n) \in E
  <2>1. N \in Nat /\ n \in 1 .. N /\ Begin(list, n) \in Int /\ End(list, n) \in Int /\ End(list, n) \in E
    BY <1>1, SpansOf
  <2> QED
    BY <2>1 DEF Ends
<1> HIDE DEF rest, f, N
<1>3. rest \in Seq(Spans(E)) /\ Loses(rest, Len(rest), list, N, P, Begin(list, n), f)
  <2>1. CASE f = End(list, n)
    <3>1. rest = RemoveAt(list, n)
      BY <2>1, Zenon DEF TakeFrom, rest, Begin, End, f
    <3>2. rest \in Seq(Spans(E)) /\ Len(rest) = N - 1 /\ Without(rest, list, N, n)
      BY <1>1, <3>1, RemovedRange DEF N
    <3>3. Loses(rest, N - 1, list, N, P, Begin(list, n), End(list, n))
      BY <1>1, <1>2, <3>2, Drop
    <3> QED
      BY <2>1, <3>2, <3>3
  <2>2. CASE f < End(list, n)
    <3>1. rest = SetFirst(list, n, f)
      <4>1. f # End(list, n)
        BY <1>2, <2>2
      <4> QED
        BY <4>1, Zenon DEF TakeFrom, SetFirst, rest, Begin, End, f
    <3>2. rest \in Seq(Spans(E)) /\ Len(rest) = N /\ WithFirst(rest, list, N, n, f)
      BY <1>1, <1>2, <3>1, MovedFirst DEF N
    <3>3. Loses(rest, N, list, N, P, Begin(list, n), f)
      BY <1>1, <1>2, <2>2, <3>2, Shrink
    <3> QED
      BY <3>2, <3>3
  <2>3. f = End(list, n) \/ f < End(list, n)
    BY <1>2
  <2> QED
    BY <2>1, <2>2, <2>3
<1>4. taken \subseteq ListUnits(list)
  <2>1. ASSUME NEW u \in taken PROVE u \in Int /\ Holds(u, list, N)
    <3>1. u \in Int /\ Begin(list, n) <= u /\ u < f
      BY <1>2, <2>1 DEF f
    <3> QED
      BY <1>2, <3>1 DEF Holds
  <2> QED
    BY <1>1, <2>1, HoldsUnits DEF N
<1>5. Ordered(rest, E, P) /\ ListUnits(rest) = ListUnits(list) \ (Begin(list, n) .. f - 1)
  BY <1>1, <1>2, <1>3, UnitsLost DEF N
<1>6. ListUnits(rest) = ListUnits(list) \ taken
  BY <1>5, Zenon DEF f
<1> HIDE DEF taken
<1>7. Ordered(rest, E, P) /\ taken \subseteq ListUnits(list) /\ ListUnits(rest) = ListUnits(list) \ taken
  BY <1>4, <1>5, <1>6
<1> QED
  BY <1>7, Zenon DEF rest, taken

\* Giving back a range that the list holds nothing of leaves a free list with its units.
LEMMA GiveBackToList ==
    ASSUME NEW P, NEW E, Ends(E, P), NEW list, Ordered(list, E, P),
           NEW range \in Spans(E), range.first < range.last,
           ListUnits(list) \cap Units(range) = {}
    PROVE  /\ Ordered(GiveBack(list, range), E, P)
           /\ ListUnits(GiveBack(list, range)) = ListUnits(list) \cup Units(range)
<1> DEFINE N == Len(list)
           f == range.first
           l == range.last
           n == PlaceOf(list, range)
           joins_prev == n > 1 /\ list[n - 1].last = range.first
           joins_next == n <= Len(list) /\ list[n].first = range.last
           rest == GiveBack(list, range)
<1>1. list \in Seq(Spans(E)) /\ Apart(list, N, P)
  BY DEF Ordered
<1>2. P \in Nat /\ N \in Nat /\ f \in E /\ f \in Int /\ l \in E /\ l \in Int /\ l <= P /\ f < l
  <2>1. N \in Nat
    BY <1>1, SpansOf
  <2>2. f \in E /\ l \in E
    BY DEF Spans
  <2>3. P \in Nat /\ \A e \in E : e \in Int /\ e <= P
    BY DEF Ends
  <2> QED
    BY <2>1, <2>2, <2>3
<1>3. n \in 1 .. N + 1 /\ (n <= N => f <= Begin(list, n)) /\ (n > 1 => Begin(list, n - 1) < f)
  <2> DEFINE below == {m \in DOMAIN list : list[m].first < range.first}
  <2>1. n = LowerBound(list, below)
    BY Zenon DEF PlaceOf
  <2>2. \A m : m \in below <=> m \in 1 .. N /\ Begin(list, m) < f
    <3>1. DOMAIN list = 1 .. N
      BY <1>1, SpansOf
    <3> QED
      BY <3>1, Zenon DEF Begin
  <2> HIDE DEF n, below, f, N
  <2>3. n \in 1 .. N + 1 /\ (n <= N => n \notin below) /\ (n > 1 => n - 1 \in below)
    BY <1>2, <2>1, LowerBoundFinds DEF N
  <2>4. n <= N => Begin(list, n) \in Int
    BY <1>1, <2>3 DEF Apart
  <2> QED
    BY <1>2, <2>2, <2>3, <2>4
<1>4. \A u \in Int : Holds(u, list, N) => ~(f <= u /\ u < l)
  <2> SUFFICES ASSUME NEW u \in Int, Holds(u, list, N), f <= u /\ u < l PROVE FALSE
    OBVIOUS
  <2>1. u \in ListUnits(list)
    BY <1>1, HoldsUnits
  <2>2. Units(range) = f .. l - 1
    BY Zenon DEF Units
  <2> HIDE DEF f, l
  <2>3. u \in Units(range)
    BY <1>2, <2>2
  <2> QED
    BY <2>1, <2>3
<1> HIDE DEF n, N, f, l, rest
<1>5. Fits(f, l, n, list, N)
  BY <1>1, <1>2, <1>3, <1>4, FitsIn
<1>6. ASSUME n > 1 PROVE n - 1 \in 1 .. N /\ n \in 2 .. N + 1
  BY <1>2, <1>3, <1>6
<1>7. ASSUME joins_prev, joins_next
      PROVE  rest \in Seq(Spans(E)) /\ Gains(rest, Len(rest), list, N, P, f, l)
  <2> DEFINE joined == [list EXCEPT ![n - 1].last = list[n].last]
  <2>1. rest = RemoveAt(joined, n)
    BY <1>7, Zenon DEF GiveBack, rest, n
  <2>2. n \in 1 .. N /\ n - 1 \in 1 .. N /\ n \in 2 .. N
    BY <1>2, <1>3, <1>6, <1>7 DEF N
  <2>3. End(list, n) \in E /\ list[n].last = End(list, n)
    BY <1>1, <2>2, SpansOf, Zenon DEF N, End
  <2>4. joined = SetLast(list, n - 1, End(list, n))
    BY <2>3, Zenon DEF SetLast
  <2> HIDE DEF joined
  <2>5. joined \in Seq(Spans(E)) /\ Len(joined) = N /\ WithLast(joined, list, N, n - 1, End(list, n))
    BY <1>1, <2>2, <2>3, <2>4, MovedLast DEF N
  <2>6. rest \in Seq(Spans(E)) /\ Len(rest) = N - 1 /\ Without(rest, joined, N, n)
    BY <2>1, <2>2, <2>5, RemovedRange
  <2>7. Melted(rest, list, N, n)
    <3>1. ASSUME NEW m \in 1 .. N - 1
          PROVE  /\ Begin(rest, m) = IF m < n THEN Begin(list, m) ELSE Begin(list, m + 1)
                 /\ End(rest, m) = IF m < n - 1 THEN End(list, m) ELSE End(list, m + 1)
      <4>1. m \in 1 .. N /\ m + 1 \in 1 .. N
        BY <1>2
      <4>2. /\ Begin(rest, m) = IF m < n THEN Begin(joined, m) ELSE Begin(joined, m + 1)
            /\ End(rest, m) = IF m < n THEN End(joined, m) ELSE End(joined, m + 1)
        BY <2>6 DEF Without
      <4>3. /\ Begin(joined, m) = Begin(list, m) /\ Begin(joined, m + 1) = Begin(list, m + 1)
            /\ End(joined, m) = IF m = n - 1 THEN End(list, n) ELSE End(list, m)
            /\ End(joined, m + 1) = IF m + 1 = n - 1 THEN End(list, n) ELSE End(list, m + 1)
        BY <2>5, <4>1 DEF WithLast
      <4> QED
        BY <2>2, <4>2, <4>3
    <3> QED
      BY <3>1, Zenon DEF Melted
  <2>8. l = Begin(list, n) /\ End(list, n - 1) = f
    BY <1>7, Zenon DEF Begin, End, f, l
  <2>9. Gains(rest, N - 1, list, N, P, f, l)
    BY <1>1, <1>2, <1>5, <2>2, <2>7, <2>8, JoinBoth
  <2> QED
    BY <2>6, <2>9
<1>8. ASSUME joins_prev, ~joins_next
      PROVE  rest \in Seq(Spans(E)) /\ Gains(rest, Len(rest), list, N, P, f, l)
  <2>1. rest = SetLast(list, n - 1, l)
    BY <1>8, Zenon DEF GiveBack, SetLast, rest, n, l
  <2>2. n - 1 \in 1 .. N /\ n \in 2 .. N + 1
    BY <1>6, <1>8
  <2>3. rest \in Seq(Spans(E)) /\ Len(rest) = N /\ WithLast(rest, list, N, n - 1, l)
    BY <1>1, <1>2, <2>1, <2>2, MovedLast DEF N
  <2>4. (n <= N => l # Begin(list, n)) /\ End(list, n - 1) = f
    BY <1>8, Zenon DEF Begin, End, f, l, N
  <2>5. Gains(rest, N, list, N, P, f, l)
    BY <1>1, <1>2, <1>5, <2>2, <2>3, <2>4, JoinPrev
  <2> QED
    BY <2>3, <2>5
<1>9. ASSUME ~joins_prev, joins_next
      PROVE  rest \in Seq(Spans(E)) /\ Gains(rest, Len(rest), list, N, P, f, l)
  <2>1. rest = SetFirst(list, n, f)
    BY <1>9, Zenon DEF GiveBack, SetFirst, rest, n, f
  <2>2. n \in 1 .. N
    BY <1>2, <1>3, <1>9 DEF N
  <2>3. rest \in Seq(Spans(E)) /\ Len(rest) = N /\ WithFirst(rest, list, N, n, f)
    BY <1>1, <1>2, <2>1, <2>2, MovedFirst DEF N
  <2>4. l = Begin(list, n) /\ (n > 1 => End(list, n - 1) # f)
    BY <1>9, Zenon DEF Begin, End, f, l, N
  <2>5. Gains(rest, N, list, N, P, f, l)
    BY <1>1, <1>2, <1>5, <2>2, <2>3, <2>4, JoinNext
  <2> QED
    BY <2>3, <2>5
<1>10. ASSUME ~joins_prev, ~joins_next
       PROVE  rest \in Seq(Spans(E)) /\ Gains(rest, Len(rest), list, N, P, f, l)
  <2>1. rest = InsertAt(list, n, Span(f, l))
    <3>1. range = Span(f, l)
      BY DEF Spans, Span, f, l
    <3>2. rest = InsertAt(list, n, range)
      BY <1>10, Zenon DEF GiveBack, rest, n
    <3> QED
      BY <3>1, <3>2
  <2>2. rest \in Seq(Spans(E)) /\ Len(rest) = N + 1 /\ With(rest, list, N, n, f, l)
    BY <1>1, <1>2, <1>3, <2>1, InsertedRange DEF N
  <2>3. (n <= N => l # Begin(list, n)) /\ (n > 1 => End(list, n - 1) # f)
    BY <1>10, Zenon DEF Begin, End, f, l, N
  <2>4. Gains(rest, N + 1, list, N, P, f, l)
    BY <1>1, <1>2, <1>3, <1>5, <2>2, <2>3, Put
  <2> QED
    BY <2>2, <2>4
<1>11. rest \in Seq(Spans(E)) /\ Gains(rest, Len(rest), list, N, P, f, l)
  BY <1>7, <1>8, <1>9, <1>10, Zenon
<1>12. Ordered(rest, E, P) /\ ListUnits(rest) = ListUnits(list) \cup (f .. l - 1)
  BY <1>1, <1>2, <1>11, UnitsGained DEF N
<1> QED
  BY <1>12, Zenon DEF rest, Units, f, l

(***************************************************************************)
(* Pages                                                                   *)
(***************************************************************************)

Stalls(E) == [range : Spans(E), fence_value : Nat]
Pages(E) == [free : Seq(Spans(E)), stall : Seq(Stalls(E))]

\* The units of the range that stalls at a position.
StalledAt(page, n) == Units(page.stall[n].range)

\* No unit of a sound page stalls twice or is free while it stalls, and what stalls is a
\* range with units, so giving it back never finds it there already.
Sound(page, E, P) ==
    /\ page \in Pages(E)
    /\ Ordered(page.free, E, P)
    /\ \A n \in 1 .. Len(page.stall) : page.stall[n].range.first < page.stall[n].range.last
    /\ \A m, n \in 1 .. Len(page.stall) : m # n => StalledAt(page, m) \cap StalledAt(page, n) = {}
    /\ FreeUnits(page) \cap StalledUnits(page) = {}

\* Its parts, for the provers.
LEMMA PageParts ==
    ASSUME NEW E, NEW page \in Pages(E)
    PROVE  /\ page.free \in Seq(Spans(E)) /\ page.stall \in Seq(Stalls(E))
           /\ Len(page.stall) \in Nat
           /\ FreeUnits(page) = ListUnits(page.free)
           /\ \A u : u \in StalledUnits(page) <=> \E n \in 1 .. Len(page.stall) : u \in StalledAt(page, n)
           /\ \A n \in 1 .. Len(page.stall) : /\ page.stall[n].range \in Spans(E)
                                              /\ page.stall[n].fence_value \in Nat
<1>1. page.free \in Seq(Spans(E)) /\ page.stall \in Seq(Stalls(E))
  BY DEF Pages
<1>2. Len(page.stall) \in Nat /\ DOMAIN page.stall = 1 .. Len(page.stall)
  BY <1>1, LenProperties
<1>3. FreeUnits(page) = ListUnits(page.free)
  BY DEF FreeUnits, ListUnits
<1>4. \A u : u \in StalledUnits(page) <=> \E n \in 1 .. Len(page.stall) : u \in StalledAt(page, n)
  BY <1>2, Zenon DEF StalledUnits, StalledAt
<1>5. ASSUME NEW n \in 1 .. Len(page.stall)
      PROVE  page.stall[n].range \in Spans(E) /\ page.stall[n].fence_value \in Nat
  <2>1. page.stall[n] \in Stalls(E)
    BY <1>1, ElementOfSeq
  <2> QED
    BY <2>1 DEF Stalls
<1> QED
  BY <1>1, <1>2, <1>3, <1>4, <1>5

\* A page with nothing stalled, and the free list of a page whose front is taken.
LEMMA NewPageSound ==
    ASSUME NEW P, NEW E, Ends(E, P), NEW free, Ordered(free, E, P)
    PROVE  /\ Sound(NewPage(free), E, P)
           /\ FreeUnits(NewPage(free)) = ListUnits(free)
           /\ StalledUnits(NewPage(free)) = {}
           /\ Len(NewPage(free).stall) = 0
<1> DEFINE page == NewPage(free)
<1>1. free \in Seq(Spans(E))
  BY DEF Ordered
<1>2. page.free = free /\ page.stall = <<>> /\ page \in Pages(E)
  BY <1>1 DEF NewPage, Pages
<1> HIDE DEF page
<1>3. Len(page.stall) = 0
  BY <1>2
<1>4. \A n \in 1 .. Len(page.stall) : FALSE
  BY <1>3
<1>5. FreeUnits(page) = ListUnits(free) /\ StalledUnits(page) = {}
  BY <1>2, <1>4, PageParts
<1>6. Sound(page, E, P)
  BY <1>2, <1>4, <1>5 DEF Sound
<1> QED
  BY <1>3, <1>5, <1>6 DEF page

\* The free list of a page that has given its first units away.
LEMMA OneRange ==
    ASSUME NEW P, NEW E, Ends(E, P), P \in E, NEW size \in E
    PROVE  /\ Ordered(<<Span(size, P)>>, E, P)
           /\ ListUnits(<<Span(size, P)>>) = size .. P - 1
<1> DEFINE list == <<Span(size, P)>>
<1>1. Span(size, P) \in Spans(E)
  BY DEF Span, Spans
<1>2. list \in Seq(Spans(E)) /\ Len(list) = 1 /\ list[1] = Span(size, P)
  BY <1>1
<1> HIDE DEF list
<1>3. Begin(list, 1) = size /\ End(list, 1) = P
  BY <1>2 DEF Begin, End, Span
<1>4. size \in Int /\ P \in Int /\ size <= P
  BY DEF Ends
<1>5. Apart(list, 1, P)
  <2>1. \A n \in 1 .. 1 : n = 1
    OBVIOUS
  <2> QED
    BY <1>3, <1>4, <2>1 DEF Apart
<1>6. ASSUME NEW u PROVE u \in ListUnits(list) <=> u \in size .. P - 1
  <2>1. u \in ListUnits(list) <=> u \in Int /\ Holds(u, list, 1)
    BY <1>2, HoldsUnits
  <2>2. Holds(u, list, 1) <=> size <= u /\ u < P
    <3>1. \A n \in 1 .. 1 : n = 1
      OBVIOUS
    <3>2. 1 \in 1 .. 1
      OBVIOUS
    <3> QED
      BY <1>3, <3>1, <3>2, Zenon DEF Holds
  <2> QED
    BY <1>4, <2>1, <2>2
<1>7. ListUnits(list) = size .. P - 1
  BY <1>6
<1> QED
  BY <1>2, <1>5, <1>7 DEF Ordered, list

\* Only the free list of a page changes.
LEMMA FreeChanges ==
    ASSUME NEW P, NEW E, Ends(E, P), NEW page, Sound(page, E, P), NEW free, Ordered(free, E, P),
           ListUnits(free) \cap StalledUnits(page) = {}
    PROVE  /\ Sound([page EXCEPT !.free = free], E, P)
           /\ FreeUnits([page EXCEPT !.free = free]) = ListUnits(free)
           /\ StalledUnits([page EXCEPT !.free = free]) = StalledUnits(page)
           /\ [page EXCEPT !.free = free].stall = page.stall
<1> DEFINE after == [page EXCEPT !.free = free]
<1>1. page \in Pages(E)
  BY DEF Sound
<1>2. free \in Seq(Spans(E))
  BY DEF Ordered
<1>3. after \in Pages(E) /\ after.free = free /\ after.stall = page.stall
  BY <1>1, <1>2 DEF Pages
<1> HIDE DEF after
<1>4. \A n : StalledAt(after, n) = StalledAt(page, n)
  BY <1>3, Zenon DEF StalledAt
<1>5. StalledUnits(after) = StalledUnits(page)
  BY <1>3, Zenon DEF StalledUnits
<1>6. FreeUnits(after) = ListUnits(free)
  BY <1>3, PageParts
<1>7. Sound(after, E, P)
  BY <1>3, <1>4, <1>5, <1>6, Zenon DEF Sound
<1> QED
  BY <1>3, <1>5, <1>6, <1>7 DEF after

\* A range that is neither free nor stalled is given back, or stalls.
LEMMA GiveBackSound ==
    ASSUME NEW P, NEW E, Ends(E, P), NEW page, Sound(page, E, P),
           NEW range \in Spans(E), range.first < range.last,
           Units(range) \cap FreeUnits(page) = {}, Units(range) \cap StalledUnits(page) = {}
    PROVE  LET after == [page EXCEPT !.free = GiveBack(@, range)]
           IN  /\ Sound(after, E, P)
               /\ FreeUnits(after) = FreeUnits(page) \cup Units(range)
               /\ StalledUnits(after) = StalledUnits(page)
<1> DEFINE free == GiveBack(page.free, range)
<1>1. Ordered(page.free, E, P) /\ page \in Pages(E)
  BY DEF Sound
<1>2. FreeUnits(page) = ListUnits(page.free)
  BY <1>1, PageParts
<1>3. Ordered(free, E, P) /\ ListUnits(free) = FreeUnits(page) \cup Units(range)
  BY <1>1, <1>2, GiveBackToList
<1>4. FreeUnits(page) \cap StalledUnits(page) = {}
  BY DEF Sound
<1>5. [page EXCEPT !.free = GiveBack(@, range)] = [page EXCEPT !.free = free]
  BY Zenon
<1> HIDE DEF free
<1>6. ListUnits(free) \cap StalledUnits(page) = {}
  BY <1>3, <1>4
<1> QED
  BY <1>3, <1>5, <1>6, FreeChanges

\* Stalling a range that is neither free nor stalled keeps a page sound.
LEMMA StallSound ==
    ASSUME NEW P, NEW E, Ends(E, P), NEW page, Sound(page, E, P),
           NEW range \in Spans(E), range.first < range.last, NEW fence_value \in Nat,
           Units(range) \cap FreeUnits(page) = {}, Units(range) \cap StalledUnits(page) = {}
    PROVE  LET after == Stall(page, range, fence_value)
           IN  /\ Sound(after, E, P)
               /\ FreeUnits(after) = FreeUnits(page)
               /\ StalledUnits(after) = StalledUnits(page) \cup Units(range)
               /\ Len(after.stall) = Len(page.stall) + 1
<1> DEFINE s == [range |-> range, fence_value |-> fence_value]
           after == Stall(page, range, fence_value)
           N == Len(page.stall)
<1>1. page \in Pages(E) /\ page.stall \in Seq(Stalls(E)) /\ N \in Nat
  BY PageParts DEF Sound
<1>2. s \in Stalls(E) /\ s.range = range
  BY DEF Stalls
<1>3. after.free = page.free /\ after.stall = Append(page.stall, s)
  BY <1>1 DEF Pages, Stall
<1> HIDE DEF s
<1>4. /\ Append(page.stall, s) \in Seq(Stalls(E))
      /\ Len(Append(page.stall, s)) = N + 1
      /\ \A n \in 1 .. N : Append(page.stall, s)[n] = page.stall[n]
      /\ Append(page.stall, s)[N + 1] = s
  BY <1>1, <1>2, AppendProperties
<1>5. after \in Pages(E)
  BY <1>1, <1>4 DEF Pages, Stall, s
<1> HIDE DEF after
<1>6. Len(after.stall) = N + 1 /\ N + 1 \in 1 .. N + 1
  BY <1>1, <1>3, <1>4
<1>7. ASSUME NEW n \in 1 .. N
      PROVE  StalledAt(after, n) = StalledAt(page, n) /\ after.stall[n] = page.stall[n]
  BY <1>3, <1>4, Zenon DEF StalledAt
<1>8. StalledAt(after, N + 1) = Units(range) /\ after.stall[N + 1].range = range
  BY <1>2, <1>3, <1>4, Zenon DEF StalledAt
<1>9. \A n \in 1 .. N + 1 : n \in 1 .. N \/ n = N + 1
  BY <1>1
<1>10. \A n \in 1 .. N : n \in 1 .. N + 1 /\ n # N + 1
  BY <1>1
<1> HIDE DEF N
<1>11. StalledUnits(after) = StalledUnits(page) \cup Units(range)
  <2>1. \A u : u \in StalledUnits(after) <=> \E n \in 1 .. N + 1 : u \in StalledAt(after, n)
    BY <1>5, <1>6, PageParts
  <2>2. \A u : u \in StalledUnits(page) <=> \E n \in 1 .. N : u \in StalledAt(page, n)
    BY <1>1, PageParts DEF N
  <2> QED
    BY <1>6, <1>7, <1>8, <1>9, <1>10, <2>1, <2>2
<1>12. FreeUnits(after) = FreeUnits(page)
  BY <1>3, Zenon DEF FreeUnits
<1>13. \A n \in 1 .. N : StalledAt(page, n) \subseteq StalledUnits(page)
  BY <1>1, PageParts DEF N
<1>14. Sound(after, E, P)
  <2>1. \A n \in 1 .. N + 1 : after.stall[n].range.first < after.stall[n].range.last
    BY <1>7, <1>8, <1>9, Zenon DEF Sound, N
  <2>2. ASSUME NEW m \in 1 .. N + 1, NEW n \in 1 .. N + 1, m # n
        PROVE  StalledAt(after, m) \cap StalledAt(after, n) = {}
    <3>1. CASE m \in 1 .. N /\ n \in 1 .. N
      BY <1>7, <2>2, <3>1 DEF Sound, N
    <3>2. CASE m = N + 1 /\ n \in 1 .. N
      BY <1>7, <1>8, <1>13, <3>2
    <3>3. CASE m \in 1 .. N /\ n = N + 1
      BY <1>7, <1>8, <1>13, <3>3
    <3> QED
      BY <1>9, <2>2, <3>1, <3>2, <3>3
  <2>3. Ordered(after.free, E, P)
    BY <1>3 DEF Sound
  <2>4. FreeUnits(after) \cap StalledUnits(after) = {}
    BY <1>11, <1>12 DEF Sound
  <2> QED
    BY <1>5, <1>6, <2>1, <2>2, <2>3, <2>4, Zenon DEF Sound
<1> QED
  BY <1>6, <1>11, <1>12, <1>14 DEF after, N

\* The page waits with a range for a value.
Waits(page, s) == \E n \in 1 .. Len(page.stall) : page.stall[n] = s

\* A range that stalls comes to the others.
LEMMA StallWaits ==
    ASSUME NEW E, NEW page \in Pages(E), NEW range \in Spans(E), NEW fence_value \in Nat
    PROVE  LET after == Stall(page, range, fence_value)
           IN  /\ Waits(after, [range |-> range, fence_value |-> fence_value])
               /\ \A s : Waits(page, s) => Waits(after, s)
<1> DEFINE e == [range |-> range, fence_value |-> fence_value]
           after == Stall(page, range, fence_value)
           N == Len(page.stall)
<1>1. page.stall \in Seq(Stalls(E)) /\ N \in Nat /\ e \in Stalls(E)
  BY PageParts DEF Stalls
<1>2. after.stall = Append(page.stall, e)
  BY DEF Pages, Stall
<1> HIDE DEF e, after
<1>3. /\ Len(after.stall) = N + 1
      /\ \A n \in 1 .. N : after.stall[n] = page.stall[n] /\ n \in 1 .. N + 1
      /\ after.stall[N + 1] = e /\ N + 1 \in 1 .. N + 1
  BY <1>1, <1>2, AppendProperties
<1> HIDE DEF N
<1>4. Waits(after, e)
  BY <1>3 DEF Waits
<1>5. \A s : Waits(page, s) => Waits(after, s)
  BY <1>3 DEF Waits, N
<1> QED
  BY <1>4, <1>5 DEF after, e

\* Taking size from the range that the search finds. Adding size to an end of a range
\* must lead to a possible end, if it does not leave the page.
LEMMA TakeSound ==
    ASSUME NEW P, NEW E, Ends(E, P), NEW page, Sound(page, E, P),
           NEW size \in Nat \ {0}, HasRoom(page.free, size),
           \A e \in E : e + size <= P => e + size \in E
    PROVE  LET n == RoomFor(page.free, size)
               first == page.free[n].first
               after == [page EXCEPT !.free = TakeFrom(@, n, size)]
           IN  /\ Sound(after, E, P)
               /\ first \in E /\ first + size \in E
               /\ first .. (first + size) - 1 \subseteq FreeUnits(page)
               /\ FreeUnits(after) = FreeUnits(page) \ (first .. (first + size) - 1)
               /\ StalledUnits(after) = StalledUnits(page)
<1> DEFINE list == page.free
           below == {n \in DOMAIN list : list[n].first + size > list[n].last}
           n == RoomFor(list, size)
           first == list[n].first
           taken == first .. (first + size) - 1
           free == TakeFrom(list, n, size)
           after == [page EXCEPT !.free = TakeFrom(@, n, size)]
<1>1. page \in Pages(E) /\ Ordered(list, E, P) /\ FreeUnits(page) \cap StalledUnits(page) = {}
  BY DEF Sound
<1>2. FreeUnits(page) = ListUnits(list)
  BY <1>1, PageParts
<1> HIDE DEF list
<1>3. list \in Seq(Spans(E)) /\ Len(list) \in Nat /\ DOMAIN list = 1 .. Len(list)
  <2>1. list \in Seq(Spans(E))
    BY <1>1 DEF Ordered
  <2> QED
    BY <2>1, SpansOf
<1>4. n \in 1 .. Len(list) /\ n \notin below
  <2>1. n = LowerBound(list, below)
    BY Zenon DEF RoomFor
  <2>2. n <= Len(list)
    BY Zenon DEF HasRoom, list
  <2> HIDE DEF n, below
  <2>3. n \in 1 .. Len(list) + 1 /\ (n <= Len(list) => n \notin below)
    BY <1>3, <2>1, LowerBoundFinds
  <2> QED
    BY <1>3, <2>2, <2>3
<1>5. ~(Begin(list, n) + size > End(list, n))
  BY <1>3, <1>4, Zenon DEF Begin, End
<1> HIDE DEF n, below
<1>6. Begin(list, n) \in Int /\ End(list, n) \in Int /\ Begin(list, n) \in E /\ End(list, n) \in E
  BY <1>3, <1>4, SpansOf
<1>7. Begin(list, n) + size <= End(list, n) /\ Begin(list, n) + size <= P
  <2>1. End(list, n) <= P /\ P \in Nat
    BY <1>6 DEF Ends
  <2>2. Begin(list, n) + size <= End(list, n)
    BY <1>5, <1>6
  <2> QED
    BY <1>6, <2>1, <2>2
<1>8. Begin(list, n) + size \in E
  BY <1>6, <1>7
<1> HIDE DEF free
<1>9. first = Begin(list, n)
  BY Zenon DEF Begin
<1>10. Ordered(free, E, P) /\ taken \subseteq ListUnits(list) /\ ListUnits(free) = ListUnits(list) \ taken
  <2> DEFINE gone == Begin(list, n) .. (Begin(list, n) + size) - 1
  <2>1. /\ Ordered(TakeFrom(list, n, size), E, P)
        /\ gone \subseteq ListUnits(list)
        /\ ListUnits(TakeFrom(list, n, size)) = ListUnits(list) \ gone
    BY <1>1, <1>4, <1>7, <1>8, TakeFromList
  <2>2. gone = taken
    BY <1>9, Zenon
  <2> HIDE DEF gone, taken
  <2> QED
    BY <2>1, <2>2 DEF free
<1>11. after = [page EXCEPT !.free = free]
  BY Zenon DEF free, list
<1> HIDE DEF after, taken, first
<1>12. ListUnits(free) \cap StalledUnits(page) = {}
  BY <1>1, <1>2, <1>10
<1>13. Sound(after, E, P) /\ FreeUnits(after) = ListUnits(free) /\ StalledUnits(after) = StalledUnits(page)
  BY <1>10, <1>11, <1>12, FreeChanges
<1>14. /\ Sound(after, E, P)
       /\ first \in E /\ first + size \in E
       /\ taken \subseteq FreeUnits(page)
       /\ FreeUnits(after) = FreeUnits(page) \ taken
       /\ StalledUnits(after) = StalledUnits(page)
  BY <1>2, <1>6, <1>8, <1>9, <1>10, <1>13
<1> QED
  BY <1>14, Zenon DEF after, taken, first, list, n

\* One page in the loop that gives back what no longer stalls: nothing is lost, and what
\* waits for a later value goes on stalling.
LEMMA ClearSound ==
    ASSUME NEW P, NEW E, Ends(E, P), NEW page, Sound(page, E, P), NEW fence_value \in Nat
    PROVE  LET after == ClearStalls(page, fence_value)
           IN  /\ Sound(after, E, P)
               /\ FreeUnits(after) \cup StalledUnits(after) = FreeUnits(page) \cup StalledUnits(page)
               /\ FreeUnits(page) \subseteq FreeUnits(after)
               /\ \A n \in 1 .. Len(page.stall) :
                    page.stall[n].fence_value > fence_value =>
                       /\ StalledAt(page, n) \subseteq StalledUnits(after)
                       /\ Waits(after, page.stall[n])
<1> DEFINE N == Len(page.stall)
           Turn(n, before) == IF page.stall[n].fence_value <= fence_value
                                THEN [before EXCEPT !.free = GiveBack(@, page.stall[n].range)]
                                ELSE Stall(before, page.stall[n].range, page.stall[n].fence_value)
           Loop(f) == [n \in 0 .. N |-> IF n = 0 THEN NewPage(page.free) ELSE Turn(n, f[n - 1])]
           cleared == CHOOSE f : f = Loop(f)
<1>1. page \in Pages(E) /\ N \in Nat
  BY PageParts DEF Sound
<1> HIDE DEF N, Turn
\* Such a function exists.
<1>2. cleared = Loop(cleared)
  <2> DEFINE Follows(f, k) == f[0] = NewPage(page.free) /\ \A n \in 1 .. k : f[n] = Turn(n, f[n - 1])
             Reached == {k \in Nat : \E f : Follows(f, k)}
  <2>1. 0 \in Reached
    <3>1. Follows([n \in 0 .. 0 |-> NewPage(page.free)], 0)
      OBVIOUS
    <3> QED
      BY <3>1
  <2>2. \A k \in Nat : k \in Reached => k + 1 \in Reached
    <3> SUFFICES ASSUME NEW k \in Nat, k \in Reached PROVE \E f : Follows(f, k + 1)
      OBVIOUS
    <3>1. PICK f : Follows(f, k)
      OBVIOUS
    <3> DEFINE g == [n \in 0 .. k + 1 |-> IF n <= k THEN f[n] ELSE Turn(k + 1, f[k])]
    <3>2. g[0] = NewPage(page.free)
      BY <3>1
    <3>3. ASSUME NEW n \in 1 .. k + 1 PROVE g[n] = Turn(n, g[n - 1])
      <4>1. CASE n <= k
        <5>1. n \in 1 .. k /\ n - 1 \in 0 .. k + 1 /\ n - 1 <= k /\ n \in 0 .. k + 1
          BY <4>1
        <5>2. g[n] = f[n] /\ g[n - 1] = f[n - 1] /\ f[n] = Turn(n, f[n - 1])
          BY <3>1, <4>1, <5>1
        <5> QED
          BY <5>2
      <4>2. CASE n = k + 1
        <5>1. n - 1 = k /\ k \in 0 .. k + 1 /\ n \in 0 .. k + 1 /\ ~(n <= k)
          BY <4>2
        <5>2. g[n - 1] = f[k] /\ g[n] = Turn(k + 1, f[k])
          BY <5>1
        <5> QED
          BY <4>2, <5>2
      <4> QED
        BY <4>1, <4>2
    <3> QED
      BY <3>2, <3>3
  <2>3. N \in Reached
    <3> HIDE DEF Reached
    <3> QED
      BY <1>1, <2>1, <2>2, NatSetInduction
  <2>4. PICK f : Follows(f, N)
    BY <2>3
  <2> DEFINE h == [n \in 0 .. N |-> f[n]]
  <2>5. h = Loop(h)
    <3>1. h[0] = NewPage(page.free)
      BY <1>1, <2>4
    <3>2. ASSUME NEW n \in 1 .. N PROVE h[n] = Turn(n, h[n - 1])
      <4>1. n \in 0 .. N /\ n - 1 \in 0 .. N
        BY <1>1
      <4>2. h[n] = f[n] /\ h[n - 1] = f[n - 1]
        BY <4>1
      <4> QED
        BY <2>4, <4>2
    <3>3. ASSUME NEW n \in 0 .. N
          PROVE  h[n] = IF n = 0 THEN NewPage(page.free) ELSE Turn(n, h[n - 1])
      <4>1. n # 0 => n \in 1 .. N
        BY <1>1
      <4> HIDE DEF h
      <4> QED
        BY <3>1, <3>2, <4>1
    <3>4. DOMAIN h = 0 .. N /\ h = [n \in DOMAIN h |-> h[n]]
      OBVIOUS
    <3> HIDE DEF h
    <3> QED
      BY <3>3, <3>4
  <2> QED
    BY <2>5, Zenon
<1> HIDE DEF cleared
<1>3. cleared[0] = NewPage(page.free) /\ \A k \in Nat : k + 1 <= N => cleared[k + 1] = Turn(k + 1, cleared[k])
  <2>1. cleared[0] = NewPage(page.free)
    BY <1>1, <1>2
  <2>2. ASSUME NEW k \in Nat, k + 1 <= N PROVE cleared[k + 1] = Turn(k + 1, cleared[k])
    <3>1. k + 1 \in 0 .. N /\ k + 1 # 0 /\ (k + 1) - 1 = k
      BY <1>1, <2>2
    <3> QED
      BY <1>2, <3>1
  <2> QED
    BY <2>1, <2>2
\* After k rounds: what was free, and what stalled in the first k places.
<1> DEFINE Kept(k) == /\ Sound(cleared[k], E, P)
                      /\ \A u : u \in FreeUnits(cleared[k]) \cup StalledUnits(cleared[k]) <=>
                                  u \in FreeUnits(page) \/ \E n \in 1 .. k : u \in StalledAt(page, n)
                      /\ FreeUnits(page) \subseteq FreeUnits(cleared[k])
                      /\ \A n \in 1 .. k : page.stall[n].fence_value > fence_value =>
                                             /\ StalledAt(page, n) \subseteq StalledUnits(cleared[k])
                                             /\ Waits(cleared[k], page.stall[n])
           Good == {k \in Nat : k <= N => Kept(k)}
<1>4. 0 \in Good
  <2>1. Ordered(page.free, E, P) /\ FreeUnits(page) = ListUnits(page.free)
    BY <1>1, PageParts DEF Sound
  <2>2. Sound(cleared[0], E, P) /\ FreeUnits(cleared[0]) = FreeUnits(page) /\ StalledUnits(cleared[0]) = {}
    BY <1>3, <2>1, NewPageSound
  <2> QED
    BY <2>2
<1>5. \A k \in Nat : k \in Good => k + 1 \in Good
  <2> SUFFICES ASSUME NEW k \in Nat, k + 1 <= N, Kept(k) PROVE Kept(k + 1)
    <3> HIDE DEF Kept
    <3> QED
      BY <1>1
  <2> DEFINE before == cleared[k]
             after == cleared[k + 1]
             range == page.stall[k + 1].range
             value == page.stall[k + 1].fence_value
  <2>1. k + 1 \in 1 .. N /\ \A n \in 1 .. k : n \in 1 .. N /\ n # k + 1
    BY <1>1
  <2>2. range \in Spans(E) /\ value \in Nat /\ range.first < range.last
    BY <1>1, <2>1, PageParts DEF Sound, N
  <2>3. Units(range) = StalledAt(page, k + 1)
    BY Zenon DEF StalledAt
  <2>4. after = Turn(k + 1, before)
    BY <1>3
  <2>5. Sound(before, E, P)
    OBVIOUS
  <2>6. Units(range) \cap FreeUnits(before) = {} /\ Units(range) \cap StalledUnits(before) = {}
    <3> SUFFICES ASSUME NEW u \in Units(range), u \in FreeUnits(before) \cup StalledUnits(before) PROVE FALSE
      OBVIOUS
    <3>1. u \in FreeUnits(page) \/ \E n \in 1 .. k : u \in StalledAt(page, n)
      OBVIOUS
    <3>2. u \in StalledUnits(page)
      BY <1>1, <2>1, <2>3, PageParts DEF N
    <3>3. \A n \in 1 .. k : StalledAt(page, n) \cap StalledAt(page, k + 1) = {}
      BY <2>1 DEF Sound, N
    <3>4. FreeUnits(page) \cap StalledUnits(page) = {}
      BY DEF Sound
    <3> HIDE DEF range
    <3> QED
      BY <2>3, <3>1, <3>2, <3>3, <3>4
  <2> HIDE DEF range, value
  <2>7. /\ Sound(after, E, P)
        /\ FreeUnits(after) \cup StalledUnits(after) =
             FreeUnits(before) \cup StalledUnits(before) \cup Units(range)
        /\ FreeUnits(before) \subseteq FreeUnits(after)
        /\ StalledUnits(before) \subseteq StalledUnits(after)
        /\ value > fence_value => Units(range) \subseteq StalledUnits(after)
        /\ \A s : Waits(before, s) => Waits(after, s)
        /\ value > fence_value => Waits(after, [range |-> range, fence_value |-> value])
    <3> HIDE DEF before, after
    <3>1. CASE value <= fence_value
      <4>1. after = [before EXCEPT !.free = GiveBack(@, range)]
        BY <2>4, <3>1 DEF Turn, range, value
      <4>2. /\ Sound(after, E, P)
            /\ FreeUnits(after) = FreeUnits(before) \cup Units(range)
            /\ StalledUnits(after) = StalledUnits(before)
        BY <2>2, <2>5, <2>6, <4>1, GiveBackSound
      <4>3. ~(value > fence_value)
        BY <2>2, <3>1
      <4>4. after.stall = before.stall
        BY <2>5, <4>1 DEF Sound, Pages
      <4>5. \A s : Waits(before, s) => Waits(after, s)
        BY <4>4, Zenon DEF Waits
      <4> QED
        BY <4>2, <4>3, <4>5
    <3>2. CASE ~(value <= fence_value)
      <4>1. after = Stall(before, range, value)
        BY <2>4, <3>2 DEF Turn, range, value
      <4>2. /\ Sound(after, E, P)
            /\ FreeUnits(after) = FreeUnits(before)
            /\ StalledUnits(after) = StalledUnits(before) \cup Units(range)
        BY <2>2, <2>5, <2>6, <4>1, StallSound
      <4>3. before \in Pages(E)
        BY <2>5 DEF Sound
      <4>4. /\ Waits(after, [range |-> range, fence_value |-> value])
            /\ \A s : Waits(before, s) => Waits(after, s)
        BY <2>2, <4>1, <4>3, StallWaits
      <4> QED
        BY <4>2, <4>4
    <3> QED
      BY <3>1, <3>2
  <2>8. \A n \in 1 .. k + 1 : n \in 1 .. k \/ n = k + 1
    OBVIOUS
  <2>9. \A n \in 1 .. k : n \in 1 .. k + 1
    OBVIOUS
  <2>10. k + 1 \in 1 .. k + 1
    OBVIOUS
  <2>11. ASSUME NEW u
         PROVE  u \in FreeUnits(after) \cup StalledUnits(after) <=>
                  u \in FreeUnits(page) \/ \E n \in 1 .. k + 1 : u \in StalledAt(page, n)
    <3>1. u \in FreeUnits(before) \cup StalledUnits(before) <=>
            u \in FreeUnits(page) \/ \E n \in 1 .. k : u \in StalledAt(page, n)
      OBVIOUS
    <3>2. u \in FreeUnits(after) \cup StalledUnits(after) <=>
            u \in FreeUnits(before) \cup StalledUnits(before) \/ u \in StalledAt(page, k + 1)
      BY <2>3, <2>7
    <3> HIDE DEF before, after
    <3> QED
      BY <2>8, <2>9, <2>10, <3>1, <3>2
  <2>12. FreeUnits(page) \subseteq FreeUnits(after)
    BY <2>7
  <2>13. ASSUME NEW n \in 1 .. k + 1, page.stall[n].fence_value > fence_value
         PROVE  /\ StalledAt(page, n) \subseteq StalledUnits(after)
                /\ Waits(after, page.stall[n])
    <3>1. CASE n \in 1 .. k
      <4>1. StalledAt(page, n) \subseteq StalledUnits(before) /\ Waits(before, page.stall[n])
        BY <2>13, <3>1
      <4> QED
        BY <2>7, <4>1
    <3>2. CASE n = k + 1
      <4>1. page.stall[k + 1] = [range |-> range, fence_value |-> value]
        <5>1. page.stall[k + 1] \in Stalls(E)
          BY <1>1, <2>1, PageParts DEF N
        <5> QED
          BY <5>1 DEF Stalls, range, value
      <4>2. value > fence_value
        BY <2>13, <3>2 DEF value
      <4> QED
        BY <2>3, <2>7, <3>2, <4>1, <4>2
    <3> QED
      BY <2>8, <3>1, <3>2
  <2> QED
    BY <2>7, <2>11, <2>12, <2>13
<1>6. Kept(N)
  <2>1. N \in Good
    <3> HIDE DEF Good
    <3> QED
      BY <1>1, <1>4, <1>5, NatSetInduction
  <2> QED
    BY <1>1, <2>1
<1>7. ClearStalls(page, fence_value) = cleared[N]
  BY Zenon DEF ClearStalls, cleared, Turn, N
<1>8. \A u : u \in StalledUnits(page) <=> \E n \in 1 .. N : u \in StalledAt(page, n)
  BY <1>1, PageParts DEF N
<1> DEFINE after == cleared[N]
<1> HIDE DEF after
<1>9. FreeUnits(after) \cup StalledUnits(after) = FreeUnits(page) \cup StalledUnits(page)
  <2>1. \A u : u \in FreeUnits(after) \cup StalledUnits(after) <=>
                 u \in FreeUnits(page) \/ \E n \in 1 .. N : u \in StalledAt(page, n)
    BY <1>6 DEF after
  <2> QED
    BY <1>8, <2>1
<1>10. /\ Sound(after, E, P)
       /\ FreeUnits(page) \subseteq FreeUnits(after)
       /\ \A n \in 1 .. N : page.stall[n].fence_value > fence_value =>
                              /\ StalledAt(page, n) \subseteq StalledUnits(after)
                              /\ Waits(after, page.stall[n])
  BY <1>6 DEF after
<1> QED
  BY <1>7, <1>9, <1>10, Zenon DEF after, N

(***************************************************************************)
(* Pages and the blocks cut from them                                      *)
(***************************************************************************)

\* The units of a block: R maps each block to the range it occupies.
RangeOf(R, block) == R[block]
UnitsOf(R, block) == Units(R[block])

\* Blocks with one more, and with one less.
Plus(bs, block) == bs \cup {block}
Minus(bs, block) == bs \ {block}

\* The page after size has been taken from the range that the search finds, and where the
\* block taken begins. The possible ends of ranges are closed under adding size.
Cut(page, size) == [page EXCEPT !.free = TakeFrom(@, RoomFor(page.free, size), size)]
CutAt(page, size) == page.free[RoomFor(page.free, size)].first
Steps(E, P, size) == \A e \in E : e + size <= P => e + size \in E


\* The page after block has been freed.
Freed(page, R, block, fence_value) == Stall(page, R[block], fence_value)

\* The blocks' units.
LiveOf(R, bs) == UNION {UnitsOf(R, b) : b \in bs}

\* A sound page and the blocks bs have its units between them, each unit once.
Divided(page, bs, R, E, P) ==
    /\ Sound(page, E, P)
    /\ \A b \in bs : R[b] \in Spans(E) /\ R[b].first < R[b].last
    /\ LiveOf(R, bs) \cup StalledUnits(page) \cup FreeUnits(page) = 0 .. P - 1
    /\ \A b \in bs : UnitsOf(R, b) \cap (StalledUnits(page) \cup FreeUnits(page)) = {}
    /\ \A b, c \in bs : b # c => UnitsOf(R, b) \cap UnitsOf(R, c) = {}

\* A new page and the block that takes its front.
LEMMA DividedNew ==
    ASSUME NEW P, NEW E, Ends(E, P), 0 \in E, P \in E, NEW size \in E, 0 < size,
           NEW R, NEW block, RangeOf(R, block) = Span(0, size)
    PROVE  Divided(NewPage(<<Span(size, P)>>), {block}, R, E, P)
<1> DEFINE free == <<Span(size, P)>>
           page == NewPage(free)
<1>1. Ordered(free, E, P) /\ ListUnits(free) = size .. P - 1
  BY OneRange
<1> HIDE DEF free
<1>2. Sound(page, E, P) /\ FreeUnits(page) = size .. P - 1 /\ StalledUnits(page) = {}
  BY <1>1, NewPageSound
<1>3. R[block] \in Spans(E) /\ R[block].first = 0 /\ R[block].last = size
  BY DEF Span, Spans, RangeOf
<1>4. UnitsOf(R, block) = 0 .. size - 1
  BY <1>3, Zenon DEF UnitsOf, Units
<1>5. size \in Int /\ P \in Int /\ size <= P
  BY DEF Ends
<1> HIDE DEF page
<1>6. LiveOf(R, {block}) = UnitsOf(R, block)
  BY DEF LiveOf, Plus, Minus
<1>7. UnitsOf(R, block) \cup StalledUnits(page) \cup FreeUnits(page) = 0 .. P - 1
  BY <1>2, <1>4, <1>5
<1>8. UnitsOf(R, block) \cap (StalledUnits(page) \cup FreeUnits(page)) = {}
  BY <1>2, <1>4, <1>5
<1>9. Divided(page, {block}, R, E, P)
  BY <1>2, <1>3, <1>6, <1>7, <1>8 DEF Divided
<1> QED
  BY <1>9 DEF page, free

\* A block cut from a free range is none of those that were there.
LEMMA DividedTake ==
    ASSUME NEW P, NEW E, Ends(E, P), NEW R, NEW bs, NEW page, Divided(page, bs, R, E, P),
           NEW size \in Nat \ {0}, HasRoom(page.free, size), Steps(E, P, size),
           NEW block, RangeOf(R, block) = Span(CutAt(page, size), CutAt(page, size) + size)
    PROVE  /\ Divided(Cut(page, size), Plus(bs, block), R, E, P)
           /\ StalledUnits(Cut(page, size)) = StalledUnits(page)
<1> DEFINE first == CutAt(page, size)
           taken == first .. (first + size) - 1
           after == Cut(page, size)
<1>1. Sound(page, E, P)
  BY DEF Divided
<1>2. /\ Sound(after, E, P)
      /\ first \in E /\ first + size \in E
      /\ taken \subseteq FreeUnits(page)
      /\ FreeUnits(after) = FreeUnits(page) \ taken
      /\ StalledUnits(after) = StalledUnits(page)
  BY <1>1, TakeSound DEF Cut, CutAt, Steps
<1>3. R[block] \in Spans(E) /\ R[block].first = first /\ R[block].last = first + size
  BY <1>2 DEF Span, Spans, RangeOf
<1>4. UnitsOf(R, block) = taken
  BY <1>3, Zenon DEF UnitsOf, Units
<1> HIDE DEF after
<1>5. first \in Int
  <2>1. first \in E
    BY <1>2
  <2> HIDE DEF first
  <2> QED
    BY <2>1 DEF Ends
<1> HIDE DEF first
<1>6. R[block].first < R[block].last
  BY <1>3, <1>5
<1> HIDE DEF taken
<1>7. FreeUnits(page) \cap StalledUnits(page) = {}
  BY <1>1 DEF Sound
<1>8. \A b \in bs : UnitsOf(R, b) \cap UnitsOf(R, block) = {}
  BY <1>2, <1>4 DEF Divided
<1>9. ASSUME NEW b \in bs \cup {block}
      PROVE  UnitsOf(R, b) \cap (StalledUnits(after) \cup FreeUnits(after)) = {}
  <2>1. CASE b \in bs
    BY <1>2, <2>1 DEF Divided
  <2>2. CASE b = block
    BY <1>2, <1>4, <1>7, <2>2
  <2> QED
    BY <2>1, <2>2
<1>10. LiveOf(R, Plus(bs, block)) = LiveOf(R, bs) \cup UnitsOf(R, block)
  BY DEF LiveOf, Plus, Minus
<1>11. LiveOf(R, Plus(bs, block)) \cup StalledUnits(after) \cup FreeUnits(after) = 0 .. P - 1
  <2> DEFINE live == LiveOf(R, bs)
  <2>1. live \cup StalledUnits(page) \cup FreeUnits(page) = 0 .. P - 1
    BY DEF Divided
  <2> HIDE DEF live
  <2>2. live \cup UnitsOf(R, block) \cup StalledUnits(after) \cup FreeUnits(after) =
          live \cup StalledUnits(page) \cup FreeUnits(page)
    BY <1>2, <1>4
  <2> QED
    BY <1>10, <2>1, <2>2 DEF live
<1>12. \A b, c \in bs \cup {block} : b # c => UnitsOf(R, b) \cap UnitsOf(R, c) = {}
  <2>1. \A b, c \in bs : b # c => UnitsOf(R, b) \cap UnitsOf(R, c) = {}
    BY DEF Divided
  <2> QED
    BY <1>8, <2>1
<1>13. Divided(after, Plus(bs, block), R, E, P)
  BY <1>2, <1>3, <1>6, <1>9, <1>11, <1>12, Zenon DEF Divided, Plus, Minus
<1> QED
  BY <1>2, <1>13 DEF after

\* A block that is freed stalls.
LEMMA DividedStall ==
    ASSUME NEW P, NEW E, Ends(E, P), NEW R, NEW bs, NEW page, Divided(page, bs, R, E, P),
           NEW block \in bs, NEW fence_value \in Nat
    PROVE  /\ Divided(Freed(page, R, block, fence_value), Minus(bs, block), R, E, P)
           /\ StalledUnits(Freed(page, R, block, fence_value)) = StalledUnits(page) \cup UnitsOf(R, block)
<1> DEFINE after == Freed(page, R, block, fence_value)
<1>1. /\ Sound(page, E, P) /\ R[block] \in Spans(E) /\ R[block].first < R[block].last
      /\ UnitsOf(R, block) \cap FreeUnits(page) = {} /\ UnitsOf(R, block) \cap StalledUnits(page) = {}
  BY DEF Divided
<1>2. /\ Sound(after, E, P)
      /\ FreeUnits(after) = FreeUnits(page)
      /\ StalledUnits(after) = StalledUnits(page) \cup UnitsOf(R, block)
  BY <1>1, StallSound DEF UnitsOf, Freed
<1> HIDE DEF after
<1>3. \A b, c \in bs : b # c => UnitsOf(R, b) \cap UnitsOf(R, c) = {}
  BY DEF Divided
<1>4. ASSUME NEW b \in bs \ {block}
      PROVE  UnitsOf(R, b) \cap (StalledUnits(after) \cup FreeUnits(after)) = {}
  <2>1. UnitsOf(R, b) \cap (StalledUnits(page) \cup FreeUnits(page)) = {}
    BY DEF Divided
  <2>2. UnitsOf(R, b) \cap UnitsOf(R, block) = {}
    BY <1>3
  <2> QED
    BY <1>2, <2>1, <2>2
<1>5. LiveOf(R, bs) = LiveOf(R, Minus(bs, block)) \cup UnitsOf(R, block)
  BY DEF LiveOf, Plus, Minus
<1>6. LiveOf(R, Minus(bs, block)) \cup StalledUnits(after) \cup FreeUnits(after) = 0 .. P - 1
  <2> DEFINE live == LiveOf(R, bs)
             others == LiveOf(R, Minus(bs, block))
  <2>1. live \cup StalledUnits(page) \cup FreeUnits(page) = 0 .. P - 1
    BY DEF Divided
  <2> HIDE DEF live, others
  <2>2. live = others \cup UnitsOf(R, block)
    BY <1>5 DEF live, others
  <2> QED
    BY <1>2, <2>1, <2>2 DEF others
<1>7. \A b \in bs \ {block} : R[b] \in Spans(E) /\ R[b].first < R[b].last
  BY DEF Divided
<1>8. Divided(after, Minus(bs, block), R, E, P)
  BY <1>2, <1>3, <1>4, <1>6, <1>7, Zenon DEF Divided, Plus, Minus
<1> QED
  BY <1>2, <1>8 DEF after

\* What stalls no longer goes back to the free list.
LEMMA DividedClear ==
    ASSUME NEW P, NEW E, Ends(E, P), NEW R, NEW bs, NEW page, Divided(page, bs, R, E, P),
           NEW fence_value \in Nat
    PROVE  Divided(ClearStalls(page, fence_value), bs, R, E, P)
<1> DEFINE after == ClearStalls(page, fence_value)
<1>1. Sound(page, E, P)
  BY DEF Divided
<1>2. /\ Sound(after, E, P)
      /\ FreeUnits(after) \cup StalledUnits(after) = FreeUnits(page) \cup StalledUnits(page)
  BY <1>1, ClearSound
<1> HIDE DEF after
<1>3. \A b \in bs : UnitsOf(R, b) \cap (StalledUnits(after) \cup FreeUnits(after)) = {}
  BY <1>2 DEF Divided
<1>4. LiveOf(R, bs) \cup StalledUnits(after) \cup FreeUnits(after) = 0 .. P - 1
  <2> DEFINE live == LiveOf(R, bs)
  <2>1. live \cup StalledUnits(page) \cup FreeUnits(page) = 0 .. P - 1
    BY DEF Divided
  <2> HIDE DEF live
  <2> QED
    BY <1>2, <2>1 DEF live
<1>5. Divided(after, bs, R, E, P)
  BY <1>2, <1>3, <1>4, Zenon DEF Divided, Plus, Minus
<1> QED
  BY <1>5 DEF after

\* In an ordered list no range touches the next.
LEMMA OrderedCoalesced ==
    ASSUME NEW P, NEW E, Ends(E, P), NEW list, Ordered(list, E, P)
    PROVE  Coalesced(list)
<1>1. list \in Seq(Spans(E)) /\ Apart(list, Len(list), P)
  BY DEF Ordered
<1>2. Len(list) \in Nat
  BY <1>1, SpansOf
<1>3. ASSUME NEW n \in 1 .. Len(list) - 1 PROVE End(list, n) < Begin(list, n + 1)
  <2>1. n \in 1 .. Len(list) /\ n + 1 \in 1 .. Len(list) /\ n < n + 1
    BY <1>2
  <2> QED
    BY <1>1, <2>1 DEF Apart
<1> QED
  BY <1>3, Zenon DEF Coalesced, Begin, End

\* Min picks one of the pages with room.
LEMMA MinChooses ==
    ASSUME NEW S, S \subseteq Nat, S # {}
    PROVE  Min(S) \in S
<1>1. PICK n \in S : \A m \in S : n <= m
  BY LeastNatural
<1> QED
  BY <1>1, Zenon DEF Min

\* The blocks bs on page p, and pages that are each divided between their blocks.
OnPage(bs, p) == {b \in bs : b.page = p}
NoneOn(bs, p) == OnPage(bs, p) = {}
PageAt(ps, p) == ps[p]

Partitioned(ps, bs, R, E, P) ==
    /\ ps \in Seq(Pages(E))
    /\ \A p \in 1 .. Len(ps) : Divided(PageAt(ps, p), OnPage(bs, p), R, E, P)

\* A new page whose first size units are taken.
FrontTaken(size, P) == NewPage(<<Span(size, P)>>)

\* The blocks bs and cs differ only on page p; no page lets go of what stalls on it.
SameBut(p, bs, cs) == \A q : q # p => OnPage(cs, q) = OnPage(bs, q)
Appended(ps, page) == Append(ps, page)
Replaced(ps, p, page) == [ps EXCEPT ![p] = page]
KeepsStalled(ps, after) == \A q \in 1 .. Len(ps) : StalledUnits(PageAt(ps, q)) \subseteq StalledUnits(PageAt(after, q))
KeepsWaiting(ps, after) == \A q \in 1 .. Len(ps) : \A s : Waits(PageAt(ps, q), s) => Waits(PageAt(after, q), s)

\* A step that changes one page and waits there for all it waited for.
LEMMA OnePageWaits ==
    ASSUME NEW E, NEW ps \in Seq(Pages(E)), NEW p \in 1 .. Len(ps), NEW page,
           \A s : Waits(PageAt(ps, p), s) => Waits(page, s)
    PROVE  KeepsWaiting(ps, Replaced(ps, p, page)) /\ PageAt(Replaced(ps, p, page), p) = page
<1> DEFINE after == Replaced(ps, p, page)
<1>1. PageAt(after, p) = page /\ \A q \in 1 .. Len(ps) : q # p => PageAt(after, q) = PageAt(ps, q)
  BY DEF Replaced, PageAt
<1> HIDE DEF after
<1>2. KeepsWaiting(ps, after)
  BY <1>1 DEF KeepsWaiting
<1> QED
  BY <1>1, <1>2 DEF after

\* A step that changes one page and the blocks on it leaves the others as they were.
LEMMA OnePageChanges ==
    ASSUME NEW P, NEW E, NEW R, NEW bs, NEW ps, Partitioned(ps, bs, R, E, P),
           NEW p \in 1 .. Len(ps), NEW cs, SameBut(p, bs, cs),
           NEW page, Divided(page, OnPage(cs, p), R, E, P),
           StalledUnits(PageAt(ps, p)) \subseteq StalledUnits(page),
           NEW after, after = Replaced(ps, p, page)
    PROVE  /\ Partitioned(after, cs, R, E, P)
           /\ Len(after) = Len(ps)
           /\ KeepsStalled(ps, after)
           /\ StalledUnits(PageAt(after, p)) = StalledUnits(page)
<1>1. ps \in Seq(Pages(E)) /\ page \in Pages(E)
  BY DEF Partitioned, Divided, Sound
<1>2. after \in Seq(Pages(E)) /\ Len(after) = Len(ps)
  BY <1>1, ExceptSeq DEF Replaced
<1>3. PageAt(after, p) = page /\ \A q \in 1 .. Len(ps) : q # p => PageAt(after, q) = PageAt(ps, q)
  BY <1>1 DEF Replaced, PageAt
<1>4. \A q \in 1 .. Len(ps) : Divided(PageAt(after, q), OnPage(cs, q), R, E, P)
  BY <1>3 DEF Partitioned, SameBut
<1>5. KeepsStalled(ps, after)
  BY <1>3 DEF KeepsStalled
<1> QED
  BY <1>2, <1>3, <1>4, <1>5 DEF Partitioned

\* A block placed on a page that has room.
LEMMA PartitionedPut ==
    ASSUME NEW P, NEW E, Ends(E, P), NEW R, NEW bs, NEW ps, Partitioned(ps, bs, R, E, P),
           NEW p \in 1 .. Len(ps), NEW size \in Nat \ {0}, HasRoom(PageAt(ps, p).free, size),
           Steps(E, P, size), NEW block, block.page = p,
           RangeOf(R, block) = Span(CutAt(PageAt(ps, p), size), CutAt(PageAt(ps, p), size) + size),
           NEW after, after = Replaced(ps, p, Cut(PageAt(ps, p), size))
    PROVE  /\ Partitioned(after, Plus(bs, block), R, E, P)
           /\ Len(after) = Len(ps)
           /\ KeepsStalled(ps, after)
<1> DEFINE page == PageAt(ps, p)
<1>1. Divided(page, OnPage(bs, p), R, E, P)
  BY DEF Partitioned
<1>2. /\ Divided(Cut(page, size), Plus(OnPage(bs, p), block), R, E, P)
      /\ StalledUnits(Cut(page, size)) = StalledUnits(page)
  BY <1>1, DividedTake
<1>3. OnPage(Plus(bs, block), p) = Plus(OnPage(bs, p), block)
  BY DEF OnPage, Plus, Minus
<1>4. SameBut(p, bs, Plus(bs, block))
  BY DEF OnPage, SameBut, Plus, Minus
<1> QED
  BY <1>2, <1>3, <1>4, OnePageChanges

\* A block that gets the front of a new page.
LEMMA PartitionedNew ==
    ASSUME NEW P, NEW E, Ends(E, P), 0 \in E, P \in E, NEW R, NEW bs, NEW ps,
           Partitioned(ps, bs, R, E, P), NEW size \in E, 0 < size,
           NoneOn(bs, Len(ps) + 1), NEW block, block.page = Len(ps) + 1, RangeOf(R, block) = Span(0, size),
           NEW after, after = Appended(ps, FrontTaken(size, P))
    PROVE  /\ Partitioned(after, Plus(bs, block), R, E, P)
           /\ Len(after) = Len(ps) + 1
           /\ KeepsStalled(ps, after)
<1> DEFINE page == FrontTaken(size, P)
<1>1. Divided(page, {block}, R, E, P)
  BY DividedNew DEF FrontTaken
<1> HIDE DEF page
<1>2. ps \in Seq(Pages(E)) /\ page \in Pages(E) /\ Len(ps) \in Nat
  <2>1. ps \in Seq(Pages(E)) /\ page \in Pages(E)
    BY <1>1 DEF Partitioned, Divided, Sound
  <2> QED
    BY <2>1, LenProperties
<1>3. /\ after \in Seq(Pages(E))
      /\ Len(after) = Len(ps) + 1
      /\ \A q \in 1 .. Len(ps) : PageAt(after, q) = PageAt(ps, q)
      /\ PageAt(after, Len(ps) + 1) = page
  BY <1>2, AppendProperties DEF page, PageAt, Appended
<1>4. \A q \in 1 .. Len(ps) + 1 : q \in 1 .. Len(ps) \/ q = Len(ps) + 1
  BY <1>2
<1>5. \A q \in 1 .. Len(ps) : q # Len(ps) + 1
  BY <1>2
<1>6. OnPage(Plus(bs, block), Len(ps) + 1) = {block}
  BY DEF OnPage, NoneOn, Plus
<1>7. \A q \in 1 .. Len(ps) : OnPage(Plus(bs, block), q) = OnPage(bs, q)
  BY <1>5 DEF OnPage, Plus, Minus
<1>8. \A q \in 1 .. Len(ps) + 1 : Divided(PageAt(after, q), OnPage(Plus(bs, block), q), R, E, P)
  <2>1. \A q \in 1 .. Len(ps) : Divided(PageAt(after, q), OnPage(Plus(bs, block), q), R, E, P)
    BY <1>3, <1>7 DEF Partitioned
  <2> QED
    BY <1>1, <1>3, <1>4, <1>6, <2>1
<1>9. Partitioned(after, Plus(bs, block), R, E, P)
  BY <1>3, <1>8 DEF Partitioned
<1>10. KeepsStalled(ps, after)
  BY <1>3 DEF KeepsStalled
<1> QED
  BY <1>3, <1>9, <1>10

\* A block that is released stalls on its page.
LEMMA PartitionedRelease ==
    ASSUME NEW P, NEW E, Ends(E, P), NEW R, NEW bs, NEW ps, Partitioned(ps, bs, R, E, P),
           NEW block \in bs, NEW p \in 1 .. Len(ps), block.page = p, NEW fence_value \in Nat,
           NEW after, after = Replaced(ps, p, Freed(PageAt(ps, p), R, block, fence_value))
    PROVE  /\ Partitioned(after, Minus(bs, block), R, E, P)
           /\ Len(after) = Len(ps)
           /\ KeepsStalled(ps, after)
           /\ UnitsOf(R, block) \subseteq StalledUnits(PageAt(after, p))
<1> DEFINE page == Freed(PageAt(ps, p), R, block, fence_value)
<1>1. Divided(PageAt(ps, p), OnPage(bs, p), R, E, P) /\ block \in OnPage(bs, p)
  BY DEF Partitioned, OnPage
<1>2. /\ Divided(page, Minus(OnPage(bs, p), block), R, E, P)
      /\ StalledUnits(page) = StalledUnits(PageAt(ps, p)) \cup UnitsOf(R, block)
  BY <1>1, DividedStall
<1> HIDE DEF page
<1>3. OnPage(Minus(bs, block), p) = Minus(OnPage(bs, p), block)
  BY DEF OnPage, Plus, Minus
<1>4. SameBut(p, bs, Minus(bs, block))
  BY DEF OnPage, SameBut, Plus, Minus
<1>5. /\ Partitioned(after, Minus(bs, block), R, E, P)
      /\ Len(after) = Len(ps)
      /\ KeepsStalled(ps, after)
      /\ StalledUnits(PageAt(after, p)) = StalledUnits(page)
  BY <1>2, <1>3, <1>4, OnePageChanges DEF page
<1> QED
  BY <1>2, <1>5

\* Every page gives back what no longer stalls.
LEMMA PartitionedClear ==
    ASSUME NEW P, NEW E, Ends(E, P), NEW R, NEW bs, NEW ps, Partitioned(ps, bs, R, E, P),
           NEW fence_value \in Nat,
           NEW after, after = [p \in DOMAIN ps |-> ClearStalls(PageAt(ps, p), fence_value)]
    PROVE  /\ Partitioned(after, bs, R, E, P)
           /\ Len(after) = Len(ps)
           /\ \A p \in 1 .. Len(ps) : \A n \in 1 .. Len(PageAt(ps, p).stall) :
                PageAt(ps, p).stall[n].fence_value > fence_value =>
                   StalledAt(PageAt(ps, p), n) \subseteq StalledUnits(PageAt(after, p))
           /\ \A p \in 1 .. Len(ps) : \A s :
                Waits(PageAt(ps, p), s) /\ s.fence_value > fence_value => Waits(PageAt(after, p), s)
<1>1. ps \in Seq(Pages(E))
  BY DEF Partitioned
<1>2. Len(ps) \in Nat /\ DOMAIN ps = 1 .. Len(ps)
  BY <1>1, LenProperties
<1>3. \A p \in 1 .. Len(ps) : PageAt(after, p) = ClearStalls(PageAt(ps, p), fence_value)
  BY <1>2, Zenon DEF PageAt
<1>4. \A p \in 1 .. Len(ps) : Divided(ClearStalls(PageAt(ps, p), fence_value), OnPage(bs, p), R, E, P)
  BY DividedClear DEF Partitioned
<1>5. \A p \in 1 .. Len(ps) : ClearStalls(PageAt(ps, p), fence_value) \in Pages(E)
  BY <1>4 DEF Divided, Sound
<1>6. after \in Seq(Pages(E)) /\ Len(after) = Len(ps)
  <2>1. after = [p \in 1 .. Len(ps) |-> ClearStalls(PageAt(ps, p), fence_value)]
    BY <1>2, Zenon
  <2>2. after \in [1 .. Len(ps) -> Pages(E)]
    BY <1>5, <2>1, Zenon
  <2>3. after \in Seq(Pages(E)) /\ DOMAIN after = 1 .. Len(ps)
    BY <1>2, <2>2
  <2> QED
    BY <1>2, <2>3, LenProperties
<1>7. Partitioned(after, bs, R, E, P)
  BY <1>3, <1>4, <1>6 DEF Partitioned
<1>8. \A p \in 1 .. Len(ps) : \A n \in 1 .. Len(PageAt(ps, p).stall) :
         PageAt(ps, p).stall[n].fence_value > fence_value =>
            StalledAt(PageAt(ps, p), n) \subseteq StalledUnits(ClearStalls(PageAt(ps, p), fence_value))
  <2> SUFFICES ASSUME NEW p \in 1 .. Len(ps)
               PROVE  \A n \in 1 .. Len(PageAt(ps, p).stall) :
                        PageAt(ps, p).stall[n].fence_value > fence_value =>
                           StalledAt(PageAt(ps, p), n) \subseteq StalledUnits(ClearStalls(PageAt(ps, p), fence_value))
    OBVIOUS
  <2> DEFINE page == PageAt(ps, p)
  <2>1. Sound(page, E, P)
    BY DEF Partitioned, Divided
  <2> HIDE DEF page
  <2>2. \A n \in 1 .. Len(page.stall) :
          page.stall[n].fence_value > fence_value =>
             StalledAt(page, n) \subseteq StalledUnits(ClearStalls(page, fence_value))
    BY <2>1, ClearSound
  <2> QED
    BY <2>2 DEF page
<1>9. ASSUME NEW p \in 1 .. Len(ps), NEW s, Waits(PageAt(ps, p), s), s.fence_value > fence_value
      PROVE  Waits(PageAt(after, p), s)
  <2> DEFINE page == PageAt(ps, p)
  <2>1. Sound(page, E, P)
    BY DEF Partitioned, Divided
  <2>2. PICK n \in 1 .. Len(page.stall) : page.stall[n] = s
    BY <1>9 DEF Waits
  <2> HIDE DEF page
  <2>3. Waits(ClearStalls(page, fence_value), page.stall[n])
    BY <1>9, <2>1, <2>2, ClearSound
  <2> QED
    BY <1>3, <2>2, <2>3 DEF page
<1> QED
  BY <1>3, <1>6, <1>7, <1>8, <1>9

=============================================================================
