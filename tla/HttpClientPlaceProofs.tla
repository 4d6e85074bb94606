----------------------- MODULE HttpClientPlaceProofs ----------------------
(***************************************************************************)
(* Where every transfer of src/src/network/HttpClient.zig is, at every     *)
(* moment: Places, the inductive invariant behind the client's safety      *)
(* properties, and what the steps that move one transfer keep of it.       *)
(***************************************************************************)
EXTENDS HttpClientProofs, SequenceTheorems, FiniteSetTheorems

-----------------------------------------------------------------------------
(* Sequences that hold each element of a set exactly once                  *)

Once(s, A) == /\ s \in Seq(A)
              /\ \A i, j \in 1..Len(s) : s[i] = s[j] => i = j
              /\ \A a \in A : \E i \in 1..Len(s) : s[i] = a

(* What it says of the operators of the community modules.                 *)
LEMMA OnceMeans ==
  ASSUME NEW s, NEW A, Once(s, A)
  PROVE  /\ IsInjective(s) /\ ToSet(s) = A /\ Len(s) \in Nat
         /\ \A t : Contains(s, t) <=> t \in A
         /\ s = <<>> <=> A = {}
<1>1. s \in Seq(A) /\ DOMAIN s = 1..Len(s) /\ Len(s) \in Nat
  BY LenProperties DEF Once
<1>2. \A i \in 1..Len(s) : s[i] \in A
  BY <1>1, ElementOfSeq
<1>3. IsInjective(s)
  BY <1>1 DEF Once, IsInjective
<1>4. ToSet(s) = A
  BY <1>1, <1>2 DEF Once, ToSet
<1>5. \A t : Contains(s, t) <=> t \in A
  BY <1>2 DEF Once, Contains
<1>6. s = <<>> <=> A = {}
  <2>1. s = <<>> <=> Len(s) = 0
    BY <1>1, EmptyLen
  <2>2. Len(s) # 0 => s[1] \in A
    BY <1>1, <1>2
  <2>3. Len(s) = 0 => A = {}
    BY <1>1 DEF Once
  <2> QED BY <2>1, <2>2, <2>3
<1> QED BY <1>1, <1>3, <1>4, <1>5, <1>6

(* The converse, for a well-typed sequence.                                *)
LEMMA OnceIs ==
  ASSUME NEW S, NEW s \in Seq(S), IsInjective(s)
  PROVE  Once(s, ToSet(s))
<1>1. DOMAIN s = 1..Len(s) /\ Len(s) \in Nat
  BY LenProperties
<1>2. s \in [1..Len(s) -> ToSet(s)]
  BY <1>1, LenProperties DEF ToSet
<1>3. s \in Seq(ToSet(s))
  BY <1>1, <1>2
<1> QED BY <1>1, <1>3 DEF Once, ToSet, IsInjective

(* The empty sequence holds nothing.                                       *)
LEMMA OnceEmpty == Once(<<>>, {})
BY DEF Once

(* The first element comes off.                                            *)
LEMMA OnceTail ==
  ASSUME NEW s, NEW A, Once(s, A), s # <<>>
  PROVE  /\ Head(s) \in A /\ Once(Tail(s), A \ {Head(s)})
         /\ Len(Tail(s)) = Len(s) - 1
<1> DEFINE r == Tail(s)
           B == A \ {Head(s)}
<1>1. /\ s \in Seq(A) /\ Head(s) \in A /\ r \in Seq(A) /\ Len(s) \in Nat
      /\ Len(r) \in Nat /\ Len(r) = Len(s) - 1 /\ Head(s) = s[1] /\ Len(s) >= 1
      /\ \A i \in 1..Len(r) : r[i] = s[i + 1]
  BY PopSeq, LenProperties DEF Once
<1> HIDE DEF r
<1>2. \A i, j \in 1..Len(s) : s[i] = s[j] => i = j
  BY DEF Once
<1>3. \A i \in 1..Len(r) : r[i] \in B
  <2> TAKE i \in 1..Len(r)
  <2>1. r[i] \in A
    BY <1>1, ElementOfSeq
  <2>2. i + 1 \in 1..Len(s) /\ 1 \in 1..Len(s) /\ i + 1 # 1
    BY <1>1
  <2>3. s[i + 1] # s[1]
    BY <1>2, <2>2
  <2> QED BY <1>1, <2>1, <2>3
<1>4. r \in [1..Len(r) -> B]
  <2>1. r \in [1..Len(r) -> A]
    BY <1>1, LenProperties
  <2> QED BY <1>3, <2>1
<1>5. r \in Seq(B)
  BY <1>1, <1>4
<1>6. \A i, j \in 1..Len(r) : r[i] = r[j] => i = j
  <2> TAKE i, j \in 1..Len(r)
  <2>1. i + 1 \in 1..Len(s) /\ j + 1 \in 1..Len(s)
    BY <1>1
  <2>2. s[i + 1] = s[j + 1] => i + 1 = j + 1
    BY <1>2, <2>1
  <2> QED BY <1>1, <2>2
<1>7. ASSUME NEW a \in B PROVE \E i \in 1..Len(r) : r[i] = a
  <2>1. PICK i \in 1..Len(s) : s[i] = a
    BY DEF Once
  <2>2. i # 1
    BY <1>1, <2>1
  <2>3. i - 1 \in 1..Len(r) /\ i = (i - 1) + 1
    BY <1>1, <2>2
  <2>4. r[i - 1] = s[i]
    BY <1>1, <2>3
  <2> QED BY <2>1, <2>3, <2>4
<1> QED BY <1>1, <1>5, <1>6, <1>7 DEF Once, r

(* A new one goes to the end ...                                           *)
LEMMA OnceAppend ==
  ASSUME NEW s, NEW A, Once(s, A), NEW t, t \notin A
  PROVE  /\ Once(Append(s, t), A \cup {t}) /\ Len(Append(s, t)) = Len(s) + 1
<1> DEFINE r == Append(s, t)
           B == A \cup {t}
<1>1. s \in Seq(A) /\ s \in Seq(B) /\ t \in B /\ Len(s) \in Nat
  BY SeqGrows, LenProperties DEF Once
<1>2. /\ r \in Seq(B) /\ Len(r) = Len(s) + 1 /\ r[Len(s) + 1] = t
      /\ \A i \in 1..Len(s) : r[i] = s[i]
  BY <1>1, AppendProperties
<1>3. \A i \in 1..Len(s) : s[i] \in A
  BY <1>1, ElementOfSeq
<1> HIDE DEF r
<1>4. \A i, j \in 1..Len(r) : r[i] = r[j] => i = j
  <2> TAKE i, j \in 1..Len(r)
  <2>1. (i \in 1..Len(s) \/ i = Len(s) + 1) /\ (j \in 1..Len(s) \/ j = Len(s) + 1)
    BY <1>1, <1>2
  <2> QED BY <1>2, <1>3, <2>1 DEF Once
<1>5. \A a \in B : \E i \in 1..Len(r) : r[i] = a
  <2> TAKE a \in B
  <2>1. CASE a \in A
    <3>1. PICK i \in 1..Len(s) : s[i] = a
      BY <2>1 DEF Once
    <3>2. i \in 1..Len(r)
      BY <1>1, <1>2
    <3> QED BY <1>2, <3>1, <3>2
  <2>2. CASE a = t
    <3>1. Len(s) + 1 \in 1..Len(r)
      BY <1>1, <1>2
    <3> QED BY <1>2, <2>2, <3>1
  <2> QED BY <2>1, <2>2
<1> QED BY <1>2, <1>4, <1>5 DEF Once, r

(* ... to the front ...                                                    *)
LEMMA OncePush ==
  ASSUME NEW s, NEW A, Once(s, A), NEW t, t \notin A
  PROVE  /\ Once(<<t>> \o s, A \cup {t}) /\ Len(<<t>> \o s) = Len(s) + 1
<1> DEFINE r == <<t>> \o s
           B == A \cup {t}
<1>1. s \in Seq(A) /\ s \in Seq(B) /\ t \in B /\ Len(s) \in Nat
  BY SeqGrows, LenProperties DEF Once
<1>2. /\ r \in Seq(B) /\ Len(r) = Len(s) + 1 /\ r[1] = t
      /\ \A i \in 1..Len(s) : r[i + 1] = s[i]
  BY <1>1, PushSeq
<1>3. \A i \in 1..Len(s) : s[i] \in A
  BY <1>1, ElementOfSeq
<1> HIDE DEF r
<1>4. \A i, j \in 1..Len(r) : r[i] = r[j] => i = j
  <2> TAKE i, j \in 1..Len(r)
  <2>1. /\ i = 1 \/ (i - 1 \in 1..Len(s) /\ i = (i - 1) + 1)
        /\ j = 1 \/ (j - 1 \in 1..Len(s) /\ j = (j - 1) + 1)
    BY <1>1, <1>2
  <2>2. (i = 1 \/ r[i] = s[i - 1]) /\ (j = 1 \/ r[j] = s[j - 1])
    BY <1>2, <2>1
  <2>3. \A k, l \in 1..Len(s) : s[k] = s[l] => k = l
    BY DEF Once
  <2>4. CASE i # 1 /\ j # 1
    <3>1. i - 1 \in 1..Len(s) /\ j - 1 \in 1..Len(s)
      BY <2>1, <2>4
    <3>2. s[i - 1] = s[j - 1] => i - 1 = j - 1
      BY <2>3, <3>1
    <3> QED BY <2>2, <2>4, <3>2
  <2>5. CASE i = 1 \/ j = 1
    BY <1>2, <1>3, <2>1, <2>2, <2>5
  <2> QED BY <2>4, <2>5
<1>5. \A a \in B : \E i \in 1..Len(r) : r[i] = a
  <2> TAKE a \in B
  <2>1. CASE a \in A
    <3>1. PICK i \in 1..Len(s) : s[i] = a
      BY <2>1 DEF Once
    <3>2. i + 1 \in 1..Len(r)
      BY <1>1, <1>2
    <3> QED BY <1>2, <3>1, <3>2
  <2>2. CASE a = t
    <3>1. 1 \in 1..Len(r)
      BY <1>1, <1>2
    <3> QED BY <1>2, <2>2, <3>1
  <2> QED BY <2>1, <2>2
<1> QED BY <1>2, <1>4, <1>5 DEF Once, r

(* r is s without its position p, rearranged by m.                         *)
Picks(s, r, m, p) ==
  /\ p \in 1..Len(s) /\ m \in [1..Len(r) -> 1..Len(s)]
  /\ \A k \in 1..Len(r) : r[k] = s[m[k]] /\ m[k] # p
  /\ \A k, l \in 1..Len(r) : m[k] = m[l] => k = l
  /\ \A i \in 1..Len(s) : i # p => \E k \in 1..Len(r) : m[k] = i

(* Such a sequence lost exactly the element at p.                          *)
LEMMA OnceDrop ==
  ASSUME NEW s, NEW A, Once(s, A), NEW r \in Seq(A), NEW m, NEW p,
         Picks(s, r, m, p)
  PROVE  Once(r, A \ {s[p]})
<1> DEFINE B == A \ {s[p]}
<1>1. s \in Seq(A) /\ (\A i, j \in 1..Len(s) : s[i] = s[j] => i = j)
  BY DEF Once
<1>2. ASSUME NEW k \in 1..Len(r) PROVE r[k] \in B
  <2>1. m[k] \in 1..Len(s) /\ p \in 1..Len(s) /\ r[k] = s[m[k]] /\ m[k] # p
    BY DEF Picks
  <2>2. s[m[k]] \in A
    BY <1>1, <2>1, ElementOfSeq
  <2> QED BY <1>1, <2>1, <2>2
<1>3. r \in Seq(B)
  <2>1. r \in [1..Len(r) -> A] /\ Len(r) \in Nat
    BY LenProperties
  <2>2. r \in [1..Len(r) -> B]
    BY <1>2, <2>1
  <2> QED BY <2>1, <2>2
<1>4. ASSUME NEW k \in 1..Len(r), NEW l \in 1..Len(r), r[k] = r[l] PROVE k = l
  <2>1. /\ m[k] \in 1..Len(s) /\ m[l] \in 1..Len(s)
        /\ r[k] = s[m[k]] /\ r[l] = s[m[l]] /\ (m[k] = m[l] => k = l)
    BY DEF Picks
  <2>2. m[k] = m[l]
    BY <1>1, <1>4, <2>1
  <2> QED BY <2>1, <2>2
<1>5. ASSUME NEW a \in B PROVE \E k \in 1..Len(r) : r[k] = a
  <2>1. PICK i \in 1..Len(s) : s[i] = a
    BY DEF Once
  <2>2. i # p
    BY <2>1
  <2>3. PICK k \in 1..Len(r) : m[k] = i /\ r[k] = s[m[k]]
    BY <2>2 DEF Picks
  <2> QED BY <2>1, <2>3
<1> QED BY <1>3, <1>4, <1>5 DEF Once

(* RemoveAt, position by position.                                         *)
LEMMA RemovedAt ==
  ASSUME NEW S, NEW s \in Seq(S), NEW p \in 1..Len(s)
  PROVE  /\ RemoveAt(s, p) \in Seq(S) /\ Len(RemoveAt(s, p)) = Len(s) - 1
         /\ \A k \in 1..Len(s) - 1 :
              RemoveAt(s, p)[k] = IF k < p THEN s[k] ELSE s[k + 1]
<1> DEFINE n == Len(s)
           a == SubSeq(s, 1, p - 1)
           b == SubSeq(s, p + 1, n)
<1>1. n \in Nat /\ p \in Int /\ 1 <= p /\ p <= n /\ \A i \in 1..n : s[i] \in S
  BY LenProperties, ElementOfSeq
<1> HIDE DEF n
<1>2. \A i \in 1..p - 1 : s[i] \in S
  BY <1>1
<1>3. \A i \in p + 1..n : s[i] \in S
  BY <1>1
<1>4. /\ a \in Seq(S) /\ Len(a) = p - 1
      /\ \A i \in 1..p - 1 : a[i] = s[i]
  <2>1. /\ a \in Seq(S) /\ Len(a) = (IF 1 <= p - 1 THEN (p - 1) - 1 + 1 ELSE 0)
        /\ \A i \in 1..(p - 1) - 1 + 1 : a[i] = s[1 + i - 1]
    BY <1>1, <1>2, SubSeqProperties
  <2> HIDE DEF a
  <2> QED BY <1>1, <2>1
<1>5. /\ b \in Seq(S) /\ Len(b) = n - p
      /\ \A i \in 1..n - p : b[i] = s[p + i]
  <2>1. /\ b \in Seq(S) /\ Len(b) = (IF p + 1 <= n THEN n - (p + 1) + 1 ELSE 0)
        /\ \A i \in 1..n - (p + 1) + 1 : b[i] = s[(p + 1) + i - 1]
    <3>1. p + 1 \in Int /\ n \in Int
      BY <1>1
    <3> QED BY <1>3, <3>1, SubSeqProperties
  <2> HIDE DEF b
  <2>2. n - (p + 1) + 1 = n - p /\ \A i \in Int : (p + 1) + i - 1 = p + i
    BY <1>1
  <2> QED BY <1>1, <2>1, <2>2
<1> HIDE DEF a, b
<1>6. /\ a \o b \in Seq(S) /\ Len(a \o b) = Len(a) + Len(b)
      /\ \A k \in 1..Len(a) + Len(b) :
           (a \o b)[k] = IF k <= Len(a) THEN a[k] ELSE b[k - Len(a)]
  BY <1>4, <1>5, ConcatProperties
<1>7. ASSUME NEW k \in 1..n - 1
      PROVE  (a \o b)[k] = IF k < p THEN s[k] ELSE s[k + 1]
  <2>1. k \in 1..Len(a) + Len(b)
    BY <1>1, <1>4, <1>5
  <2>2. CASE k < p
    <3>1. k <= Len(a) /\ k \in 1..p - 1
      BY <1>1, <1>4, <2>2
    <3> QED BY <1>4, <1>6, <2>1, <2>2, <3>1
  <2>3. CASE ~(k < p)
    <3>1. /\ ~(k <= Len(a)) /\ k - Len(a) \in 1..n - p
          /\ p + (k - Len(a)) = k + 1
      BY <1>1, <1>4, <2>3
    <3>2. (a \o b)[k] = b[k - Len(a)]
      BY <1>6, <2>1, <3>1
    <3> QED BY <1>5, <2>3, <3>1, <3>2
  <2> QED BY <2>2, <2>3
<1>8. RemoveAt(s, p) = a \o b
  BY DEF RemoveAt, a, b, n
<1>9. Len(a) + Len(b) = n - 1
  BY <1>1, <1>4, <1>5
<1> QED BY <1>6, <1>7, <1>8, <1>9 DEF n

(* Taking out one position takes out the element there.                    *)
LEMMA OnceRemoveAt ==
  ASSUME NEW s, NEW A, Once(s, A), NEW p \in 1..Len(s)
  PROVE  /\ Once(RemoveAt(s, p), A \ {s[p]})
         /\ Len(RemoveAt(s, p)) = Len(s) - 1
<1> DEFINE r == RemoveAt(s, p)
           m == [k \in 1..Len(r) |-> IF k < p THEN k ELSE k + 1]
<1>1. s \in Seq(A) /\ Len(s) \in Nat
  BY LenProperties DEF Once
<1>2. /\ r \in Seq(A) /\ Len(r) = Len(s) - 1
      /\ \A k \in 1..Len(s) - 1 : r[k] = IF k < p THEN s[k] ELSE s[k + 1]
  BY <1>1, RemovedAt
<1> HIDE DEF r
<1>3. \A k \in 1..Len(r) : m[k] = IF k < p THEN k ELSE k + 1
  OBVIOUS
<1>4. m \in [1..Len(r) -> 1..Len(s)]
  BY <1>1, <1>2
<1>5. \A k \in 1..Len(r) : r[k] = s[m[k]] /\ m[k] # p
  BY <1>1, <1>2
<1>6. \A k, l \in 1..Len(r) : m[k] = m[l] => k = l
  BY <1>1, <1>2
<1>7. ASSUME NEW i \in 1..Len(s), i # p PROVE \E k \in 1..Len(r) : m[k] = i
  <2>1. CASE i < p
    <3>1. i \in 1..Len(r)
      BY <1>1, <1>2, <2>1
    <3> QED BY <2>1, <3>1
  <2>2. CASE ~(i < p)
    <3>1. i - 1 \in 1..Len(r) /\ ~(i - 1 < p) /\ (i - 1) + 1 = i
      BY <1>1, <1>2, <1>7, <2>2
    <3>2. m[i - 1] = i
      BY <3>1
    <3> QED BY <3>1, <3>2
  <2> QED BY <2>1, <2>2
<1> HIDE DEF m
<1>8. Once(r, A \ {s[p]})
  <2>1. Picks(s, r, m, p)
    BY <1>4, <1>5, <1>6, <1>7 DEF Picks
  <2> QED BY <1>2, <2>1, OnceDrop
<1> QED BY <1>2, <1>8 DEF r

(* IndexOf finds what the sequence contains.                               *)
LEMMA Found ==
  ASSUME NEW s, NEW t, Contains(s, t)
  PROVE  IndexOf(s, t) \in 1..Len(s) /\ s[IndexOf(s, t)] = t
BY DEF Contains, IndexOf

(* Unlink takes a transfer out of a queue, if it is there.                 *)
LEMMA OnceUnlink ==
  ASSUME NEW s, NEW A, Once(s, A), NEW t
  PROVE  /\ Once(Unlink(s, t), A \ {t})
         /\ Len(Unlink(s, t)) = IF t \in A THEN Len(s) - 1 ELSE Len(s)
<1>1. Contains(s, t) <=> t \in A
  BY OnceMeans
<1>2. CASE t \in A
  <2>1. IndexOf(s, t) \in 1..Len(s) /\ s[IndexOf(s, t)] = t
    BY <1>1, <1>2, Found
  <2>2. Unlink(s, t) = RemoveAt(s, IndexOf(s, t))
    BY <1>1, <1>2 DEF Unlink
  <2> DEFINE p == IndexOf(s, t)
  <2> HIDE DEF p
  <2>3. p \in 1..Len(s) /\ s[p] = t /\ Unlink(s, t) = RemoveAt(s, p)
    BY <2>1, <2>2 DEF p
  <2>4. Once(RemoveAt(s, p), A \ {s[p]}) /\ Len(RemoveAt(s, p)) = Len(s) - 1
    BY <2>3, OnceRemoveAt
  <2> QED BY <1>2, <2>3, <2>4
<1>3. CASE t \notin A
  <2>1. Unlink(s, t) = s /\ A \ {t} = A
    BY <1>1, <1>3 DEF Unlink
  <2> QED BY <1>3, <2>1
<1> QED BY <1>2, <1>3

(* So does SwapRemove.                                                     *)
LEMMA OnceSwapRemove ==
  ASSUME NEW s, NEW A, Once(s, A), NEW t
  PROVE  Once(SwapRemove(s, t), A \ {t})
<1>1. Contains(s, t) <=> t \in A
  BY OnceMeans
<1>2. CASE t \in A
  <2> DEFINE p == IndexOf(s, t)
             n == Len(s)
             w == [s EXCEPT ![p] = s[n]]
             r == SubSeq(w, 1, n - 1)
             m == [k \in 1..Len(r) |-> IF k = p THEN n ELSE k]
  <2>1. p \in 1..n /\ s[p] = t /\ SwapRemove(s, t) = r
    BY <1>1, <1>2, Found DEF SwapRemove
  <2>2. s \in Seq(A) /\ n \in Nat /\ DOMAIN s = 1..n /\ s \in [1..n -> A]
    BY LenProperties DEF Once
  <2> HIDE DEF p, n
  <2>3. \A k \in 1..n : w[k] \in A /\ w[k] = s[IF k = p THEN n ELSE k]
    BY <2>1, <2>2
  <2>4. \A k \in 1..n - 1 : w[k] \in A
    BY <2>2, <2>3
  <2>5. /\ r \in Seq(A) /\ Len(r) = n - 1 /\ \A k \in 1..n - 1 : r[k] = w[k]
    <3> HIDE DEF w
    <3>1. /\ r \in Seq(A) /\ Len(r) = (IF 1 <= n - 1 THEN (n - 1) - 1 + 1 ELSE 0)
          /\ \A k \in 1..(n - 1) - 1 + 1 : r[k] = w[1 + k - 1]
      BY <2>2, <2>4, SubSeqProperties
    <3> HIDE DEF r
    <3> QED BY <2>1, <2>2, <3>1
  <2> HIDE DEF w, r
  <2>6. m \in [1..Len(r) -> 1..n]
    BY <2>1, <2>2, <2>5
  <2>7. \A k \in 1..Len(r) : r[k] = s[m[k]] /\ m[k] # p
    BY <2>1, <2>2, <2>3, <2>5
  <2>8. \A k, l \in 1..Len(r) : m[k] = m[l] => k = l
    BY <2>1, <2>2, <2>5
  <2>9. ASSUME NEW i \in 1..n, i # p PROVE \E k \in 1..Len(r) : m[k] = i
    <3>1. CASE i # n
      <4>1. i \in 1..Len(r)
        BY <2>2, <2>5, <3>1
      <4> QED BY <2>9, <4>1
    <3>2. CASE i = n
      <4>1. p \in 1..Len(r)
        BY <2>1, <2>2, <2>5, <2>9, <3>2
      <4> QED BY <3>2, <4>1
    <3> QED BY <3>1, <3>2
  <2> HIDE DEF m
  <2>10. Once(r, A \ {s[p]})
    <3>1. Picks(s, r, m, p)
      BY <2>1, <2>6, <2>7, <2>8, <2>9 DEF Picks, n
    <3> QED BY <2>5, <3>1, OnceDrop
  <2> QED BY <2>1, <2>10
<1>3. CASE t \notin A
  <2>1. SwapRemove(s, t) = s /\ A \ {t} = A
    BY <1>1, <1>3 DEF SwapRemove
  <2> QED BY <2>1
<1> QED BY <1>2, <1>3

(* InsertAt, position by position.                                         *)
LEMMA InsertedAt ==
  ASSUME NEW S, NEW s \in Seq(S), NEW p \in 1..Len(s) + 1, NEW t \in S
  PROVE  /\ InsertAt(s, p, t) \in Seq(S) /\ Len(InsertAt(s, p, t)) = Len(s) + 1
         /\ \A k \in 1..Len(s) + 1 :
              InsertAt(s, p, t)[k] = IF k < p THEN s[k]
                                     ELSE IF k = p THEN t ELSE s[k - 1]
<1> DEFINE n == Len(s)
           a == SubSeq(s, 1, p - 1)
           b == SubSeq(s, p, n)
           c == <<t>> \o b
<1>1. n \in Nat /\ p \in Int /\ 1 <= p /\ p <= n + 1 /\ \A i \in 1..n : s[i] \in S
  BY LenProperties, ElementOfSeq
<1> HIDE DEF n
<1>2. (\A i \in 1..p - 1 : s[i] \in S) /\ (\A i \in p..n : s[i] \in S)
  BY <1>1
<1>4. /\ a \in Seq(S) /\ Len(a) = p - 1
      /\ \A i \in 1..p - 1 : a[i] = s[i]
  <2>1. /\ a \in Seq(S) /\ Len(a) = (IF 1 <= p - 1 THEN (p - 1) - 1 + 1 ELSE 0)
        /\ \A i \in 1..(p - 1) - 1 + 1 : a[i] = s[1 + i - 1]
    BY <1>1, <1>2, SubSeqProperties
  <2> HIDE DEF a
  <2> QED BY <1>1, <2>1
<1>5. /\ b \in Seq(S) /\ Len(b) = n - p + 1
      /\ \A i \in 1..n - p + 1 : b[i] = s[p + i - 1]
  <2>1. /\ b \in Seq(S) /\ Len(b) = (IF p <= n THEN n - p + 1 ELSE 0)
        /\ \A i \in 1..n - p + 1 : b[i] = s[p + i - 1]
    BY <1>1, <1>2, SubSeqProperties
  <2> HIDE DEF b
  <2> QED BY <1>1, <2>1
<1> HIDE DEF b
<1>6. /\ c \in Seq(S) /\ Len(c) = n - p + 2 /\ c[1] = t
      /\ \A i \in 1..n - p + 1 : c[i + 1] = s[p + i - 1]
  <2>1. /\ c \in Seq(S) /\ Len(c) = Len(b) + 1 /\ c[1] = t
        /\ \A i \in 1..Len(b) : c[i + 1] = b[i]
    BY <1>5, PushSeq
  <2> HIDE DEF c
  <2> QED BY <1>1, <1>5, <2>1
<1> HIDE DEF a, c
<1>7. /\ a \o c \in Seq(S) /\ Len(a \o c) = Len(a) + Len(c)
      /\ \A k \in 1..Len(a) + Len(c) :
           (a \o c)[k] = IF k <= Len(a) THEN a[k] ELSE c[k - Len(a)]
  BY <1>4, <1>6, ConcatProperties
<1>8. ASSUME NEW k \in 1..n + 1
      PROVE  (a \o c)[k] = IF k < p THEN s[k] ELSE IF k = p THEN t ELSE s[k - 1]
  <2>1. k \in 1..Len(a) + Len(c)
    BY <1>1, <1>4, <1>6
  <2>2. CASE k < p
    <3>1. k <= Len(a) /\ k \in 1..p - 1
      BY <1>1, <1>4, <2>2
    <3> QED BY <1>4, <1>7, <2>1, <2>2, <3>1
  <2>3. CASE k = p
    <3>1. ~(k <= Len(a)) /\ k - Len(a) = 1
      BY <1>1, <1>4, <2>3
    <3> QED BY <1>6, <1>7, <1>1, <2>1, <2>3, <3>1
  <2>4. CASE k > p
    <3>1. /\ ~(k <= Len(a)) /\ k - Len(a) = (k - p) + 1 /\ k - p \in 1..n - p + 1
          /\ p + (k - p) - 1 = k - 1 /\ ~(k < p) /\ k # p
      BY <1>1, <1>4, <2>4
    <3>2. (a \o c)[k] = c[k - Len(a)]
      BY <1>7, <2>1, <3>1
    <3> QED BY <1>6, <3>1, <3>2
  <2>5. k < p \/ k = p \/ k > p
    BY <1>1
  <2> QED BY <2>2, <2>3, <2>4, <2>5, Zenon
<1>9. InsertAt(s, p, t) = a \o c
  <2>1. InsertAt(s, p, t) = SubSeq(s, 1, p - 1) \o <<t>> \o SubSeq(s, p, Len(s))
    BY DEF InsertAt
  <2>2. a \in Seq(S) /\ b \in Seq(S) /\ <<t>> \in Seq(S)
    BY <1>4, <1>5
  <2>3. (a \o <<t>>) \o b = a \o (<<t>> \o b)
    BY SMTT(30), <2>2, ConcatAssociative
  <2> QED BY <2>1, <2>3 DEF a, b, c, n
<1>10. Len(a) + Len(c) = n + 1
  BY <1>1, <1>4, <1>6
<1> QED BY <1>7, <1>8, <1>9, <1>10 DEF n

(* ... or anywhere between.                                                *)
LEMMA OnceInsertAt ==
  ASSUME NEW s, NEW A, Once(s, A), NEW t, t \notin A, NEW p \in 1..Len(s) + 1
  PROVE  /\ Once(InsertAt(s, p, t), A \cup {t})
         /\ Len(InsertAt(s, p, t)) = Len(s) + 1
<1> DEFINE r == InsertAt(s, p, t)
           B == A \cup {t}
<1>1. s \in Seq(A) /\ s \in Seq(B) /\ t \in B /\ Len(s) \in Nat /\ p \in Int
  BY SeqGrows, LenProperties DEF Once
<1>2. /\ r \in Seq(B) /\ Len(r) = Len(s) + 1
      /\ \A k \in 1..Len(s) + 1 :
           r[k] = IF k < p THEN s[k] ELSE IF k = p THEN t ELSE s[k - 1]
  <2> HIDE DEF B
  <2> QED BY <1>1, InsertedAt
<1>3. \A i \in 1..Len(s) : s[i] \in A
  BY <1>1, ElementOfSeq
<1> HIDE DEF r
<1>4. ASSUME NEW i \in 1..Len(r), NEW j \in 1..Len(r), r[i] = r[j] PROVE i = j
  <2>1. /\ i < p => i \in 1..Len(s) /\ r[i] = s[i]
        /\ i > p => i - 1 \in 1..Len(s) /\ r[i] = s[i - 1]
        /\ i = p => r[i] = t
    BY <1>1, <1>2
  <2>2. /\ j < p => j \in 1..Len(s) /\ r[j] = s[j]
        /\ j > p => j - 1 \in 1..Len(s) /\ r[j] = s[j - 1]
        /\ j = p => r[j] = t
    BY <1>1, <1>2
  <2>3. \A k, l \in 1..Len(s) : s[k] = s[l] => k = l
    BY DEF Once
  <2>4. (i = p) <=> (j = p)
    BY <1>1, <1>3, <1>4, <2>1, <2>2
  <2>5. CASE i < p /\ j < p
    BY <1>4, <2>1, <2>2, <2>3, <2>5
  <2>6. CASE i < p /\ j > p
    <3>1. i = j - 1
      BY <1>4, <2>1, <2>2, <2>3, <2>6
    <3> QED BY <1>1, <2>6, <3>1
  <2>7. CASE i > p /\ j < p
    <3>1. i - 1 = j
      BY <1>4, <2>1, <2>2, <2>3, <2>7
    <3> QED BY <1>1, <2>7, <3>1
  <2>8. CASE i > p /\ j > p
    <3>1. i - 1 = j - 1
      BY <1>4, <2>1, <2>2, <2>3, <2>8
    <3> QED BY <1>1, <3>1
  <2> QED BY <1>1, <2>4, <2>5, <2>6, <2>7, <2>8
<1>5. ASSUME NEW a \in B PROVE \E k \in 1..Len(r) : r[k] = a
  <2>1. CASE a = t
    BY <1>1, <1>2, <2>1
  <2>2. CASE a # t
    <3>1. PICK i \in 1..Len(s) : s[i] = a
      BY <2>2 DEF Once
    <3>2. CASE i < p
      BY <1>1, <1>2, <3>1, <3>2
    <3>3. CASE ~(i < p)
      <4>1. /\ i + 1 \in 1..Len(s) + 1 /\ ~(i + 1 < p) /\ i + 1 # p
            /\ (i + 1) - 1 = i
        BY <1>1, <3>3
      <4>2. r[i + 1] = s[i]
        BY <1>2, <4>1
      <4> QED BY <1>2, <3>1, <4>1, <4>2
    <3> QED BY <3>2, <3>3
  <2> QED BY <2>1, <2>2
<1> QED BY <1>2, <1>4, <1>5 DEF Once, r

-----------------------------------------------------------------------------
(* The call stack                                                          *)

FramesIn(s) == {s[i] : i \in 1..Len(s)}
On      == FramesIn(stack)

(* The functions that have a transfer in hand.                             *)
Working == {"pipe", "abort", "deliver", "finish"}
Workers == {f \in On : f.op \in Working}
Syncs   == {t \in Ids : \E f \in On : f.op = "sync" /\ f.id = t}
Todos   == {t \in Ids : \E f \in On : f.op = "flush" /\ Contains(f.todo, t)}
Dying   == \E f \in On : f.op = "kill" /\ f.id = "client"

(* Transfers whose callbacks run no JavaScript.                            *)
Silent(t) == t \in SyncReqs \cup Fetches

(* f may run while g waits for it to return.                               *)
Over(f, g) ==
  /\ g.op \notin {"pipe", "kill", "release"}
  /\ f.op = "tick" => f.how = "sync_wait"
  /\ f.op = "kill" => f.id # "client"
  /\ g.op = "abort" => /\ f.op \in {"js", "pipe", "abort", "flush", "stop", "kill"}
                       /\ f.op = "pipe" => f.pc \in {Submitter, Resumer}
  /\ g.op = "flush" =>
       /\ f.op \in {"pipe", "flush", "abort"}
       /\ f.op = "abort" => f.id \in Fetches
       /\ f.op = "pipe" => f.pc = Resumer \/ (f.pc = Submitter /\ f.id \in Fetches)
       /\ f.op = "flush" => \A t \in Ids : ~(Contains(f.todo, t) /\ Contains(g.todo, t))
  /\ g.op = "sync" =>
       /\ f.op \in {"pipe", "abort", "tick", "deliver", "finish", "flush"}
       /\ f.op \in {"abort", "deliver", "finish"} => Silent(f.id)
       /\ f.op = "pipe" /\ f.pc = Submitter => Silent(f.id)
  /\ g.op \in {"sync", "import"} /\ f.op = "deliver" => f.id \notin DocReqs
  /\ f.op = "sync" /\ g.op \in Working => f.id # g.id
  /\ f.op \in Working /\ g.op \in Working /\ f.id = g.id =>
       f.op = "abort" /\ g.op = "deliver" /\ f.how = "delivering"

(* What a function is called with.                                         *)
Kind(f) ==
  /\ f.op = "js" => f.id \in Reqs \cup {None}
  /\ f.op = "sync" => f.id \in SyncReqs
  /\ f.op = "import" => f.id \in Reqs
  /\ f.op = "flush" => f.id \in Fetches /\ IsInjective(f.todo)
  /\ f.op = "pipe" /\ f.pc = Resumer => f.how # "failed"
  /\ f.op = "abort" => /\ f.how \notin {"none", "aborted"}
                       /\ f.id \in Fetches => f.how \in {"created", "inflight"}
  /\ f.op = "deliver" => /\ f.how \in {"batch", "last", "done"}
                         /\ f.id \in Fetches => f.how # "batch"
  /\ f.op = "kill" => f.id \in Owners \cup {"page", "client"}
  /\ f.op \in {"release", "stop"} => f.id \in Owners

(* A data or done callback runs for the delivery right under it.           *)
CalledBy(f, g) == /\ g.op = "deliver" /\ g.id = f.id
                  /\ f.how = "data" => g.how # "done"
                  /\ f.how = "done" => g.how = "done"
Reports(f) == f.op = "js" /\ f.how \in {"data", "done"}

Sound(s) ==
  /\ s \in Seq(FramesIn(s))
  /\ \A i, j \in 1..Len(s) : i < j => Over(s[i], s[j])
  /\ \A i \in 1..Len(s) :
       Kind(s[i]) /\ (Reports(s[i]) => i < Len(s) /\ CalledBy(s[i], s[i + 1]))

(* Where a transfer is: in the state abort() has put aside, if that is     *)
(* running its error callback.                                             *)
Saves == [t \in Ids |-> {f \in On : f.op = "abort" /\ f.id = t}]
Where == [t \in Ids |-> IF t \notin Live THEN "none"
                        ELSE IF Saves[t] = {} THEN state[t]
                        ELSE (CHOOSE f \in Saves[t] : TRUE).how]

-----------------------------------------------------------------------------
(* The inductive invariant                                                 *)

CallsInv == Sound(stack)

(* The transfers in a state that says a function has them in hand are      *)
(* exactly those a function has in hand.                                   *)
BusyInv ==
  /\ \A f \in Workers :
       /\ f.id \in Live
       /\ IF f.op = "pipe"
          THEN state[f.id] = "created" \/ (state[f.id] = "inflight" /\ f.how = "failed")
          ELSE state[f.id] \in {"delivering", "aborted"}
       /\ f.op = "abort" /\ f.how = "delivering" =>
            \E g \in Workers : g.op = "deliver" /\ g.id = f.id
  /\ \A t \in Live :
       /\ state[t] \in {"delivering", "aborted"} =>
            \E f \in Workers : f.id = t /\ f.op # "pipe"
       /\ state[t] = "created" => \E f \in Workers : f.id = t /\ f.op = "pipe"
       /\ state[t] = "aborted" <=> t \in detached
       /\ t \in Fetches => state[t] # "aborted"

PendingInv == Once(pending, {t \in Ids : Where[t] = "queued"})
DelayedInv == /\ Once(delayed, {t \in Ids : Where[t] = "delayed"})
              /\ delayedCount = Len(delayed)

InDispatch == ToSet(dispatch)
InGated    == ToSet(gated)
DispatchInv ==
  /\ Once(dispatch, InDispatch) /\ Once(gated, InGated)
  /\ InDispatch \cap InGated = {}
  /\ \A t \in Ids : Where[t] = "buffered" => t \in InDispatch \cup InGated
  /\ \A t \in Ids : t \in InDispatch \cup InGated =>
       Where[t] = "buffered" \/ (Where[t] = "inflight" /\ t \in conns \cap started)
  /\ dispatchCount = Len(dispatch) + Len(gated)

PoolInv ==
  /\ free + Cardinality(conns) = Conns /\ free >= 0
  /\ \A t \in Ids : Where[t] = "inflight" => t \in conns
  /\ \A t \in Ids : t \in conns =>
       \/ Where[t] = "inflight"
       \/ Where[t] \in {"delivering", "aborted"} /\ t \in started
  /\ started \cap conns \subseteq StreamReqs

(* The events of a transfer end with the last one once its connection has  *)
(* gone back for good, and not before.                                     *)
Terminal(e) == e # <<>> /\ Last(e) \in {"done", "err"}
StreamInv ==
  /\ \A t \in Ids \ retired : Terminal(events[t]) =>
       state[t] \in {"buffered", "delivering", "aborted"} /\ t \notin conns
  /\ \A t \in Ids : Where[t] = "buffered" => Terminal(events[t])
  /\ \A f \in Workers : f.op = "deliver" =>
       /\ f.how = "batch" => f.id \in conns \/ Terminal(events[f.id])
       /\ f.how = "last" => \/ state[f.id] = "aborted" \/ f.id \in settled
                            \/ Terminal(events[f.id])
       /\ f.how # "done" /\ f.id \in settled =>
            \/ state[f.id] = "aborted"
            \/ \E g \in Workers : g.op = "abort" /\ g.id = f.id

Kept4Cdp == {"parked_intercept", "parked_auth"}
HeldInv == /\ \A t \in Live : t \in held <=> Where[t] \in Kept4Cdp
           /\ intercepted = Cardinality({t \in Ids : Where[t] \in Kept4Cdp})

AnswerInv ==
  /\ \A t \in settled : outcome[t] # <<>>
  /\ \A t \in Ids : outcome[t] # <<>> => t \in settled \cup retired
  /\ \A t \in retired : outcome[t] # <<>>
  /\ settled \cup notified \subseteq Born
  /\ \A t \in Live :
       /\ t \in settled \cup notified => state[t] \in {"delivering", "aborted"}
       /\ t \in notified => t \in settled \/ state[t] = "aborted"
  /\ \A f \in Workers :
       /\ f.op = "finish" => f.id \in settled \/ state[f.id] = "aborted"
       /\ f.op = "abort" => f.id \in settled
       /\ f.op = "deliver" /\ f.how = "done" => f.id \in settled /\ outcome[f.id] = <<"done">>

(* Only the last event of a transfer ends it, and after its done callback  *)
(* nothing comes any more.                                                 *)
Sorted(e) == \A i \in 1..Len(e) : i < Len(e) => e[i] = "data"
OrderInv ==
  \A t \in Ids \ retired :
    /\ Sorted(events[t])
    /\ outcome[t] = <<"done">> => events[t] = <<>> /\ t \notin conns

BlockInv ==
  /\ \A t \in Syncs : blocking[OwnerOf[t]] = t
  /\ \A o \in Owners : blocking[o] # None => blocking[o] \in Syncs /\ OwnerOf[blocking[o]] = o

AtGate == {"parked_robots", "parked_cors"}
StateAt(s) == IF s[1] = "cors" THEN "parked_cors" ELSE "parked_robots"
Queue(s) == {t \in Reqs : s \in open /\ Where[t] = StateAt(s)
                          /\ KeyOf[s[1]][t] = s[2] /\ t \notin Todos}
SlotAt(t, l) == IF l = "parked_cors" THEN <<"cors", KeyOf["cors"][t]>>
                ELSE <<"robots", KeyOf["robots"][t]>>
GateInv ==
  /\ \A s \in open : \E f \in Fetches :
       Where[f] # "none" /\ fetchOf[f] = s /\ outcome[f] = <<>>
  /\ \A f \in Fetches : Where[f] # "none" => fetchOf[f] \in Slots
  /\ \A s \in Slots : Once(waiters[s], Queue(s))
  /\ \A t \in Todos : t \in Reqs \cap Live /\ state[t] \in AtGate
  /\ ~Dying => \A t \in Ids : Where[t] \in AtGate =>
                 t \in Reqs /\ (t \in Todos \/ SlotAt(t, Where[t]) \in open)
  /\ \A f \in Workers :
       f.op = "pipe" /\ f.pc = Submitter /\ f.id \in Fetches =>
         \A t \in ToSet(waiters[fetchOf[f.id]]) : state[t] \in AtGate

Places == /\ CallsInv /\ BusyInv /\ PendingInv /\ DelayedInv /\ DispatchInv
          /\ PoolInv /\ StreamInv /\ HeldInv /\ AnswerInv /\ BlockInv /\ GateInv
          /\ fault = {}

-----------------------------------------------------------------------------
(* Stacks                                                                  *)

(* What a call of f on the stack s takes.                                  *)
Pushes(f, s) == /\ Kind(f) /\ \A g \in FramesIn(s) : Over(f, g)
                /\ Reports(f) => s # <<>> /\ CalledBy(f, Head(s))

(* A call puts its frame on top ...                                        *)
LEMMA SoundPush ==
  ASSUME NEW s, Sound(s), NEW f, Pushes(f, s)
  PROVE  /\ Sound(<<f>> \o s) /\ FramesIn(<<f>> \o s) = {f} \cup FramesIn(s)
         /\ <<f>> \o s # <<>> /\ Head(<<f>> \o s) = f /\ Tail(<<f>> \o s) = s
<1> DEFINE r == <<f>> \o s
           S == {f} \cup FramesIn(s)
<1>1. s \in Seq(S) /\ f \in S /\ Len(s) \in Nat
  <2>1. s \in Seq(FramesIn(s))
    BY DEF Sound
  <2> QED BY <2>1, SeqGrows, LenProperties
<1>2. /\ r \in Seq(S) /\ Len(r) = Len(s) + 1 /\ r[1] = f
      /\ r # <<>> /\ Head(r) = f /\ Tail(r) = s
      /\ \A i \in 1..Len(s) : r[i + 1] = s[i]
  BY <1>1, PushSeq
<1>3. s # <<>> => Len(s) >= 1 /\ Head(s) = s[1]
  BY <1>1, PopSeq
<1> HIDE DEF r
<1>4. \A i \in 1..Len(r) : i = 1 \/ (i - 1 \in 1..Len(s) /\ r[i] = s[i - 1])
  BY <1>1, <1>2
<1>5. FramesIn(r) = S
  <2>1. ASSUME NEW i \in 1..Len(r) PROVE r[i] \in S
    BY <1>2, <2>1, ElementOfSeq
  <2>2. ASSUME NEW i \in 1..Len(s) PROVE s[i] \in FramesIn(r)
    <3>1. i + 1 \in 1..Len(r) /\ r[i + 1] = s[i]
      BY <1>1, <1>2
    <3> QED BY <3>1 DEF FramesIn
  <2>3. f \in FramesIn(r)
    <3>1. 1 \in 1..Len(r)
      BY <1>1, <1>2
    <3> QED BY <1>2, <3>1 DEF FramesIn
  <2> QED BY <2>1, <2>2, <2>3 DEF FramesIn
<1>6. ASSUME NEW i \in 1..Len(r), NEW j \in 1..Len(r), i < j
      PROVE  Over(r[i], r[j])
  <2>1. j - 1 \in 1..Len(s) /\ r[j] = s[j - 1]
    BY <1>4, <1>6
  <2>2. CASE i = 1
    BY <1>2, <2>1, <2>2 DEF Pushes, FramesIn
  <2>3. CASE i # 1
    <3>1. i - 1 \in 1..Len(s) /\ r[i] = s[i - 1] /\ i - 1 < j - 1
      BY <1>4, <1>6, <2>3
    <3> QED BY <2>1, <3>1 DEF Sound
  <2> QED BY <2>2, <2>3
<1>7. ASSUME NEW i \in 1..Len(r)
      PROVE  /\ Kind(r[i])
             /\ Reports(r[i]) => i < Len(r) /\ CalledBy(r[i], r[i + 1])
  <2>1. CASE i = 1
    <3>1. s # <<>> => i < Len(r) /\ r[i + 1] = Head(s)
      BY <1>1, <1>2, <1>3, <2>1
    <3> QED BY <1>2, <2>1, <3>1 DEF Pushes
  <2>2. CASE i # 1
    <3> DEFINE k == i - 1
    <3>1. k \in 1..Len(s) /\ r[i] = s[k] /\ i = k + 1
      BY <1>4, <2>2
    <3>2. k < Len(s) => i < Len(r) /\ r[i + 1] = s[k + 1]
      BY <1>1, <1>2, <3>1
    <3> HIDE DEF k
    <3> QED BY <3>1, <3>2 DEF Sound
  <2> QED BY <2>1, <2>2
<1>8. Sound(r)
  BY <1>2, <1>5, <1>6, <1>7 DEF Sound
<1> QED BY <1>2, <1>5, <1>8 DEF r

(* ... and its return takes it off.                                        *)
LEMMA SoundPop ==
  ASSUME NEW s, Sound(s), s # <<>>
  PROVE  /\ Sound(Tail(s)) /\ Pushes(Head(s), Tail(s))
         /\ FramesIn(s) = {Head(s)} \cup FramesIn(Tail(s))
<1> DEFINE r == Tail(s)
           S == FramesIn(s)
<1>1. /\ s \in Seq(S) /\ Len(s) \in Nat /\ r \in Seq(S) /\ Len(r) \in Nat
      /\ Len(r) = Len(s) - 1 /\ Len(s) >= 1 /\ Head(s) = s[1]
      /\ \A i \in 1..Len(r) : r[i] = s[i + 1]
  <2>1. s \in Seq(S)
    BY DEF Sound
  <2> QED BY <2>1, PopSeq, LenProperties
<1>2. r # <<>> => Len(r) >= 1 /\ Head(r) = s[2]
  <2> SUFFICES ASSUME r # <<>> PROVE Len(r) >= 1 /\ Head(r) = s[2]
    OBVIOUS
  <2>1. Len(r) >= 1 /\ Head(r) = r[1]
    BY <1>1, PopSeq
  <2>2. 1 \in 1..Len(r)
    BY <1>1, <2>1
  <2> QED BY <1>1, <2>1, <2>2
<1>3. Len(r) >= 1 => r # <<>>
  BY <1>1, EmptyLen
<1> HIDE DEF r
<1>4. \A i \in 1..Len(r) : i + 1 \in 1..Len(s) /\ r[i] = s[i + 1]
  BY <1>1
<1>5. r \in Seq(FramesIn(r))
  <2>1. r \in [1..Len(r) -> S]
    BY <1>1, LenProperties
  <2>2. r \in [1..Len(r) -> FramesIn(r)]
    BY <2>1 DEF FramesIn
  <2> QED BY <1>1, <2>2
<1>6. ASSUME NEW i \in 1..Len(r), NEW j \in 1..Len(r), i < j
      PROVE  Over(r[i], r[j])
  <2>1. i + 1 < j + 1
    BY <1>6
  <2> QED BY <1>4, <2>1 DEF Sound
<1>7. ASSUME NEW i \in 1..Len(r)
      PROVE  /\ Kind(r[i])
             /\ Reports(r[i]) => i < Len(r) /\ CalledBy(r[i], r[i + 1])
  <2> DEFINE k == i + 1
  <2>1. k \in 1..Len(s) /\ r[i] = s[k]
    BY <1>4
  <2>2. k < Len(s) => i < Len(r) /\ r[i + 1] = s[k + 1]
    BY <1>1
  <2> HIDE DEF k
  <2> QED BY <2>1, <2>2 DEF Sound
<1>8. Sound(r)
  BY <1>5, <1>6, <1>7 DEF Sound
<1>9. 1 \in 1..Len(s) /\ \A i \in 1..Len(r) : 1 < i + 1
  BY <1>1
<1>10. Pushes(Head(s), r)
  <2>1. \A g \in FramesIn(r) : Over(Head(s), g)
    BY <1>1, <1>4, <1>9 DEF Sound, FramesIn
  <2>2. /\ Kind(s[1])
        /\ Reports(s[1]) => 1 < Len(s) /\ CalledBy(s[1], s[1 + 1])
    BY <1>9 DEF Sound
  <2>3. 1 < Len(s) => r # <<>> /\ s[1 + 1] = Head(r)
    BY <1>1, <1>2, <1>3
  <2> QED BY <1>1, <2>1, <2>2, <2>3 DEF Pushes
<1>11. FramesIn(s) = {Head(s)} \cup FramesIn(r)
  <2>1. ASSUME NEW i \in 1..Len(s) PROVE s[i] \in {Head(s)} \cup FramesIn(r)
    <3>1. CASE i = 1
      BY <1>1, <3>1
    <3>2. CASE i # 1
      <4>1. i - 1 \in 1..Len(r) /\ (i - 1) + 1 = i
        BY <1>1, <3>2
      <4>2. r[i - 1] = s[i]
        BY <1>4, <4>1
      <4> QED BY <4>1, <4>2 DEF FramesIn
    <3> QED BY <3>1, <3>2
  <2>2. Head(s) \in FramesIn(s)
    BY <1>1, <1>9 DEF FramesIn
  <2>3. FramesIn(r) \subseteq FramesIn(s)
    BY <1>4 DEF FramesIn
  <2> QED BY <2>1, <2>2, <2>3 DEF FramesIn
<1> QED BY <1>8, <1>10, <1>11 DEF r

(* The empty stack.                                                        *)
LEMMA SoundEmpty == Sound(<<>>) /\ FramesIn(<<>>) = {}
<1>1. Len(<<>>) = 0 /\ 1..0 = {}
  OBVIOUS
<1>2. FramesIn(<<>>) = {}
  BY <1>1 DEF FramesIn
<1> QED BY <1>1, <1>2 DEF Sound

(* The frames under the running one.                                       *)
Rest == FramesIn(Below)

(* The running frame, and what waits for it.                               *)
LEMMA OnTopView ==
  ASSUME CallsInv, NEW op, Running(op)
  PROVE  /\ stack # <<>> /\ Top.op = op /\ Sound(Below) /\ Pushes(Top, Below)
         /\ On = {Top} \cup Rest
BY SoundPop DEF CallsInv, Running, Top, Below, Rest, On

(* Returning, calling, and calling instead of the running function.        *)
LEMMA AfterPop ==
  ASSUME CallsInv, stack # <<>>, stack' = Below
  PROVE  CallsInv' /\ On' = Rest
BY SoundPop DEF CallsInv, Below, Rest, On

(* ... a function calls another one ...                                    *)
LEMMA AfterPush ==
  ASSUME CallsInv, NEW f, Pushes(f, stack), stack' = <<f>> \o stack
  PROVE  CallsInv' /\ On' = {f} \cup On
BY SoundPush DEF CallsInv, On

(* ... or returns by calling another one.                                  *)
LEMMA AfterSwap ==
  ASSUME CallsInv, stack # <<>>, NEW f, Pushes(f, Below), stack' = <<f>> \o Below
  PROVE  CallsInv' /\ On' = {f} \cup Rest
BY SoundPop, SoundPush DEF CallsInv, Below, Rest, On

(* A frame that holds no transfer, no waiter and no blocking request.      *)
Plain(f) == \/ f.op \in {"js", "tick", "import", "release", "stop"}
            \/ f.op = "kill" /\ f.id # "client"
            \/ f.op = "flush" /\ f.todo = <<>>

(* What the frames say of the transfers.                                   *)
View == <<Workers, Syncs, Todos, Dying, Saves>>

(* Plain frames come and go without changing it; a blocking request's      *)
(* frame may be exchanged for another one of it.                           *)
LEMMA PlainView ==
  ASSUME \A f \in On : \/ f \in On' \/ Plain(f)
                       \/ f.op = "sync" /\ \E g \in On' : g.op = "sync" /\ g.id = f.id,
         \A f \in On' : \/ f \in On \/ Plain(f)
                        \/ f.op = "sync" /\ \E g \in On : g.op = "sync" /\ g.id = f.id
  PROVE  UNCHANGED View
<1>1. \A t : ~Contains(<<>>, t)
  BY DEF Contains
<1>2. \A f : Plain(f) => /\ f.op \notin Working /\ f.op # "sync"
                         /\ f.op = "flush" => \A t : ~Contains(f.todo, t)
                         /\ ~(f.op = "kill" /\ f.id = "client")
  BY <1>1 DEF Plain, Working
<1>3. Workers' = Workers
  BY <1>2 DEF Workers, Working
<1>4. Syncs' = Syncs
  BY <1>2 DEF Syncs
<1>5. Todos' = Todos
  BY <1>2 DEF Todos
<1>6. Dying' = Dying
  BY <1>2 DEF Dying
<1>7. Saves' = Saves
  <2>1. \A f : f.op = "abort" => ~Plain(f) /\ f.op # "sync"
    BY <1>2 DEF Working
  <2>2. ASSUME NEW t \in Ids
        PROVE  {f \in On : f.op = "abort" /\ f.id = t}' = {f \in On : f.op = "abort" /\ f.id = t}
    BY <2>1
  <2> QED BY <2>2 DEF Saves
<1> QED BY <1>3, <1>4, <1>5, <1>6, <1>7 DEF View

-----------------------------------------------------------------------------
(* Frames                                                                  *)

(* The fields the code sets when it calls a function.                      *)
LEMMA Fields ==
  /\ \A t, m : Js(t, m).op = "js" /\ Js(t, m).id = t /\ Js(t, m).how = m
  /\ \A m : Tick(m).op = "tick" /\ Tick(m).how = m
  /\ \A t, m, w : /\ Pipe(t, m, w).op = "pipe" /\ Pipe(t, m, w).id = t
                  /\ Pipe(t, m, w).how = m /\ Pipe(t, m, w).pc = w
  /\ \A t, m : Abort(t, m).op = "abort" /\ Abort(t, m).id = t /\ Abort(t, m).how = m
  /\ \A t, m, q : /\ Flush(t, m, q).op = "flush" /\ Flush(t, m, q).id = t
                  /\ Flush(t, m, q).todo = q
  /\ \A t, m : /\ Sync(t, m).op = "sync" /\ Sync(t, m).id = t
               /\ Import(t, m).op = "import" /\ Import(t, m).id = t
  /\ \A t, q : Stop(t, q).op = "stop" /\ Stop(t, q).id = t
  /\ \A t : /\ Release(t).op = "release" /\ Release(t).id = t
            /\ Kill(t).op = "kill" /\ Kill(t).id = t
            /\ Finish(t).op = "finish" /\ Finish(t).id = t
  /\ \A t, m : /\ Deliver(t, m).op = "deliver" /\ Deliver(t, m).id = t
               /\ Deliver(t, m).how = m
<1> USE DEF Frame
<1>1. \A t, m : Js(t, m).op = "js" /\ Js(t, m).id = t /\ Js(t, m).how = m
  BY DEF Js
<1>2. \A m : Tick(m).op = "tick" /\ Tick(m).how = m
  BY DEF Tick
<1>3. \A t, m, w : /\ Pipe(t, m, w).op = "pipe" /\ Pipe(t, m, w).id = t
                  /\ Pipe(t, m, w).how = m /\ Pipe(t, m, w).pc = w
  BY DEF Pipe
<1>4. \A t, m : Abort(t, m).op = "abort" /\ Abort(t, m).id = t /\ Abort(t, m).how = m
  BY DEF Abort
<1>5. \A t, m, q : /\ Flush(t, m, q).op = "flush" /\ Flush(t, m, q).id = t
                  /\ Flush(t, m, q).todo = q
  BY DEF Flush
<1>6. \A t, m : /\ Sync(t, m).op = "sync" /\ Sync(t, m).id = t
               /\ Import(t, m).op = "import" /\ Import(t, m).id = t
  BY DEF Sync, Import
<1>7. \A t, q : Stop(t, q).op = "stop" /\ Stop(t, q).id = t
  BY DEF Stop
<1>8. \A t : /\ Release(t).op = "release" /\ Release(t).id = t
            /\ Kill(t).op = "kill" /\ Kill(t).id = t
            /\ Finish(t).op = "finish" /\ Finish(t).id = t
  BY DEF Release, Kill, Finish
<1>9. \A t, m : /\ Deliver(t, m).op = "deliver" /\ Deliver(t, m).id = t
               /\ Deliver(t, m).how = m
  BY DEF Deliver
<1> QED BY <1>1, <1>2, <1>3, <1>4, <1>5, <1>6, <1>7, <1>8, <1>9

(* A frame on the stack is known, and so are its fields.                   *)
LEMMA KnownOn ==
  ASSUME IInv
  PROVE  /\ \A f \in On : f \in KnownFrames(Born)
         /\ \A f \in On : /\ f.op \in Ops
                          /\ f.op \in TransferOps \ {"js"} => f.id \in Born
                          /\ f.op = "pipe" => f.pc \in Callers
                          /\ f.op = "sync" => f.id \in Reqs
                          /\ f.op = "abort" => f.how \in States \ {"none"}
                          /\ f.todo \in Seq(Born)
<1>1. stack \in Seq(KnownFrames(Born))
  BY DEF IInv, Calling, Good
<1>2. \A f \in On : f \in KnownFrames(Born)
  BY <1>1, ElementOfSeq DEF On, FramesIn
<1>3. ASSUME NEW f \in KnownFrames(Born)
      PROVE  /\ f.op \in Ops
             /\ f.op \in TransferOps \ {"js"} => f.id \in Born
             /\ f.op = "pipe" => f.pc \in Callers
             /\ f.op = "sync" => f.id \in Reqs
             /\ f.op = "abort" => f.how \in States \ {"none"}
             /\ f.todo \in Seq(Born)
  BY DEF KnownFrames, Frames
<1> QED BY <1>2, <1>3

(* Two functions have one transfer in hand only when its delivery has been *)
(* aborted by a callback.                                                  *)
LEMMA Sole ==
  ASSUME CallsInv, NEW f \in Workers, NEW g \in Workers, f.id = g.id
  PROVE  \/ f = g
         \/ f.op = "abort" /\ g.op = "deliver" /\ f.how = "delivering"
         \/ g.op = "abort" /\ f.op = "deliver" /\ g.how = "delivering"
<1>1. PICK i \in 1..Len(stack) : stack[i] = f
  BY DEF Workers, On, FramesIn
<1>2. PICK j \in 1..Len(stack) : stack[j] = g
  BY DEF Workers, On, FramesIn
<1>3. Len(stack) \in Nat
  BY LenProperties DEF CallsInv, Sound
<1>4. i < j \/ i = j \/ j < i
  BY <1>3
<1>5. CASE i < j
  <2>1. Over(f, g)
    BY <1>1, <1>2, <1>5 DEF CallsInv, Sound
  <2> QED BY <2>1 DEF Over, Workers
<1>6. CASE j < i
  <2>1. Over(g, f)
    BY <1>1, <1>2, <1>6 DEF CallsInv, Sound
  <2> QED BY <2>1 DEF Over, Workers
<1>7. CASE i = j
  BY <1>1, <1>2, <1>7
<1> QED BY <1>4, <1>5, <1>6, <1>7

-----------------------------------------------------------------------------
(* Where a step takes a transfer                                           *)

Moves(t, l) == Where' = [Where EXCEPT ![t] = l]
Stays == Where' = Where

(* Where is a table.                                                       *)
LEMMA WhereTable == Where = [t \in Ids |-> Where[t]]
BY DEF Where

(* Where a transfer is, case by case.                                      *)
LEMMA WhereIs ==
  ASSUME NEW t \in Ids
  PROVE  /\ t \notin Live => Where[t] = "none"
         /\ t \in Live /\ Saves[t] = {} => Where[t] = state[t]
         /\ Saves[t] = {} <=> ~\E f \in Workers : f.op = "abort" /\ f.id = t
         /\ Where[t] = IF t \notin Live THEN "none"
                        ELSE IF Saves[t] = {} THEN state[t]
                        ELSE (CHOOSE f \in Saves[t] : TRUE).how
<1>1. Where[t] = IF t \notin Live THEN "none"
                 ELSE IF Saves[t] = {} THEN state[t]
                 ELSE (CHOOSE f \in Saves[t] : TRUE).how
  BY DEF Where
<1>2. Saves[t] = {f \in On : f.op = "abort" /\ f.id = t}
  BY DEF Saves
<1>3. Saves[t] = {} <=> ~\E f \in Workers : f.op = "abort" /\ f.id = t
  BY <1>2 DEF Workers, Working
<1> QED BY <1>1, <1>3

(* ... of a transfer being aborted, in the state its abort() saved.        *)
LEMMA WhereSaved ==
  ASSUME CallsInv, BusyInv, NEW f \in Workers, f.op = "abort", f.id \in Ids
  PROVE  Where[f.id] = f.how
<1> DEFINE t == f.id
<1>1. t \in Live
  BY DEF BusyInv
<1>2. f \in Saves[t]
  BY DEF Workers, Saves
<1>3. \A g \in Saves[t] : g = f
  <2> TAKE g \in Saves[t]
  <2>1. g \in Workers /\ g.op = "abort" /\ g.id = t
    BY DEF Saves, Workers, Working
  <2> QED BY <2>1, Sole
<1>4. (CHOOSE g \in Saves[t] : TRUE) = f
  BY <1>2, <1>3
<1>5. Saves[t] # {}
  BY <1>2
<1> QED BY <1>1, <1>4, <1>5, WhereIs

(* A live transfer is somewhere, and never lost.                           *)
LEMMA WhereLive ==
  ASSUME IInv, CallsInv, BusyInv, NEW t \in Ids
  PROVE  /\ Where[t] = "none" <=> t \notin Live
         /\ t \in Live /\ state[t] \notin {"delivering", "aborted"} =>
              Saves[t] = {} /\ Where[t] = state[t]
         /\ Where[t] \in States
<1>1. t \in Live => state[t] # "none"
  BY DEF Live
<1>2. ASSUME t \in Live, Saves[t] # {}
      PROVE /\ Where[t] \in States \ {"none"}
            /\ state[t] \in {"delivering", "aborted"}
  <2>1. PICK f \in Workers : f.op = "abort" /\ f.id = t
    BY <1>2, WhereIs
  <2>2. Where[t] = f.how
    BY <2>1, WhereSaved
  <2>3. f.how \in States \ {"none"}
    BY <2>1, KnownOn DEF Workers
  <2> QED BY <2>1, <2>2, <2>3 DEF BusyInv
<1>3. state[t] \in States /\ "none" \in States
  BY DEF IInv, Data, Life, States
<1> QED BY <1>1, <1>2, <1>3, WhereIs

(* Nobody moves when no state is written and no abort() begins or ends.    *)
LEMMA SameWhere ==
  ASSUME UNCHANGED <<state, retired, Saves>>
  PROVE  Stays /\ Live' = Live /\ Born' = Born
BY DEF Stays, Where, Live, Born

(* A live transfer that nobody aborts takes another state.                 *)
LEMMA WhereMoves ==
  ASSUME IInv, NEW t \in Live, Saves[t] = {}, UNCHANGED <<retired, Saves>>,
         NEW l, l # "none", state' = [state EXCEPT ![t] = l]
  PROVE  Moves(t, l) /\ Live' = Live /\ Born' = Born
<1>1. state \in [Ids -> States] /\ t \in Ids /\ state[t] # "none"
  BY DEF IInv, Data, Life, Live
<1>2. Live' = Live /\ Born' = Born
  BY <1>1 DEF Live, Born
<1>3. ASSUME NEW u \in Ids
      PROVE  Where'[u] = IF u = t THEN l ELSE Where[u]
  BY <1>1, <1>2, <1>3 DEF Where
<1> QED BY ZenonT(60), <1>1, <1>2, <1>3 DEF Moves, Where

(* The state of one that is being aborted does not show.                   *)
LEMMA WhereHides ==
  ASSUME IInv, NEW t \in Live, Saves[t] # {}, UNCHANGED <<retired, Saves>>,
         NEW l, l # "none", state' = [state EXCEPT ![t] = l]
  PROVE  Stays /\ Live' = Live /\ Born' = Born
<1>1. state \in [Ids -> States] /\ t \in Ids /\ state[t] # "none"
  BY DEF IInv, Data, Life, Live
<1>2. Live' = Live /\ Born' = Born
  BY <1>1 DEF Live, Born
<1>3. ASSUME NEW u \in Ids PROVE Where'[u] = Where[u]
  BY <1>1, <1>2, <1>3 DEF Where
<1> QED BY <1>1, <1>2, <1>3 DEF Stays, Where

(* A new transfer.                                                         *)
LEMMA WhereBegins ==
  ASSUME IInv, CallsInv, BusyInv, NEW t \in Ids \ Live,
         retired' = retired \ {t}, UNCHANGED Saves,
         NEW l, l # "none", state' = [state EXCEPT ![t] = l]
  PROVE  Moves(t, l) /\ Live' = Live \cup {t} /\ Born' = Born \cup {t}
<1>1. state \in [Ids -> States] /\ t \in Ids
  BY DEF IInv, Data, Life, Live
<1>2. Live' = Live \cup {t} /\ Born' = Born \cup {t}
  BY <1>1 DEF Live, Born
<1>3. Saves[t] = {}
  <2>1. \A f \in Workers : f.id # t
    BY DEF BusyInv
  <2> QED BY <2>1, WhereIs
<1>4. ASSUME NEW u \in Ids
      PROVE  Where'[u] = IF u = t THEN l ELSE Where[u]
  BY <1>1, <1>2, <1>3, <1>4 DEF Where
<1> QED BY <1>1, <1>2, <1>4 DEF Moves, Where

(* abort() puts the state aside; its transfer stays where it was.          *)
LEMMA WhereAside ==
  ASSUME IInv, NEW t \in Live, Saves[t] = {}, UNCHANGED retired,
         Saves' = [Saves EXCEPT ![t] = {Abort(t, state[t])}],
         state' = [state EXCEPT ![t] = "delivering"]
  PROVE  Stays /\ Live' = Live /\ Born' = Born
<1>1. state \in [Ids -> States] /\ t \in Ids /\ state[t] # "none"
  BY DEF IInv, Data, Life, Live
<1>2. Live' = Live /\ Born' = Born
  BY <1>1 DEF Live, Born
<1>3. /\ Saves'[t] = {Abort(t, state[t])} /\ \A u \in Ids : u # t => Saves'[u] = Saves[u]
  BY <1>1 DEF Saves
<1>4. (CHOOSE f \in Saves'[t] : TRUE).how = state[t]
  BY <1>3, Fields
<1>5. ASSUME NEW u \in Ids PROVE Where'[u] = Where[u]
  <2>1. Where'[u] = IF u \notin Live' THEN "none"
                 ELSE IF Saves'[u] = {} THEN state'[u]
                 ELSE (CHOOSE f \in Saves'[u] : TRUE).how
    BY DEF Where
  <2>2. Where[u] = IF u \notin Live THEN "none"
                 ELSE IF Saves[u] = {} THEN state[u]
                 ELSE (CHOOSE f \in Saves[u] : TRUE).how
    BY DEF Where
  <2>3. CASE u = t
    BY <1>2, <1>3, <1>4, <2>1, <2>2, <2>3
  <2>4. CASE u # t
    BY <1>1, <1>2, <1>3, <2>1, <2>2, <2>4
  <2> QED BY <2>3, <2>4
<1> QED BY <1>1, <1>2, <1>5 DEF Stays, Where

(* A transfer that is retired is nowhere.                                  *)
LEMMA WhereEnds ==
  ASSUME IInv, NEW t \in Live, retired' = retired \cup {t},
         \A u \in Ids : u # t => Saves'[u] = Saves[u],
         NEW l, l # "none", state' = [state EXCEPT ![t] = l]
  PROVE  Moves(t, "none") /\ Live' = Live \ {t} /\ Born' = Born
<1>1. state \in [Ids -> States] /\ t \in Ids /\ state[t] # "none"
  BY DEF IInv, Data, Life, Live
<1>2. Live' = Live \ {t} /\ Born' = Born
  BY <1>1 DEF Live, Born
<1>3. ASSUME NEW u \in Ids
      PROVE  Where'[u] = IF u = t THEN "none" ELSE Where[u]
  <2>1. Where'[u] = IF u \notin Live' THEN "none"
                    ELSE IF Saves'[u] = {} THEN state'[u]
                    ELSE (CHOOSE f \in Saves'[u] : TRUE).how
    BY DEF Where
  <2>2. Where[u] = IF u \notin Live THEN "none"
                   ELSE IF Saves[u] = {} THEN state[u]
                   ELSE (CHOOSE f \in Saves[u] : TRUE).how
    BY DEF Where
  <2>3. CASE u = t
    BY <1>2, <2>1, <2>3
  <2>4. CASE u # t
    BY <1>1, <1>2, <2>1, <2>2, <2>4
  <2> QED BY <2>3, <2>4
<1> QED BY ZenonT(60), <1>1, <1>2, <1>3 DEF Moves, Where

-----------------------------------------------------------------------------
(* What a step does not touch                                              *)

(* A group keeps holding when nothing it reads changes.                    *)
LEMMA Untouched ==
  ASSUME Places
  PROVE  /\ UNCHANGED <<Workers, state, retired, detached>> => BusyInv'
         /\ UNCHANGED <<Where, pending>> => PendingInv'
         /\ UNCHANGED <<Where, delayed, delayedCount>> => DelayedInv'
         /\ UNCHANGED <<Where, dispatch, gated, dispatchCount, conns, started>> => DispatchInv'
         /\ UNCHANGED <<Where, conns, free, started>> => PoolInv'
         /\ UNCHANGED <<Where, Workers, state, retired, events, conns, settled>> =>
              StreamInv'
         /\ UNCHANGED <<Where, state, retired, held, intercepted>> => HeldInv'
         /\ UNCHANGED <<Workers, state, retired, outcome, settled, notified>> => AnswerInv'
         /\ UNCHANGED <<Syncs, blocking>> => BlockInv'
         /\ UNCHANGED <<Where, Todos, Dying, Workers, state, retired, open, waiters,
                        fetchOf, outcome>> => GateInv'
<1> USE DEF Places
<1>1. UNCHANGED <<Workers, state, retired, detached>> => BusyInv'
  BY DEF BusyInv, Live
<1>2. UNCHANGED <<Where, pending>> => PendingInv'
  BY DEF PendingInv
<1>3. UNCHANGED <<Where, delayed, delayedCount>> => DelayedInv'
  BY DEF DelayedInv
<1>4. UNCHANGED <<Where, dispatch, gated, dispatchCount, conns, started>> => DispatchInv'
  BY DEF DispatchInv, InDispatch, InGated
<1>5. UNCHANGED <<Where, conns, free, started>> => PoolInv'
  BY DEF PoolInv
<1>6. UNCHANGED <<Where, Workers, state, retired, events, conns, settled>> => StreamInv'
  BY DEF StreamInv, Terminal
<1>7. UNCHANGED <<Where, state, retired, held, intercepted>> => HeldInv'
  BY DEF HeldInv, Live
<1>8. UNCHANGED <<Workers, state, retired, outcome, settled, notified>> => AnswerInv'
  BY DEF AnswerInv, Live, Born
<1>9. UNCHANGED <<Syncs, blocking>> => BlockInv'
  BY DEF BlockInv
<1>10. UNCHANGED <<Where, Todos, Dying, Workers, state, retired, open, waiters,
                   fetchOf, outcome>> => GateInv'
  <2> SUFFICES ASSUME UNCHANGED <<Where, Todos, Dying, Workers, state, retired, open,
                                  waiters, fetchOf, outcome>>
               PROVE  GateInv'
    OBVIOUS
  <2>1. \A s : Queue(s)' = Queue(s)
    BY DEF Queue
  <2>2. Live' = Live
    BY DEF Live
  <2> QED BY <2>1, <2>2 DEF GateInv
<1> QED BY <1>1, <1>2, <1>3, <1>4, <1>5, <1>6, <1>7, <1>8, <1>9, <1>10

(* A step whose moves are all between the places of A keeps what is about  *)
(* other places.                                                           *)
Shifts(A) == /\ Where' = [t \in Ids |-> Where'[t]]
             /\ \A t \in Ids : Where'[t] = Where[t] \/ {Where[t], Where'[t]} \subseteq A

(* One move is a shift between its two ends.                               *)
LEMMA MoveShifts ==
  ASSUME NEW t \in Ids, NEW l, Moves(t, l)
  PROVE  Shifts({Where[t], l})
<1>1. Where' = [u \in Ids |-> Where'[u]]
  BY DEF Where
<1> QED BY <1>1 DEF Moves, Shifts

(* The queues, the dispatcher and the pool do not see the others.          *)
LEMMA Shifted ==
  ASSUME Places, NEW A, Shifts(A)
  PROVE  /\ "queued" \notin A /\ UNCHANGED pending => PendingInv'
         /\ "delayed" \notin A /\ UNCHANGED <<delayed, delayedCount>> => DelayedInv'
         /\ A \cap {"buffered", "inflight"} = {}
            /\ UNCHANGED <<dispatch, gated, dispatchCount, conns, started>> => DispatchInv'
         /\ A \cap {"inflight", "delivering", "aborted"} = {}
            /\ UNCHANGED <<conns, free, started>> => PoolInv'
<1> USE DEF Places
<1>1. ASSUME "queued" \notin A, UNCHANGED pending PROVE PendingInv'
  <2>1. {t \in Ids : Where'[t] = "queued"} = {t \in Ids : Where[t] = "queued"}
    BY <1>1 DEF Shifts
  <2> QED BY <1>1, <2>1 DEF PendingInv
<1>2. ASSUME "delayed" \notin A, UNCHANGED <<delayed, delayedCount>> PROVE DelayedInv'
  <2>1. {t \in Ids : Where'[t] = "delayed"} = {t \in Ids : Where[t] = "delayed"}
    BY <1>2 DEF Shifts
  <2> QED BY <1>2, <2>1 DEF DelayedInv
<1>3. ASSUME A \cap {"buffered", "inflight"} = {},
             UNCHANGED <<dispatch, gated, dispatchCount, conns, started>>
      PROVE  DispatchInv'
  <2>1. \A t \in Ids : /\ Where'[t] = "buffered" <=> Where[t] = "buffered"
                       /\ Where'[t] = "inflight" <=> Where[t] = "inflight"
    BY <1>3 DEF Shifts
  <2>2. \A t \in Ids : /\ Where[t] = "buffered" => Where'[t] = "buffered"
                       /\ Where[t] = "inflight" => Where'[t] = "inflight"
                       /\ Where'[t] = "buffered" => Where[t] = "buffered"
    BY <2>1
  <2>3. DispatchInv
    OBVIOUS
  <2> QED BY <1>3, <2>2, <2>3 DEF DispatchInv, InDispatch, InGated
<1>4. ASSUME A \cap {"inflight", "delivering", "aborted"} = {},
             UNCHANGED <<conns, free, started>>
      PROVE  PoolInv'
  <2>1. \A t \in Ids : /\ Where'[t] = "inflight" => Where[t] = "inflight"
                       /\ Where[t] = "inflight" => Where'[t] = "inflight"
                       /\ Where[t] \in {"delivering", "aborted"} =>
                            Where'[t] \in {"delivering", "aborted"}
    BY <1>4 DEF Shifts
  <2> QED BY <1>4, <2>1 DEF PoolInv
<1> QED BY <1>1, <1>2, <1>3, <1>4

(* What Places rests on: none of the hazards but doneFail occurs.  The     *)
(* code can meet the others, and each of them breaks a part of it.         *)
Careful == Hazards \subseteq {"doneFail"}

(* A step that only calls and returns.                                     *)
LEMMA PlainStep ==
  ASSUME Places, CallsInv', UNCHANGED View,
         UNCHANGED <<lvars, cbvars, evars, qvars, dvars, nvars, open, waiters,
                     fetchOf, blocking, cvars, fault>>
  PROVE  Places'
<1>1. UNCHANGED <<state, retired, Saves>>
  BY DEF lvars, View
<1>2. Stays
  BY <1>1, SameWhere
<1>3. /\ UNCHANGED <<Workers, state, retired, detached>>
      /\ UNCHANGED <<Where, pending, delayed, delayedCount>>
      /\ UNCHANGED <<dispatch, gated, dispatchCount, conns, free, started>>
      /\ UNCHANGED <<events, settled, held, intercepted, outcome, notified>>
      /\ UNCHANGED <<Syncs, blocking, Todos, Dying, open, waiters, fetchOf, fault>>
  BY <1>2 DEF Stays, View, lvars, cbvars, evars, qvars, dvars, nvars, cvars
<1> HIDE DEF Where
<1>4. BusyInv' /\ PendingInv' /\ DelayedInv' /\ DispatchInv' /\ PoolInv'
  BY <1>3, Untouched
<1>5. StreamInv' /\ HeldInv' /\ AnswerInv' /\ BlockInv' /\ GateInv'
  BY <1>3, Untouched
<1> QED BY <1>3, <1>4, <1>5 DEF Places

(* A plain frame is pushed, popped, or takes another one's place.          *)
LEMMA PlainPush ==
  ASSUME CallsInv, NEW f, Plain(f), Pushes(f, stack), stack' = <<f>> \o stack
  PROVE  CallsInv' /\ UNCHANGED View
<1>1. CallsInv' /\ On' = {f} \cup On
  BY AfterPush
<1> QED BY <1>1, PlainView

(* ... returns ...                                                         *)
LEMMA PlainPop ==
  ASSUME CallsInv, stack # <<>>, Plain(Top), stack' = Below
  PROVE  CallsInv' /\ UNCHANGED View
<1>1. CallsInv' /\ On' = Rest
  BY AfterPop
<1>2. On = Rest \cup {Top}
  BY <1>1, SoundPop DEF CallsInv, On, Rest, Below, Top
<1> QED BY <1>1, <1>2, PlainView

(* ... or gives its place to another one.                                  *)
LEMMA PlainSwap ==
  ASSUME CallsInv, stack # <<>>, Plain(Top), NEW f, Plain(f), Pushes(f, Below),
         stack' = <<f>> \o Below
  PROVE  CallsInv' /\ UNCHANGED View
<1>1. CallsInv' /\ On' = {f} \cup Rest
  BY AfterSwap
<1>2. On = Rest \cup {Top}
  BY <1>1, SoundPop DEF CallsInv, On, Rest, Below, Top
<1> QED BY <1>1, <1>2, PlainView

(* A call from the empty stack.                                            *)
LEMMA FirstCall ==
  ASSUME stack = <<>>, NEW f, Kind(f), ~Reports(f), stack' = <<f>>
  PROVE  /\ CallsInv' /\ On' = {f} /\ On = {}
         /\ Plain(f) => UNCHANGED View
<1>1. Sound(stack) /\ On = {} /\ Pushes(f, stack)
  BY SoundEmpty DEF On, Pushes
<1>2. <<f>> \o stack = <<f>>
  OBVIOUS
<1>3. CallsInv' /\ On' = {f} \cup On
  BY <1>1, <1>2, AfterPush DEF CallsInv
<1>4. ASSUME Plain(f) PROVE UNCHANGED View
  BY <1>1, <1>2, <1>4, PlainPush DEF CallsInv
<1> QED BY <1>1, <1>3, <1>4

(* What every step starts from, and the types it ends in.                  *)
Given == Careful /\ IInv /\ IInv' /\ Places /\ OrderInv

-----------------------------------------------------------------------------
(* Steps that only call and return                                         *)

(* A script, a flush with nobody left, an import that has its answer.      *)
LEMMA PopsPlain ==
  ASSUME Given, StopEnd \/ Return \/ FlushEnd \/ ImportReturn
  PROVE  Places'
<1>1. /\ Plain(Top) /\ stack # <<>> /\ stack' = Below
      /\ UNCHANGED <<lvars, cbvars, evars, qvars, dvars, nvars, open, waiters,
                     fetchOf, blocking, cvars, fault>>
  BY DEF StopEnd, Return, FlushEnd, ImportReturn, InJs, Running, Top, Plain, idle
<1>2. CallsInv' /\ UNCHANGED View
  BY <1>1, PlainPop DEF Given, Places
<1> QED BY <1>1, <1>2, PlainStep DEF Given

(* A script imports a module and pumps for it.                             *)
LEMMA ImportModulePlaces ==
  ASSUME Given, NEW t \in Reqs, ImportModule(t)
  PROVE  Places'
<1>1. /\ Running("js") /\ t \in Reqs /\ ~OnStack("abort") /\ stack' = <<Import(t, "pump")>> \o stack
      /\ UNCHANGED <<lvars, cbvars, evars, qvars, dvars, nvars, open, waiters,
                     fetchOf, blocking, cvars, fault>>
  BY DEF ImportModule, InJs, SafeToPump, idle, Given, Careful
<1>2. \A g \in On : g.op # "abort"
  <2>1. DOMAIN stack = 1..Len(stack)
    BY LenProperties DEF Given, Places, CallsInv, Sound
  <2> QED BY <1>1, <2>1 DEF OnStack, On, FramesIn
<1>3. On = {Top} \cup Rest /\ Top.op = "js" /\ \A g \in Rest : Over(Top, g)
  BY <1>1, OnTopView DEF Given, Places, Pushes, Rest
<1> DEFINE f == Import(t, "pump")
<1>4. f.op = "import" /\ f.id = t
  BY Fields
<1> HIDE DEF f
<1>5. Pushes(f, stack)
  <2>1. \A g \in On : Over(f, g)
    BY <1>2, <1>3, <1>4 DEF Over, Working
  <2> QED BY <1>1, <1>4, <2>1 DEF Pushes, Kind, Reports, On
<1>6. CallsInv' /\ UNCHANGED View
  BY <1>1, <1>4, <1>5, PlainPush DEF Given, Places, Plain, f
<1> QED BY <1>1, <1>6, PlainStep DEF Given

(* A frame is torn down.                                                   *)
LEMMA AbortOwnerPlaces ==
  ASSUME Given, NEW o \in Owners, AbortOwner(o)
  PROVE  Places'
<1>1. /\ Running("js") /\ stack' = <<Kill(o)>> \o stack
      /\ UNCHANGED <<lvars, cbvars, evars, qvars, dvars, nvars, open, waiters,
                     fetchOf, blocking, cvars, fault>>
  BY DEF AbortOwner, InJs, idle
<1>2. On = {Top} \cup Rest /\ Top.op = "js" /\ \A g \in Rest : Over(Top, g)
  BY <1>1, OnTopView DEF Given, Places, Pushes, Rest
<1> DEFINE f == Kill(o)
<1>3. f.op = "kill" /\ f.id = o /\ o # "client"
  BY Fields, Constants
<1> HIDE DEF f
<1>4. Pushes(f, stack)
  <2>1. \A g \in On : Over(f, g)
    BY <1>2, <1>3 DEF Over, Working
  <2> QED BY <1>1, <1>3, <2>1 DEF Pushes, Kind, Reports, On
<1>5. CallsInv' /\ UNCHANGED View
  BY <1>1, <1>3, <1>4, PlainPush DEF Given, Places, Plain, f
<1> QED BY <1>1, <1>5, PlainStep DEF Given

(* A task of the event loop.                                               *)
LEMMA RunTaskPlaces == ASSUME Given, RunTask PROVE Places'
<1>1. /\ stack = <<>> /\ stack' = <<Js(None, "task")>>
      /\ UNCHANGED <<lvars, cbvars, evars, qvars, dvars, nvars, open, waiters,
                     fetchOf, blocking, cvars, fault>>
  BY DEF RunTask, InLoop, idle
<1> DEFINE f == Js(None, "task")
<1>2. f.op = "js" /\ f.id = None /\ f.how = "task"
  BY Fields
<1> HIDE DEF f
<1>3. CallsInv' /\ UNCHANGED View
  BY <1>1, <1>2, FirstCall DEF Kind, Reports, Plain, f
<1> QED BY <1>1, <1>3, PlainStep DEF Given

(* Nobody blocks while the stack is empty.                                 *)
LEMMA NobodyBlocks ==
  ASSUME BlockInv, \A f \in On : f.op # "sync"
  PROVE  NoBlocking
BY DEF BlockInv, Syncs, NoBlocking

(* The runner ticks.                                                       *)
LEMMA TickBeginPlaces == ASSUME Given, TickBegin PROVE Places'
<1>1. /\ stack = <<>> /\ stack' = <<Tick("all")>> /\ Trip("blocking", ~NoBlocking)
      /\ UNCHANGED <<lvars, cbvars, evars, qvars, dvars, nvars, open, waiters,
                     fetchOf, blocking, cvars>>
  BY DEF TickBegin, InLoop, idle
<1> DEFINE f == Tick("all")
<1>2. f.op = "tick" /\ f.how = "all"
  BY Fields
<1> HIDE DEF f
<1>3. CallsInv' /\ UNCHANGED View /\ On = {}
  BY <1>1, <1>2, FirstCall DEF Kind, Reports, Plain, f
<1>4. NoBlocking
  BY <1>3, NobodyBlocks DEF Given, Places
<1>5. UNCHANGED fault
  BY <1>1, <1>4 DEF Trip, Broken
<1> QED BY <1>1, <1>3, <1>5, PlainStep DEF Given

(* The peer leaves, the runner sees it, or nothing happens.                *)
LEMMA WorldPlaces ==
  ASSUME Given, UNCHANGED vars \/ Quit \/ \E m \in {"close", "disconnect"} : PeerLeaves(m)
  PROVE  Places'
<1>1. /\ UNCHANGED stack
      /\ UNCHANGED <<lvars, cbvars, evars, qvars, dvars, nvars, open, waiters,
                     fetchOf, blocking, cvars, fault>>
  BY DEF Quit, PeerLeaves, vars, gvars
<1>2. CallsInv' /\ UNCHANGED View
  BY <1>1 DEF Given, Places, CallsInv, View, Workers, Syncs, Todos, Dying, Saves, On
<1> QED BY <1>1, <1>2, PlainStep DEF Given

(* The client is torn down.                                                *)
LEMMA ExitPlaces == ASSUME Given, Exit PROVE Places'
<1>1. /\ stack = <<>> /\ stack' = <<Kill("client")>>
      /\ UNCHANGED <<lvars, cbvars, evars, qvars, dvars, nvars, open, waiters,
                     fetchOf, blocking, cvars, fault, verdict>>
  BY DEF Exit, Exiting, idle
<1> DEFINE f == Kill("client")
<1>2. f.op = "kill" /\ f.id = "client"
  BY Fields
<1> HIDE DEF f
<1>3. CallsInv' /\ On' = {f} /\ On = {}
  BY <1>1, <1>2, FirstCall DEF Kind, Reports, f
<1>4. UNCHANGED <<Workers, Syncs, Todos, Saves>>
  <2>1. UNCHANGED Workers
    BY <1>2, <1>3 DEF Workers, Working
  <2>2. UNCHANGED Syncs
    BY <1>2, <1>3 DEF Syncs
  <2>3. UNCHANGED Todos
    BY <1>2, <1>3 DEF Todos
  <2>4. UNCHANGED Saves
    <3>1. ASSUME NEW t \in Ids
          PROVE  {g \in On : g.op = "abort" /\ g.id = t}' = {g \in On : g.op = "abort" /\ g.id = t}
      BY <1>2, <1>3
    <3> QED BY <3>1 DEF Saves
  <2> QED BY <2>1, <2>2, <2>3, <2>4
<1>5. Stays /\ Live' = Live
  BY <1>1, <1>4, SameWhere DEF lvars
<1>6. Dying'
  BY <1>2, <1>3 DEF Dying
<1>7. /\ UNCHANGED <<Workers, state, retired, detached>>
      /\ UNCHANGED <<Where, pending, delayed, delayedCount>>
      /\ UNCHANGED <<dispatch, gated, dispatchCount, conns, free, started>>
      /\ UNCHANGED <<events, settled, held, intercepted, outcome, notified>>
      /\ UNCHANGED <<Syncs, blocking, Todos, open, waiters, fetchOf, fault>>
  BY <1>1, <1>4, <1>5 DEF Stays, lvars, cbvars, evars, qvars, dvars, nvars, cvars
<1> HIDE DEF Where
<1>8. BusyInv' /\ PendingInv' /\ DelayedInv' /\ DispatchInv' /\ PoolInv'
  BY <1>7, Untouched DEF Given
<1>9. StreamInv' /\ HeldInv' /\ AnswerInv' /\ BlockInv'
  BY <1>7, Untouched DEF Given
<1>10. GateInv'
  <2>1. \A s : Queue(s)' = Queue(s)
    BY <1>7 DEF Queue
  <2>2. GateInv
    BY DEF Given, Places
  <2> QED BY <1>5, <1>6, <1>7, <2>1, <2>2 DEF GateInv
<1> QED BY <1>3, <1>7, <1>8, <1>9, <1>10 DEF Given, Places

(* A tick at another step, a pump that has got an error.                   *)
LEMMA Relabelled ==
  ASSUME NEW f, NEW g, NEW s, Pushes(f, s), g.op = f.op, g.id = f.id,
         f.op \in {"tick", "sync", "import"}, f.op = "tick" => g.how = f.how
  PROVE  Pushes(g, s)
<1>1. Kind(g) /\ ~Reports(g)
  BY DEF Pushes, Kind, Reports
<1>2. ASSUME NEW h \in FramesIn(s) PROVE Over(g, h)
  <2>1. Over(f, h)
    BY DEF Pushes
  <2> QED BY <2>1 DEF Over, Working
<1> QED BY <1>1, <1>2 DEF Pushes

(* The fields of a frame of which one is changed.                          *)
LEMMA Edited ==
  ASSUME NEW f \in Frames, NEW m, NEW n
  PROVE  /\ LET g == [f EXCEPT !.how = m]
            IN  g.op = f.op /\ g.id = f.id /\ g.how = m /\ g.pc = f.pc /\ g.todo = f.todo
         /\ LET g == [f EXCEPT !.pc = n]
            IN  g.op = f.op /\ g.id = f.id /\ g.how = f.how /\ g.todo = f.todo
         /\ LET g == [f EXCEPT !.todo = n]
            IN  g.op = f.op /\ g.id = f.id /\ g.how = f.how /\ g.todo = n
BY DEF Frames

(* The head of a well-typed stack is a frame.                              *)
LEMMA HeadFrame ==
  ASSUME NEW B, NEW s, Good(B, s), s # <<>>
  PROVE  Head(s) \in Frames
<1>1. Head(s) \in KnownFrames(B)
  BY Pop
<1> QED BY <1>1 DEF KnownFrames

(* The running function and the one that waits for it, with their types.   *)
LEMMA TopFrame ==
  ASSUME IInv, stack # <<>>
  PROVE  /\ Top \in Frames /\ Good(Born, Below)
         /\ Below # <<>> => Head(Below) \in Frames
         /\ Fits(Top, Below)
<1>1. Good(Born, stack)
  BY DEF IInv, Calling
<1>2. Top \in Frames /\ Good(Born, Below) /\ Fits(Top, Below)
  BY <1>1, HeadFrame, Pop DEF Top, Below
<1> QED BY <1>2, HeadFrame

(* A tick goes on to its next step.                                        *)
LEMMA NextStepView ==
  ASSUME IInv, CallsInv, Running("tick"), NextStep
  PROVE  CallsInv' /\ UNCHANGED View
<1>1. stack # <<>> /\ Top.op = "tick" /\ Pushes(Top, Below) /\ Plain(Top)
  BY OnTopView DEF Plain
<1>2. CASE stack' = Below
  BY <1>1, <1>2, PlainPop
<1>3. CASE stack' = <<[Top EXCEPT !.pc = @ + 1]>> \o Below
  <2> DEFINE f == [Top EXCEPT !.pc = Top.pc + 1]
  <2>1. f.op = Top.op /\ f.id = Top.id /\ f.how = Top.how
    BY <1>1, TopFrame, Edited
  <2> HIDE DEF f
  <2>2. Pushes(f, Below) /\ Plain(f)
    BY <1>1, <2>1, Relabelled DEF Plain
  <2> QED BY <1>1, <1>3, <2>2, PlainSwap DEF f
<1> QED BY <1>2, <1>3 DEF NextStep

(* A tick is done with the dispatcher, or returns.                         *)
LEMMA TickMovesPlaces ==
  ASSUME Given, TickDispatchEnd \/ TickStep
  PROVE  Places'
<1>1. /\ Running("tick") /\ NextStep
      /\ UNCHANGED <<lvars, cbvars, evars, qvars, dvars, nvars, open, waiters,
                     fetchOf, blocking, cvars, fault>>
  BY DEF TickDispatchEnd, TickStep, At, idle
<1>2. CallsInv' /\ UNCHANGED View
  BY <1>1, NextStepView DEF Given, Places
<1> QED BY <1>1, <1>2, PlainStep DEF Given

(* The pump under the running function gets an error.                      *)
Erring(s) == <<[Head(s) EXCEPT !.how = "err"]>> \o Tail(s)

(* The pump that gets it stays where it is.                                *)
LEMMA Errs ==
  ASSUME NEW s, Sound(s), s # <<>>, Head(s) \in Frames,
         Head(s).op \in {"sync", "import"}
  PROVE  /\ Sound(Erring(s))
         /\ \E f : /\ FramesIn(Erring(s)) = {f} \cup FramesIn(Tail(s))
                   /\ f.op = Head(s).op /\ f.id = Head(s).id
         /\ FramesIn(s) = {Head(s)} \cup FramesIn(Tail(s))
<1> DEFINE f == [Head(s) EXCEPT !.how = "err"]
<1>1. f.op = Head(s).op /\ f.id = Head(s).id
  BY Edited
<1> HIDE DEF f
<1>2. Sound(Tail(s)) /\ Pushes(Head(s), Tail(s)) /\ FramesIn(s) = {Head(s)} \cup FramesIn(Tail(s))
  BY SoundPop
<1>3. Pushes(f, Tail(s))
  BY <1>1, <1>2, Relabelled
<1>4. Sound(<<f>> \o Tail(s)) /\ FramesIn(<<f>> \o Tail(s)) = {f} \cup FramesIn(Tail(s))
  BY <1>2, <1>3, SoundPush
<1> QED BY <1>1, <1>2, <1>4 DEF Erring, f

(* A blocking request pumps.                                               *)
LEMMA PumpPlaces == ASSUME Given, Pump PROVE Places'
<1>1. /\ \/ Running("sync") \/ Running("import")
      /\ stack' = Erring(stack) \/ stack' = <<Tick("sync_wait")>> \o stack
      /\ UNCHANGED <<lvars, cbvars, evars, qvars, dvars, nvars, open, waiters,
                     fetchOf, blocking, cvars, fault>>
  BY DEF Pump, Pumping, idle, Erring, Top, Below
<1>2. stack # <<>> /\ Top.op \in {"sync", "import"} /\ Pushes(Top, Below) /\ On = {Top} \cup Rest
  BY <1>1, OnTopView DEF Given, Places
<1>3. CallsInv' /\ UNCHANGED View
  <2>1. CASE stack' = Erring(stack)
    <3>1. Top \in Frames
      BY <1>2, TopFrame DEF Given
    <3>2. PICK f : /\ CallsInv' /\ On' = {f} \cup Rest /\ f.op = Top.op /\ f.id = Top.id
      BY <1>2, <2>1, <3>1, Errs DEF Given, Places, CallsInv, On, Top, Below, Rest
    <3>3. \A g \in On : \/ g \in On' \/ Plain(g)
                        \/ g.op = "sync" /\ \E h \in On' : h.op = "sync" /\ h.id = g.id
      BY <1>2, <3>2 DEF Plain
    <3>4. \A g \in On' : \/ g \in On \/ Plain(g)
                         \/ g.op = "sync" /\ \E h \in On : h.op = "sync" /\ h.id = g.id
      BY <1>2, <3>2 DEF Plain
    <3> QED BY <3>2, <3>3, <3>4, PlainView
  <2>2. CASE stack' = <<Tick("sync_wait")>> \o stack
    <3> DEFINE f == Tick("sync_wait")
    <3>1. f.op = "tick" /\ f.how = "sync_wait"
      BY Fields
    <3> HIDE DEF f
    <3>2. ASSUME NEW g \in On PROVE Over(f, g)
      <4>1. CASE g = Top
        BY <1>2, <3>1, <4>1 DEF Over, Working
      <4>2. CASE g \in Rest
        <5>1. Over(Top, g)
          BY <1>2, <4>2 DEF Pushes, Rest
        <5>2. g.op \notin {"pipe", "kill", "release", "flush"}
          BY <1>2, <5>1 DEF Over
        <5>3. Top.op = "sync" => g.op \notin {"abort", "sync"}
          BY <1>2, <5>1 DEF Over
        <5>4. g.op # "abort"
          BY <1>2, <5>1 DEF Over
        <5> QED BY <3>1, <5>2, <5>4 DEF Over, Working
      <4> QED BY <1>2, <4>1, <4>2
    <3>3. Pushes(f, stack)
      BY <3>1, <3>2 DEF Pushes, Kind, Reports, On
    <3> QED BY <2>2, <3>1, <3>3, PlainPush DEF Given, Places, Plain, f
  <2> QED BY <1>1, <2>1, <2>2
<1> QED BY <1>1, <1>3, PlainStep DEF Given

(* The driver's teardown message reaches a pump.                           *)
LEMMA DrainTeardownPlaces == ASSUME Given, DrainTeardown PROVE Places'
<1>1. /\ Running("tick")
      /\ \/ ~SyncWait /\ stack' = <<Kill("page")>> \o stack
         \/ SyncWait /\ stack' = Erring(Below)
         \/ ~SyncWait /\ stack' = Below
      /\ UNCHANGED <<lvars, cbvars, evars, qvars, dvars, nvars, open, waiters,
                     fetchOf, blocking, cvars, fault>>
  BY DEF DrainTeardown, At, Erring, gvars
<1>2. /\ stack # <<>> /\ Top.op = "tick" /\ Pushes(Top, Below) /\ On = {Top} \cup Rest
      /\ Sound(Below) /\ Plain(Top)
  BY <1>1, OnTopView DEF Given, Places, Plain
<1>3. CallsInv' /\ UNCHANGED View
  <2>1. CASE ~SyncWait /\ stack' = <<Kill("page")>> \o stack
    <3> DEFINE f == Kill("page")
    <3>1. f.op = "kill" /\ f.id = "page"
      BY Fields
    <3> HIDE DEF f
    <3>2. Rest = {}
      <4>1. \A g \in Rest : Over(Top, g)
        BY <1>2 DEF Pushes, Rest
      <4> QED BY <1>2, <2>1, <4>1 DEF Over, SyncWait
    <3>3. \A g \in On : Over(f, g)
      BY <1>2, <3>1, <3>2 DEF Over, Working
    <3>4. Pushes(f, stack)
      BY <3>1, <3>3 DEF Pushes, Kind, Reports, On
    <3> QED BY <2>1, <3>1, <3>4, PlainPush DEF Given, Places, Plain, f
  <2>2. CASE SyncWait /\ stack' = Erring(Below)
    <3>1. Below # <<>> /\ Head(Below) \in Frames /\ Head(Below).op \in {"sync", "import"}
      BY <1>2, <2>2, TopFrame DEF Given, Fits, SyncWait
    <3>2. PICK f : /\ CallsInv' /\ On' = {f} \cup FramesIn(Tail(Below))
                   /\ Rest = {Head(Below)} \cup FramesIn(Tail(Below))
                   /\ f.op = Head(Below).op /\ f.id = Head(Below).id
      BY <1>2, <2>2, <3>1, Errs DEF CallsInv, On, Rest
    <3>3. \A g \in On : \/ g \in On' \/ Plain(g)
                        \/ g.op = "sync" /\ \E h \in On' : h.op = "sync" /\ h.id = g.id
      BY <1>2, <3>1, <3>2 DEF Plain
    <3>4. \A g \in On' : \/ g \in On \/ Plain(g)
                         \/ g.op = "sync" /\ \E h \in On : h.op = "sync" /\ h.id = g.id
      BY <1>2, <3>1, <3>2 DEF Plain
    <3> QED BY <3>2, <3>3, <3>4, PlainView
  <2>3. CASE ~SyncWait /\ stack' = Below
    BY <1>2, <2>3, PlainPop DEF Given, Places
  <2> QED BY <1>1, <2>1, <2>2, <2>3
<1> QED BY <1>1, <1>3, PlainStep DEF Given

-----------------------------------------------------------------------------
(* The transfers a step is not about                                       *)

(* What is known of a transfer apart from the queues and the gates.        *)
Elsewhere(T) ==
  /\ \A f : f.id \notin T => (f \in Workers' <=> f \in Workers)
  /\ \A u \in Ids \ T :
       /\ state'[u] = state[u] /\ Where'[u] = Where[u]
       /\ events'[u] = events[u] /\ outcome'[u] = outcome[u]
       /\ u \in retired' <=> u \in retired
       /\ u \in detached' <=> u \in detached
       /\ u \in conns' <=> u \in conns
       /\ u \in settled' <=> u \in settled
       /\ u \in notified' <=> u \in notified

(* The groups that speak of one transfer at a time, for those of T.        *)
BusyIn(T) ==
  /\ \A f \in Workers : f.id \in T =>
       /\ f.id \in Live
       /\ IF f.op = "pipe"
          THEN state[f.id] = "created" \/ (state[f.id] = "inflight" /\ f.how = "failed")
          ELSE state[f.id] \in {"delivering", "aborted"}
       /\ f.op = "abort" /\ f.how = "delivering" =>
            \E g \in Workers : g.op = "deliver" /\ g.id = f.id
  /\ \A t \in Live \cap T :
       /\ state[t] \in {"delivering", "aborted"} =>
            \E f \in Workers : f.id = t /\ f.op # "pipe"
       /\ state[t] = "created" => \E f \in Workers : f.id = t /\ f.op = "pipe"
       /\ state[t] = "aborted" <=> t \in detached
       /\ t \in Fetches => state[t] # "aborted"
StreamIn(T) ==
  /\ \A t \in (Ids \cap T) \ retired : Terminal(events[t]) =>
       state[t] \in {"buffered", "delivering", "aborted"} /\ t \notin conns
  /\ \A t \in Ids \cap T : Where[t] = "buffered" => Terminal(events[t])
  /\ \A f \in Workers : f.id \in T /\ f.op = "deliver" =>
       /\ f.how = "batch" => f.id \in conns \/ Terminal(events[f.id])
       /\ f.how = "last" => \/ state[f.id] = "aborted" \/ f.id \in settled
                            \/ Terminal(events[f.id])
       /\ f.how # "done" /\ f.id \in settled =>
            \/ state[f.id] = "aborted"
            \/ \E g \in Workers : g.op = "abort" /\ g.id = f.id
AnswerIn(T) ==
  /\ \A t \in settled \cap T : outcome[t] # <<>>
  /\ \A t \in Ids \cap T : outcome[t] # <<>> => t \in settled \cup retired
  /\ \A t \in retired \cap T : outcome[t] # <<>>
  /\ (settled \cup notified) \cap T \subseteq Born
  /\ \A t \in Live \cap T :
       /\ t \in settled \cup notified => state[t] \in {"delivering", "aborted"}
       /\ t \in notified => t \in settled \/ state[t] = "aborted"
  /\ \A f \in Workers : f.id \in T =>
       /\ f.op = "finish" => f.id \in settled \/ state[f.id] = "aborted"
       /\ f.op = "abort" => f.id \in settled
       /\ f.op = "deliver" /\ f.how = "done" => f.id \in settled /\ outcome[f.id] = <<"done">>

(* The groups hold when they hold for the transfers of T.                  *)
LEMMA ElsewhereKeeps ==
  ASSUME IInv, IInv', Places, NEW T, Elsewhere(T)
  PROVE  /\ BusyIn(T)' => BusyInv'
         /\ StreamIn(T)' => StreamInv'
         /\ AnswerIn(T)' => AnswerInv'
<1>1. /\ \A f : f.id \notin T => (f \in Workers' <=> f \in Workers)
      /\ \A u \in Ids \ T :
           /\ state'[u] = state[u] /\ Where'[u] = Where[u]
           /\ events'[u] = events[u] /\ outcome'[u] = outcome[u]
           /\ u \in retired' <=> u \in retired
           /\ u \in detached' <=> u \in detached
           /\ u \in conns' <=> u \in conns
           /\ u \in settled' <=> u \in settled
           /\ u \in notified' <=> u \in notified
  BY DEF Elsewhere
<1>2. \A u \in Ids \ T : (u \in Live' <=> u \in Live) /\ (u \in Born' <=> u \in Born)
  BY <1>1 DEF Live, Born
<1>3. Live \subseteq Ids /\ Live' \subseteq Ids
  BY DEF Live
<1> HIDE DEF Where
<1>4. ASSUME BusyIn(T)' PROVE BusyInv'
  <2>1. \A f \in Workers' : f.id \notin T =>
          /\ f.id \in Live'
          /\ IF f.op = "pipe"
             THEN state'[f.id] = "created" \/ (state'[f.id] = "inflight" /\ f.how = "failed")
             ELSE state'[f.id] \in {"delivering", "aborted"}
          /\ f.op = "abort" /\ f.how = "delivering" =>
               \E g \in Workers' : g.op = "deliver" /\ g.id = f.id
    BY <1>1, <1>2, <1>3 DEF Places, BusyInv
  <2>2. \A t \in Live' : t \notin T =>
          /\ state'[t] \in {"delivering", "aborted"} =>
               \E f \in Workers' : f.id = t /\ f.op # "pipe"
          /\ state'[t] = "created" => \E f \in Workers' : f.id = t /\ f.op = "pipe"
          /\ state'[t] = "aborted" <=> t \in detached'
          /\ t \in Fetches => state'[t] # "aborted"
    BY <1>1, <1>2, <1>3 DEF Places, BusyInv
  <2> QED BY <1>4, <2>1, <2>2 DEF BusyIn, BusyInv
<1>5. ASSUME StreamIn(T)' PROVE StreamInv'
  <2>1. \A t \in Ids : t \notin T => (Where'[t] = "buffered" => Terminal(events'[t]))
    BY <1>1 DEF Places, StreamInv
  <2>0. \A t \in Ids \ retired' : t \notin T /\ Terminal(events'[t]) =>
          state'[t] \in {"buffered", "delivering", "aborted"} /\ t \notin conns'
    BY <1>1 DEF Places, StreamInv, Terminal
  <2>2. \A f \in Workers : f.id \in Ids
    BY <1>3 DEF Places, BusyInv
  <2>3. \A f \in Workers' : f.id \notin T /\ f.op = "deliver" =>
          /\ f.how = "batch" => f.id \in conns' \/ Terminal(events'[f.id])
          /\ f.how = "last" => \/ state'[f.id] = "aborted" \/ f.id \in settled'
                               \/ Terminal(events'[f.id])
          /\ f.how # "done" /\ f.id \in settled' =>
               \/ state'[f.id] = "aborted"
               \/ \E g \in Workers' : g.op = "abort" /\ g.id = f.id
    BY <1>1, <2>2 DEF Places, StreamInv
  <2>4. /\ \A t \in (Ids \cap T) \ retired' : Terminal(events'[t]) =>
             state'[t] \in {"buffered", "delivering", "aborted"} /\ t \notin conns'
        /\ \A t \in Ids \cap T : Where'[t] = "buffered" => Terminal(events'[t])
        /\ \A f \in Workers' : f.id \in T /\ f.op = "deliver" =>
          /\ f.how = "batch" => f.id \in conns' \/ Terminal(events'[f.id])
          /\ f.how = "last" => \/ state'[f.id] = "aborted" \/ f.id \in settled'
                               \/ Terminal(events'[f.id])
          /\ f.how # "done" /\ f.id \in settled' =>
               \/ state'[f.id] = "aborted"
               \/ \E g \in Workers' : g.op = "abort" /\ g.id = f.id
    BY <1>5 DEF StreamIn, Terminal
  <2> QED BY <2>0, <2>1, <2>3, <2>4 DEF StreamInv, Terminal
<1>6. ASSUME AnswerIn(T)' PROVE AnswerInv'
  <2>1. /\ settled \subseteq Ids /\ settled' \subseteq Ids /\ notified' \subseteq Ids
        /\ retired \subseteq Ids /\ retired' \subseteq Ids
    BY DEF IInv, Data, Life, Calls, Born
  <2>2. /\ \A t \in settled' \ T : outcome'[t] # <<>>
        /\ \A t \in Ids \ T : outcome'[t] # <<>> => t \in settled' \cup retired'
        /\ \A t \in retired' \ T : outcome'[t] # <<>>
        /\ (settled' \cup notified') \ T \subseteq Born'
    BY <1>1, <1>2, <2>1 DEF Places, AnswerInv
  <2>3. \A t \in Live' \ T :
          /\ t \in settled' \cup notified' => state'[t] \in {"delivering", "aborted"}
          /\ t \in notified' => t \in settled' \/ state'[t] = "aborted"
    BY <1>1, <1>2, <1>3 DEF Places, AnswerInv
  <2>4. \A f \in Workers' : f.id \notin T =>
          /\ f.op = "finish" => f.id \in settled' \/ state'[f.id] = "aborted"
          /\ f.op = "abort" => f.id \in settled'
          /\ f.op = "deliver" /\ f.how = "done" =>
               f.id \in settled' /\ outcome'[f.id] = <<"done">>
    <3> SUFFICES ASSUME NEW f \in Workers', f.id \notin T
                 PROVE  /\ f.op = "finish" => f.id \in settled' \/ state'[f.id] = "aborted"
                        /\ f.op = "abort" => f.id \in settled'
                        /\ f.op = "deliver" /\ f.how = "done" =>
                             f.id \in settled' /\ outcome'[f.id] = <<"done">>
      OBVIOUS
    <3>1. f \in Workers /\ f.id \in Ids \ T
      BY <1>1, <1>3 DEF Places, BusyInv
    <3>2. /\ f.op = "finish" => f.id \in settled \/ state[f.id] = "aborted"
          /\ f.op = "abort" => f.id \in settled
          /\ f.op = "deliver" /\ f.how = "done" =>
               f.id \in settled /\ outcome[f.id] = <<"done">>
      BY <3>1 DEF Places, AnswerInv
    <3> QED BY <1>1, <3>1, <3>2
  <2> QED BY <1>6, <2>2, <2>3, <2>4 DEF AnswerIn, AnswerInv
<1> QED BY <1>4, <1>5, <1>6

-----------------------------------------------------------------------------
(* The CDP client's table and the gates                                    *)

(* No transfer comes or goes that CDP may answer.                          *)
LEMMA HeldElse ==
  ASSUME HeldInv, NEW A, Shifts(A), A \cap Kept4Cdp = {}, UNCHANGED intercepted,
         \A t \in Live' : IF t \in Live THEN t \in held' <=> t \in held ELSE t \notin held'
  PROVE  HeldInv'
<1>1. \A t \in Ids : Where'[t] \in Kept4Cdp <=> Where[t] \in Kept4Cdp
  BY DEF Shifts
<1>2. \A t \in Ids : t \notin Live => Where[t] \notin Kept4Cdp
  BY WhereIs DEF Kept4Cdp
<1>3. Live' \subseteq Ids
  BY DEF Live
<1> HIDE DEF Where
<1>4. {t \in Ids : Where[t] \in Kept4Cdp}' = {t \in Ids : Where[t] \in Kept4Cdp}
  BY <1>1
<1> QED BY <1>1, <1>2, <1>3, <1>4 DEF HeldInv

(* One transfer comes or goes.                                             *)
LEMMA HeldMoves ==
  ASSUME HeldInv, IInv, NEW t \in Ids, NEW l, Moves(t, l),
         \A u \in Live' : IF u = t THEN u \in held' <=> l \in Kept4Cdp
                          ELSE u \in Live /\ (u \in held' <=> u \in held),
         intercepted' = (intercepted + (IF l \in Kept4Cdp THEN 1 ELSE 0))
                          - (IF Where[t] \in Kept4Cdp THEN 1 ELSE 0)
  PROVE  HeldInv'
<1> DEFINE K == {u \in Ids : Where[u] \in Kept4Cdp}
           L == {u \in Ids : Where'[u] \in Kept4Cdp}
<1>1. /\ Where'[t] = l /\ \A u \in Ids : u # t => Where'[u] = Where[u]
  BY DEF Moves, Where
<1>2. Live' \subseteq Ids
  BY DEF Live
<1>3. \A u \in Live' : u \in held' <=> Where'[u] \in Kept4Cdp
  <2> HIDE DEF Where
  <2> QED BY <1>1, <1>2 DEF HeldInv
<1>4. IsFiniteSet(K \ {t}) /\ Cardinality(K \ {t}) \in Int /\ t \notin K \ {t}
  <2>1. IsFiniteSet(K \ {t})
    BY Constants, FS_Subset, K \ {t} \subseteq Ids
  <2> QED BY <2>1, FS_CardinalityType
<1>5. K = IF Where[t] \in Kept4Cdp THEN (K \ {t}) \cup {t} ELSE K \ {t}
  OBVIOUS
<1>6. L = IF l \in Kept4Cdp THEN (K \ {t}) \cup {t} ELSE K \ {t}
  BY <1>1
<1>7. intercepted = Cardinality(K) /\ intercepted \in Int
  BY DEF HeldInv, IInv, Data, Cdp
<1> HIDE DEF K, L
<1>8. Cardinality((K \ {t}) \cup {t}) = Cardinality(K \ {t}) + 1
  BY <1>4, FS_AddElement
<1>9. /\ Cardinality(K) = IF Where[t] \in Kept4Cdp THEN Cardinality(K \ {t}) + 1
                         ELSE Cardinality(K \ {t})
      /\ Cardinality(L) = IF l \in Kept4Cdp THEN Cardinality(K \ {t}) + 1
                         ELSE Cardinality(K \ {t})
  BY <1>5, <1>6, <1>8
<1>10. intercepted' = Cardinality(L)
  <2> HIDE DEF Where
  <2> QED BY <1>4, <1>7, <1>9
<1> QED BY <1>3, <1>10 DEF HeldInv, L

(* No transfer comes to a gate or leaves one, and no fetch begins or ends. *)
LEMMA GateElse ==
  ASSUME IInv, Places, NEW A, Shifts(A), A \cap AtGate = {},
         UNCHANGED <<open, waiters, fetchOf, Todos, Dying>>,
         \A f \in Fetches : Where'[f] # "none" <=> Where[f] # "none",
         \A f \in Fetches : outcome[f] = <<>> => outcome'[f] = <<>>,
         \A t \in Live : state[t] \in AtGate => t \in Live' /\ state'[t] \in AtGate,
         \A f \in Workers' : f.op = "pipe" /\ f.pc = Submitter /\ f.id \in Fetches =>
           \E g \in Workers : g.op = "pipe" /\ g.pc = Submitter /\ g.id = f.id
  PROVE  GateInv'
<1>0. GateInv /\ BusyInv
  BY DEF Places
<1>1. \A t \in Ids : (Where'[t] \in AtGate \/ Where[t] \in AtGate) => Where'[t] = Where[t]
  BY DEF Shifts
<1>2. \A s : StateAt(s) \in AtGate
  BY DEF StateAt, AtGate
<1>3. Reqs \subseteq Ids /\ Fetches \subseteq Ids
  BY DEF Ids
<1>4. \A t \in Ids : Where[t] \in AtGate => t \in Live
  BY WhereIs DEF AtGate
<1> HIDE DEF Where
<1>5. \A s : Queue(s)' = Queue(s)
  BY <1>1, <1>2, <1>3 DEF Queue
<1>6. \A s \in Slots : ToSet(waiters[s]) = Queue(s)
  BY <1>0, OnceMeans DEF GateInv
<1>7. \A s \in Slots : \A t \in Queue(s) : t \in Ids /\ Where[t] \in AtGate
  BY <1>2, <1>3 DEF Queue
<1>8. /\ \A s \in open' : \E f \in Fetches :
           Where'[f] # "none" /\ fetchOf'[f] = s /\ outcome'[f] = <<>>
      /\ \A f \in Fetches : Where'[f] # "none" => fetchOf'[f] \in Slots
      /\ \A s \in Slots : Once(waiters'[s], Queue(s)')
  BY <1>0, <1>5 DEF GateInv
<1>9. \A t \in Todos' : t \in Reqs \cap Live' /\ state'[t] \in AtGate
  BY <1>0 DEF GateInv
<1>10. ~Dying' => \A t \in Ids : Where'[t] \in AtGate =>
                    t \in Reqs /\ (t \in Todos' \/ SlotAt(t, Where'[t]) \in open')
  BY <1>0, <1>1 DEF GateInv
<1>11. ASSUME NEW f \in Workers', f.op = "pipe" /\ f.pc = Submitter /\ f.id \in Fetches,
              NEW t \in ToSet(waiters'[fetchOf'[f.id]])
       PROVE  state'[t] \in AtGate
  <2>1. PICK g \in Workers : g.op = "pipe" /\ g.pc = Submitter /\ g.id = f.id
    BY <1>11
  <2>2. state[t] \in AtGate
    BY <1>0, <1>11, <2>1 DEF GateInv
  <2>3. f.id \in Live /\ f.id \in Ids
    BY <1>0, <1>3, <1>11, <2>1 DEF BusyInv
  <2>4. Where[f.id] # "none"
    BY <2>3, WhereLive DEF Places
  <2>5. fetchOf[f.id] \in Slots
    BY <1>0, <1>11, <2>4 DEF GateInv
  <2>6. t \in Live
    BY <1>4, <1>6, <1>7, <1>11, <2>5
  <2> QED BY <2>2, <2>6
<1> QED BY <1>8, <1>9, <1>10, <1>11 DEF GateInv

-----------------------------------------------------------------------------
(* One transfer moves                                                      *)

(* Who is where after a move.                                              *)
LEMMA MoveIs ==
  ASSUME NEW t \in Ids, NEW l, Moves(t, l)
  PROVE  /\ Where'[t] = l /\ \A u \in Ids : u # t => Where'[u] = Where[u]
         /\ \A A : {u \in Ids : Where'[u] \in A} =
              IF l \in A THEN {u \in Ids : Where[u] \in A} \cup {t}
              ELSE {u \in Ids : Where[u] \in A} \ {t}
<1>1. Where'[t] = l /\ \A u \in Ids : u # t => Where'[u] = Where[u]
  BY DEF Moves, Where
<1> HIDE DEF Where
<1> QED BY <1>1

(* Who stays moves to where it is.                                         *)
LEMMA StaysMoves ==
  ASSUME NEW t \in Ids, Stays
  PROVE  Moves(t, Where[t])
<1>1. Where = [u \in Ids |-> Where[u]]
  BY WhereTable
<1> HIDE DEF Where
<1> QED BY <1>1 DEF Stays, Moves

(* ... to the end of the pending queue,                                    *)
LEMMA PendingGains ==
  ASSUME Places, NEW t \in Ids, Where[t] # "queued", Moves(t, "queued"),
         pending' = Append(pending, t)
  PROVE  PendingInv'
<1> HIDE DEF Where
<1>1. {u \in Ids : Where'[u] = "queued"} = {u \in Ids : Where[u] = "queued"} \cup {t}
  BY MoveIs
<1> QED BY <1>1, OnceAppend DEF Places, PendingInv

(* ... from its head or out of its middle,                                 *)
LEMMA PendingLoses ==
  ASSUME Places, NEW t \in Ids, NEW l, l # "queued", Moves(t, l),
         \/ pending # <<>> /\ t = Head(pending) /\ pending' = Tail(pending)
         \/ pending' = IF Where[t] = "queued" THEN Unlink(pending, t) ELSE pending
  PROVE  PendingInv'
<1> DEFINE Q == {u \in Ids : Where[u] = "queued"}
<1> HIDE DEF Where
<1>1. {u \in Ids : Where'[u] = "queued"} = Q \ {t}
  BY MoveIs
<1>2. Where[t] # "queued" => Q \ {t} = Q
  OBVIOUS
<1>3. Once(pending, Q)
  BY DEF Places, PendingInv
<1> HIDE DEF Q
<1>4. Once(pending', Q \ {t})
  <2>1. CASE pending # <<>> /\ t = Head(pending) /\ pending' = Tail(pending)
    BY <1>3, <2>1, OnceTail
  <2>2. CASE Where[t] = "queued" /\ pending' = Unlink(pending, t)
    BY <1>3, <2>2, OnceUnlink
  <2>3. CASE Where[t] # "queued" /\ pending' = pending
    BY <1>2, <1>3, <2>3
  <2> QED BY <2>1, <2>2, <2>3
<1> QED BY <1>1, <1>4 DEF PendingInv

(* ... into the delayed queue,                                             *)
LEMMA DelayedGains ==
  ASSUME Places, NEW t \in Ids, Where[t] # "delayed", Moves(t, "delayed"),
         delayedCount' = delayedCount + 1,
         \E i \in 1..Len(delayed) + 1 : delayed' = InsertAt(delayed, i, t)
  PROVE  DelayedInv'
<1> DEFINE D == {u \in Ids : Where[u] = "delayed"}
<1> HIDE DEF Where
<1>1. {u \in Ids : Where'[u] = "delayed"} = D \cup {t} /\ t \notin D
  BY MoveIs
<1>2. Once(delayed, D) /\ delayedCount = Len(delayed) /\ Len(delayed) \in Nat
  BY OnceMeans DEF Places, DelayedInv
<1> HIDE DEF D
<1>3. Once(delayed', D \cup {t}) /\ Len(delayed') = Len(delayed) + 1
  BY <1>1, <1>2, OnceInsertAt
<1>4. delayedCount' = Len(delayed')
  BY <1>2, <1>3
<1> QED BY <1>1, <1>3, <1>4 DEF DelayedInv

(* ... and out of it.                                                      *)
LEMMA DelayedLoses ==
  ASSUME Places, NEW t \in Ids, NEW l, l # "delayed", Moves(t, l),
         \/ /\ delayed # <<>> /\ t = Head(delayed) /\ delayed' = Tail(delayed)
            /\ delayedCount' = delayedCount - 1
         \/ /\ delayed' = IF Where[t] = "delayed" THEN Unlink(delayed, t) ELSE delayed
            /\ delayedCount' = delayedCount - (IF Where[t] = "delayed" THEN 1 ELSE 0)
  PROVE  DelayedInv'
<1> DEFINE D == {u \in Ids : Where[u] = "delayed"}
<1> HIDE DEF Where
<1>1. {u \in Ids : Where'[u] = "delayed"} = D \ {t}
  BY MoveIs
<1>2. /\ Where[t] # "delayed" => D \ {t} = D
      /\ Where[t] = "delayed" => t \in D
  OBVIOUS
<1>3. Once(delayed, D) /\ delayedCount = Len(delayed) /\ Len(delayed) \in Nat
  BY OnceMeans DEF Places, DelayedInv
<1> HIDE DEF D
<1>4. CASE /\ delayed # <<>> /\ t = Head(delayed) /\ delayed' = Tail(delayed)
           /\ delayedCount' = delayedCount - 1
  <2>1. Once(delayed', D \ {t}) /\ Len(delayed') = Len(delayed) - 1
    BY <1>3, <1>4, OnceTail
  <2> QED BY <1>1, <1>3, <1>4, <2>1 DEF DelayedInv
<1>5. CASE Where[t] = "delayed" /\ delayed' = Unlink(delayed, t)
           /\ delayedCount' = delayedCount - 1
  <2>1. Once(delayed', D \ {t}) /\ Len(delayed') = Len(delayed) - 1
    BY <1>2, <1>3, <1>5, OnceUnlink
  <2> QED BY <1>1, <1>3, <1>5, <2>1 DEF DelayedInv
<1>6. CASE Where[t] # "delayed" /\ delayed' = delayed /\ delayedCount' = delayedCount - 0
  <2>1. Once(delayed', D \ {t})
    BY <1>2, <1>3, <1>6
  <2>2. delayedCount' = delayedCount
    BY <1>3, <1>6
  <2>3. delayedCount' = Len(delayed')
    BY <1>3, <1>6, <2>2, Zenon
  <2> QED BY <1>1, <2>1, <2>3 DEF DelayedInv
<1> QED BY <1>4, <1>5, <1>6

-----------------------------------------------------------------------------
(* The dispatcher's queues                                                 *)

(* dispatch_node is linked when one of the two queues has the transfer.    *)
LEMMA LinkedIn ==
  ASSUME Places, NEW t
  PROVE  Linked(t) <=> t \in InDispatch \cup InGated
BY OnceMeans DEF Places, DispatchInv, Linked

(* A transfer that is on neither of them moves.                            *)
LEMMA DispatchElse ==
  ASSUME Places, NEW t \in Ids, NEW l, l # "buffered", Moves(t, l),
         t \notin InDispatch \cup InGated,
         UNCHANGED <<dispatch, gated, dispatchCount>>,
         \A u \in Ids : u # t /\ u \in conns \cap started => u \in conns' \cap started'
  PROVE  DispatchInv'
<1>1. Where'[t] = l /\ \A u \in Ids : u # t => Where'[u] = Where[u]
  BY MoveIs
<1>2. InDispatch' = InDispatch /\ InGated' = InGated
  BY DEF InDispatch, InGated
<1> HIDE DEF Where
<1>3. DispatchInv
  BY DEF Places
<1>4. \A u \in Ids : Where'[u] = "buffered" => u \in InDispatch \cup InGated
  BY <1>1, <1>3 DEF DispatchInv
<1>5. \A u \in Ids : u \in InDispatch \cup InGated =>
        Where'[u] = "buffered" \/ (Where'[u] = "inflight" /\ u \in conns' \cap started')
  BY <1>1, <1>3 DEF DispatchInv
<1> QED BY <1>2, <1>3, <1>4, <1>5 DEF DispatchInv

(* Whoever is neither buffered nor a stream with news is on neither.       *)
LEMMA NotLinked ==
  ASSUME Places, NEW t \in Ids, Where[t] # "buffered",
         Where[t] = "inflight" => t \notin conns \cap started
  PROVE  t \notin InDispatch \cup InGated
BY DEF Places, DispatchInv

(* scheduleDispatch.                                                       *)
LEMMA DispatchGains ==
  ASSUME Places, NEW t \in Ids, Moves(t, "buffered"),
         \/ Linked(t) /\ UNCHANGED <<dispatch, gated, dispatchCount>>
         \/ /\ ~Linked(t) /\ dispatch' = Append(dispatch, t)
            /\ dispatchCount' = dispatchCount + 1 /\ UNCHANGED gated,
         \A u \in Ids : u # t /\ u \in conns \cap started => u \in conns' \cap started'
  PROVE  DispatchInv'
<1>1. Where'[t] = "buffered" /\ \A u \in Ids : u # t => Where'[u] = Where[u]
  BY MoveIs
<1>2. Linked(t) <=> t \in InDispatch \cup InGated
  BY LinkedIn
<1>3. DispatchInv /\ Len(dispatch) \in Nat /\ Len(gated) \in Nat
  BY OnceMeans DEF Places, DispatchInv
<1> HIDE DEF Where
<1>4. /\ \A u \in Ids : Where'[u] = "buffered" => u = t \/ u \in InDispatch \cup InGated
      /\ \A u \in Ids : u = t \/ u \in InDispatch \cup InGated =>
           Where'[u] = "buffered" \/ (Where'[u] = "inflight" /\ u \in conns' \cap started')
  BY <1>1, <1>3 DEF DispatchInv
<1>5. CASE Linked(t) /\ UNCHANGED <<dispatch, gated, dispatchCount>>
  <2>1. InDispatch' = InDispatch /\ InGated' = InGated
    BY <1>5 DEF InDispatch, InGated
  <2> QED BY <1>2, <1>3, <1>4, <1>5, <2>1 DEF DispatchInv
<1>6. CASE /\ ~Linked(t) /\ dispatch' = Append(dispatch, t)
           /\ dispatchCount' = dispatchCount + 1 /\ UNCHANGED gated
  <2>1. Once(dispatch, InDispatch) /\ t \notin InDispatch
    BY <1>2, <1>3, <1>6 DEF DispatchInv
  <2>2. Once(dispatch', InDispatch \cup {t}) /\ Len(dispatch') = Len(dispatch) + 1
    BY <1>6, <2>1, OnceAppend
  <2>3. InDispatch' = InDispatch \cup {t}
    BY <2>2, OnceMeans DEF InDispatch
  <2>4. InGated' = InGated
    BY <1>6 DEF InGated
  <2>5. dispatchCount' = Len(dispatch') + Len(gated')
    BY <1>3, <1>6, <2>2 DEF DispatchInv
  <2>6. Once(gated', InGated') /\ InDispatch' \cap InGated' = {}
    BY <1>2, <1>3, <1>6, <2>3, <2>4 DEF DispatchInv
  <2> QED BY <1>4, <2>2, <2>3, <2>4, <2>5, <2>6 DEF DispatchInv
<1> QED BY <1>5, <1>6

(* deinit.                                                                 *)
LEMMA DispatchLoses ==
  ASSUME Places, NEW t \in Ids, NEW l, l # "buffered", Moves(t, l),
         dispatch' = Unlink(dispatch, t), gated' = Unlink(gated, t),
         dispatchCount' = dispatchCount - (IF Linked(t) THEN 1 ELSE 0),
         \A u \in Ids : u # t /\ u \in conns \cap started => u \in conns' \cap started'
  PROVE  DispatchInv'
<1>1. Where'[t] = l /\ \A u \in Ids : u # t => Where'[u] = Where[u]
  BY MoveIs
<1>2. Linked(t) <=> t \in InDispatch \cup InGated
  BY LinkedIn
<1>3. DispatchInv /\ Len(dispatch) \in Nat /\ Len(gated) \in Nat
  BY OnceMeans DEF Places, DispatchInv
<1>4. /\ Once(dispatch', InDispatch \ {t})
      /\ Len(dispatch') = IF t \in InDispatch THEN Len(dispatch) - 1 ELSE Len(dispatch)
  BY <1>3, OnceUnlink DEF DispatchInv
<1>5. /\ Once(gated', InGated \ {t})
      /\ Len(gated') = IF t \in InGated THEN Len(gated) - 1 ELSE Len(gated)
  BY <1>3, OnceUnlink DEF DispatchInv
<1>6. InDispatch' = InDispatch \ {t} /\ InGated' = InGated \ {t}
  BY <1>4, <1>5, OnceMeans DEF InDispatch, InGated
<1>7. dispatchCount' = Len(dispatch') + Len(gated')
  <2>1. ~(t \in InDispatch /\ t \in InGated)
    BY <1>3 DEF DispatchInv
  <2>2. dispatchCount = Len(dispatch) + Len(gated)
    BY <1>3 DEF DispatchInv
  <2>3. CASE Linked(t)
    <3>1. dispatchCount' = dispatchCount - 1
      BY <2>3
    <3>2. t \in InDispatch \/ t \in InGated
      BY <1>2, <2>3
    <3>3. \/ Len(dispatch') = Len(dispatch) - 1 /\ Len(gated') = Len(gated)
          \/ Len(dispatch') = Len(dispatch) /\ Len(gated') = Len(gated) - 1
      BY <1>4, <1>5, <2>1, <3>2
    <3> QED BY <1>3, <2>2, <3>1, <3>3
  <2>4. CASE ~Linked(t)
    <3>1. dispatchCount' = dispatchCount - 0
      BY <2>4
    <3>2. t \notin InDispatch /\ t \notin InGated
      BY <1>2, <2>4
    <3>3. Len(dispatch') = Len(dispatch) /\ Len(gated') = Len(gated)
      BY <1>4, <1>5, <3>2
    <3> QED BY <1>3, <2>2, <3>1, <3>3
  <2> QED BY <2>3, <2>4
<1> HIDE DEF Where
<1>8. /\ \A u \in Ids : Where'[u] = "buffered" => u \in InDispatch' \cup InGated'
      /\ \A u \in Ids : u \in InDispatch' \cup InGated' =>
           Where'[u] = "buffered" \/ (Where'[u] = "inflight" /\ u \in conns' \cap started')
  BY <1>1, <1>3, <1>6 DEF DispatchInv
<1>9. InDispatch' \cap InGated' = {}
  BY <1>3, <1>6 DEF DispatchInv
<1> QED BY <1>4, <1>5, <1>6, <1>7, <1>8, <1>9 DEF DispatchInv

-----------------------------------------------------------------------------
(* The connection pool                                                     *)

(* A connection goes back.                                                 *)
LEMMA PoolGives ==
  ASSUME IInv, Places, NEW t \in Ids, NEW l, Moves(t, l), l # "inflight",
         removeConn(t), UNCHANGED started
  PROVE  PoolInv'
<1>1. Where'[t] = l /\ \A u \in Ids : u # t => Where'[u] = Where[u]
  BY MoveIs
<1>2. conns \subseteq Ids /\ free \in Int /\ PoolInv /\ Conns \in Nat
  BY Constants, BornIds DEF IInv, Data, Network, Places
<1>3. IsFiniteSet(conns)
  BY <1>2, Constants, FS_Subset
<1>4. Cardinality(conns) = Cardinality(conns \ {t}) + (IF t \in conns THEN 1 ELSE 0)
      /\ Cardinality(conns \ {t}) \in Nat
  <2>1. IsFiniteSet(conns \ {t}) /\ t \notin conns \ {t}
    BY <1>3, FS_Subset, conns \ {t} \subseteq conns
  <2>2. t \in conns => conns = (conns \ {t}) \cup {t}
    OBVIOUS
  <2>3. t \notin conns => conns = conns \ {t}
    OBVIOUS
  <2>4. Cardinality(conns \ {t}) \in Nat
    BY <2>1, FS_CardinalityType
  <2>5. Cardinality((conns \ {t}) \cup {t}) = Cardinality(conns \ {t}) + 1
    BY <2>1, FS_AddElement
  <2>6. CASE t \in conns
    <3>1. Cardinality(conns) = Cardinality(conns \ {t}) + 1
      BY <2>2, <2>5, <2>6
    <3> QED BY <2>4, <2>6, <3>1
  <2>7. CASE t \notin conns
    <3>1. Cardinality(conns) = Cardinality(conns \ {t})
      BY <2>3, <2>7
    <3> QED BY <2>4, <2>7, <3>1
  <2> QED BY <2>6, <2>7
<1>5. conns' = conns \ {t} /\ free' = IF t \in conns THEN free + 1 ELSE free
  BY DEF removeConn
<1>6. free' + Cardinality(conns') = Conns /\ free' >= 0
  <2>1. free + Cardinality(conns) = Conns /\ free >= 0
    BY <1>2 DEF PoolInv
  <2> QED BY <1>2, <1>4, <1>5, <2>1
<1> HIDE DEF Where
<1>7. /\ \A u \in Ids : Where'[u] = "inflight" => u \in conns'
      /\ \A u \in Ids : u \in conns' =>
           \/ Where'[u] = "inflight"
           \/ Where'[u] \in {"delivering", "aborted"} /\ u \in started'
      /\ started' \cap conns' \subseteq StreamReqs
  BY <1>1, <1>2, <1>5 DEF PoolInv
<1> QED BY <1>6, <1>7 DEF PoolInv

(* One is taken.                                                           *)
LEMMA PoolTakes ==
  ASSUME IInv, Places, NEW t \in Ids, Where[t] = "created", Moves(t, "inflight"),
         free # 0, conns' = conns \cup {t}, free' = free - 1, started' = started \ {t}
  PROVE  PoolInv' /\ t \notin conns
<1>1. Where'[t] = "inflight" /\ \A u \in Ids : u # t => Where'[u] = Where[u]
  BY MoveIs
<1>2. conns \subseteq Ids /\ free \in Int /\ PoolInv /\ Conns \in Nat
  BY Constants, BornIds DEF IInv, Data, Network, Places
<1>3. IsFiniteSet(conns)
  BY <1>2, Constants, FS_Subset
<1> HIDE DEF Where
<1>4. t \notin conns
  BY <1>2 DEF PoolInv
<1>5. Cardinality(conns') = Cardinality(conns) + 1 /\ Cardinality(conns) \in Nat
  BY <1>3, <1>4, FS_AddElement, FS_CardinalityType
<1>6. free' + Cardinality(conns') = Conns /\ free' >= 0
  <2>1. free + Cardinality(conns) = Conns /\ free >= 0
    BY <1>2 DEF PoolInv
  <2> QED BY <1>2, <1>5, <2>1
<1>7. /\ \A u \in Ids : Where'[u] = "inflight" => u \in conns'
      /\ \A u \in Ids : u \in conns' =>
           \/ Where'[u] = "inflight"
           \/ Where'[u] \in {"delivering", "aborted"} /\ u \in started'
      /\ started' \cap conns' \subseteq StreamReqs
  BY <1>1, <1>2 DEF PoolInv
<1> QED BY <1>4, <1>6, <1>7 DEF PoolInv

-----------------------------------------------------------------------------
(* The pipeline                                                            *)

(* Pipelines, deliveries and plain frames come and go under everything the *)
(* other frames say.                                                       *)
LEMMA HandsView ==
  ASSUME \A f : f \in On /\ f \notin On' => Plain(f) \/ f.op \in {"pipe", "deliver", "finish"},
         \A f : f \in On' /\ f \notin On => Plain(f) \/ f.op \in {"pipe", "deliver", "finish"}
  PROVE  UNCHANGED <<Syncs, Todos, Dying, Saves>>
<1>1. \A t : ~Contains(<<>>, t)
  BY DEF Contains
<1>2. \A f : Plain(f) \/ f.op \in {"pipe", "deliver", "finish"} =>
         /\ f.op \notin {"sync", "abort"}
         /\ f.op = "flush" => \A t : ~Contains(f.todo, t)
         /\ ~(f.op = "kill" /\ f.id = "client")
  BY <1>1 DEF Plain
<1>3. Syncs' = Syncs
  BY <1>2 DEF Syncs
<1>4. Todos' = Todos
  BY <1>2 DEF Todos
<1>5. Dying' = Dying
  BY <1>2 DEF Dying
<1>6. Saves' = Saves
  <2>1. ASSUME NEW t \in Ids
        PROVE  {f \in On : f.op = "abort" /\ f.id = t}' = {f \in On : f.op = "abort" /\ f.id = t}
    BY <1>2
  <2> QED BY <2>1 DEF Saves
<1> QED BY <1>3, <1>4, <1>5, <1>6

(* The running function is the only one with its transfer in hand, unless  *)
(* it aborts it from one of its callbacks.                                 *)
LEMMA TopWorks ==
  ASSUME CallsInv, stack # <<>>, Top.op \in Working
  PROVE  /\ Sound(Below) /\ Pushes(Top, Below) /\ On = {Top} \cup Rest /\ Top \in Workers
         /\ \A g \in Rest : g.op \in Working /\ g.id = Top.id =>
              Top.op = "abort" /\ g.op = "deliver" /\ Top.how = "delivering"
         /\ Top \notin Rest
<1>1. Sound(Below) /\ Pushes(Top, Below) /\ On = {Top} \cup Rest
  BY SoundPop DEF CallsInv, Top, Below, Rest, On
<1>2. \A g \in Rest : Over(Top, g)
  BY <1>1 DEF Pushes, Rest
<1>3. \A g \in Rest : g.op \in Working /\ g.id = Top.id =>
              Top.op = "abort" /\ g.op = "deliver" /\ Top.how = "delivering"
  BY <1>2 DEF Over
<1>4. Top \notin Rest
  BY <1>3
<1> QED BY <1>1, <1>3, <1>4 DEF Workers

(* A transfer in the pipeline is nowhere else.                             *)
LEMMA Piped ==
  ASSUME Given, Running("pipe"), NEW t, t = Top.id
  PROVE  /\ t \in Live /\ t \in Ids /\ t \notin Todos
         /\ state[t] \in {"created", "inflight"}
         /\ Top.how # "failed" => state[t] = "created"
         /\ Saves[t] = {} /\ Where[t] = state[t]
         /\ t \notin settled \cup notified \cup detached /\ outcome[t] = <<>>
         /\ stack # <<>> /\ Sound(Below) /\ Pushes(Top, Below) /\ On = {Top} \cup Rest
         /\ Top \in Workers /\ Top \in Frames /\ Top.op = "pipe" /\ Top.pc \in Callers
         /\ \A g \in Rest : g.op \in Working => g.id # t
<1>1. stack # <<>> /\ Top.op = "pipe"
  BY DEF Running, Top
<1>2. /\ Sound(Below) /\ Pushes(Top, Below) /\ On = {Top} \cup Rest /\ Top \in Workers
      /\ \A g \in Rest : g.op \in Working => g.id # t
  BY <1>1, TopWorks DEF Given, Places, Working
<1>3. Top \in Frames /\ Top.pc \in Callers
  BY <1>1, <1>2, TopFrame, KnownOn DEF Given, Workers
<1>4. t \in Live /\ t \in Ids
  BY <1>2 DEF Given, Places, BusyInv, Live
<1>5. state[t] \in {"created", "inflight"} /\ (Top.how # "failed" => state[t] = "created")
  BY <1>1, <1>2 DEF Given, Places, BusyInv
<1>6. Saves[t] = {} /\ Where[t] = state[t]
  BY <1>4, <1>5, WhereLive DEF Given, Places
<1>7. t \notin settled \cup notified \cup detached /\ outcome[t] = <<>>
  <2>1. t \notin settled \cup notified
    BY <1>4, <1>5 DEF Given, Places, AnswerInv
  <2>2. t \notin detached
    BY <1>4, <1>5 DEF Given, Places, BusyInv
  <2>3. outcome[t] = <<>>
    BY <1>4, <2>1 DEF Given, Places, AnswerInv, Live
  <2> QED BY <2>1, <2>2, <2>3
<1>8. t \notin Todos
  BY <1>5 DEF Given, Places, GateInv, AtGate
<1> QED BY <1>1, <1>2, <1>3, <1>4, <1>5, <1>6, <1>7, <1>8

(* The pipeline returns, and has left its transfer somewhere.              *)
PipeEnds(t, l) ==
  /\ stack' = Below /\ state' = [state EXCEPT ![t] = l]
  /\ l \in {"queued", "delayed", "buffered", "inflight"} \cup Parked
  /\ UNCHANGED <<retired, detached, outcome, settled, blocking>>
  /\ notified' \in {notified, notified \ {t}}
  /\ \A u \in Ids : u # t => events'[u] = events[u] /\ (u \in conns' <=> u \in conns)
  /\ IF l = "buffered" THEN Terminal(events'[t]) /\ t \notin conns'
                       ELSE events'[t] = events[t] /\ l \notin {"delivering", "aborted"}

(* Everything but the queues and the gates follows.                        *)
LEMMA PipeLeaves ==
  ASSUME Given, Running("pipe"), NEW t, t = Top.id, NEW l, PipeEnds(t, l)
  PROVE  /\ CallsInv' /\ BusyInv' /\ StreamInv' /\ AnswerInv' /\ BlockInv'
         /\ Moves(t, l) /\ Live' = Live
         /\ UNCHANGED <<Todos, Dying>> /\ Workers' \subseteq Workers
<1>1. /\ t \in Live /\ t \in Ids /\ Saves[t] = {} /\ stack # <<>> /\ On = {Top} \cup Rest
      /\ Top.op = "pipe" /\ t \notin settled \cup notified \cup detached /\ outcome[t] = <<>>
      /\ \A g \in Rest : g.op \in Working => g.id # t
  BY Piped
<1>2. CallsInv' /\ On' = Rest
  BY <1>1, AfterPop DEF Given, Places, PipeEnds
<1>3. UNCHANGED <<Syncs, Todos, Dying, Saves>>
  BY <1>1, <1>2, HandsView
<1>4. l # "none" /\ l \notin {"created", "delivering", "aborted"}
  BY DEF PipeEnds, Parked
<1>5. Moves(t, l) /\ Live' = Live /\ Born' = Born
  BY <1>1, <1>3, <1>4, WhereMoves DEF Given, PipeEnds
<1>6. Where'[t] = l /\ \A u \in Ids : u # t => Where'[u] = Where[u]
  BY <1>1, <1>5, MoveIs
<1>7. /\ Workers' = {g \in Rest : g.op \in Working}
      /\ Workers = {Top} \cup {g \in Rest : g.op \in Working}
  BY <1>1, <1>2 DEF Workers, Working
<1>8. state \in [Ids -> States] /\ state'[t] = l /\ \A u \in Ids : u # t => state'[u] = state[u]
  BY <1>1 DEF Given, IInv, Data, Life, PipeEnds
<1> HIDE DEF Where
<1>9. Elsewhere({t})
  <2>1. \A f : f.id # t => (f \in Workers' <=> f \in Workers)
    BY <1>7
  <2> QED BY <2>1, <1>6, <1>8 DEF Elsewhere, PipeEnds
<1>10. \A f \in Workers' : f.id # t
  BY <1>1, <1>7
<1>11. BusyIn({t})'
  BY <1>1, <1>4, <1>8, <1>10 DEF BusyIn, PipeEnds
<1>12. StreamIn({t})'
  <2>1. t \notin retired /\ state[t] \notin {"buffered", "delivering", "aborted"}
    BY Piped DEF Live
  <2>2. ~Terminal(events[t])
    BY <1>1, <2>1 DEF Given, Places, StreamInv
  <2> QED BY <1>6, <1>8, <1>10, <2>2 DEF StreamIn, PipeEnds, Terminal
<1>13. AnswerIn({t})'
  BY <1>1, <1>8, <1>10 DEF AnswerIn, PipeEnds, Live
<1>14. BusyInv' /\ StreamInv' /\ AnswerInv'
  BY <1>9, <1>11, <1>12, <1>13, ElsewhereKeeps DEF Given
<1>15. BlockInv'
  BY <1>3, Untouched DEF Given, PipeEnds
<1> QED BY <1>2, <1>3, <1>5, <1>7, <1>14, <1>15

(* ... not at a gate.                                                      *)
LEMMA PipeAway ==
  ASSUME Given, Running("pipe"), NEW t, t = Top.id, NEW l, PipeEnds(t, l),
         l \notin AtGate, UNCHANGED <<open, waiters, fetchOf>>
  PROVE  GateInv'
<1>1. /\ Moves(t, l) /\ Live' = Live
      /\ UNCHANGED <<Todos, Dying>> /\ Workers' \subseteq Workers
  BY PipeLeaves
<1>2. t \in Ids /\ Where[t] = state[t] /\ state[t] \in {"created", "inflight"}
  BY Piped
<1>3. Where'[t] = l /\ \A u \in Ids : u # t => Where'[u] = Where[u]
  BY <1>1, <1>2, MoveIs
<1>4. l # "none" /\ Shifts({Where[t], l}) /\ {Where[t], l} \cap AtGate = {}
  BY <1>1, <1>2, MoveShifts DEF PipeEnds, AtGate, Parked
<1>5. \A u \in Live : state[u] \in AtGate => state'[u] \in AtGate
  BY <1>2 DEF PipeEnds, AtGate, Given, IInv, Data, Life, Live
<1> HIDE DEF Where
<1>6. \A f \in Fetches : Where'[f] # "none" <=> Where[f] # "none"
  BY <1>2, <1>3, <1>4 DEF Ids
<1>7. /\ UNCHANGED <<open, waiters, fetchOf, Todos, Dying, outcome>>
      /\ \A f \in Workers' : f.op = "pipe" /\ f.pc = Submitter /\ f.id \in Fetches =>
           \E g \in Workers : g.op = "pipe" /\ g.pc = Submitter /\ g.id = f.id
  BY <1>1 DEF PipeEnds
<1> QED BY <1>1, <1>4, <1>5, <1>6, <1>7, GateElse DEF Given

(* The pipeline is at another stage.                                       *)
PipeStays(t, g) ==
  /\ stack' = <<g>> \o Below
  /\ g.op = "pipe" /\ g.id = t /\ g.pc = Top.pc /\ (g.how = "failed" => Top.pc # Resumer)

(* It is the same function, so the stack says the same.                    *)
LEMMA PipeAdvances ==
  ASSUME Given, Running("pipe"), NEW t, t = Top.id, NEW g, PipeStays(t, g)
  PROVE  /\ CallsInv' /\ UNCHANGED <<Syncs, Todos, Dying, Saves>>
         /\ \A f \in Workers' : f = g \/ (f.id # t /\ f \in Workers)
         /\ \A f \in Workers : f = Top \/ (f.id # t /\ f \in Workers')
         /\ g \in Workers'
<1>1. /\ stack # <<>> /\ On = {Top} \cup Rest /\ Pushes(Top, Below) /\ Top.op = "pipe"
      /\ \A h \in Rest : h.op \in Working => h.id # t
  BY Piped
<1>2. Pushes(g, Below)
  <2>1. Kind(g) /\ ~Reports(g)
    BY <1>1 DEF PipeStays, Kind, Reports
  <2>2. ASSUME NEW h \in FramesIn(Below) PROVE Over(g, h)
    <3>1. Over(Top, h)
      BY <1>1, <2>2 DEF Pushes
    <3> QED BY <1>1, <3>1 DEF Over, Working, PipeStays
  <2> QED BY <2>1, <2>2 DEF Pushes
<1>3. CallsInv' /\ On' = {g} \cup Rest
  BY <1>1, <1>2, AfterSwap DEF Given, Places, PipeStays
<1>4. UNCHANGED <<Syncs, Todos, Dying, Saves>>
  BY <1>1, <1>3, HandsView DEF PipeStays
<1> QED BY <1>1, <1>3, <1>4 DEF Workers, Working, PipeStays

(* ... with nothing else changed.                                          *)
LEMMA PipeGoesOn ==
  ASSUME Given, Running("pipe"), Top.how # "failed", NEW m,
         m = "failed" => Top.pc # Resumer, Goto(m),
         UNCHANGED <<lvars, cbvars, evars, qvars, dvars, nvars, open, waiters,
                     fetchOf, blocking, cvars, fault>>
  PROVE  Places'
<1>0. PICK t : t = Top.id
  OBVIOUS
<1> DEFINE h == [Top EXCEPT !.how = m]
<1>1. PICK g : g = h
  OBVIOUS
<1>2. state[t] = "created" /\ t \in Ids /\ t \in Live /\ Top \in Frames /\ Top.op = "pipe"
  BY <1>0, Piped
<1>3. g.op = "pipe" /\ g.id = t /\ g.pc = Top.pc /\ g.how = m
  BY <1>0, <1>1, <1>2, Edited
<1>4. PipeStays(t, g)
  BY <1>0, <1>1, <1>3 DEF PipeStays, Goto
<1> HIDE DEF h
<1>5. /\ CallsInv' /\ UNCHANGED <<Syncs, Todos, Dying, Saves>>
      /\ \A f \in Workers' : f = g \/ (f.id # t /\ f \in Workers)
      /\ \A f \in Workers : f = Top \/ (f.id # t /\ f \in Workers')
      /\ g \in Workers'
  BY <1>0, <1>4, PipeAdvances
<1>6. /\ UNCHANGED <<state, retired, detached, pending, delayed, delayedCount>>
      /\ UNCHANGED <<dispatch, gated, dispatchCount, conns, free, started>>
      /\ UNCHANGED <<events, settled, held, intercepted, outcome, notified>>
      /\ UNCHANGED <<blocking, open, waiters, fetchOf, fault>>
  BY DEF lvars, cbvars, evars, qvars, dvars, nvars, cvars
<1>7. Stays /\ Live' = Live /\ Born' = Born
  BY <1>5, <1>6, SameWhere
<1>8. UNCHANGED Where
  BY <1>7 DEF Stays
<1> HIDE DEF Where
<1>9. Elsewhere({t})
  <2>1. \A f : f.id # t => (f \in Workers' <=> f \in Workers)
    BY <1>0, <1>3, <1>5
  <2> QED BY <2>1, <1>6, <1>8 DEF Elsewhere
<1>10. \A f \in Workers' : f.id = t => f = g
  BY <1>5
<1>11. BusyIn({t})'
  <2>1. BusyInv
    BY DEF Given, Places
  <2> QED BY <1>2, <1>3, <1>5, <1>6, <1>7, <1>10, <2>1 DEF BusyIn, BusyInv
<1>12. StreamIn({t})'
  <2>1. Where[t] # "buffered"
    BY <1>0, <1>2, Piped
  <2>2. StreamInv
    BY DEF Given, Places
  <2> QED BY <1>3, <1>6, <1>8, <1>10, <2>1, <2>2 DEF StreamIn, StreamInv, Terminal
<1>13. AnswerIn({t})'
  <2>1. AnswerInv
    BY DEF Given, Places
  <2> QED BY <1>2, <1>3, <1>6, <1>7, <1>10, <2>1 DEF AnswerIn, AnswerInv
<1>14. BusyInv' /\ StreamInv' /\ AnswerInv'
  BY <1>9, <1>11, <1>12, <1>13, ElsewhereKeeps DEF Given
<1>15. PendingInv' /\ DelayedInv' /\ DispatchInv' /\ PoolInv' /\ HeldInv' /\ BlockInv'
  BY <1>5, <1>6, <1>8, Untouched DEF Given
<1>16. GateInv'
  <2>1. Shifts({})
    BY <1>8, WhereTable DEF Shifts
  <2>2. \A f \in Workers' : f.op = "pipe" /\ f.pc = Submitter /\ f.id \in Fetches =>
           \E k \in Workers : k.op = "pipe" /\ k.pc = Submitter /\ k.id = f.id
    <3>1. Top \in Workers
      BY <1>0, Piped
    <3> QED BY <1>0, <1>2, <1>3, <1>5, <3>1
  <2> QED BY <1>5, <1>6, <1>7, <1>8, <2>1, <2>2, GateElse DEF Given
<1> QED BY <1>5, <1>6, <1>14, <1>15, <1>16 DEF Given, Places

-----------------------------------------------------------------------------
(* Events                                                                  *)

Ending == {<<"err">>, <<"data", "done">>, <<"done">>}

(* Whatever is added at the end decides how a transfer ends.               *)
LEMMA EndsWith ==
  ASSUME IInv, NEW t \in Ids, NEW evs \in Ending
  PROVE  Terminal(events[t] \o evs)
<1> DEFINE e == events[t]
           r == e \o evs
           n == Len(evs)
<1>1. e \in EventSeqs /\ Len(e) \in Nat
  BY LenProperties DEF IInv, Data, Buffered, EventSeqs
<1>2. evs \in EventSeqs /\ n \in {1, 2} /\ evs[n] \in {"done", "err"}
  <2>1. CASE evs = <<"err">>
    BY <2>1 DEF EventSeqs
  <2>2. CASE evs = <<"done">>
    BY <2>2 DEF EventSeqs
  <2>3. CASE evs = <<"data", "done">>
    BY <2>3 DEF EventSeqs
  <2> QED BY <2>1, <2>2, <2>3 DEF Ending
<1> HIDE DEF e, n
<1>3. r \in EventSeqs /\ Len(r) = Len(e) + n /\ r[Len(e) + n] = evs[n]
  <2>1. r \in EventSeqs /\ Len(r) = Len(e) + n
    BY <1>1, <1>2, ConcatProperties DEF EventSeqs, n
  <2>2. Len(e) + n \in 1..Len(e) + n /\ Len(e) + n > Len(e) /\ (Len(e) + n) - Len(e) = n
    BY <1>1, <1>2
  <2>3. r[Len(e) + n] = evs[(Len(e) + n) - Len(e)]
    BY <1>1, <1>2, <2>2, ConcatProperties DEF EventSeqs, n
  <2> QED BY <2>1, <2>2, <2>3
<1> HIDE DEF r
<1>4. r # <<>>
  BY <1>1, <1>2, <1>3, EmptyLen DEF EventSeqs
<1>5. Last(r) = r[Len(r)]
  BY DEF Last
<1> QED BY <1>2, <1>3, <1>4, <1>5 DEF Terminal, r, e

-----------------------------------------------------------------------------
(* The stages                                                              *)

(* Submitter is thrown the error of an earlier stage.                      *)
LEMMA PipeThrowPlaces == ASSUME Given, PipeThrow PROVE Places'
<1>1. /\ Running("pipe") /\ Top.how # "failed" /\ Top.pc # Resumer /\ Goto("failed")
      /\ UNCHANGED <<lvars, cbvars, evars, qvars, dvars, nvars, open, waiters,
                     fetchOf, blocking, cvars, fault>>
  BY DEF PipeThrow, MayThrow, Given, Careful, idle
<1> QED BY <1>1, PipeGoesOn

(* The interception: parked for the CDP client, answered or passed.        *)
LEMMA PipeStartPlaces == ASSUME Given, PipeStart PROVE Places'
<1>0. PICK t : t = Top.id
  OBVIOUS
<1>1. CASE Goto("after_intercept") /\ UNCHANGED <<state, cvars>>
  <2>1. /\ Running("pipe") /\ Top.how = "start"
        /\ UNCHANGED <<lvars, cbvars, evars, qvars, dvars, nvars, open, waiters,
                       fetchOf, blocking, cvars, fault>>
    BY <1>1 DEF PipeStart, AtStage, lvars, gvars
  <2> QED BY <1>1, <2>1, PipeGoesOn
<1>2. CASE /\ stack' = Below /\ state' = [state EXCEPT ![Top.id] = "parked_intercept"]
           /\ intercepted' = intercepted + 1 /\ held' = held \cup {Top.id}
  <2> DEFINE l == "parked_intercept"
  <2>1. /\ Running("pipe") /\ Top.how = "start"
        /\ UNCHANGED <<retired, detached, outcome, settled, blocking, notified, events, conns>>
        /\ UNCHANGED <<pending, delayed, delayedCount, dispatch, gated, dispatchCount>>
        /\ UNCHANGED <<free, started, open, waiters, fetchOf, fault>>
    BY DEF PipeStart, AtStage, cbvars, evars, qvars, dvars, nvars, gvars
  <2>2. PipeEnds(t, l)
    BY <1>0, <1>2, <2>1 DEF PipeEnds, Parked
  <2>3. /\ CallsInv' /\ BusyInv' /\ StreamInv' /\ AnswerInv' /\ BlockInv'
        /\ Moves(t, l) /\ Live' = Live
    BY <1>0, <2>1, <2>2, PipeLeaves
  <2>4. t \in Ids /\ Where[t] = "created"
    BY <1>0, <2>1, Piped
  <2>5. Shifts({"created", l})
    BY <2>3, <2>4, MoveShifts
  <2>6. PendingInv' /\ DelayedInv' /\ DispatchInv' /\ PoolInv'
    BY <2>1, <2>5, Shifted DEF Given
  <2>7. HeldInv'
    <3>1. \A u \in Live' : u \in held' <=> u \in held \/ u = t
      BY <1>0, <1>2
    <3>2. intercepted \in Int
      BY DEF Given, IInv, Data, Cdp
    <3>3. l \in Kept4Cdp /\ "created" \notin Kept4Cdp
      BY DEF Kept4Cdp
    <3> QED BY <1>2, <2>3, <2>4, <3>1, <3>2, <3>3, HeldMoves DEF Given, Places
  <2>8. GateInv'
    BY <1>0, <2>1, <2>2, PipeAway DEF AtGate
  <2> QED BY <2>1, <2>3, <2>6, <2>7, <2>8 DEF Given, Places
<1> QED BY <1>1, <1>2 DEF PipeStart

(* The rate limiter: the transfer may have to wait.                        *)
LEMMA PipeThrottlePlaces == ASSUME Given, PipeThrottle PROVE Places'
<1>0. PICK t : t = Top.id
  OBVIOUS
<1>1. CASE Goto("network") /\ UNCHANGED <<state, delayed, delayedCount>>
  <2>1. /\ Running("pipe") /\ Top.how = "throttle"
        /\ UNCHANGED <<lvars, cbvars, evars, qvars, dvars, nvars, open, waiters,
                       fetchOf, blocking, cvars, fault>>
    BY <1>1 DEF PipeThrottle, AtStage, lvars, gvars, qvars
  <2> QED BY <1>1, <2>1, PipeGoesOn
<1>2. CASE /\ stack' = Below /\ state' = [state EXCEPT ![Top.id] = "delayed"]
           /\ delayedCount' = delayedCount + 1
           /\ \E i \in 1..Len(delayed) + 1 : delayed' = InsertAt(delayed, i, Top.id)
  <2> DEFINE l == "delayed"
  <2>1. /\ Running("pipe") /\ Top.how = "throttle"
        /\ UNCHANGED <<retired, detached, outcome, settled, blocking, notified, events, conns>>
        /\ UNCHANGED <<pending, dispatch, gated, dispatchCount>>
        /\ UNCHANGED <<free, started, open, waiters, fetchOf, held, intercepted, fault>>
    BY DEF PipeThrottle, AtStage, cbvars, evars, dvars, nvars, gvars, cvars
  <2>2. PipeEnds(t, l)
    BY <1>0, <1>2, <2>1 DEF PipeEnds
  <2>3. /\ CallsInv' /\ BusyInv' /\ StreamInv' /\ AnswerInv' /\ BlockInv'
        /\ Moves(t, l) /\ Live' = Live
    BY <1>0, <2>1, <2>2, PipeLeaves
  <2>4. t \in Ids /\ Where[t] = "created"
    BY <1>0, <2>1, Piped
  <2>5. Shifts({"created", l})
    BY <2>3, <2>4, MoveShifts
  <2>6. PendingInv' /\ DispatchInv' /\ PoolInv'
    BY <2>1, <2>5, Shifted DEF Given
  <2>7. DelayedInv'
    BY <1>0, <1>2, <2>3, <2>4, DelayedGains DEF Given
  <2>8. HeldInv'
    BY <2>1, <2>3, <2>5, HeldElse DEF Given, Places, Kept4Cdp
  <2>9. GateInv'
    BY <1>0, <2>1, <2>2, PipeAway DEF AtGate
  <2> QED BY <2>1, <2>3, <2>6, <2>7, <2>8, <2>9 DEF Given, Places
<1> QED BY <1>1, <1>2 DEF PipeThrottle

(* The pipeline answers the request itself.                                *)
LEMMA PipeSchedules ==
  ASSUME Given, Running("pipe"), Top.how # "failed", NEW evs \in Ending,
         stack' = Below, scheduleDispatch(Top.id, state[Top.id], evs, {}),
         UNCHANGED <<retired, cbvars, started, qvars, nvars, open, waiters, fetchOf,
                     blocking, cvars>>
  PROVE  Places'
<1>0. PICK t : t = Top.id
  OBVIOUS
<1> DEFINE l == "buffered"
<1>1. t \in Ids /\ state[t] = "created" /\ Where[t] = "created"
  BY <1>0, Piped
<1>2. /\ events' = [events EXCEPT ![t] = @ \o evs] /\ UNCHANGED fault
      /\ state' = [state EXCEPT ![t] = l]
      /\ \/ Linked(t) /\ UNCHANGED <<dispatch, gated, dispatchCount>>
         \/ /\ ~Linked(t) /\ dispatch' = Append(dispatch, t)
            /\ dispatchCount' = dispatchCount + 1 /\ UNCHANGED gated
  BY <1>0, <1>1 DEF scheduleDispatch, Broken, dvars
<1>3. /\ UNCHANGED <<retired, detached, outcome, settled, blocking, notified, conns>>
      /\ UNCHANGED <<pending, delayed, delayedCount>>
      /\ UNCHANGED <<free, started, open, waiters, fetchOf, held, intercepted>>
  BY DEF cbvars, qvars, nvars, cvars
<1>4. PipeEnds(t, l)
  <2>1. events'[t] = events[t] \o evs /\ \A u \in Ids : u # t => events'[u] = events[u]
    BY <1>1, <1>2 DEF Given, IInv, Data, Buffered
  <2>2. Terminal(events[t] \o evs)
    BY <1>1, EndsWith DEF Given
  <2>3. t \notin conns
    BY <1>1 DEF Given, Places, PoolInv
  <2> QED BY <1>2, <1>3, <2>1, <2>2, <2>3 DEF PipeEnds, Terminal
<1>5. /\ CallsInv' /\ BusyInv' /\ StreamInv' /\ AnswerInv' /\ BlockInv'
      /\ Moves(t, l) /\ Live' = Live
  BY <1>0, <1>4, PipeLeaves
<1>6. Shifts({"created", l})
  BY <1>1, <1>5, MoveShifts
<1>7. PendingInv' /\ DelayedInv' /\ PoolInv'
  BY <1>3, <1>6, Shifted DEF Given
<1>8. DispatchInv'
  BY <1>1, <1>2, <1>3, <1>5, DispatchGains DEF Given
<1>9. HeldInv'
  BY <1>3, <1>5, <1>6, HeldElse DEF Given, Places, Kept4Cdp
<1>10. GateInv'
  BY <1>0, <1>3, <1>4, PipeAway DEF AtGate
<1> QED BY <1>2, <1>5, <1>7, <1>8, <1>9, <1>10 DEF Given, Places

(* The network: a connection, the queue, or an error of libcurl.           *)
LEMMA PipeNetworkPlaces == ASSUME Given, PipeNetwork PROVE Places'
<1>0. PICK t : t = Top.id
  OBVIOUS
<1>1. /\ Running("pipe") /\ Top.how = "network"
      /\ UNCHANGED <<retired, detached, outcome, settled, blocking, events>>
      /\ UNCHANGED <<delayed, delayedCount, dispatch, gated, dispatchCount>>
      /\ UNCHANGED <<open, waiters, fetchOf, held, intercepted, fault>>
  BY DEF PipeNetwork, AtStage, dvars, gvars, cvars
<1>2. t \in Ids /\ state[t] = "created" /\ Where[t] = "created" /\ t \in Live
  BY <1>0, <1>1, Piped
<1>3. CASE free = 0
  <2> DEFINE l == "queued"
  <2>1. /\ pending' = Append(pending, t) /\ state' = [state EXCEPT ![t] = l]
        /\ stack' = Below /\ UNCHANGED <<notified, started, conns, free>>
    BY <1>0, <1>3 DEF PipeNetwork, nvars
  <2>2. PipeEnds(t, l)
    BY <1>1, <2>1 DEF PipeEnds
  <2>3. /\ CallsInv' /\ BusyInv' /\ StreamInv' /\ AnswerInv' /\ BlockInv'
        /\ Moves(t, l) /\ Live' = Live
    BY <1>0, <1>1, <2>2, PipeLeaves
  <2>4. Shifts({"created", l})
    BY <1>2, <2>3, MoveShifts
  <2>5. DelayedInv' /\ DispatchInv' /\ PoolInv'
    BY <1>1, <2>1, <2>4, Shifted DEF Given
  <2>6. PendingInv'
    BY <1>2, <2>1, <2>3, PendingGains DEF Given
  <2>7. HeldInv'
    BY <1>1, <2>3, <2>4, HeldElse DEF Given, Places, Kept4Cdp
  <2>8. GateInv'
    BY <1>0, <1>1, <2>2, PipeAway DEF AtGate
  <2> QED BY <1>1, <2>3, <2>5, <2>6, <2>7, <2>8 DEF Given, Places
<1>4. CASE free # 0
  <2> DEFINE l == "inflight"
  <2>1. /\ notified' = notified \ {t} /\ started' = started \ {t}
        /\ state' = [state EXCEPT ![t] = l]
        /\ conns' = conns \cup {t} /\ free' = free - 1 /\ UNCHANGED pending
        /\ stack' = Below \/ (MayThrow /\ Goto("failed"))
    BY <1>0, <1>4 DEF PipeNetwork
  <2>2. /\ \A u \in Ids : u # t => (u \in conns' <=> u \in conns)
        /\ \A u \in Ids : u # t /\ u \in conns \cap started => u \in conns' \cap started'
    BY <2>1
  <2>3. t \notin InDispatch \cup InGated
    BY <1>2, NotLinked DEF Given
  <2>4. ASSUME Moves(t, l), Live' = Live
        PROVE  PendingInv' /\ DelayedInv' /\ DispatchInv' /\ PoolInv' /\ HeldInv'
    <3>1. Shifts({"created", l})
      BY <1>2, <2>4, MoveShifts
    <3>2. PendingInv' /\ DelayedInv'
      BY <1>1, <2>1, <3>1, Shifted DEF Given
    <3>3. PoolInv'
      BY <1>2, <1>4, <2>1, <2>4, PoolTakes DEF Given
    <3>4. DispatchInv'
      BY <1>1, <1>2, <2>2, <2>3, <2>4, DispatchElse DEF Given
    <3>5. HeldInv'
      BY <1>1, <2>4, <3>1, HeldElse DEF Given, Places, Kept4Cdp
    <3> QED BY <3>2, <3>3, <3>4, <3>5
  <2>5. CASE stack' = Below
    <3>1. PipeEnds(t, l)
      BY <1>1, <2>1, <2>2, <2>5 DEF PipeEnds
    <3>2. /\ CallsInv' /\ BusyInv' /\ StreamInv' /\ AnswerInv' /\ BlockInv'
          /\ Moves(t, l) /\ Live' = Live
      BY <1>0, <1>1, <3>1, PipeLeaves
    <3>3. GateInv'
      BY <1>0, <1>1, <3>1, PipeAway DEF AtGate
    <3> QED BY <1>1, <2>4, <3>2, <3>3 DEF Given, Places
  <2>6. CASE MayThrow /\ Goto("failed")
    <3> DEFINE h == [Top EXCEPT !.how = "failed"]
    <3>1. PICK g : g = h
      OBVIOUS
    <3>2. Top \in Frames /\ Top.op = "pipe" /\ Top.pc # Resumer /\ Saves[t] = {}
          /\ t \notin settled \cup notified \cup detached /\ outcome[t] = <<>>
          /\ Top \in Workers
      BY <1>0, <1>1, <2>6, Piped DEF MayThrow, Given, Careful
    <3>3. g.op = "pipe" /\ g.id = t /\ g.pc = Top.pc /\ g.how = "failed"
      BY <1>0, <3>1, <3>2, Edited
    <3>4. PipeStays(t, g)
      BY <2>6, <3>1, <3>2, <3>3 DEF PipeStays, Goto
    <3> HIDE DEF h
    <3>5. /\ CallsInv' /\ UNCHANGED <<Syncs, Todos, Dying, Saves>>
          /\ \A f \in Workers' : f = g \/ (f.id # t /\ f \in Workers)
          /\ \A f \in Workers : f = Top \/ (f.id # t /\ f \in Workers')
          /\ g \in Workers'
      BY <1>0, <1>1, <3>4, PipeAdvances
    <3>6. Moves(t, l) /\ Live' = Live /\ Born' = Born
      BY <1>1, <1>2, <2>1, <3>2, <3>5, WhereMoves DEF Given
    <3>7. Where'[t] = l /\ \A u \in Ids : u # t => Where'[u] = Where[u]
      BY <1>2, <3>6, MoveIs
    <3>8. state'[t] = l /\ \A u \in Ids : u # t => state'[u] = state[u]
      BY <1>2, <2>1 DEF Given, IInv, Data, Life
    <3> HIDE DEF Where
    <3>9. Elsewhere({t})
      <4>1. \A f : f.id # t => (f \in Workers' <=> f \in Workers)
        BY <1>0, <3>3, <3>5
      <4>2. \A u \in Ids : u # t => (u \in notified' <=> u \in notified)
        BY <2>1
      <4> QED BY <4>1, <4>2, <1>1, <2>2, <3>7, <3>8 DEF Elsewhere
    <3>10. \A f \in Workers' : f.id = t => f = g
      BY <3>5
    <3>11. BusyIn({t})'
      BY <1>1, <1>2, <3>2, <3>3, <3>6, <3>8, <3>10 DEF BusyIn
    <3>12. StreamIn({t})'
      <4>1. ~Terminal(events[t])
        BY <1>2 DEF Given, Places, StreamInv, Live
      <4> QED BY <1>1, <3>3, <3>7, <3>10, <4>1 DEF StreamIn, Terminal
    <3>13. AnswerIn({t})'
      <4>1. t \notin retired
        BY <1>2 DEF Live
      <4> QED BY <1>1, <2>1, <3>2, <3>3, <3>10, <4>1 DEF AnswerIn
    <3>14. BusyInv' /\ StreamInv' /\ AnswerInv'
      BY <3>9, <3>11, <3>12, <3>13, ElsewhereKeeps DEF Given
    <3>15. BlockInv'
      BY <1>1, <3>5, Untouched DEF Given
    <3>16. GateInv'
      <4>1. Shifts({"created", l})
        BY <1>2, <3>6, MoveShifts
      <4>2. \A f \in Workers' : f.op = "pipe" /\ f.pc = Submitter /\ f.id \in Fetches =>
               \E k \in Workers : k.op = "pipe" /\ k.pc = Submitter /\ k.id = f.id
        BY <1>0, <3>2, <3>3, <3>5
      <4>3. \A f \in Fetches : Where'[f] # "none" <=> Where[f] # "none"
        BY <1>2, <3>7 DEF Ids
      <4>4. \A u \in Live : state[u] \in AtGate => u \in Live' /\ state'[u] \in AtGate
        BY <1>2, <3>6, <3>8 DEF AtGate, Live
      <4>5. {"created", l} \cap AtGate = {}
        BY DEF AtGate
      <4> QED BY <1>1, <3>5, <4>1, <4>2, <4>3, <4>4, <4>5, GateElse DEF Given
    <3> QED BY <1>1, <2>4, <3>5, <3>6, <3>14, <3>15, <3>16 DEF Given, Places
  <2> QED BY <2>1, <2>5, <2>6
<1> QED BY <1>3, <1>4

-----------------------------------------------------------------------------
(* Joining a flight and starting one                                       *)

(* Of a transfer that holds no connection, started says nothing.           *)
LEMMA ShiftedNew ==
  ASSUME Places, NEW A, Shifts(A),
         A \cap {"buffered", "inflight", "delivering", "aborted"} = {},
         UNCHANGED <<dispatch, gated, dispatchCount, conns, free>>,
         \A t \in conns : t \in started' <=> t \in started
  PROVE  DispatchInv' /\ PoolInv'
<1>1. \A t \in Ids : /\ Where'[t] = "buffered" <=> Where[t] = "buffered"
                     /\ Where'[t] = "inflight" <=> Where[t] = "inflight"
                     /\ Where[t] \in {"delivering", "aborted"} =>
                          Where'[t] \in {"delivering", "aborted"}
  BY DEF Shifts
<1> HIDE DEF Where
<1>2. DispatchInv'
  <2>1. InDispatch' = InDispatch /\ InGated' = InGated
    BY DEF InDispatch, InGated
  <2>2. \A t \in Ids : Where'[t] = "buffered" => t \in InDispatch \cup InGated
    BY <1>1 DEF Places, DispatchInv
  <2>3. \A t \in Ids : t \in InDispatch \cup InGated =>
          Where'[t] = "buffered" \/ (Where'[t] = "inflight" /\ t \in conns' \cap started')
    BY <1>1 DEF Places, DispatchInv
  <2> QED BY <2>1, <2>2, <2>3 DEF Places, DispatchInv
<1>3. PoolInv'
  <2>1. \A t \in Ids : Where'[t] = "inflight" => t \in conns'
    BY <1>1 DEF Places, PoolInv
  <2>2. \A t \in Ids : t \in conns' =>
          \/ Where'[t] = "inflight"
          \/ Where'[t] \in {"delivering", "aborted"} /\ t \in started'
    BY <1>1 DEF Places, PoolInv
  <2>3. started' \cap conns' \subseteq StreamReqs
    BY DEF Places, PoolInv
  <2> QED BY <2>1, <2>2, <2>3 DEF Places, PoolInv
<1> QED BY <1>2, <1>3

(* Client.abort leaves no pipeline to run.                                 *)
LEMMA NotDying ==
  ASSUME CallsInv, stack # <<>>, Top.op # "kill"
  PROVE  ~Dying
<1>1. On = {Top} \cup Rest /\ Pushes(Top, Below)
  BY SoundPop DEF CallsInv, Top, Below, Rest, On
<1>2. \A g \in Rest : g.op # "kill"
  BY <1>1 DEF Pushes, Rest, Over
<1> QED BY <1>1, <1>2 DEF Dying

(* Who waits at a gate waits behind one entry of it.                       *)
ParkedAt(gate) == IF gate = "cors" THEN "parked_cors" ELSE "parked_robots"

(* The entry of a transfer at a gate it has to pass.                       *)
LEMMA OneSlot ==
  ASSUME NEW gate \in Gates, NEW t, Gated(gate, t)
  PROVE  LET s == <<gate, KeyOf[gate][t]>> IN
         /\ t \in Reqs /\ s \in Slots /\ StateAt(s) = ParkedAt(gate)
         /\ SlotAt(t, ParkedAt(gate)) = s
         /\ \A r \in Slots : StateAt(r) = ParkedAt(gate) /\ KeyOf[r[1]][t] = r[2] => r = s
         /\ \A u : KeyOf[gate][u] = s[2] => SlotAt(u, ParkedAt(gate)) = s
         /\ KeyOf[s[1]][t] = s[2]
<1> DEFINE k == KeyOf[gate][t]
           s == <<gate, k>>
<1>1. t \in Reqs /\ k \in Keys /\ gate \in {"robots", "cors"}
  BY Constants DEF Gated, Gates
<1>2. s \in Slots /\ s[1] = gate /\ s[2] = k
  BY <1>1 DEF Slots, Gates
<1>3. ASSUME NEW r \in Slots
      PROVE  r[1] \in {"robots", "cors"} /\ r = <<r[1], r[2]>>
  BY DEF Slots, Gates
<1>4. StateAt(s) = ParkedAt(gate)
  BY <1>2 DEF StateAt, ParkedAt
<1>5. SlotAt(t, ParkedAt(gate)) = s
  BY <1>1 DEF SlotAt, ParkedAt
<1>6. ASSUME NEW r \in Slots, StateAt(r) = ParkedAt(gate), KeyOf[r[1]][t] = r[2]
      PROVE  r = s
  <2>1. r[1] = gate
    BY <1>1, <1>3, <1>6 DEF StateAt, ParkedAt
  <2> QED BY <1>3, <1>6, <2>1
<1>7. ASSUME NEW u, KeyOf[gate][u] = s[2] PROVE SlotAt(u, ParkedAt(gate)) = s
  BY <1>1, <1>2, <1>7 DEF SlotAt, ParkedAt
<1> QED BY <1>1, <1>2, <1>4, <1>5, <1>6, <1>7

(* What a pipeline at a gate leaves alone.                                 *)
EntersOnly == UNCHANGED <<qvars, dvars, nvars, blocking, intercepted, fault>>

(* It joins the entry that is open.                                        *)
LEMMA JoinPlaces ==
  ASSUME Given, Running("pipe"), Top.how # "failed", NEW gate \in Gates,
         Gated(gate, Top.id), EnterGate(gate), EntersOnly,
         <<gate, KeyOf[gate][Top.id]>> \in open
  PROVE  Places'
<1>0. PICK t : t = Top.id
  OBVIOUS
<1> DEFINE s == <<gate, KeyOf[gate][t]>>
           l == ParkedAt(gate)
<1>1. /\ waiters' = [waiters EXCEPT ![s] = Append(@, t)]
      /\ state' = [state EXCEPT ![t] = l] /\ stack' = Below
      /\ UNCHANGED <<retired, cbvars, evars, open, fetchOf, held>>
  BY <1>0 DEF EnterGate, ParkedAt
<1>2. /\ UNCHANGED <<retired, detached, outcome, settled, blocking, notified, events, conns>>
      /\ UNCHANGED <<pending, delayed, delayedCount, dispatch, gated, dispatchCount>>
      /\ UNCHANGED <<free, started, open, fetchOf, held, intercepted, fault>>
  BY <1>1 DEF EntersOnly, cbvars, evars, qvars, dvars, nvars
<1>3. l \in AtGate
  BY DEF ParkedAt, AtGate
<1>4. PipeEnds(t, l)
  BY <1>1, <1>2, <1>3 DEF PipeEnds, Parked, AtGate
<1>5. /\ CallsInv' /\ BusyInv' /\ StreamInv' /\ AnswerInv' /\ BlockInv'
      /\ Moves(t, l) /\ Live' = Live /\ UNCHANGED <<Todos, Dying>> /\ Workers' \subseteq Workers
  BY <1>0, <1>4, PipeLeaves
<1>6. t \in Ids /\ Where[t] = "created" /\ t \notin Todos /\ t \in Live
  BY <1>0, Piped
<1>7. Shifts({"created", l}) /\ Where'[t] = l /\ \A u \in Ids : u # t => Where'[u] = Where[u]
  BY <1>5, <1>6, MoveShifts, MoveIs
<1>8. PendingInv' /\ DelayedInv' /\ DispatchInv' /\ PoolInv'
  BY <1>2, <1>3, <1>7, Shifted DEF Given, AtGate
<1>9. HeldInv'
  BY <1>2, <1>3, <1>5, <1>7, HeldElse DEF Given, Places, Kept4Cdp, AtGate
<1>10. /\ t \in Reqs /\ s \in Slots /\ StateAt(s) = l /\ SlotAt(t, l) = s
       /\ \A r \in Slots : StateAt(r) = l /\ KeyOf[r[1]][t] = r[2] => r = s
       /\ KeyOf[s[1]][t] = s[2]
  BY <1>0, OneSlot
<1>11. s \in open /\ waiters \in [Slots -> Seq(Born)]
  BY <1>0 DEF Given, IInv, Data, Flights
<1> HIDE DEF Where, s, l
<1>12. GateInv /\ Reqs \subseteq Ids
  BY DEF Given, Places, Ids
<1>13. \A r \in Slots : Queue(r)' = IF r = s THEN Queue(r) \cup {t} ELSE Queue(r)
  <2>1. ASSUME NEW r \in Slots, NEW u \in Reqs, u # t
        PROVE  u \in Queue(r)' <=> u \in Queue(r)
    BY <1>2, <1>5, <1>7, <1>12, <2>1 DEF Queue
  <2>2. ASSUME NEW r \in Slots
        PROVE  t \in Queue(r)' <=> r = s
    BY <1>2, <1>5, <1>6, <1>7, <1>10, <1>11, <1>12, <2>2 DEF Queue
  <2>3. \A r : Queue(r) \subseteq Reqs /\ Queue(r)' \subseteq Reqs
    BY DEF Queue
  <2>4. \A r \in Slots : r # s => t \notin Queue(r)
    BY <1>3, <1>6 DEF Queue, StateAt
  <2>5. ASSUME NEW r \in Slots
        PROVE  Queue(r)' = IF r = s THEN Queue(r) \cup {t} ELSE Queue(r)
    <3>1. \A u \in Reqs : u # t => (u \in Queue(r)' <=> u \in Queue(r))
      BY <2>1
    <3>2. t \in Queue(r)' <=> r = s
      BY <2>2
    <3>3. CASE r = s
      BY <1>10, <2>3, <3>1, <3>2, <3>3
    <3>4. CASE r # s
      <4>1. \A u \in Reqs : u \in Queue(r)' <=> u \in Queue(r)
        BY <2>4, <3>1, <3>2, <3>4
      <4>2. Queue(r)' = Queue(r)
        BY <2>3, <4>1
      <4> QED BY <3>4, <4>2
    <3> QED BY <3>3, <3>4
  <2> QED BY <2>5
<1>14. t \notin Queue(s)
  BY <1>6 DEF Queue, StateAt
<1>15. \A r \in Slots : Once(waiters'[r], Queue(r)')
  <2>1. ASSUME NEW r \in Slots, r # s PROVE Once(waiters'[r], Queue(r)')
    BY <1>1, <1>11, <1>12, <1>13, <2>1 DEF GateInv
  <2>2. Once(waiters'[s], Queue(s)')
    <3>1. Once(waiters[s], Queue(s))
      BY <1>10, <1>12 DEF GateInv
    <3>2. Once(Append(waiters[s], t), Queue(s) \cup {t})
      BY <1>14, <3>1, OnceAppend
    <3> QED BY <1>1, <1>10, <1>11, <1>13, <3>2
  <2> QED BY <2>1, <2>2
<1>16. state \in [Ids -> States] /\ state'[t] = l /\ \A u \in Ids : u # t => state'[u] = state[u]
  BY <1>1, <1>6 DEF Given, IInv, Data, Life
<1>17. /\ \A r \in open' : \E f \in Fetches :
            Where'[f] # "none" /\ fetchOf'[f] = r /\ outcome'[f] = <<>>
       /\ \A f \in Fetches : Where'[f] # "none" => fetchOf'[f] \in Slots
  <2>1. \A f \in Fetches : Where'[f] = Where[f]
    BY <1>7, <1>10, Constants DEF Ids
  <2> QED BY <1>2, <1>12, <2>1 DEF GateInv
<1>18. \A u \in Todos' : u \in Reqs \cap Live' /\ state'[u] \in AtGate
  BY <1>5, <1>6, <1>12, <1>16 DEF GateInv
<1>19. ~Dying' => \A u \in Ids : Where'[u] \in AtGate =>
                    u \in Reqs /\ (u \in Todos' \/ SlotAt(u, Where'[u]) \in open')
  BY <1>2, <1>5, <1>7, <1>10, <1>11, <1>12 DEF GateInv
<1>20. ASSUME NEW f \in Workers', f.op = "pipe" /\ f.pc = Submitter /\ f.id \in Fetches,
              NEW u \in ToSet(waiters'[fetchOf'[f.id]])
       PROVE  state'[u] \in AtGate
  <2>1. f \in Workers /\ f.id \in Live
    BY <1>5, <1>20 DEF Given, Places, BusyInv
  <2>2. Where[f.id] # "none"
    BY <2>1, WhereLive DEF Given, Places, Live
  <2>3. fetchOf[f.id] \in Slots
    BY <1>12, <1>20, <2>2 DEF GateInv
  <2>0. PICK r \in Slots : r = fetchOf[f.id] /\ r = fetchOf'[f.id]
    BY <1>2, <2>3
  <2>4. \A v \in ToSet(waiters[r]) : state[v] \in AtGate
    BY <1>12, <1>20, <2>0, <2>1 DEF GateInv
  <2>5. ToSet(waiters'[r]) = Queue(r)' /\ ToSet(waiters[r]) = Queue(r)
    BY <1>12, <1>15, OnceMeans DEF GateInv
  <2>6. u = t \/ u \in ToSet(waiters[r])
    BY <1>13, <1>20, <2>0, <2>5
  <2>7. u \in Ids
    BY <1>12, <1>20, <2>0, <2>5 DEF Queue
  <2> QED BY <1>3, <1>16, <2>4, <2>6, <2>7
<1>21. GateInv'
  BY <1>15, <1>17, <1>18, <1>19, <1>20 DEF GateInv
<1> QED BY <1>2, <1>5, <1>8, <1>9, <1>21 DEF Given, Places

(* A flight starts with a new fetch in the pipeline.                       *)
LEMMA StartsFlight ==
  ASSUME Given, Running("pipe"), Top.how # "failed", NEW gate \in Gates,
         Gated(gate, Top.id), EntersOnly, NEW t, t = Top.id, NEW s,
         s = <<gate, KeyOf[gate][t]>>, s \notin open, NEW l, l = ParkedAt(gate),
         NEW f \in Fetches, state[f] = "none" \/ f \in retired,
         open' = open \cup {s}, waiters' = [waiters EXCEPT ![s] = <<t>>],
         fetchOf' = [fetchOf EXCEPT ![f] = s],
         state' = [state EXCEPT ![t] = l, ![f] = "created"],
         stack' = <<Pipe(f, "start", Submitter)>> \o Below,
         retired' = retired \ {f}, outcome' = [outcome EXCEPT ![f] = <<>>],
         settled' = settled \ {f}, notified' = notified \ {f},
         detached' = detached \ {f}, events' = [events EXCEPT ![f] = <<>>],
         started' = started \ {f}, held' = held \ {f}
  PROVE  Places'
<1>1. /\ t \in Live /\ t \in Ids /\ t \notin Todos /\ state[t] = "created"
      /\ Saves[t] = {} /\ Where[t] = "created"
      /\ t \notin settled \cup notified \cup detached /\ outcome[t] = <<>>
      /\ stack # <<>> /\ Pushes(Top, Below) /\ On = {Top} \cup Rest
      /\ Top \in Workers /\ Top.op = "pipe"
      /\ \A g \in Rest : g.op \in Working => g.id # t
  BY Piped
<1>2. /\ t \in Reqs /\ s \in Slots /\ StateAt(s) = l /\ SlotAt(t, l) = s
      /\ \A r \in Slots : StateAt(r) = l /\ KeyOf[r[1]][t] = r[2] => r = s
      /\ \A u : KeyOf[gate][u] = s[2] => SlotAt(u, l) = s
      /\ KeyOf[s[1]][t] = s[2] /\ s[1] = gate
  BY OneSlot
<1>3. f # t /\ f \in Ids /\ f \notin Live /\ f \notin Reqs
  BY <1>2, Constants DEF Ids, Live
<1>4. l \in AtGate /\ l \notin {"none", "delivering", "aborted", "created"}
  BY DEF ParkedAt, AtGate
<1>5. \A g \in Workers : g.id # f
  BY <1>3 DEF Given, Places, BusyInv
<1>6. Saves[f] = {} /\ Where[f] = "none"
  BY <1>3, <1>5, WhereIs
<1> DEFINE h == Pipe(f, "start", Submitter)
<1>7. PICK p : p = h
  OBVIOUS
<1>8. p.op = "pipe" /\ p.id = f /\ p.how = "start" /\ p.pc = Submitter
  BY <1>7, Fields
<1>9. stack' = <<p>> \o Below
  BY <1>7
<1> HIDE DEF h
<1>10. \A g \in Rest : g.op \in Working => g \in Workers
  BY <1>1 DEF Workers
<1>11. Pushes(p, Below)
  <2>1. Kind(p) /\ ~Reports(p)
    BY <1>8 DEF Kind, Reports, Submitter, Resumer
  <2>2. ASSUME NEW g \in FramesIn(Below) PROVE Over(p, g)
    <3>1. Over(Top, g)
      BY <1>1, <2>2 DEF Pushes
    <3>2. g.op \in Working => g.id # f
      BY <1>5, <1>10, <2>2 DEF Rest
    <3> QED BY <1>1, <1>8, <3>1, <3>2 DEF Over, Silent, Working
  <2> QED BY <2>1, <2>2 DEF Pushes
<1>12. CallsInv' /\ On' = {p} \cup Rest
  BY <1>1, <1>9, <1>11, AfterSwap DEF Given, Places
<1>13. UNCHANGED <<Syncs, Todos, Dying, Saves>>
  BY <1>1, <1>8, <1>12, HandsView
<1>14. /\ \A g \in Workers' : g = p \/ (g \in Workers /\ g.id \notin {t, f})
       /\ \A g \in Workers : g = Top \/ (g \in Workers' /\ g.id \notin {t, f})
       /\ p \in Workers'
  BY <1>1, <1>5, <1>8, <1>12 DEF Workers, Working
<1>15. /\ state \in [Ids -> States] /\ state'[t] = l /\ state'[f] = "created"
       /\ \A u \in Ids : u \notin {t, f} => state'[u] = state[u]
  BY <1>1, <1>3 DEF Given, IInv, Data, Life
<1>16. /\ \A u \in Ids : u \notin {t, f} => (u \in Live' <=> u \in Live)
       /\ t \in Live' /\ f \in Live' /\ Live' = Live \cup {f}
       /\ t \in Born' /\ f \in Born'
  BY <1>1, <1>3, <1>4, <1>15 DEF Live, Born
<1>17. /\ Where'[t] = l /\ Where'[f] = "created"
       /\ \A u \in Ids : u \notin {t, f} => Where'[u] = Where[u]
  <2>1. ASSUME NEW u \in Ids
        PROVE  Where'[u] = IF u \notin Live' THEN "none"
                 ELSE IF Saves'[u] = {} THEN state'[u]
                 ELSE (CHOOSE k \in Saves'[u] : TRUE).how
    BY <2>1 DEF Where
  <2>2. ASSUME NEW u \in Ids, u \notin {t, f} PROVE Where'[u] = Where[u]
    <3>1. (u \in Live' <=> u \in Live) /\ Saves'[u] = Saves[u] /\ state'[u] = state[u]
      BY <1>13, <1>15, <1>16, <2>2
    <3>2. Where[u] = IF u \notin Live THEN "none"
                 ELSE IF Saves[u] = {} THEN state[u]
                 ELSE (CHOOSE k \in Saves[u] : TRUE).how
      BY <2>2 DEF Where
    <3>3. Where'[u] = IF u \notin Live' THEN "none"
                 ELSE IF Saves'[u] = {} THEN state'[u]
                 ELSE (CHOOSE k \in Saves'[u] : TRUE).how
      BY <2>1, <2>2
    <3> HIDE DEF Where, Live, Saves
    <3> QED BY <3>1, <3>2, <3>3
  <2> QED BY <1>1, <1>3, <1>6, <1>13, <1>15, <1>16, <2>1, <2>2
<1>18. Shifts({"created", "none", l})
  <2>1. Where' = [u \in Ids |-> Where'[u]]
    BY DEF Where
  <2> HIDE DEF Where
  <2> QED BY <1>1, <1>6, <1>17, <2>1 DEF Shifts
<1> HIDE DEF Where
<1>19. /\ UNCHANGED <<pending, delayed, delayedCount, dispatch, gated, dispatchCount>>
       /\ UNCHANGED <<conns, free, blocking, intercepted, fault>>
  BY DEF EntersOnly, qvars, dvars, nvars
<1>20. Elsewhere({t, f})
  <2>1. \A g : g.id \notin {t, f} => (g \in Workers' <=> g \in Workers)
    BY <1>8, <1>14
  <2>2. \A u \in Ids : u \notin {t, f} => events'[u] = events[u] /\ outcome'[u] = outcome[u]
    BY DEF Given, IInv, Data, Buffered, Calls
  <2> QED BY <2>1, <2>2, <1>15, <1>17, <1>19 DEF Elsewhere
<1>21. outcome'[f] = <<>> /\ outcome'[t] = <<>>
  BY <1>1, <1>3 DEF Given, IInv, Data, Calls
<1>22. \A g \in Workers' : g.id \in {t, f} => g = p
  BY <1>14
<1>23. BusyIn({t, f})'
  <2>1. \A g \in Workers' : g.id \in {t, f} => g = p
    BY <1>22
  <2>2. \A u \in {t, f} : u \in Live' /\ u \notin detached'
    BY <1>1, <1>3, <1>16 DEF Given, IInv, Data
  <2>3. state'[t] \notin {"created", "delivering", "aborted"} /\ state'[f] = "created"
    BY <1>4, <1>15
  <2> HIDE DEF Workers, Live
  <2> QED BY <1>8, <1>14, <2>1, <2>2, <2>3 DEF BusyIn
<1>24. StreamIn({t, f})'
  <2>1. ~Terminal(events[t])
    BY <1>1 DEF Given, Places, StreamInv, Live
  <2>2. events'[f] = <<>> /\ events'[t] = events[t]
    BY <1>1, <1>3 DEF Given, IInv, Data, Buffered
  <2>3. \A u \in {t, f} : ~Terminal(events'[u])
    BY <2>1, <2>2 DEF Terminal
  <2> QED BY <1>4, <1>8, <1>17, <1>22, <2>3 DEF StreamIn, AtGate, Terminal
<1>25. AnswerIn({t, f})'
  <2>1. t \notin retired
    BY <1>1 DEF Live
  <2> QED BY <1>1, <1>8, <1>16, <1>21, <1>22, <2>1 DEF AnswerIn
<1>26. BusyInv' /\ StreamInv' /\ AnswerInv'
  BY <1>20, <1>23, <1>24, <1>25, ElsewhereKeeps DEF Given
<1>27. PendingInv' /\ DelayedInv' /\ BlockInv'
  <2>0. Places
    BY DEF Given
  <2>1. PendingInv' /\ DelayedInv'
    <3>1. "queued" \notin {"created", "none", l} /\ "delayed" \notin {"created", "none", l}
      BY <1>4 DEF AtGate
    <3>2. UNCHANGED <<pending, delayed, delayedCount>>
      BY <1>19
    <3> QED BY <1>18, <2>0, <3>1, <3>2, Shifted
  <2>2. BlockInv'
    BY <1>13, <1>19, Untouched DEF Given, Places
  <2> QED BY <2>1, <2>2
<1>28. DispatchInv' /\ PoolInv'
  <2>1. f \notin conns
    BY <1>3, <1>6 DEF Given, Places, PoolInv
  <2> QED BY <1>4, <1>18, <1>19, <2>1, ShiftedNew DEF Given, AtGate
<1>29. HeldInv'
  BY <1>3, <1>4, <1>16, <1>18, <1>19, HeldElse DEF Given, Places, Kept4Cdp, AtGate
<1>30. GateInv /\ Reqs \subseteq Ids /\ Fetches \subseteq Ids
  BY DEF Given, Places, Ids
<1>31. ~Dying /\ ~Dying'
  BY <1>1, <1>13, NotDying DEF Given, Places
<1>32. /\ waiters \in [Slots -> Seq(Born)] /\ open \subseteq Slots
       /\ fetchOf \in [Fetches -> Slots \cup {None}]
  BY DEF Given, IInv, Data, Flights
<1>33. \A r \in Slots : r # s => Queue(r)' = Queue(r)
  <2>1. ASSUME NEW r \in Slots, r # s, NEW u \in Reqs
        PROVE  u \in Queue(r)' <=> u \in Queue(r)
    <3>1. CASE u = t
      BY <1>1, <1>2, <1>4, <1>17, <2>1, <3>1 DEF Queue, StateAt
    <3>2. CASE u # t
      BY <1>3, <1>13, <1>17, <1>30, <2>1, <3>2 DEF Queue
    <3> QED BY <3>1, <3>2
  <2>2. \A r : Queue(r) \subseteq Reqs /\ Queue(r)' \subseteq Reqs
    BY DEF Queue
  <2>3. ASSUME NEW r \in Slots, r # s PROVE Queue(r)' = Queue(r)
    <3>1. \A u \in Reqs : u \in Queue(r)' <=> u \in Queue(r)
      BY <2>1, <2>3
    <3> QED BY <2>2, <3>1
  <2> QED BY <2>3
<1>34. Queue(s)' = {t}
  <2>1. t \in Queue(s)'
    BY <1>1, <1>2, <1>13, <1>17 DEF Queue
  <2>2. ASSUME NEW u \in Queue(s)', u # t PROVE FALSE
    <3>1. u \in Reqs /\ Where[u] = l /\ KeyOf[gate][u] = s[2] /\ u \notin Todos
      BY <1>2, <1>3, <1>13, <1>17, <1>30, <2>2 DEF Queue
    <3>2. SlotAt(u, l) \in open
      BY <1>4, <1>30, <1>31, <3>1 DEF GateInv
    <3> QED BY <1>2, <3>1, <3>2
  <2> QED BY <2>1, <2>2
<1>35. \A r \in Slots : Once(waiters'[r], Queue(r)')
  <2>1. ASSUME NEW r \in Slots, r # s PROVE Once(waiters'[r], Queue(r)')
    BY <1>30, <1>32, <1>33, <2>1 DEF GateInv
  <2>2. Once(<<t>>, {t})
    BY DEF Once
  <2>3. waiters'[s] = <<t>>
    BY <1>2, <1>32
  <2> QED BY <1>34, <2>1, <2>2, <2>3
<1>36. /\ fetchOf'[f] = s /\ \A g \in Fetches : g # f => fetchOf'[g] = fetchOf[g]
       /\ \A g \in Fetches : g # f => Where'[g] = Where[g] /\ outcome'[g] = outcome[g]
  <2>1. \A g \in Fetches : g # t
    BY <1>2, Constants
  <2>2. outcome \in [Ids -> Seq({"done", "err", "shutdown"})]
    BY DEF Given, IInv, Data, Calls
  <2> QED BY <1>17, <1>30, <1>32, <2>1, <2>2
<1>37. \A r \in open' : \E g \in Fetches :
            Where'[g] # "none" /\ fetchOf'[g] = r /\ outcome'[g] = <<>>
  <2>1. ASSUME NEW r \in open
        PROVE  \E g \in Fetches : Where'[g] # "none" /\ fetchOf'[g] = r /\ outcome'[g] = <<>>
    BY <1>6, <1>30, <1>36 DEF GateInv
  <2>2. Where'[f] # "none" /\ fetchOf'[f] = s /\ outcome'[f] = <<>>
    BY <1>17, <1>21, <1>36
  <2> QED BY <2>1, <2>2
<1>38. \A g \in Fetches : Where'[g] # "none" => fetchOf'[g] \in Slots
  BY <1>2, <1>30, <1>36 DEF GateInv
<1>39. \A u \in Todos' : u \in Reqs \cap Live' /\ state'[u] \in AtGate
  BY <1>1, <1>3, <1>13, <1>15, <1>16, <1>30 DEF GateInv
<1>40. \A u \in Ids : Where'[u] \in AtGate =>
         u \in Reqs /\ (u \in Todos' \/ SlotAt(u, Where'[u]) \in open')
  <2>1. ASSUME NEW u \in Ids, Where'[u] \in AtGate, u # t
        PROVE  u \in Reqs /\ (u \in Todos' \/ SlotAt(u, Where'[u]) \in open')
    <3>1. u # f
      BY <1>17, <2>1 DEF AtGate
    <3> QED BY <1>13, <1>17, <1>30, <1>31, <2>1, <3>1 DEF GateInv
  <2> QED BY <1>2, <1>17, <2>1
<1>41. ASSUME NEW k \in Workers', k.op = "pipe" /\ k.pc = Submitter /\ k.id \in Fetches,
              NEW u \in ToSet(waiters'[fetchOf'[k.id]])
       PROVE  state'[u] \in AtGate
  <2>1. PICK r \in Slots : r = fetchOf'[k.id]
    <3>1. CASE k.id = f
      BY <1>2, <1>36, <3>1
    <3>2. CASE k.id # f
      <4>1. k \in Workers /\ k.id \in Live
        BY <1>8, <1>14, <3>2 DEF Given, Places, BusyInv
      <4>2. Where[k.id] # "none"
        BY <4>1, WhereLive DEF Given, Places, Live
      <4> QED BY <1>30, <1>36, <1>41, <3>2, <4>2 DEF GateInv
    <3> QED BY <3>1, <3>2
  <2>2. u \in Queue(r)'
    BY <1>35, <1>41, <2>1, OnceMeans
  <2>3. CASE u = t
    BY <1>4, <1>15, <2>3
  <2>4. CASE u # t
    <3>1. r # s /\ k.id # f
      BY <1>34, <1>36, <2>1, <2>2, <2>4
    <3>2. k \in Workers /\ r = fetchOf[k.id]
      BY <1>8, <1>14, <1>36, <1>41, <2>1, <3>1
    <3>3. u \in ToSet(waiters[r])
      BY <1>32, <1>41, <2>1, <3>1
    <3>4. state[u] \in AtGate
      BY <1>30, <1>41, <3>2, <3>3 DEF GateInv
    <3>5. u \in Ids /\ u # f
      BY <1>3, <1>30, <2>2 DEF Queue
    <3> QED BY <1>15, <2>4, <3>4, <3>5
  <2> QED BY <2>3, <2>4
<1>42. GateInv'
  BY <1>35, <1>37, <1>38, <1>39, <1>40, <1>41 DEF GateInv
<1> QED BY <1>12, <1>19, <1>26, <1>27, <1>28, <1>29, <1>42 DEF Given, Places

(* Either way the gate has it.                                             *)
LEMMA EnterGatePlaces ==
  ASSUME Given, Running("pipe"), Top.how # "failed", NEW gate \in Gates,
         Gated(gate, Top.id), EnterGate(gate), EntersOnly
  PROVE  Places'
<1>0. PICK t : t = Top.id
  OBVIOUS
<1>1. CASE <<gate, KeyOf[gate][t]>> \in open
  BY <1>0, <1>1, JoinPlaces
<1>2. CASE <<gate, KeyOf[gate][t]>> \notin open
  <2> DEFINE s == <<gate, KeyOf[gate][t]>>
  <2>1. PICK f \in Fetches :
          /\ state[f] = "none" \/ f \in retired
          /\ open' = open \cup {s} /\ waiters' = [waiters EXCEPT ![s] = <<t>>]
          /\ fetchOf' = [fetchOf EXCEPT ![f] = s]
          /\ state' = [state EXCEPT ![t] = ParkedAt(gate), ![f] = "created"]
          /\ stack' = <<Pipe(f, "start", Submitter)>> \o Below
          /\ retired' = retired \ {f} /\ outcome' = [outcome EXCEPT ![f] = <<>>]
          /\ settled' = settled \ {f} /\ notified' = notified \ {f}
          /\ detached' = detached \ {f} /\ events' = [events EXCEPT ![f] = <<>>]
          /\ started' = started \ {f} /\ held' = held \ {f}
    BY <1>0, <1>2 DEF EnterGate, ParkedAt
  <2> HIDE DEF s
  <2>2. s = <<gate, KeyOf[gate][t]>>
    BY DEF s
  <2>3. s \notin open
    BY <1>2, <2>2
  <2> QED BY <1>0, <2>1, <2>2, <2>3, StartsFlight
<1> QED BY <1>1, <1>2

(* The stage after the interception.                                       *)
LEMMA PipeAfterInterceptPlaces == ASSUME Given, PipeAfterIntercept PROVE Places'
<1>1. /\ Running("pipe") /\ Top.how # "failed"
      /\ UNCHANGED <<qvars, nvars, blocking, intercepted>>
  BY DEF PipeAfterIntercept, AtStage
<1>2. CASE /\ stack' = Below
           /\ scheduleDispatch(Top.id, state[Top.id], <<"err">>, {})
           /\ UNCHANGED <<retired, owner, cbvars, started, hops, open, waiters,
                          fetchOf, held>>
  BY <1>1, <1>2, PipeSchedules DEF Ending, cvars
<1>3. CASE /\ Gated("cors", Top.id) /\ EnterGate("cors")
           /\ UNCHANGED <<dvars, fault>>
  <2>1. EntersOnly /\ "cors" \in Gates
    BY <1>1, <1>3 DEF EntersOnly, Gates
  <2> QED BY <1>1, <1>3, <2>1, EnterGatePlaces
<1>4. CASE /\ Goto("after_cors")
           /\ UNCHANGED <<state, retired, owner, cbvars, evars, dvars, open,
                          waiters, fetchOf, held, fault>>
  <2>1. UNCHANGED <<lvars, cbvars, evars, qvars, dvars, nvars, open, waiters,
                    fetchOf, blocking, cvars, fault>>
    BY <1>1, <1>4 DEF lvars, cvars
  <2> QED BY <1>1, <1>4, <2>1, PipeGoesOn
<1> QED BY <1>2, <1>3, <1>4 DEF PipeAfterIntercept

(* The stage after the CORS gate.                                          *)
LEMMA PipeAfterCorsPlaces == ASSUME Given, PipeAfterCors PROVE Places'
<1> DEFINE known == IF Gated("robots", Top.id) THEN verdict[KeyOf["robots"][Top.id]]
                    ELSE "allow"
<1>1. /\ Running("pipe") /\ Top.how # "failed"
      /\ UNCHANGED <<qvars, nvars, blocking, intercepted>>
  BY DEF PipeAfterCors, AtStage
<1>2. CASE /\ stack' = Below
           /\ \/ scheduleDispatch(Top.id, state[Top.id], <<"data", "done">>, {})
              \/ scheduleDispatch(Top.id, state[Top.id], <<"err">>, {})
           /\ UNCHANGED <<retired, owner, cbvars, started, hops, open, waiters,
                          fetchOf, held>>
  BY <1>1, <1>2, PipeSchedules DEF Ending, cvars
<1>3. CASE /\ known = "unknown" /\ EnterGate("robots")
           /\ UNCHANGED <<dvars, fault>>
  <2>1. EntersOnly /\ "robots" \in Gates
    BY <1>1, <1>3 DEF EntersOnly, Gates
  <2>2. Gated("robots", Top.id)
    BY <1>3
  <2> QED BY <1>1, <1>3, <2>1, <2>2, EnterGatePlaces
<1>4. CASE /\ Goto("throttle")
           /\ UNCHANGED <<state, retired, owner, cbvars, evars, dvars, open,
                          waiters, fetchOf, held, fault>>
  <2>1. UNCHANGED <<lvars, cbvars, evars, qvars, dvars, nvars, open, waiters,
                    fetchOf, blocking, cvars, fault>>
    BY <1>1, <1>4 DEF lvars, cvars
  <2> QED BY <1>1, <1>4, <2>1, PipeGoesOn
<1> QED BY <1>2, <1>3, <1>4 DEF PipeAfterCors

-----------------------------------------------------------------------------
(* A transfer enters the pipeline                                          *)

PipeBegins(t, g) ==
  /\ g.op = "pipe" /\ g.id = t
  /\ Workers' = Workers \cup {g} /\ \A f \in Workers : f.id # t
  /\ \/ state[t] = "none"
     \/ t \in Live /\ state[t] \notin {"created", "buffered", "delivering", "aborted"}
  /\ state' = [state EXCEPT ![t] = "created"]
  /\ UNCHANGED <<Saves, retired, detached, outcome, settled, notified>>
  /\ \A u \in Ids : u # t => (u \in conns' <=> u \in conns)
  /\ UNCHANGED events

(* It is then in the hands of its pipeline and nowhere else.               *)
LEMMA PipeEnters ==
  ASSUME Given, NEW t \in Ids, NEW g, PipeBegins(t, g)
  PROVE  /\ BusyInv' /\ StreamInv' /\ AnswerInv'
         /\ Moves(t, "created") /\ Live' = Live \cup {t} /\ Where[t] = state[t]
         /\ Saves[t] = {}
<1>1. Saves[t] = {}
  BY WhereIs DEF PipeBegins
<1>2. t \notin settled \cup notified \cup detached /\ outcome[t] = <<>> /\ t \notin retired
  <2>1. CASE state[t] = "none"
    BY <2>1 DEF Given, IInv, Data, Life, Calls, Born, Places, AnswerInv
  <2>2. CASE /\ t \in Live
             /\ state[t] \notin {"created", "buffered", "delivering", "aborted"}
    BY <2>2 DEF Given, Places, AnswerInv, BusyInv, Live
  <2> QED BY <2>1, <2>2 DEF PipeBegins
<1>3. Moves(t, "created") /\ Live' = Live \cup {t} /\ Where[t] = state[t] /\ t \in Born'
  <2>1. CASE state[t] = "none"
    <3>1. t \in Ids \ Live /\ Where[t] = "none"
      BY <2>1, WhereIs DEF Live
    <3>2. retired' = retired \ {t}
      BY <1>2 DEF PipeBegins
    <3> QED BY <2>1, <3>1, <3>2, WhereBegins DEF Given, Places, PipeBegins
  <2>2. CASE t \in Live
    <3>1. Where[t] = state[t]
      BY <1>1, <2>2, WhereIs
    <3>2. Moves(t, "created") /\ Live' = Live /\ Born' = Born
      BY <1>1, <2>2, WhereMoves DEF Given, PipeBegins
    <3>3. t \in Born
      BY <2>2 DEF Live, Born
    <3> QED BY <2>2, <3>1, <3>2, <3>3
  <2> QED BY <2>1, <2>2 DEF PipeBegins
<1>4. Where'[t] = "created" /\ \A u \in Ids : u # t => Where'[u] = Where[u]
  BY <1>3, MoveIs
<1>5. state'[t] = "created" /\ \A u \in Ids : u # t => state'[u] = state[u]
  BY DEF Given, IInv, Data, Life, PipeBegins
<1> HIDE DEF Where
<1>6. Elsewhere({t})
  <2>1. \A f : f.id # t => (f \in Workers' <=> f \in Workers)
    BY DEF PipeBegins
  <2> QED BY <2>1, <1>4, <1>5 DEF Elsewhere, PipeBegins
<1>7. \A f \in Workers' : f.id = t => f = g
  BY DEF PipeBegins
<1>8. g \in Workers' /\ g.op = "pipe" /\ g.id = t
  BY DEF PipeBegins
<1>9. BusyIn({t})'
  <2>1. t \in Live' /\ t \notin detached'
    BY <1>2, <1>3 DEF PipeBegins
  <2> HIDE DEF Workers, Live
  <2> QED BY <1>5, <1>7, <1>8, <2>1 DEF BusyIn
<1>10. StreamIn({t})'
  <2>1. state[t] # "buffered" => ~Terminal(events[t])
    BY <1>2 DEF Given, Places, StreamInv, PipeBegins
  <2>2. state[t] # "buffered"
    BY DEF PipeBegins
  <2> QED BY <1>4, <1>7, <1>8, <2>1, <2>2 DEF StreamIn, PipeBegins, Terminal
<1>11. AnswerIn({t})'
  BY <1>2, <1>7, <1>8 DEF AnswerIn, PipeBegins
<1>12. BusyInv' /\ StreamInv' /\ AnswerInv'
  BY <1>6, <1>9, <1>10, <1>11, ElsewhereKeeps DEF Given
<1> QED BY <1>1, <1>3, <1>12

-----------------------------------------------------------------------------
(* The tick                                                                *)

(* A tick runs over nothing that holds a transfer but deliveries.          *)
LEMMA TickOn ==
  ASSUME Given, Running("tick")
  PROVE  /\ stack # <<>> /\ Top.op = "tick" /\ On = {Top} \cup Rest
         /\ \A g \in On : g.op \in {"js", "sync", "import", "tick", "deliver", "finish", "stop"}
         /\ \A t \in Ids : /\ Saves[t] = {}
                           /\ Where[t] = IF t \in Live THEN state[t] ELSE "none"
         /\ \A g \in Workers : g.op \in {"deliver", "finish"}
         /\ Todos = {} /\ ~Dying
<1>1. stack # <<>> /\ Top.op = "tick" /\ On = {Top} \cup Rest /\ Pushes(Top, Below)
  BY OnTopView DEF Given, Places
<1>2. ASSUME NEW g \in On
      PROVE  g.op \in {"js", "sync", "import", "tick", "deliver", "finish", "stop"}
  <2>1. g.op \in Ops
    BY KnownOn DEF Given
  <2>2. CASE g \in Rest
    <3>1. Over(Top, g)
      BY <1>1, <2>2 DEF Pushes, Rest
    <3>2. g.op \notin {"pipe", "kill", "release", "abort", "flush"}
      BY <1>1, <3>1 DEF Over
    <3> QED BY <2>1, <3>2 DEF Ops, TransferOps
  <2> QED BY <1>1, <2>2
<1>3. \A t \in Ids : Saves[t] = {}
  BY <1>2 DEF Saves
<1>4. \A t \in Ids : Where[t] = IF t \in Live THEN state[t] ELSE "none"
  BY <1>3, WhereIs
<1>5. \A g \in Workers : g.op \in {"deliver", "finish"}
  BY <1>2 DEF Workers, Working
<1>6. Todos = {} /\ ~Dying
  BY <1>2 DEF Todos, Dying
<1> QED BY <1>1, <1>2, <1>3, <1>4, <1>5, <1>6

(* It sends a transfer into the pipeline.                                  *)
LEMMA TickPipes ==
  ASSUME Given, Running("tick"), NEW t \in Live,
         state[t] \notin {"created", "buffered", "delivering", "aborted"}, NEW m,
         NEW w \in {Ticker, Redirect, Resumer}, w = Resumer => m # "failed",
         stack' = <<Pipe(t, m, w)>> \o stack,
         state' = [state EXCEPT ![t] = "created"],
         UNCHANGED <<retired, detached, outcome, settled, notified, events>>,
         \A u \in Ids : u # t => (u \in conns' <=> u \in conns)
  PROVE  /\ CallsInv' /\ BusyInv' /\ StreamInv' /\ AnswerInv'
         /\ Moves(t, "created") /\ Live' = Live /\ t \in Ids /\ Where[t] = state[t]
         /\ UNCHANGED blocking => BlockInv'
         /\ UNCHANGED <<open, waiters, fetchOf>> /\ state[t] \notin AtGate => GateInv'
<1>1. /\ stack # <<>> /\ Top.op = "tick" /\ On = {Top} \cup Rest
      /\ \A g \in On : g.op \in {"js", "sync", "import", "tick", "deliver", "finish", "stop"}
      /\ \A g \in Workers : g.op \in {"deliver", "finish"}
  BY TickOn
<1>2. t \in Ids /\ \A f \in Workers : f.id # t
  BY <1>1 DEF Given, Places, BusyInv, Live
<1> DEFINE h == Pipe(t, m, w)
<1>3. PICK p : p = h
  OBVIOUS
<1>4. p.op = "pipe" /\ p.id = t /\ p.how = m /\ p.pc = w /\ stack' = <<p>> \o stack
  BY <1>3, Fields
<1> HIDE DEF h
<1>5. w # Submitter
  BY DEF Ticker, Redirect, Resumer, Submitter
<1>6. Pushes(p, stack)
  <2>1. ASSUME NEW g \in On PROVE Over(p, g)
    <3>1. g.op \in Working => g.id # t
      BY <1>2 DEF Workers
    <3> QED BY <1>1, <1>4, <1>5, <2>1, <3>1 DEF Over, Working
  <2> QED BY <1>4, <2>1 DEF Pushes, Kind, Reports, On
<1>7. CallsInv' /\ On' = {p} \cup On
  BY <1>4, <1>6, AfterPush DEF Given, Places
<1>8. UNCHANGED <<Syncs, Todos, Dying, Saves>> /\ Workers' = Workers \cup {p}
  BY <1>4, <1>7, HandsView DEF Workers, Working
<1>9. PipeBegins(t, p)
  BY <1>2, <1>4, <1>8 DEF PipeBegins
<1>10. /\ BusyInv' /\ StreamInv' /\ AnswerInv'
       /\ Moves(t, "created") /\ Live' = Live /\ Where[t] = state[t]
  <2>1. /\ BusyInv' /\ StreamInv' /\ AnswerInv'
        /\ Moves(t, "created") /\ Live' = Live \cup {t} /\ Where[t] = state[t]
    BY <1>2, <1>9, PipeEnters
  <2>2. Live \cup {t} = Live
    OBVIOUS
  <2> QED BY <2>1, <2>2
<1>11. UNCHANGED blocking => BlockInv'
  BY <1>8, Untouched DEF Given
<1>12. ASSUME UNCHANGED <<open, waiters, fetchOf>>, state[t] \notin AtGate
       PROVE  GateInv'
  <2>1. Shifts({Where[t], "created"}) /\ {Where[t], "created"} \cap AtGate = {}
    BY <1>2, <1>10, <1>12, MoveShifts DEF AtGate
  <2>2. Where[t] # "none" /\ Where'[t] # "none" /\ \A u \in Ids : u # t => Where'[u] = Where[u]
    BY <1>2, <1>10, MoveIs, WhereLive DEF Given, Places
  <2>3. \A u \in Live : state[u] \in AtGate => state'[u] \in AtGate
    BY <1>12 DEF AtGate, Given, IInv, Data, Life, Live
  <2> HIDE DEF Where
  <2>4. \A f \in Fetches : Where'[f] # "none" <=> Where[f] # "none"
    BY <2>2 DEF Ids
  <2>5. \A f \in Workers' : f.op = "pipe" /\ f.pc = Submitter /\ f.id \in Fetches =>
          \E g \in Workers : g.op = "pipe" /\ g.pc = Submitter /\ g.id = f.id
    BY <1>4, <1>5, <1>8
  <2> QED BY <1>8, <1>10, <1>12, <2>1, <2>3, <2>4, <2>5, GateElse DEF Given
<1> QED BY <1>2, <1>7, <1>10, <1>11, <1>12

(* The delayed queue's head starts.                                        *)
LEMMA TickDelayedPlaces == ASSUME Given, TickDelayed PROVE Places'
<1>0. PICK t : t = Head(delayed)
  OBVIOUS
<1>1. /\ Running("tick") /\ delayed # <<>> /\ delayed' = Tail(delayed)
      /\ delayedCount' = delayedCount - 1 /\ state' = [state EXCEPT ![t] = "created"]
      /\ stack' = <<Pipe(t, "network", Ticker)>> \o stack
      /\ UNCHANGED <<retired, detached, outcome, settled, notified, events, conns>>
      /\ UNCHANGED <<pending, dispatch, gated, dispatchCount, free, started>>
      /\ UNCHANGED <<open, waiters, fetchOf, blocking, held, intercepted, fault>>
  BY <1>0 DEF TickDelayed, At, cbvars, evars, dvars, nvars, gvars, cvars
<1>2. t \in Ids /\ Where[t] = "delayed"
  <2> DEFINE A == {u \in Ids : Where[u] = "delayed"}
  <2>1. Once(delayed, A)
    BY DEF Given, Places, DelayedInv
  <2> HIDE DEF A
  <2>2. t \in A
    BY <1>0, <1>1, <2>1, OnceTail
  <2> QED BY <2>2 DEF A
<1>3. t \in Live /\ state[t] = "delayed"
  BY <1>1, <1>2, TickOn
<1>4. /\ CallsInv' /\ BusyInv' /\ StreamInv' /\ AnswerInv' /\ BlockInv' /\ GateInv'
      /\ Moves(t, "created") /\ Live' = Live
  <2>1. Ticker # Resumer
    BY DEF Ticker, Resumer
  <2> QED BY <1>1, <1>3, <2>1, TickPipes DEF AtGate
<1>5. Shifts({"delayed", "created"})
  BY <1>2, <1>4, MoveShifts
<1>6. PendingInv' /\ DispatchInv' /\ PoolInv'
  <2> DEFINE A == {"delayed", "created"}
  <2>1. "queued" \notin A /\ A \cap {"buffered", "inflight"} = {}
    OBVIOUS
  <2>2. Shifts(A) /\ A \cap {"inflight", "delivering", "aborted"} = {} /\ Places
    BY <1>5 DEF Given
  <2> HIDE DEF A
  <2> QED BY <1>1, <2>1, <2>2, Shifted
<1>7. DelayedInv'
  BY <1>0, <1>1, <1>2, <1>4, DelayedLoses DEF Given
<1>8. HeldInv'
  BY <1>1, <1>4, <1>5, HeldElse DEF Given, Places, Kept4Cdp
<1> QED BY <1>1, <1>4, <1>6, <1>7, <1>8 DEF Given, Places

(* The pending queue's head starts.                                        *)
LEMMA TickPendingPlaces == ASSUME Given, TickPending PROVE Places'
<1>0. PICK t : t = Head(pending)
  OBVIOUS
<1>1. /\ Running("tick") /\ pending # <<>> /\ pending' = Tail(pending)
      /\ state' = [state EXCEPT ![t] = "created"]
      /\ stack' = <<Pipe(t, "network", Ticker)>> \o stack
      /\ UNCHANGED <<retired, detached, outcome, settled, notified, events, conns>>
      /\ UNCHANGED <<delayed, delayedCount, dispatch, gated, dispatchCount, free, started>>
      /\ UNCHANGED <<open, waiters, fetchOf, blocking, held, intercepted, fault>>
  BY <1>0 DEF TickPending, At, cbvars, evars, dvars, nvars, gvars, cvars
<1>2. t \in Ids /\ Where[t] = "queued"
  <2> DEFINE A == {u \in Ids : Where[u] = "queued"}
  <2>1. Once(pending, A)
    BY DEF Given, Places, PendingInv
  <2> HIDE DEF A
  <2>2. t \in A
    BY <1>0, <1>1, <2>1, OnceTail
  <2> QED BY <2>2 DEF A
<1>3. t \in Live /\ state[t] = "queued"
  BY <1>1, <1>2, TickOn
<1>4. /\ CallsInv' /\ BusyInv' /\ StreamInv' /\ AnswerInv' /\ BlockInv' /\ GateInv'
      /\ Moves(t, "created") /\ Live' = Live
  <2>1. Ticker # Resumer
    BY DEF Ticker, Resumer
  <2> QED BY <1>1, <1>3, <2>1, TickPipes DEF AtGate
<1>5. Shifts({"queued", "created"})
  BY <1>2, <1>4, MoveShifts
<1>6. DelayedInv' /\ DispatchInv' /\ PoolInv'
  <2> DEFINE A == {"queued", "created"}
  <2>1. "delayed" \notin A /\ A \cap {"buffered", "inflight"} = {}
    OBVIOUS
  <2>2. Shifts(A) /\ A \cap {"inflight", "delivering", "aborted"} = {} /\ Places
    BY <1>5 DEF Given
  <2> HIDE DEF A
  <2> QED BY <1>1, <2>1, <2>2, Shifted
<1>7. PendingInv'
  BY <1>0, <1>1, <1>2, <1>4, PendingLoses DEF Given
<1>8. HeldInv'
  BY <1>1, <1>4, <1>5, HeldElse DEF Given, Places, Kept4Cdp
<1> QED BY <1>1, <1>4, <1>6, <1>7, <1>8 DEF Given, Places

(* What libcurl answers is in the network or is being delivered.           *)
LEMMA AnsweredIs ==
  ASSUME Given, NEW t \in Ids, Answered(t)
  PROVE  /\ Running("tick") /\ t \in Live /\ t \in conns /\ Where[t] = state[t]
         /\ state[t] = "inflight" \/ (state[t] = "delivering" /\ t \in started)
<1>1. Running("tick") /\ t \in conns /\ state[t] # "aborted"
  BY DEF Answered, At
<1>2. Where[t] = "inflight" \/ (Where[t] = "delivering" /\ t \in started)
  <2>1. Where[t] # "aborted"
    BY <1>1, TickOn
  <2> QED BY <1>1, <2>1 DEF Given, Places, PoolInv
<1> QED BY <1>1, <1>2, TickOn

(* A redirect: the connection goes back and the pipeline starts again.     *)
LEMMA ProcessRedirectPlaces ==
  ASSUME Given, NEW t \in Ids, ProcessRedirect(t)
  PROVE  Places'
<1>1. /\ Answered(t) /\ t \notin started /\ removeConn(t)
      /\ state' = [state EXCEPT ![t] = "created"]
      /\ stack' = <<Pipe(t, "start", Redirect)>> \o stack
      /\ UNCHANGED <<retired, detached, outcome, settled, notified, events>>
      /\ UNCHANGED <<pending, delayed, delayedCount, dispatch, gated, dispatchCount, started>>
      /\ UNCHANGED <<open, waiters, fetchOf, blocking, held, intercepted, fault>>
  BY DEF ProcessRedirect, cbvars, qvars, dvars, gvars, cvars
<1>2. Running("tick") /\ t \in Live /\ Where[t] = "inflight" /\ state[t] = "inflight"
  BY <1>1, AnsweredIs
<1>3. \A u \in Ids : u # t => (u \in conns' <=> u \in conns)
  BY <1>1 DEF removeConn
<1>4. /\ CallsInv' /\ BusyInv' /\ StreamInv' /\ AnswerInv' /\ BlockInv' /\ GateInv'
      /\ Moves(t, "created") /\ Live' = Live
  <2>1. Redirect # Resumer
    BY DEF Redirect, Resumer
  <2> QED BY <1>1, <1>2, <1>3, <2>1, TickPipes DEF AtGate
<1>5. Shifts({"inflight", "created"})
  BY <1>2, <1>4, MoveShifts
<1>6. PendingInv' /\ DelayedInv'
  BY <1>1, <1>5, Shifted DEF Given
<1>7. DispatchInv'
  <2>1. t \notin InDispatch \cup InGated
    BY <1>1, <1>2, NotLinked DEF Given
  <2> QED BY <1>1, <1>3, <1>4, <2>1, DispatchElse DEF Given
<1>8. PoolInv'
  BY <1>1, <1>4, PoolGives DEF Given
<1>9. HeldInv'
  BY <1>1, <1>4, <1>5, HeldElse DEF Given, Places, Kept4Cdp
<1> QED BY <1>1, <1>4, <1>6, <1>7, <1>8, <1>9 DEF Given, Places

-----------------------------------------------------------------------------
(* A transfer is handed to the dispatcher                                  *)

Buffers(t, evs) ==
  /\ t \in Live /\ state[t] \in {"created", "inflight"} \cup Parked
  /\ Workers' = {f \in Workers : f.id # t} /\ UNCHANGED Saves
  /\ state' = [state EXCEPT ![t] = "buffered"]
  /\ events' = [events EXCEPT ![t] = @ \o evs]
  /\ \/ Linked(t) /\ UNCHANGED <<dispatch, gated, dispatchCount>>
     \/ /\ ~Linked(t) /\ dispatch' = Append(dispatch, t)
        /\ dispatchCount' = dispatchCount + 1 /\ UNCHANGED gated
  /\ removeConn(t)
  /\ UNCHANGED <<retired, detached, outcome, settled, notified, started>>
  /\ UNCHANGED <<pending, delayed, delayedCount>>

(* What scheduleDispatch does where it may be called.                      *)
LEMMA SchedulesIs ==
  ASSUME NEW t, NEW st \in {"created", "inflight"}, NEW evs,
         scheduleDispatch(t, st, evs, {})
  PROVE  /\ state' = [state EXCEPT ![t] = "buffered"] /\ UNCHANGED fault
         /\ events' = [events EXCEPT ![t] = @ \o evs]
         /\ \/ Linked(t) /\ UNCHANGED <<dispatch, gated, dispatchCount>>
            \/ /\ ~Linked(t) /\ dispatch' = Append(dispatch, t)
               /\ dispatchCount' = dispatchCount + 1 /\ UNCHANGED gated
BY DEF scheduleDispatch, Broken, dvars

(* A transfer without a connection gives none back.                        *)
LEMMA NoConn ==
  ASSUME IInv, NEW t, t \notin conns, UNCHANGED <<conns, free>>
  PROVE  removeConn(t)
BY DEF removeConn

(* It is then on a queue of the dispatcher, exactly once.                  *)
LEMMA BuffersKeep ==
  ASSUME Given, NEW t, NEW evs \in Ending, Buffers(t, evs)
  PROVE  /\ BusyInv' /\ StreamInv' /\ AnswerInv'
         /\ PendingInv' /\ DelayedInv' /\ DispatchInv' /\ PoolInv'
         /\ Moves(t, "buffered") /\ Live' = Live /\ t \in Ids /\ Where[t] = state[t]
         /\ state[t] \notin AtGate /\ UNCHANGED <<open, waiters, fetchOf, Todos, Dying>> =>
              GateInv'
<1>1. /\ t \in Live /\ t \in Ids /\ t \notin retired
      /\ state[t] \notin {"delivering", "aborted", "queued", "delayed", "none", "buffered"}
      /\ Workers' = {f \in Workers : f.id # t} /\ UNCHANGED Saves
      /\ state' = [state EXCEPT ![t] = "buffered"] /\ removeConn(t)
      /\ \/ Linked(t) /\ UNCHANGED <<dispatch, gated, dispatchCount>>
         \/ /\ ~Linked(t) /\ dispatch' = Append(dispatch, t)
            /\ dispatchCount' = dispatchCount + 1 /\ UNCHANGED gated
      /\ UNCHANGED <<retired, detached, outcome, settled, notified, started>>
      /\ UNCHANGED <<pending, delayed, delayedCount>>
  BY DEF Buffers, Live, Parked
<1>2. Saves[t] = {} /\ Where[t] = state[t]
  BY <1>1, WhereLive DEF Given, Places
<1>3. Moves(t, "buffered") /\ Live' = Live /\ Born' = Born
  BY <1>1, <1>2, WhereMoves DEF Given
<1>4. Where'[t] = "buffered" /\ \A u \in Ids : u # t => Where'[u] = Where[u]
  BY <1>1, <1>3, MoveIs
<1>5. state'[t] = "buffered" /\ \A u \in Ids : u # t => state'[u] = state[u]
  BY <1>1 DEF Given, IInv, Data, Life
<1>6. events'[t] = events[t] \o evs /\ \A u \in Ids : u # t => events'[u] = events[u]
  BY <1>1 DEF Given, IInv, Data, Buffered, Buffers
<1>7. Terminal(events'[t])
  BY <1>1, <1>6, EndsWith DEF Given, Terminal
<1>8. t \notin conns' /\ \A u \in Ids : u # t => (u \in conns' <=> u \in conns)
  BY <1>1 DEF removeConn
<1> HIDE DEF Where
<1>9. Elsewhere({t})
  BY <1>1, <1>4, <1>5, <1>6, <1>8 DEF Elsewhere
<1>10. \A f \in Workers' : f.id # t
  BY <1>1
<1>11. t \notin detached /\ t \notin settled \cup notified
  BY <1>1 DEF Given, Places, BusyInv, AnswerInv
<1>12. BusyIn({t})'
  BY <1>1, <1>5, <1>10, <1>11 DEF BusyIn
<1>13. StreamIn({t})'
  BY <1>5, <1>7, <1>8, <1>10 DEF StreamIn, Terminal
<1>14. AnswerIn({t})'
  <2>1. AnswerInv /\ t \in Born
    BY <1>1 DEF Given, Places, Born, Live
  <2> QED BY <1>1, <1>3, <1>10, <1>11, <2>1 DEF AnswerIn, AnswerInv
<1>15. BusyInv' /\ StreamInv' /\ AnswerInv'
  BY <1>9, <1>12, <1>13, <1>14, ElsewhereKeeps DEF Given
<1>16. Shifts({Where[t], "buffered"})
  BY <1>1, <1>3, MoveShifts
<1>17. PendingInv' /\ DelayedInv'
  <2>1. "queued" \notin {Where[t], "buffered"} /\ "delayed" \notin {Where[t], "buffered"}
    BY <1>1, <1>2
  <2> QED BY <1>1, <1>16, <2>1, Shifted DEF Given
<1>18. DispatchInv'
  BY <1>1, <1>3, <1>8, DispatchGains DEF Given
<1>19. PoolInv'
  BY <1>1, <1>3, PoolGives DEF Given
<1>20. ASSUME state[t] \notin AtGate, UNCHANGED <<open, waiters, fetchOf, Todos, Dying>>
       PROVE  GateInv'
  <2>1. {Where[t], "buffered"} \cap AtGate = {}
    BY <1>2, <1>20 DEF AtGate
  <2>2. \A f \in Fetches : Where'[f] # "none" <=> Where[f] # "none"
    BY <1>1, <1>2, <1>4 DEF Ids
  <2>3. \A u \in Live : state[u] \in AtGate => state'[u] \in AtGate
    BY <1>5, <1>20 DEF Live
  <2> QED BY <1>1, <1>3, <1>16, <1>20, <2>1, <2>2, <2>3, GateElse DEF Given
<1> QED BY <1>1, <1>2, <1>3, <1>15, <1>17, <1>18, <1>19, <1>20

(* Nothing runs and nothing is called.                                     *)
LEMMA SameStack ==
  ASSUME UNCHANGED stack
  PROVE  /\ UNCHANGED <<Workers, Syncs, Todos, Dying, Saves>>
         /\ CallsInv => CallsInv'
BY DEF On, Workers, Syncs, Todos, Dying, Saves, CallsInv

(* libcurl's last word on a transfer.                                      *)
LEMMA ProcessResponsePlaces ==
  ASSUME Given, NEW t \in Ids, ProcessResponse(t)
  PROVE  Places'
<1>1. PICK evs \in Ending :
        /\ Answered(t) /\ removeConn(t) /\ scheduleDispatch(t, state[t], evs, {})
        /\ UNCHANGED <<retired, detached, outcome, settled, notified, started>>
        /\ UNCHANGED <<pending, delayed, delayedCount, open, waiters, fetchOf>>
        /\ UNCHANGED <<blocking, held, intercepted, stack>>
  BY DEF ProcessResponse, Ending, cbvars, qvars, gvars, cvars
<1>2. /\ Running("tick") /\ t \in Live /\ t \in conns /\ Where[t] = state[t]
      /\ state[t] = "inflight" \/ (state[t] = "delivering" /\ t \in started)
  BY <1>1, AnsweredIs
<1>3. UNCHANGED <<Workers, Syncs, Todos, Dying, Saves>> /\ CallsInv'
  BY <1>1, SameStack DEF Given, Places
<1>4. BlockInv'
  BY <1>1, <1>3, Untouched DEF Given
<1>5. CASE state[t] = "inflight"
  <2>1. \A f \in Workers : f.id # t
    <3>1. \A f \in Workers : f.op \in {"deliver", "finish"}
      BY <1>2, TickOn
    <3> QED BY <1>5, <3>1 DEF Given, Places, BusyInv
  <2>2. /\ state' = [state EXCEPT ![t] = "buffered"] /\ UNCHANGED fault
        /\ events' = [events EXCEPT ![t] = @ \o evs]
        /\ \/ Linked(t) /\ UNCHANGED <<dispatch, gated, dispatchCount>>
           \/ /\ ~Linked(t) /\ dispatch' = Append(dispatch, t)
              /\ dispatchCount' = dispatchCount + 1 /\ UNCHANGED gated
    BY <1>1, <1>5, SchedulesIs
  <2>3. Buffers(t, evs)
    BY <1>1, <1>2, <1>3, <1>5, <2>1, <2>2 DEF Buffers
  <2>4. /\ BusyInv' /\ StreamInv' /\ AnswerInv'
        /\ PendingInv' /\ DelayedInv' /\ DispatchInv' /\ PoolInv'
        /\ Moves(t, "buffered") /\ Live' = Live /\ GateInv'
    BY <1>1, <1>3, <1>5, <2>3, BuffersKeep DEF AtGate
  <2>5. HeldInv'
    <3>1. Shifts({"inflight", "buffered"})
      BY <1>2, <1>5, <2>4, MoveShifts
    <3> QED BY <1>1, <2>4, <3>1, HeldElse DEF Given, Places, Kept4Cdp
  <2> QED BY <1>3, <1>4, <2>2, <2>4, <2>5 DEF Given, Places
<1>6. CASE state[t] = "delivering"
  <2>1. /\ UNCHANGED <<fault, dispatch, gated, dispatchCount>>
        /\ events' = [events EXCEPT ![t] = @ \o evs]
        /\ state' = [state EXCEPT ![t] = "delivering"]
    BY <1>1, <1>6 DEF scheduleDispatch, Broken, dvars
  <2>2. UNCHANGED state
    BY <1>6, <2>1 DEF Given, IInv, Data, Life
  <2>3. Stays /\ Live' = Live /\ Born' = Born
    BY <1>1, <1>3, <2>2, SameWhere
  <2>4. UNCHANGED Where
    BY <2>3 DEF Stays
  <2>5. Moves(t, "delivering")
    BY <1>2, <1>6, <2>3, StaysMoves
  <2>6. events'[t] = events[t] \o evs /\ \A u \in Ids : u # t => events'[u] = events[u]
    BY <2>1 DEF Given, IInv, Data, Buffered
  <2>7. Terminal(events'[t])
    BY <2>6, EndsWith DEF Given, Terminal
  <2>8. t \notin conns' /\ \A u \in Ids : u # t => (u \in conns' <=> u \in conns)
    BY <1>1 DEF removeConn
  <2> HIDE DEF Where
  <2>9. Elsewhere({t})
    BY <1>1, <1>3, <2>2, <2>4, <2>6, <2>8 DEF Elsewhere
  <2>10. StreamInv'
    <3>1. StreamIn({t})'
      <4>1. StreamInv
        BY DEF Given, Places
      <4> QED BY <1>1, <1>2, <1>3, <1>6, <2>2, <2>4, <2>7, <2>8, <4>1 DEF StreamIn, StreamInv, Terminal
    <3> QED BY <2>9, <3>1, ElsewhereKeeps DEF Given
  <2>11. BusyInv' /\ PendingInv' /\ DelayedInv' /\ HeldInv' /\ AnswerInv' /\ GateInv'
    BY <1>1, <1>3, <2>2, <2>4, Untouched DEF Given
  <2>12. DispatchInv'
    <3>1. t \notin InDispatch \cup InGated
      BY <1>2, <1>6, NotLinked DEF Given
    <3> QED BY <1>1, <2>1, <2>5, <2>8, <3>1, DispatchElse DEF Given
  <2>13. PoolInv'
    BY <1>1, <2>5, PoolGives DEF Given
  <2> QED BY <1>3, <1>4, <2>1, <2>10, <2>11, <2>12, <2>13 DEF Given, Places
<1> QED BY <1>2, <1>5, <1>6

(* processOneMessage, whatever libcurl has to say.                         *)
LEMMA ProcessOneMessagePlaces ==
  ASSUME Given, NEW t \in Ids, ProcessOneMessage(t)
  PROVE  Places'
<1>1. ProcessResponse(t)
  BY DEF ProcessOneMessage, ProcessAborted, Given, Careful
<1> QED BY <1>1, ProcessResponsePlaces

(* An authentication challenge goes to the CDP client.                     *)
LEMMA ProcessAuthPlaces ==
  ASSUME Given, NEW t \in Ids, ProcessAuth(t)
  PROVE  Places'
<1>1. /\ Answered(t) /\ t \notin started /\ removeConn(t)
      /\ state' = [state EXCEPT ![t] = "parked_auth"]
      /\ intercepted' = intercepted + 1 /\ held' = held \cup {t}
      /\ UNCHANGED <<retired, detached, outcome, settled, notified, events, stack>>
      /\ UNCHANGED <<pending, delayed, delayedCount, dispatch, gated, dispatchCount, started>>
      /\ UNCHANGED <<open, waiters, fetchOf, blocking, fault>>
  BY DEF ProcessAuth, cbvars, qvars, dvars, gvars
<1>2. /\ Running("tick") /\ t \in Live /\ Where[t] = "inflight" /\ state[t] = "inflight"
      /\ t \in conns
  BY <1>1, AnsweredIs
<1>3. \A u \in Ids : u # t => (u \in conns' <=> u \in conns)
  BY <1>1 DEF removeConn
<1>4. UNCHANGED <<Workers, Syncs, Todos, Dying, Saves>> /\ CallsInv'
  BY <1>1, SameStack DEF Given, Places
<1>5. Saves[t] = {} /\ \A f \in Workers : f.op \in {"deliver", "finish"}
  BY <1>2, TickOn
<1>6. Moves(t, "parked_auth") /\ Live' = Live
  BY <1>1, <1>2, <1>4, <1>5, WhereMoves DEF Given
<1>7. state'[t] = "parked_auth" /\ \A u \in Ids : u # t => state'[u] = state[u]
  BY <1>1 DEF Given, IInv, Data, Life
<1> HIDE DEF Where
<1>8. Elsewhere({t})
  BY <1>1, <1>3, <1>4, <1>6, <1>7, MoveIs DEF Elsewhere
<1>9. \A f \in Workers : f.id # t
  BY <1>2, <1>5 DEF Given, Places, BusyInv
<1>10. BusyInv' /\ StreamInv' /\ AnswerInv'
  <2>1. Where'[t] = "parked_auth"
    BY <1>6, MoveIs
  <2>2. BusyIn({t})'
    <3>1. t \notin detached
      BY <1>2 DEF Given, Places, BusyInv
    <3> QED BY <1>1, <1>4, <1>7, <1>9, <3>1 DEF BusyIn
  <2>3. StreamIn({t})'
    <3>1. t \notin retired /\ ~Terminal(events[t])
      BY <1>2 DEF Live, Given, Places, StreamInv
    <3> QED BY <1>1, <1>4, <1>9, <2>1, <3>1 DEF StreamIn, Terminal
  <2>4. AnswerIn({t})'
    <3>1. t \notin settled \cup notified /\ AnswerInv /\ Born' = Born
      BY <1>2, <1>7 DEF Given, Places, AnswerInv, Born
    <3>2. t \in Born
      BY <1>2 DEF Live, Born
    <3> QED BY <1>1, <1>4, <1>6, <1>9, <3>1, <3>2 DEF AnswerIn, AnswerInv
  <2> QED BY <1>8, <2>2, <2>3, <2>4, ElsewhereKeeps DEF Given
<1>11. Shifts({"inflight", "parked_auth"})
  BY <1>2, <1>6, MoveShifts
<1>12. PendingInv' /\ DelayedInv'
  BY <1>1, <1>11, Shifted DEF Given
<1>13. DispatchInv'
  <2>1. t \notin InDispatch \cup InGated
    BY <1>1, <1>2, NotLinked DEF Given
  <2> QED BY <1>1, <1>3, <1>6, <2>1, DispatchElse DEF Given
<1>14. PoolInv'
  BY <1>1, <1>6, PoolGives DEF Given
<1>15. HeldInv'
  <2>1. intercepted' = (intercepted + 1) - 0
    BY <1>1 DEF Given, IInv, Data, Cdp
  <2> QED BY <1>1, <1>2, <1>6, <2>1, HeldMoves DEF Given, Places, Kept4Cdp
<1>16. BlockInv'
  BY <1>1, <1>4, Untouched DEF Given
<1>17. GateInv'
  <2> DEFINE A == {"inflight", "parked_auth"}
  <2>1. Shifts(A) /\ A \cap AtGate = {} /\ "none" \notin A
    BY <1>11 DEF AtGate
  <2> HIDE DEF A
  <2>2. \A f \in Fetches : Where'[f] # "none" <=> Where[f] # "none"
    BY <2>1 DEF Shifts, Ids
  <2>3. \A u \in Live : state[u] \in AtGate => u \in Live' /\ state'[u] \in AtGate
    BY <1>2, <1>6, <1>7 DEF AtGate, Live
  <2> QED BY <1>1, <1>4, <2>1, <2>2, <2>3, GateElse DEF Given
<1> QED BY <1>1, <1>4, <1>10, <1>12, <1>13, <1>14, <1>15, <1>16, <1>17 DEF Given, Places

(* A chunk of a stream arrives.                                            *)
LEMMA StreamChunkPlaces ==
  ASSUME Given, NEW t \in Ids, StreamChunk(t)
  PROVE  Places'
<1>1. /\ Running("tick") /\ t \in conns /\ t \in StreamReqs
      /\ state[t] \in {"inflight", "delivering"}
      /\ started' = started \cup {t} /\ events' = [events EXCEPT ![t] = Append(@, "data")]
      /\ IF state[t] = "inflight" /\ ~Linked(t)
         THEN dispatch' = Append(dispatch, t) /\ dispatchCount' = dispatchCount + 1
         ELSE UNCHANGED <<dispatch, dispatchCount>>
      /\ UNCHANGED <<state, retired, detached, outcome, settled, notified, stack, conns, free>>
      /\ UNCHANGED <<pending, delayed, delayedCount, gated>>
      /\ UNCHANGED <<open, waiters, fetchOf, blocking, held, intercepted, fault>>
  BY DEF StreamChunk, At, lvars, cbvars, qvars, nvars, gvars, cvars
<1>2. UNCHANGED <<Workers, Syncs, Todos, Dying, Saves>> /\ CallsInv'
  BY <1>1, SameStack DEF Given, Places
<1>3. Stays /\ Live' = Live /\ Born' = Born
  BY <1>1, <1>2, SameWhere
<1>4. UNCHANGED Where
  BY <1>3 DEF Stays
<1>5. t \in Live /\ Where[t] = state[t]
  <2>1. Where[t] # "none"
    BY <1>1 DEF Given, Places, PoolInv
  <2> QED BY <1>1, <2>1, TickOn
<1> HIDE DEF Where
<1>6. t \notin retired /\ ~Terminal(events[t])
  BY <1>1, <1>5 DEF Live, Given, Places, StreamInv
<1>7. events'[t] = Append(events[t], "data") /\ \A u \in Ids : u # t => events'[u] = events[u]
  BY <1>1 DEF Given, IInv, Data, Buffered
<1>8. ~Terminal(events'[t])
  <2>1. events[t] \in Seq({"data", "done", "err"})
    BY DEF Given, IInv, Data, Buffered
  <2>2. Last(Append(events[t], "data")) = "data"
    BY <2>1, AppendProperties DEF Last
  <2> QED BY <1>7, <2>2 DEF Terminal
<1>9. Elsewhere({t})
  BY <1>1, <1>2, <1>4, <1>7 DEF Elsewhere
<1>10. StreamInv'
  <2>1. StreamIn({t})'
    <3>1. StreamInv
      BY DEF Given, Places
    <3> QED BY <1>1, <1>2, <1>4, <1>5, <1>6, <1>8, <3>1 DEF StreamIn, StreamInv, Terminal
  <2> QED BY <1>9, <2>1, ElsewhereKeeps DEF Given
<1>11. BusyInv' /\ PendingInv' /\ DelayedInv' /\ HeldInv' /\ AnswerInv' /\ BlockInv' /\ GateInv'
  BY <1>1, <1>2, <1>4, Untouched DEF Given
<1>12. PoolInv'
  BY <1>1, <1>4 DEF Given, Places, PoolInv
<1>13. DispatchInv'
  <2>1. CASE state[t] = "inflight" /\ ~Linked(t)
    <3>1. t \notin InDispatch \cup InGated /\ DispatchInv
      BY <2>1, LinkedIn DEF Given, Places
    <3> DEFINE D == InDispatch
    <3>2. Once(dispatch, D) /\ t \notin D
      BY <3>1 DEF DispatchInv
    <3> HIDE DEF D
    <3>3. Once(Append(dispatch, t), D \cup {t}) /\ Len(Append(dispatch, t)) = Len(dispatch) + 1
      BY <3>2, OnceAppend
    <3>31. dispatch' = Append(dispatch, t) /\ dispatchCount' = dispatchCount + 1
      BY <1>1, <2>1
    <3> USE DEF D
    <3>4. InDispatch' = D \cup {t} /\ InGated' = InGated
      BY <1>1, <3>3, <3>31, OnceMeans DEF InDispatch, InGated
    <3>5. Len(dispatch) \in Nat /\ Len(gated) \in Nat
      BY <3>1, OnceMeans DEF DispatchInv
    <3> QED BY <1>1, <1>4, <1>5, <2>1, <3>1, <3>3, <3>31, <3>4, <3>5 DEF DispatchInv
  <2>2. CASE ~(state[t] = "inflight" /\ ~Linked(t))
    <3>1. UNCHANGED <<dispatch, gated, dispatchCount, InDispatch, InGated>>
      BY <1>1, <2>2 DEF InDispatch, InGated
    <3> QED BY <1>1, <1>4, <3>1 DEF Given, Places, DispatchInv
  <2> QED BY <2>1, <2>2
<1> QED BY <1>1, <1>2, <1>10, <1>11, <1>12, <1>13 DEF Given, Places

-----------------------------------------------------------------------------
(* The answers of the CDP client                                           *)

(* What may be answered is parked, and nobody has it in hand.              *)
LEMMA AnswersIs ==
  ASSUME Given, NEW t \in Live, Answers(t)
  PROVE  /\ Running("tick") /\ t \in Ids /\ t \in held /\ held' = held \ {t}
         /\ state[t] \in Kept4Cdp /\ Where[t] = state[t] /\ NotParked(t) = {}
         /\ t \notin conns /\ \A f \in Workers : f.id # t
<1>1. Running("tick") /\ t \in Ids /\ t \in held /\ held' = held \ {t}
  BY DEF Answers, At, Live
<1>2. Where[t] \in Kept4Cdp /\ Where[t] = state[t]
  <2>1. Where[t] \in Kept4Cdp
    BY <1>1 DEF Given, Places, HeldInv
  <2> QED BY <1>1, <2>1, TickOn
<1> HIDE DEF Where
<1>3. NotParked(t) = {}
  BY <1>2 DEF NotParked, Broken, Parked, Kept4Cdp
<1>4. t \notin conns
  BY <1>1, <1>2 DEF Given, Places, PoolInv, Kept4Cdp
<1>5. \A f \in Workers : f.id # t
  <2>1. \A f \in Workers : f.op \in {"deliver", "finish"}
    BY <1>1, TickOn
  <2> QED BY <1>2, <2>1 DEF Given, Places, BusyInv, Kept4Cdp
<1> QED BY <1>1, <1>2, <1>3, <1>4, <1>5

(* An answer that is buffered for the dispatcher.                          *)
LEMMA AnswerBufferPlaces ==
  ASSUME Given, NEW t \in Ids, AnswerBuffer(t)
  PROVE  Places'
<1>1. PICK evs \in Ending :
      /\ Answers(t) /\ t \in Live /\ leaveIntercept(state[t])
      /\ scheduleDispatch(t, "created", evs, NotParked(t))
      /\ UNCHANGED <<retired, detached, outcome, settled, notified, stack, started, conns, free>>
      /\ UNCHANGED <<pending, delayed, delayedCount, open, waiters, fetchOf, blocking>>
  BY DEF AnswerBuffer, Ending, cbvars, qvars, nvars, gvars
<1>2. /\ Running("tick") /\ t \in held /\ held' = held \ {t}
      /\ state[t] \in Kept4Cdp /\ Where[t] = state[t] /\ NotParked(t) = {}
      /\ t \notin conns /\ \A f \in Workers : f.id # t
  BY <1>1, AnswersIs
<1>3. UNCHANGED <<Workers, Syncs, Todos, Dying, Saves>> /\ CallsInv'
  BY <1>1, SameStack DEF Given, Places
<1>4. BlockInv'
  BY <1>1, <1>3, Untouched DEF Given
<1>5. /\ state' = [state EXCEPT ![t] = "buffered"] /\ UNCHANGED fault
      /\ events' = [events EXCEPT ![t] = @ \o evs]
      /\ \/ Linked(t) /\ UNCHANGED <<dispatch, gated, dispatchCount>>
         \/ /\ ~Linked(t) /\ dispatch' = Append(dispatch, t)
            /\ dispatchCount' = dispatchCount + 1 /\ UNCHANGED gated
  BY <1>1, <1>2, SchedulesIs
<1>6. removeConn(t)
  BY <1>1, <1>2, NoConn DEF Given
<1>7. Buffers(t, evs)
  <2>1. state[t] \in Parked
    BY <1>2 DEF Kept4Cdp, Parked
  <2> QED BY <1>1, <1>2, <1>3, <1>5, <1>6, <2>1 DEF Buffers
<1>8. /\ BusyInv' /\ StreamInv' /\ AnswerInv'
      /\ PendingInv' /\ DelayedInv' /\ DispatchInv' /\ PoolInv'
      /\ Moves(t, "buffered") /\ Live' = Live /\ GateInv'
  BY <1>1, <1>2, <1>3, <1>7, BuffersKeep DEF AtGate, Kept4Cdp
<1>9. HeldInv'
  <2>1. intercepted' = (intercepted + 0) - 1
    BY <1>1, <1>2 DEF Given, IInv, Data, Cdp, leaveIntercept, Kept4Cdp
  <2> QED BY <1>1, <1>2, <1>8, <2>1, HeldMoves DEF Given, Places, Kept4Cdp
<1> QED BY <1>3, <1>4, <1>5, <1>8, <1>9 DEF Given, Places

(* An answer that sends the transfer back into the pipeline.               *)
LEMMA AnswerResumePlaces ==
  ASSUME Given, NEW t \in Ids, AnswerResume(t)
  PROVE  Places'
<1>1. PICK m \in {"after_intercept", "network"} :
      /\ Answers(t) /\ t \in Live /\ leaveIntercept(state[t])
      /\ state' = [state EXCEPT ![t] = "created"] /\ fault' = fault \cup NotParked(t)
      /\ stack' = <<Pipe(t, m, Resumer)>> \o stack
      /\ UNCHANGED <<retired, detached, outcome, settled, notified, events, started, conns, free>>
      /\ UNCHANGED <<pending, delayed, delayedCount, dispatch, gated, dispatchCount>>
      /\ UNCHANGED <<open, waiters, fetchOf, blocking>>
  BY DEF AnswerResume, Unpark, cbvars, qvars, dvars, nvars, gvars, Given, Careful
<1>2. /\ Running("tick") /\ t \in held /\ held' = held \ {t}
      /\ state[t] \in Kept4Cdp /\ Where[t] = state[t] /\ NotParked(t) = {}
      /\ t \notin conns
  BY <1>1, AnswersIs
<1>3. /\ CallsInv' /\ BusyInv' /\ StreamInv' /\ AnswerInv' /\ BlockInv' /\ GateInv'
      /\ Moves(t, "created") /\ Live' = Live
  BY <1>1, <1>2, TickPipes DEF AtGate, Kept4Cdp
<1>4. Shifts({state[t], "created"})
  BY <1>2, <1>3, MoveShifts
<1>5. PendingInv' /\ DelayedInv' /\ DispatchInv' /\ PoolInv'
  <2> DEFINE A == {state[t], "created"}
  <2>1. /\ "queued" \notin A /\ A \cap {"buffered", "inflight"} = {} /\ "delayed" \notin A
        /\ A \cap {"inflight", "delivering", "aborted"} = {}
    BY <1>2 DEF Kept4Cdp
  <2>2. Shifts(A) /\ Places
    BY <1>4 DEF Given
  <2> HIDE DEF A
  <2> QED BY <1>1, <2>1, <2>2, Shifted
<1>6. HeldInv'
  <2>1. intercepted' = (intercepted + 0) - 1
    BY <1>1, <1>2 DEF Given, IInv, Data, Cdp, leaveIntercept, Kept4Cdp
  <2> QED BY <1>1, <1>2, <1>3, <2>1, HeldMoves DEF Given, Places, Kept4Cdp
<1> QED BY <1>1, <1>2, <1>3, <1>5, <1>6 DEF Given, Places

(* An answer about a transfer that has ended meanwhile.                    *)
LEMMA AnswerNothingPlaces ==
  ASSUME Given, NEW t \in Ids, AnswerNothing(t)
  PROVE  Places'
<1>1. /\ t \notin Live /\ held' = held \ {t}
      /\ UNCHANGED <<state, retired, owner, outcome, settled, notified, detached, stack>>
      /\ UNCHANGED <<events, started, hops, pending, delayed, delayedCount, dispatch, gated>>
      /\ UNCHANGED <<dispatchCount, conns, free, open, waiters, fetchOf, verdict, blocking>>
      /\ UNCHANGED <<intercepted, fault>>
  BY DEF AnswerNothing, Answers, lvars, cbvars, evars, qvars, dvars, nvars, gvars, Given, Careful
<1>2. UNCHANGED <<Workers, Syncs, Todos, Dying, Saves>> /\ CallsInv'
  BY <1>1, SameStack DEF Given, Places
<1>3. Stays /\ Live' = Live
  BY <1>1, <1>2, SameWhere
<1>4. UNCHANGED Where
  BY <1>3 DEF Stays
<1> HIDE DEF Where
<1>5. /\ BusyInv' /\ PendingInv' /\ DelayedInv' /\ DispatchInv' /\ PoolInv' /\ StreamInv'
      /\ AnswerInv' /\ BlockInv' /\ GateInv'
  BY <1>1, <1>2, <1>4, Untouched DEF Given
<1>6. HeldInv'
  BY <1>1, <1>3, <1>4 DEF Given, Places, HeldInv
<1> QED BY <1>1, <1>2, <1>5, <1>6 DEF Given, Places

-----------------------------------------------------------------------------
(* The dispatcher                                                          *)

(* A gated transfer goes to the front of the dispatch queue.               *)
LEMMA Ungates ==
  ASSUME Given, NEW p \in DOMAIN gated, dispatch' = <<gated[p]>> \o dispatch,
         gated' = RemoveAt(gated, p),
         UNCHANGED <<Where, dispatchCount, conns, started>>
  PROVE  DispatchInv'
<1> DEFINE D == InDispatch
           G == InGated
           t == gated[p]
<1>1. Once(dispatch, D) /\ Once(gated, G) /\ D \cap G = {} /\ DispatchInv
  BY DEF Given, Places, DispatchInv
<1> HIDE DEF D, G
<1>2. p \in 1..Len(gated) /\ t \in G /\ Len(dispatch) \in Nat /\ Len(gated) \in Nat
  BY <1>1, OnceMeans DEF Once
<1>3. t \notin D
  BY <1>1, <1>2
<1> HIDE DEF t
<1>4. Once(<<t>> \o dispatch, D \cup {t}) /\ Len(<<t>> \o dispatch) = Len(dispatch) + 1
  BY <1>1, <1>3, OncePush
<1>5. Once(RemoveAt(gated, p), G \ {t}) /\ Len(RemoveAt(gated, p)) = Len(gated) - 1
  BY <1>1, <1>2, OnceRemoveAt DEF t
<1>6. dispatch' = <<t>> \o dispatch /\ gated' = RemoveAt(gated, p)
  BY DEF t
<1>7. InDispatch' = D \cup {t} /\ InGated' = G \ {t}
  BY <1>4, <1>5, <1>6, OnceMeans DEF InDispatch, InGated
<1>8. InDispatch' \cup InGated' = D \cup G /\ InDispatch' \cap InGated' = {}
  BY <1>1, <1>2, <1>7
<1>9. D \cup G = InDispatch \cup InGated
  BY DEF D, G
<1>10. dispatchCount' = Len(dispatch') + Len(gated')
  BY <1>1, <1>2, <1>4, <1>5, <1>6 DEF DispatchInv
<1>11. Once(dispatch', InDispatch') /\ Once(gated', InGated')
  BY <1>4, <1>5, <1>6, <1>7
<1> QED BY <1>1, <1>8, <1>9, <1>10, <1>11 DEF DispatchInv

(* ... and nothing else happens.                                           *)
LEMMA UngatesPlaces ==
  ASSUME Given, NEW p \in DOMAIN gated, dispatch' = <<gated[p]>> \o dispatch,
         gated' = RemoveAt(gated, p),
         UNCHANGED <<lvars, cbvars, evars, qvars, dispatchCount, nvars, gvars,
                     blocking, cvars, mvars, fault, stack>>
  PROVE  Places'
<1>1. /\ UNCHANGED <<state, retired, owner, outcome, settled, notified, detached, stack>>
      /\ UNCHANGED <<events, started, hops, pending, delayed, delayedCount>>
      /\ UNCHANGED <<dispatchCount, conns, free, open, waiters, fetchOf, blocking>>
      /\ UNCHANGED <<held, intercepted, fault>>
  BY DEF lvars, cbvars, evars, qvars, nvars, gvars, cvars
<1>2. UNCHANGED <<Workers, Syncs, Todos, Dying, Saves>> /\ CallsInv'
  BY <1>1, SameStack DEF Given, Places
<1>3. Stays
  BY <1>1, <1>2, SameWhere
<1>4. UNCHANGED Where
  BY <1>3 DEF Stays
<1> HIDE DEF Where
<1>5. /\ BusyInv' /\ PendingInv' /\ DelayedInv' /\ HeldInv' /\ PoolInv' /\ StreamInv'
      /\ AnswerInv' /\ BlockInv' /\ GateInv'
  BY <1>1, <1>2, <1>4, Untouched DEF Given
<1>6. DispatchInv'
  BY <1>1, <1>4, Ungates
<1> QED BY <1>1, <1>2, <1>5, <1>6 DEF Given, Places

(* Nobody blocks any more: what was gated goes back.                       *)
LEMMA TickUngatePlaces == ASSUME Given, TickUngate PROVE Places'
<1>1. CASE UngateLast(Ungateable) /\ UNCHANGED stack
  BY <1>1, UngatesPlaces DEF TickUngate, UngateLast
<1>2. CASE NextStep /\ UNCHANGED <<dispatch, gated>>
  <2>1. CallsInv' /\ UNCHANGED View
    BY <1>2, NextStepView DEF TickUngate, At, Given, Places
  <2>2. UNCHANGED dvars
    BY <1>2 DEF TickUngate, dvars
  <2> QED BY <2>1, <2>2, PlainStep DEF TickUngate, Given, gvars
<1> QED BY <1>1, <1>2 DEF TickUngate

(* A blocking request has ended: so does what its owner had gated.         *)
LEMMA ReleaseOnePlaces == ASSUME Given, ReleaseOne PROVE Places'
<1>1. CASE UngateLast(Released) /\ UNCHANGED stack
  BY <1>1, UngatesPlaces DEF ReleaseOne, UngateLast
<1>2. CASE stack' = Below /\ UNCHANGED <<dispatch, gated>>
  <2>1. CallsInv' /\ UNCHANGED View
    <3>1. stack # <<>> /\ Plain(Top)
      BY DEF ReleaseOne, Running, Plain, Top
    <3> QED BY <1>2, <3>1, PlainPop DEF Given, Places
  <2>2. UNCHANGED dvars
    BY <1>2 DEF ReleaseOne, dvars
  <2> QED BY <2>1, <2>2, PlainStep DEF ReleaseOne, Given, gvars
<1> QED BY <1>1, <1>2 DEF ReleaseOne

(* The dispatcher takes its head to the delivery or to the gate.           *)
LEMMA TickDispatchPlaces == ASSUME Given, TickDispatch PROVE Places'
<1>0. PICK t : t = Head(dispatch)
  OBVIOUS
<1>1. /\ Running("tick") /\ dispatch # <<>> /\ dispatch' = Tail(dispatch)
      /\ UNCHANGED <<retired, owner, outcome, settled, notified, detached>>
      /\ UNCHANGED <<events, started, pending, delayed, delayedCount, conns, free>>
      /\ UNCHANGED <<open, waiters, fetchOf, blocking, held, intercepted, fault>>
  BY DEF TickDispatch, At, cbvars, evars, qvars, nvars, gvars, cvars
<1> DEFINE D == InDispatch
           G == InGated
<1>2. Once(dispatch, D) /\ Once(gated, G) /\ D \cap G = {} /\ DispatchInv
  BY DEF Given, Places, DispatchInv
<1> HIDE DEF D, G
<1>3. t \in D /\ Once(Tail(dispatch), D \ {t}) /\ Len(Tail(dispatch)) = Len(dispatch) - 1
  BY <1>0, <1>1, <1>2, OnceTail
<1>4. t \notin G /\ Len(dispatch) \in Nat /\ Len(gated) \in Nat
  BY <1>2, <1>3, OnceMeans
<1>5. InDispatch' = D \ {t} /\ Once(dispatch', D \ {t}) /\ Len(dispatch') = Len(dispatch) - 1
  BY <1>1, <1>3, OnceMeans DEF InDispatch
<1>6. t \in Ids /\ (Where[t] = "buffered" \/ (Where[t] = "inflight" /\ t \in conns \cap started))
  <2>1. t \in InDispatch
    BY <1>3 DEF D
  <2>2. t \in Ids
    BY <1>0, <1>1, PopSeq DEF Given, IInv, Data, Dispatcher, Born
  <2> QED BY <2>1, <2>2 DEF Given, Places, DispatchInv
<1>7. t \in Live /\ state[t] = Where[t]
  BY <1>1, <1>6, TickOn
<1>8. CASE SyncWait /\ isGated(t)
  <2>1. gated' = Append(gated, t) /\ UNCHANGED <<state, dispatchCount, stack>>
    BY <1>0, <1>8 DEF TickDispatch
  <2>2. UNCHANGED <<Workers, Syncs, Todos, Dying, Saves>> /\ CallsInv'
    BY <2>1, SameStack DEF Given, Places
  <2>3. Stays
    BY <1>1, <2>1, <2>2, SameWhere
  <2>4. UNCHANGED Where
    BY <2>3 DEF Stays
  <2> HIDE DEF Where
  <2>5. /\ BusyInv' /\ PendingInv' /\ DelayedInv' /\ HeldInv' /\ PoolInv' /\ StreamInv'
        /\ AnswerInv' /\ BlockInv' /\ GateInv'
    BY <1>1, <2>1, <2>2, <2>4, Untouched DEF Given
  <2>6. DispatchInv'
    <3>1. Once(Append(gated, t), G \cup {t}) /\ Len(Append(gated, t)) = Len(gated) + 1
      BY <1>2, <1>4, OnceAppend
    <3>2. InGated' = G \cup {t} /\ Once(gated', G \cup {t})
      BY <2>1, <3>1, OnceMeans DEF InGated
    <3>3. InDispatch' \cup InGated' = D \cup G /\ InDispatch' \cap InGated' = {}
      BY <1>2, <1>3, <1>4, <1>5, <3>2
    <3>4. D \cup G = InDispatch \cup InGated
      BY DEF D, G
    <3>5. dispatchCount' = Len(dispatch') + Len(gated')
      BY <1>2, <1>4, <1>5, <2>1, <3>1 DEF DispatchInv
    <3> QED BY <1>1, <1>2, <1>5, <2>4, <3>2, <3>3, <3>4, <3>5 DEF DispatchInv
  <2> QED BY <1>1, <2>2, <2>5, <2>6 DEF Given, Places
<1>9. CASE ~(SyncWait /\ isGated(t))
  <2> DEFINE how == IF state[t] = "inflight" THEN "batch" ELSE "last"
             g == Deliver(t, how)
  <2>1. /\ dispatchCount' = dispatchCount - 1 /\ UNCHANGED gated
        /\ state' = [state EXCEPT ![t] = "delivering"]
        /\ stack' = <<g>> \o stack
    BY <1>0, <1>9 DEF TickDispatch
  <2>2. /\ g.op = "deliver" /\ g.id = t /\ g.how = how
    BY Fields
  <2>3. /\ stack # <<>> /\ Top.op = "tick" /\ On = {Top} \cup Rest
        /\ \A h \in On : h.op \in {"js", "sync", "import", "tick", "deliver", "finish", "stop"}
        /\ Saves[t] = {} /\ Todos = {} /\ ~Dying
        /\ \A f \in Workers : f.op \in {"deliver", "finish"}
    BY <1>1, <1>6, TickOn
  <2>4. \A f \in Workers : f.id # t
    BY <1>6, <1>7, <2>3 DEF Given, Places, BusyInv
  <2>5. t \in Fetches => how = "last"
    <3>1. t \in conns \cap started => t \in Reqs
      BY Constants DEF Given, Places, PoolInv
    <3>2. state[t] = "inflight" => t \in conns \cap started
      BY <1>6, <1>7
    <3> QED BY <3>1, <3>2, Constants
  <2> HIDE DEF g, how
  <2>6. \A h \in On : /\ h.op = "sync" => Silent(t)
                      /\ h.op \in {"sync", "import"} => t \notin DocReqs
    <3> SUFFICES ASSUME NEW h \in On, h.op \in {"sync", "import"}, t \in Reqs
                 PROVE  (h.op = "sync" => t \in SyncReqs) /\ t \notin DocReqs
      BY <1>6, Constants DEF Silent, Ids
    <3>1. h \in Rest
      BY <2>3
    <3>2. SyncWait
      <4>1. Pushes(Top, Below)
        BY <1>1, OnTopView DEF Given, Places
      <4> QED BY <2>3, <3>1, <4>1 DEF Pushes, Over, Rest, SyncWait
    <3>3. t \notin DocReqs /\ (NoBlocking \/ t = blocking[OwnerOf[t]])
      BY <1>9, <3>2 DEF isGated
    <3>4. ASSUME h.op = "sync" PROVE t \in SyncReqs
      <4>1. h.id \in SyncReqs
        BY <3>4 DEF Given, Places, CallsInv, Sound, Kind, On, FramesIn
      <4>2. h.id \in Syncs /\ OwnerOf[h.id] \in Owners /\ h.id # None /\ OwnerOf[t] \in Owners
        BY <3>4, <4>1, Constants DEF Syncs, Ids
      <4>3. ~NoBlocking
        BY <4>2 DEF Given, Places, BlockInv, NoBlocking
      <4>4. t # None
        BY <1>6, Constants
      <4>5. t \in Syncs
        BY <3>3, <4>2, <4>3, <4>4 DEF Given, Places, BlockInv
      <4> QED BY <4>5 DEF Syncs, Given, Places, CallsInv, Sound, Kind, On, FramesIn
    <3> QED BY <3>3, <3>4
  <2>7. Pushes(g, stack)
    <3>1. Kind(g)
      BY <2>2, <2>5 DEF Kind, how
    <3>2. ASSUME NEW h \in On PROVE Over(g, h)
      <4>1. h.op \in Working => h.id # t
        BY <2>4 DEF Workers
      <4> QED BY <2>2, <2>3, <2>6, <4>1 DEF Over, Working
    <3> QED BY <2>2, <3>1, <3>2 DEF Pushes, Reports, On
  <2>8. CallsInv' /\ On' = {g} \cup On
    BY <2>1, <2>7, AfterPush DEF Given, Places
  <2>9. UNCHANGED <<Syncs, Todos, Dying, Saves>>
    BY <2>2, <2>8, HandsView
  <2>10. Workers' = Workers \cup {g}
    BY <2>2, <2>8 DEF Workers, Working
  <2>11. Moves(t, "delivering") /\ Live' = Live /\ Born' = Born
    BY <1>1, <1>7, <2>1, <2>3, <2>9, WhereMoves DEF Given
  <2>12. state'[t] = "delivering" /\ \A u \in Ids : u # t => state'[u] = state[u]
    BY <1>6, <2>1 DEF Given, IInv, Data, Life
  <2>13. Where'[t] = "delivering" /\ \A u \in Ids : u # t => Where'[u] = Where[u]
    BY <1>6, <2>11, MoveIs
  <2> HIDE DEF Where
  <2>14. Elsewhere({t})
    BY <1>1, <2>2, <2>10, <2>12, <2>13 DEF Elsewhere
  <2>15. t \notin settled \cup notified \cup detached
    BY <1>6, <1>7 DEF Given, Places, AnswerInv, BusyInv
  <2>16. BusyIn({t})'
    BY <1>1, <1>7, <2>2, <2>4, <2>10, <2>11, <2>12, <2>15 DEF BusyIn
  <2>17. StreamIn({t})'
    <3>1. state[t] = "inflight" => t \in conns
      BY <1>6, <1>7
    <3>2. state[t] # "inflight" => Terminal(events[t])
      BY <1>6, <1>7 DEF Given, Places, StreamInv
    <3>3. Terminal(events[t]) => t \notin conns
      BY <1>6, <1>7 DEF Given, Places, StreamInv, Live
    <3> QED BY <1>1, <1>6, <2>2, <2>4, <2>10, <2>12, <2>13, <2>15, <3>1, <3>2, <3>3
            DEF StreamIn, Terminal, how
  <2>18. AnswerIn({t})'
    <3>1. AnswerInv /\ t \in Ids \ retired
      BY <1>6, <1>7 DEF Given, Places, Live
    <3>2. outcome[t] = <<>> /\ t \notin settled \cup notified \cup retired
      BY <2>15, <3>1 DEF AnswerInv
    <3>3. outcome'[t] = <<>> /\ t \notin settled' \cup notified' \cup retired'
      BY <1>1, <3>2
    <3>4. \A f \in Workers' : f.id = t => f = g
      BY <2>4, <2>10
    <3>5. g.op = "deliver" /\ g.how # "done"
      BY <2>2 DEF how
    <3> QED BY <3>3, <3>4, <3>5 DEF AnswerIn
  <2>19. BusyInv' /\ StreamInv' /\ AnswerInv'
    BY <2>14, <2>16, <2>17, <2>18, ElsewhereKeeps DEF Given
  <2>20. Shifts({Where[t], "delivering"})
    BY <1>6, <2>11, MoveShifts
  <2>21. PendingInv' /\ DelayedInv'
    BY <1>1, <1>6, <2>20, Shifted DEF Given
  <2>22. DispatchInv'
    <3>1. InGated' = G /\ Once(gated', G)
      BY <1>2, <2>1 DEF InGated, G
    <3>2. InDispatch' \cup InGated' = (D \cup G) \ {t} /\ InDispatch' \cap InGated' = {}
      BY <1>2, <1>4, <1>5, <3>1
    <3>3. D \cup G = InDispatch \cup InGated
      BY DEF D, G
    <3>4. dispatchCount' = Len(dispatch') + Len(gated')
      BY <1>2, <1>4, <1>5, <2>1 DEF DispatchInv
    <3> QED BY <1>1, <1>2, <1>5, <2>13, <3>1, <3>2, <3>3, <3>4 DEF DispatchInv
  <2>23. PoolInv'
    <3>1. t \in conns => t \in started
      BY <1>6 DEF Given, Places, PoolInv
    <3> QED BY <1>1, <2>13, <3>1 DEF Given, Places, PoolInv
  <2>24. HeldInv'
    <3>1. {Where[t], "delivering"} \cap Kept4Cdp = {}
      BY <1>6 DEF Kept4Cdp
    <3> QED BY <1>1, <2>11, <2>20, <3>1, HeldElse DEF Given, Places
  <2>25. BlockInv'
    BY <1>1, <2>9, Untouched DEF Given
  <2>26. GateInv'
    <3> DEFINE A == {Where[t], "delivering"}
    <3>1. Shifts(A) /\ A \cap AtGate = {} /\ "none" \notin A
      BY <1>6, <2>20 DEF AtGate
    <3> HIDE DEF A
    <3>2. \A f \in Fetches : Where'[f] # "none" <=> Where[f] # "none"
      BY <3>1 DEF Shifts, Ids
    <3>3. \A u \in Live : state[u] \in AtGate => u \in Live' /\ state'[u] \in AtGate
      BY <1>6, <1>7, <2>11, <2>12 DEF AtGate, Live
    <3> QED BY <1>1, <2>2, <2>9, <2>10, <3>1, <3>2, <3>3, GateElse DEF Given
  <2> QED BY <1>1, <2>8, <2>19, <2>21, <2>22, <2>23, <2>24, <2>25, <2>26 DEF Given, Places
<1> QED BY <1>8, <1>9
=============================================================================
