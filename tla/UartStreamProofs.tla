-------------------------- MODULE UartStreamProofs --------------------------
(***************************************************************************)
(* Proofs about UartStream, whatever the sizes of the buffers and the      *)
(* sequence of calls: it implements ByteStream, so that a text the script  *)
(* is handed was on the line; and what is written leaves in order.         *)
(***************************************************************************)
EXTENDS UartStream, SequenceTheorems, TLAPS

Chars == Bytes \cup {Nul}

(* From i to j, s has no zero byte; and it is what the line r carried from  *)
(* its k-th byte on.                                                        *)
Clean(s, i, j) == \A x \in i..j : s[x] # Nul
At(s, i, j, r, k) == \A x \in 0..(j - i) : s[i + x] = r[k + x]

(* Every stretch of s without a zero byte came over r after its first m and *)
(* within its first n bytes; in a joined text the last stretch ends there.  *)
Shown(s, r, m, n) ==
  \A i \in 1..Len(s) : \A j \in i..Len(s) : Clean(s, i, j) =>
     \E k \in (m + 1)..n : k + (j - i) <= n /\ At(s, i, j, r, k)
Joined(s, r, m, n) ==
  \A i \in 1..Len(s) : \A j \in i..Len(s) : Clean(s, i, j) =>
     \E k \in (m + 1)..n : /\ k + (j - i) <= n /\ At(s, i, j, r, k)
                           /\ j = Len(s) => k + (j - i) = n

-----------------------------------------------------------------------------
(* Texts.                                                                  *)

LEMMA JoinedIsShown ==
  ASSUME NEW s, NEW r, NEW m, NEW n, Joined(s, r, m, n)
  PROVE  Shown(s, r, m, n)
BY DEF Joined, Shown

LEMMA EmptyText ==
  ASSUME NEW r, NEW m, NEW n
  PROVE  Joined(<<>>, r, m, n) /\ Shown(<<>>, r, m, n)
BY DEF Joined, Shown

(* What was shown stays shown when the line carries more or more is read.   *)
LEMMA ShownLater ==
  ASSUME NEW r \in Seq(Bytes), NEW q \in Seq(Bytes), NEW m \in Nat, NEW n \in Nat, NEW p \in Nat,
         n <= p, n <= Len(r), NEW s \in Seq(Chars), Shown(s, r, m, n),
         \A x \in 1..Len(r) : q[x] = r[x]
  PROVE  Shown(s, q, m, p)
<1> SUFFICES ASSUME NEW i \in 1..Len(s), NEW j \in i..Len(s), Clean(s, i, j)
             PROVE  \E k \in (m + 1)..p : k + (j - i) <= p /\ At(s, i, j, q, k)
  BY DEF Shown
<1>1. PICK k \in (m + 1)..n : k + (j - i) <= n /\ At(s, i, j, r, k)
  BY DEF Shown
<1>2. At(s, i, j, q, k)
  BY <1>1 DEF At
<1>3. QED
  BY <1>1, <1>2

LEMMA JoinedLater ==
  ASSUME NEW r \in Seq(Bytes), NEW q \in Seq(Bytes), NEW m \in Nat, NEW n \in Nat,
         n <= Len(r), NEW s \in Seq(Chars), Joined(s, r, m, n),
         \A x \in 1..Len(r) : q[x] = r[x]
  PROVE  Joined(s, q, m, n)
<1> SUFFICES ASSUME NEW i \in 1..Len(s), NEW j \in i..Len(s), Clean(s, i, j)
             PROVE  \E k \in (m + 1)..n : /\ k + (j - i) <= n /\ At(s, i, j, q, k)
                                          /\ j = Len(s) => k + (j - i) = n
  BY DEF Joined
<1>1. PICK k \in (m + 1)..n : /\ k + (j - i) <= n /\ At(s, i, j, r, k)
                              /\ j = Len(s) => k + (j - i) = n
  BY DEF Joined
<1>2. At(s, i, j, q, k)
  BY <1>1 DEF At
<1>3. QED
  BY <1>1, <1>2

(* A text keeps what was shown of it when its beginning is cut off.         *)
LEMMA CutText ==
  ASSUME NEW r \in Seq(Bytes), NEW m \in Nat, NEW n \in Nat,
         NEW s \in Seq(Chars), NEW p \in 1..(Len(s) + 1)
  PROVE  /\ SubSeq(s, p, Len(s)) \in Seq(Chars)
         /\ Joined(s, r, m, n) => Joined(SubSeq(s, p, Len(s)), r, m, n)
         /\ Shown(s, r, m, n) => Shown(SubSeq(s, p, Len(s)), r, m, n)
<1> DEFINE t == SubSeq(s, p, Len(s))
<1>1. /\ t \in Seq(Chars) /\ Len(t) = Len(s) - p + 1
      /\ \A i \in 1..Len(t) : t[i] = s[p + i - 1]
  <2>1. \A i \in p..Len(s) : s[i] \in Chars
    OBVIOUS
  <2>2. QED
    BY <2>1, SubSeqProperties, Z3
<1> HIDE DEF t
<1>2. ASSUME NEW i \in 1..Len(t), NEW j \in i..Len(t), Clean(t, i, j)
      PROVE  /\ p + i - 1 \in 1..Len(s) /\ p + j - 1 \in (p + i - 1)..Len(s)
             /\ Clean(s, p + i - 1, p + j - 1)
             /\ \A k : At(s, p + i - 1, p + j - 1, r, k) => At(t, i, j, r, k)
  <2>1. p + i - 1 \in 1..Len(s) /\ p + j - 1 \in (p + i - 1)..Len(s)
    BY <1>1
  <2>2. ASSUME NEW x \in (p + i - 1)..(p + j - 1) PROVE s[x] # Nul
    <3>1. x - p + 1 \in i..j /\ x - p + 1 \in 1..Len(t)
      BY <2>1
    <3>2. t[x - p + 1] = s[x]
      <4>1. p + (x - p + 1) - 1 = x
        OBVIOUS
      <4>2. t[x - p + 1] = s[p + (x - p + 1) - 1]
        BY <1>1, <3>1
      <4>3. QED
        BY <4>1, <4>2
    <3>3. QED
      BY <3>1, <3>2, <1>2 DEF Clean
  <2>3. ASSUME NEW k, At(s, p + i - 1, p + j - 1, r, k), NEW x \in 0..(j - i)
        PROVE  t[i + x] = r[k + x]
    <3>1. t[i + x] = s[p + (i + x) - 1]
      BY <1>1
    <3>2. p + (i + x) - 1 = (p + i - 1) + x /\ x \in 0..((p + j - 1) - (p + i - 1))
      OBVIOUS
    <3>3. s[(p + i - 1) + x] = r[k + x]
      BY <3>2, <2>3 DEF At
    <3>4. QED
      BY <3>1, <3>2, <3>3
  <2>4. QED
    BY <2>1, <2>2, <2>3 DEF Clean, At
<1>3. ASSUME Joined(s, r, m, n) PROVE Joined(t, r, m, n)
  <2> SUFFICES ASSUME NEW i \in 1..Len(t), NEW j \in i..Len(t), Clean(t, i, j)
               PROVE  \E k \in (m + 1)..n : /\ k + (j - i) <= n /\ At(t, i, j, r, k)
                                            /\ j = Len(t) => k + (j - i) = n
    BY DEF Joined
  <2> DEFINE a == p + i - 1  b == p + j - 1
  <2>1. a \in 1..Len(s) /\ b \in a..Len(s) /\ Clean(s, a, b) /\ b - a = j - i
        /\ (j = Len(t) => b = Len(s))
    BY <1>1, <1>2
  <2>2. PICK k \in (m + 1)..n : /\ k + (b - a) <= n /\ At(s, a, b, r, k)
                                /\ b = Len(s) => k + (b - a) = n
    <3> HIDE DEF a, b
    <3>1. QED BY <2>1, <1>3 DEF Joined
  <2>3. At(t, i, j, r, k)
    BY <1>2, <2>2
  <2>4. QED
    BY <2>1, <2>2, <2>3
<1>4. ASSUME Shown(s, r, m, n) PROVE Shown(t, r, m, n)
  <2> SUFFICES ASSUME NEW i \in 1..Len(t), NEW j \in i..Len(t), Clean(t, i, j)
               PROVE  \E k \in (m + 1)..n : k + (j - i) <= n /\ At(t, i, j, r, k)
    BY DEF Shown
  <2> DEFINE a == p + i - 1  b == p + j - 1
  <2>1. a \in 1..Len(s) /\ b \in a..Len(s) /\ Clean(s, a, b) /\ b - a = j - i
    BY <1>2
  <2>2. PICK k \in (m + 1)..n : k + (b - a) <= n /\ At(s, a, b, r, k)
    <3> HIDE DEF a, b
    <3>1. QED BY <2>1, <1>4 DEF Shown
  <2>3. At(t, i, j, r, k)
    BY <1>2, <2>2
  <2>4. QED
    BY <2>1, <2>2, <2>3
<1>5. QED
  BY <1>1, <1>3, <1>4 DEF t

LEMMA ConcatIs ==
  ASSUME NEW S, NEW s \in Seq(S), NEW q \in Seq(S)
  PROVE  /\ s \o q \in Seq(S) /\ Len(s \o q) = Len(s) + Len(q)
         /\ Len(s) \in Nat /\ Len(q) \in Nat
         /\ \A x \in 1..Len(s) : (s \o q)[x] = s[x]
         /\ \A x \in 1..(Len(s) + Len(q)) : x > Len(s) => (s \o q)[x] = q[x - Len(s)]
<1>1. /\ s \o q \in Seq(S) /\ Len(s \o q) = Len(s) + Len(q)
      /\ \A x \in 1..(Len(s) + Len(q)) :
           (s \o q)[x] = IF x <= Len(s) THEN s[x] ELSE q[x - Len(s)]
  BY ConcatProperties
<1>2. Len(s) \in Nat /\ Len(q) \in Nat
  BY LenProperties
<1>3. ASSUME NEW x \in 1..Len(s) PROVE (s \o q)[x] = s[x]
  <2>1. x \in 1..(Len(s) + Len(q)) /\ x <= Len(s)
    BY <1>2
  <2>2. QED
    BY <2>1, <1>1
<1>4. ASSUME NEW x \in 1..(Len(s) + Len(q)), x > Len(s) PROVE (s \o q)[x] = q[x - Len(s)]
  <2>1. ~(x <= Len(s))
    BY <1>2, <1>4
  <2>2. QED
    BY <2>1, <1>1
<1>5. QED
  BY <1>1, <1>2, <1>3, <1>4

(* expect_any: what was read, its end zeroed, goes on where the text ended. *)
LEMMA JoinRead ==
  ASSUME NEW r \in Seq(Bytes), NEW m \in Nat, NEW n \in Nat, NEW c \in Nat,
         m <= n, n + c <= Len(r), c > 0,
         NEW s \in Seq(Chars), Joined(s, r, m, n),
         NEW q \in Seq(Chars), Len(q) = c,
         \A x \in 1..c : q[x] = Nul \/ q[x] = r[n + x]
  PROVE  Joined(s \o q, r, m, n + c)
<1> DEFINE t == s \o q
           l == Len(s)
<1>1. /\ Len(t) = l + c /\ l \in Nat
      /\ \A x \in 1..l : t[x] = s[x]
      /\ \A x \in 1..(l + c) : x > l => t[x] = q[x - l]
  BY ConcatIs, LenProperties
<1>2. \A i \in 1..l : \A j \in i..l : Clean(s, i, j) =>
        \E k \in (m + 1)..n : /\ k + (j - i) <= n /\ At(s, i, j, r, k)
                              /\ j = l => k + (j - i) = n
  BY DEF Joined
<1> SUFFICES ASSUME NEW i \in 1..Len(t), NEW j \in i..Len(t), Clean(t, i, j)
             PROVE  \E k \in (m + 1)..(n + c) :
                      /\ k + (j - i) <= n + c /\ At(t, i, j, r, k)
                      /\ j = Len(t) => k + (j - i) = n + c
  BY DEF Joined
<1> HIDE DEF t, l
<1>3. i \in Nat /\ j \in Nat /\ 1 <= i /\ i <= j /\ j <= l + c /\ \A x \in i..j : t[x] # Nul
  BY <1>1 DEF Clean
<1>4. CASE j <= l
  <2>1. \A x \in i..j : x \in 1..l /\ t[x] = s[x]
    BY <1>1, <1>3, <1>4
  <2>2. Clean(s, i, j) /\ i \in 1..l /\ j \in i..l
    BY <1>1, <1>3, <1>4, <2>1 DEF Clean
  <2>3. PICK k \in (m + 1)..n : k + (j - i) <= n /\ At(s, i, j, r, k)
    BY <1>2, <2>2
  <2>4. ASSUME NEW x \in 0..(j - i) PROVE t[i + x] = r[k + x]
    <3>1. i + x \in i..j
      BY <1>3
    <3>2. QED
      BY <3>1, <2>1, <2>3 DEF At
  <2>5. k \in (m + 1)..(n + c) /\ k + (j - i) <= n + c /\ j # Len(t)
    BY <1>1, <1>3, <1>4, <2>3
  <2>6. QED
    BY <2>4, <2>5 DEF At
<1>5. ASSUME NEW x \in i..j, x > l PROVE t[x] = r[n + (x - l)]
  <2>1. x - l \in 1..c /\ x \in 1..(l + c)
    BY <1>1, <1>3, <1>5
  <2>2. t[x] = q[x - l] /\ t[x] # Nul
    BY <1>1, <1>3, <1>5, <2>1
  <2>3. QED
    BY <2>1, <2>2
<1>6. CASE i > l
  <2>1. ASSUME NEW x \in 0..(j - i) PROVE t[i + x] = r[(n + (i - l)) + x]
    <3>1. i + x \in i..j /\ i + x > l
      BY <1>1, <1>3, <1>6
    <3>2. t[i + x] = r[n + ((i + x) - l)]
      BY <3>1, <1>5
    <3>3. n + ((i + x) - l) = (n + (i - l)) + x
      BY <1>1, <1>3
    <3>4. QED
      BY <3>2, <3>3
  <2>2. /\ n + (i - l) \in (m + 1)..(n + c) /\ (n + (i - l)) + (j - i) <= n + c
        /\ j = l + c => (n + (i - l)) + (j - i) = n + c
    BY <1>1, <1>3, <1>6
  <2>3. QED
    BY <1>1, <2>1, <2>2 DEF At
<1>7. CASE i <= l /\ j > l
  <2>1. ASSUME NEW x \in i..l PROVE t[x] = s[x] /\ s[x] # Nul
    <3>1. x \in i..j /\ x \in 1..l
      BY <1>1, <1>3, <1>7
    <3>2. QED
      BY <3>1, <1>1, <1>3
  <2>2. Clean(s, i, l) /\ i \in 1..l /\ l \in i..l
    BY <1>1, <1>3, <1>7, <2>1 DEF Clean
  <2>3. PICK k \in (m + 1)..n : k + (l - i) = n /\ At(s, i, l, r, k)
    BY <1>2, <2>2
  <2>4. ASSUME NEW x \in 0..(j - i) PROVE t[i + x] = r[k + x]
    <3>1. CASE i + x <= l
      <4>1. i + x \in i..l /\ x \in 0..(l - i)
        BY <3>1, <1>1, <1>3
      <4>2. QED
        BY <4>1, <2>1, <2>3 DEF At
    <3>2. CASE i + x > l
      <4>1. i + x \in i..j
        BY <1>3
      <4>2. t[i + x] = r[n + ((i + x) - l)]
        BY <4>1, <3>2, <1>5
      <4>3. n + ((i + x) - l) = k + x
        BY <2>3, <1>1, <1>3
      <4>4. QED
        BY <4>2, <4>3
    <3>3. QED
      BY <3>1, <3>2, <1>1, <1>3
  <2>5. /\ k \in (m + 1)..(n + c) /\ k + (j - i) <= n + c
        /\ j = l + c => k + (j - i) = n + c
    BY <1>1, <1>3, <1>7, <2>3
  <2>6. QED
    BY <1>1, <2>4, <2>5 DEF At
<1>8. QED
  BY <1>1, <1>3, <1>4, <1>6, <1>7

(* expect_str: what is appended begins with a zero byte.                    *)
LEMMA JoinAtZero ==
  ASSUME NEW r \in Seq(Bytes), NEW m \in Nat, NEW n \in Nat,
         NEW s \in Seq(Chars), Shown(s, r, m, n),
         NEW q \in Seq(Chars), Shown(q, r, m, n), q = <<>> \/ q[1] = Nul
  PROVE  Shown(s \o q, r, m, n)
<1> DEFINE t == s \o q
           l == Len(s)
           c == Len(q)
<1>1. /\ Len(t) = l + c /\ l \in Nat /\ c \in Nat /\ (q = <<>> => c = 0)
      /\ \A x \in 1..l : t[x] = s[x]
      /\ \A x \in 1..(l + c) : x > l => t[x] = q[x - l]
  BY ConcatIs, LenProperties
<1>2. /\ \A i \in 1..l : \A j \in i..l : Clean(s, i, j) =>
           \E k \in (m + 1)..n : k + (j - i) <= n /\ At(s, i, j, r, k)
      /\ \A i \in 1..c : \A j \in i..c : Clean(q, i, j) =>
           \E k \in (m + 1)..n : k + (j - i) <= n /\ At(q, i, j, r, k)
  BY DEF Shown
<1> SUFFICES ASSUME NEW i \in 1..Len(t), NEW j \in i..Len(t), Clean(t, i, j)
             PROVE  \E k \in (m + 1)..n : k + (j - i) <= n /\ At(t, i, j, r, k)
  BY DEF Shown
<1> HIDE DEF t, l, c
<1>3. i \in Nat /\ j \in Nat /\ 1 <= i /\ i <= j /\ j <= l + c /\ \A x \in i..j : t[x] # Nul
  BY <1>1 DEF Clean
<1>4. CASE j <= l
  <2>1. \A x \in i..j : x \in 1..l /\ t[x] = s[x]
    BY <1>1, <1>3, <1>4
  <2>2. Clean(s, i, j) /\ i \in 1..l /\ j \in i..l
    BY <1>1, <1>3, <1>4, <2>1 DEF Clean
  <2>3. PICK k \in (m + 1)..n : k + (j - i) <= n /\ At(s, i, j, r, k)
    BY <1>2, <2>2
  <2>4. ASSUME NEW x \in 0..(j - i) PROVE t[i + x] = r[k + x]
    <3>1. i + x \in i..j
      BY <1>3
    <3>2. QED
      BY <3>1, <2>1, <2>3 DEF At
  <2>5. QED
    BY <2>3, <2>4 DEF At
<1>5. CASE i > l
  <2> DEFINE a == i - l  b == j - l
  <2>1. a \in 1..c /\ b \in a..c /\ b - a = j - i /\ a \in Nat /\ b \in Nat
    BY <1>1, <1>3, <1>5
  <2>2. ASSUME NEW x \in a..b PROVE x + l \in i..j /\ t[x + l] = q[x]
    <3>1. x + l \in i..j /\ x + l \in 1..(l + c) /\ x + l > l /\ (x + l) - l = x
      BY <1>1, <1>3, <1>5
    <3>2. QED
      BY <3>1, <1>1
  <2>3. i = a + l /\ \A x \in 0..(j - i) : a + x \in a..b /\ (a + x) + l = i + x
    BY <1>1, <1>3
  <2> HIDE DEF a, b
  <2>4. Clean(q, a, b)
    BY <2>2, <1>3 DEF Clean
  <2>5. PICK k \in (m + 1)..n : k + (b - a) <= n /\ At(q, a, b, r, k)
    BY <1>2, <2>1, <2>4
  <2>6. ASSUME NEW x \in 0..(j - i) PROVE t[i + x] = r[k + x]
    <3>1. t[i + x] = q[a + x]
      BY <2>2, <2>3
    <3>2. q[a + x] = r[k + x]
      BY <2>1, <2>5 DEF At
    <3>3. QED
      BY <3>1, <3>2
  <2>7. QED
    BY <2>1, <2>5, <2>6 DEF At
<1>6. CASE i <= l /\ j > l
  <2>1. l + 1 \in i..j /\ l + 1 \in 1..(l + c) /\ l + 1 > l /\ (l + 1) - l = 1 /\ c > 0
    BY <1>1, <1>3, <1>6
  <2>2. t[l + 1] = q[1] /\ t[l + 1] # Nul
    BY <2>1, <1>1, <1>3
  <2>3. QED
    BY <2>1, <2>2, <1>1
<1>7. QED
  BY <1>1, <1>3, <1>4, <1>5, <1>6

(* A run of the line itself, and one with a zero byte after it.             *)
LEMMA LineText ==
  ASSUME NEW r \in Seq(Bytes), NEW m \in Nat, NEW n \in Nat, NEW c \in Nat,
         m <= n, n + c <= Len(r)
  PROVE  /\ SubSeq(r, n + 1, n + c) \in Seq(Bytes)
         /\ Len(SubSeq(r, n + 1, n + c)) = c
         /\ \A x \in 1..c : SubSeq(r, n + 1, n + c)[x] = r[n + x]
         /\ Shown(SubSeq(r, n + 1, n + c), r, m, n + c)
<1> DEFINE t == SubSeq(r, n + 1, n + c)
<1>1. \A x \in (n + 1)..(n + c) : r[x] \in Bytes
  OBVIOUS
<1>2. /\ t \in Seq(Bytes) /\ Len(t) = IF n + 1 <= n + c THEN (n + c) - (n + 1) + 1 ELSE 0
      /\ \A x \in 1..((n + c) - (n + 1) + 1) : t[x] = r[(n + 1) + x - 1]
  BY <1>1, SubSeqProperties
<1>3. Len(t) = c /\ t \in Seq(Bytes)
  BY <1>2
<1>4. ASSUME NEW x \in 1..c PROVE t[x] = r[n + x]
  <2>1. x \in 1..((n + c) - (n + 1) + 1) /\ (n + 1) + x - 1 = n + x
    OBVIOUS
  <2>2. QED
    BY <2>1, <1>2
<1> HIDE DEF t
<1>5. Shown(t, r, m, n + c)
  <2> SUFFICES ASSUME NEW i \in 1..c, NEW j \in i..c
               PROVE  \E k \in (m + 1)..(n + c) : k + (j - i) <= n + c /\ At(t, i, j, r, k)
    BY <1>3 DEF Shown
  <2>1. n + i \in (m + 1)..(n + c) /\ (n + i) + (j - i) <= n + c
    OBVIOUS
  <2>2. ASSUME NEW x \in 0..(j - i) PROVE t[i + x] = r[(n + i) + x]
    <3>1. i + x \in 1..c /\ n + (i + x) = (n + i) + x
      OBVIOUS
    <3>2. QED
      BY <3>1, <1>4
  <2>3. QED
    BY <2>1, <2>2 DEF At
<1>6. QED
  BY <1>3, <1>4, <1>5 DEF t

LEMMA ZeroText ==
  ASSUME NEW r, NEW m, NEW n
  PROVE  /\ <<Nul>> \in Seq(Chars) /\ Shown(<<Nul>>, r, m, n)
         /\ Zeros \in Seq(Chars) /\ Shown(Zeros, r, m, n)
<1>1. <<Nul>> \in Seq(Chars) /\ Shown(<<Nul>>, r, m, n)
  BY DEF Chars, Shown, Clean
<1>2. Bufsz - 1 \in Nat
  BY SizesAssumption
<1>3. Zeros \in Seq(Chars) /\ Len(Zeros) = Bufsz - 1
      /\ \A i \in 1..(Bufsz - 1) : Zeros[i] = Nul
  BY <1>2 DEF Zeros, Chars
<1>4. Shown(Zeros, r, m, n)
  BY <1>3 DEF Shown, Clean
<1>5. QED
  BY <1>1, <1>3, <1>4

(* A token that is found in a text that was shown came over the line.       *)
LEMMA FoundToken ==
  ASSUME NEW r \in Seq(Bytes), NEW m \in Nat, NEW n \in Nat, n <= Len(r),
         NEW s \in Seq(Chars), Shown(s, r, m, n),
         NEW w \in Seq(Bytes), w # <<>>, NoNul(w), Occurs(w, s)
  PROVE  \E k \in (m + 1)..n : \E e \in k..n : w = SubSeq(r, k, e)
<1>1. Len(w) \in Nat /\ Len(w) > 0 /\ Len(s) \in Nat
  BY EmptySeq, LenProperties
<1>2. PICK i \in 0..(Len(s) - Len(w)) : SubSeq(s, i + 1, i + Len(w)) = w
  BY DEF Occurs
<1>3. \A x \in (i + 1)..(i + Len(w)) : s[x] \in Chars
  BY <1>1, <1>2
<1>4. /\ Len(w) = (i + Len(w)) - (i + 1) + 1
      /\ \A x \in 1..((i + Len(w)) - (i + 1) + 1) : w[x] = s[(i + 1) + x - 1]
  BY <1>1, <1>2, <1>3, SubSeqProperties
<1>5. ASSUME NEW x \in 0..(Len(w) - 1) PROVE w[x + 1] = s[(i + 1) + x]
  <2>1. x + 1 \in 1..((i + Len(w)) - (i + 1) + 1) /\ (i + 1) + (x + 1) - 1 = (i + 1) + x
    BY <1>1, <1>2
  <2>2. QED
    BY <2>1, <1>4
<1>6. ASSUME NEW x \in (i + 1)..(i + Len(w)) PROVE s[x] # Nul
  <2>1. x - (i + 1) \in 0..(Len(w) - 1) /\ (i + 1) + (x - (i + 1)) = x
        /\ (x - (i + 1)) + 1 \in 1..Len(w)
    BY <1>1, <1>2
  <2>2. w[(x - (i + 1)) + 1] = s[x]
    BY <2>1, <1>5
  <2>3. QED
    BY <2>1, <2>2 DEF NoNul
<1>7. i + 1 \in 1..Len(s) /\ i + Len(w) \in (i + 1)..Len(s)
      /\ (i + Len(w)) - (i + 1) = Len(w) - 1
  BY <1>1, <1>2
<1>8. PICK k \in (m + 1)..n : /\ k + (Len(w) - 1) <= n
                              /\ \A x \in 0..(Len(w) - 1) : s[(i + 1) + x] = r[k + x]
  BY <1>6, <1>7 DEF Shown, Clean, At
<1> DEFINE e == k + (Len(w) - 1)
<1>9. e \in k..n /\ e - k + 1 = Len(w) /\ k <= e /\ k \in Int /\ e \in Int
  BY <1>1, <1>8
<1>10. \A x \in k..e : r[x] \in Bytes
  BY <1>8, <1>9
<1>11. /\ SubSeq(r, k, e) \in Seq(Bytes) /\ Len(SubSeq(r, k, e)) = Len(w)
       /\ \A x \in 1..Len(w) : SubSeq(r, k, e)[x] = r[k + x - 1]
  <2> HIDE DEF e
  <2>1. QED BY <1>9, <1>10, SubSeqProperties
<1>12. ASSUME NEW x \in 1..Len(w) PROVE SubSeq(r, k, e)[x] = w[x]
  <2>1. x - 1 \in 0..(Len(w) - 1) /\ (x - 1) + 1 = x /\ k + (x - 1) = k + x - 1
    BY <1>1, <1>8
  <2>2. w[x] = r[k + x - 1]
    BY <2>1, <1>5, <1>8
  <2>3. QED
    BY <2>2, <1>11
<1>13. SubSeq(r, k, e) = w
  <2> HIDE DEF e
  <2>1. QED BY <1>11, <1>12, SeqEqual
<1>14. QED
  BY <1>9, <1>13

-----------------------------------------------------------------------------
(* The invariant: while an expect function waits, its text is what came     *)
(* over the line since it began; expect_any's text ends where the line was  *)
(* read to, expect_str's has a zero byte wherever two reads meet.           *)

LineOK ==
  /\ rx \in Seq(Bytes) /\ taken \in 0..Len(rx)
  /\ start \in 0..taken /\ mark \in 0..taken
  /\ loco \in Seq(Chars) /\ t1 \in Seq(Chars)

TokensOK ==
  pc \in {"any", "str"} =>
    /\ mark <= start
    /\ \A i \in 1..Len(want) : want[i] \in Seq(Bytes) /\ want[i] # <<>> /\ NoNul(want[i])

AnyOK == pc = "any" => Joined(t1, rx, start, taken)

StrOK ==
  pc = "str" =>
    Len(loco) = Bufsz - 1 /\ Shown(t1, rx, start, taken) /\ Shown(loco, rx, start, taken)

StreamInv == LineOK /\ TokensOK /\ AnyOK /\ StrOK

LEMMA InitStream == Init => StreamInv /\ Stream!Init
<1> SUFFICES ASSUME Init PROVE StreamInv /\ Stream!Init
  OBVIOUS
<1>1. Zeros \in Seq(Chars)
  BY ZeroText
<1>2. LineOK
  BY <1>1 DEF Init, LineOK
<1>3. QED
  BY <1>2 DEF Init, StreamInv, TokensOK, AnyOK, StrOK, Stream!Init

(* What bread takes.                                                        *)
LEMMA ChunkText ==
  ASSUME LineOK
  PROVE  /\ Count \in 0..(Len(rx) - taken) /\ Count <= Bufsz - 2 /\ taken + Count \in taken..Len(rx)
         /\ Chunk \in Seq(Bytes) /\ Len(Chunk) = Count
         /\ \A x \in 1..Count : Chunk[x] = rx[taken + x]
         /\ \A m \in 0..taken : Shown(Chunk, rx, m, taken + Count)
<1>1. /\ Count \in 0..(Len(rx) - taken) /\ Count <= Bufsz - 2 /\ taken + Count \in taken..Len(rx)
      /\ Count \in Nat /\ taken \in Nat /\ taken + Count <= Len(rx)
  BY SizesAssumption, LenProperties DEF LineOK, Count, Least, Cap
<1>2. /\ Chunk \in Seq(Bytes) /\ Len(Chunk) = Count
      /\ \A x \in 1..Count : Chunk[x] = rx[taken + x]
      /\ \A m \in 0..taken : Shown(Chunk, rx, m, taken + Count)
  <2> HIDE DEF Count
  <2>1. ASSUME NEW m \in 0..taken
        PROVE  /\ Chunk \in Seq(Bytes) /\ Len(Chunk) = Count
               /\ \A x \in 1..Count : Chunk[x] = rx[taken + x]
               /\ Shown(Chunk, rx, m, taken + Count)
    <3>1. m \in Nat /\ m <= taken /\ rx \in Seq(Bytes)
      BY <1>1 DEF LineOK
    <3>2. QED
      BY <1>1, <3>1, LineText DEF Chunk
  <2>2. taken \in 0..taken
    BY <1>1
  <2>3. QED
    BY <2>1, <2>2
<1>3. QED
  BY <1>1, <1>2

(* The first bytes of a read are handed to the script, or none.             *)
LEMMA GivenStep ==
  ASSUME LineOK, NEW n \in 0..Count, Given(n), taken' = taken + Count, rx' = rx
  PROVE  mark' \in 0..taken' /\ (Stream!Skip \/ Stream!Deliver)
<1>1. /\ Count \in Nat /\ taken \in Nat /\ mark \in 0..taken /\ taken + Count \in taken..Len(rx)
      /\ Chunk \in Seq(Bytes) /\ Len(Chunk) = Count
      /\ \A x \in 1..Count : Chunk[x] = rx[taken + x]
  BY ChunkText DEF LineOK
<1> HIDE DEF Count, Chunk
<1>2. CASE n = 0
  BY <1>1, <1>2 DEF Given, told, Stream!Skip
<1>3. CASE n > 0
  <2>1. piece' = SubSeq(Chunk, 1, n) /\ mark' = taken'
    BY <1>1, <1>3 DEF Given, Hand
  <2>2. \A x \in 1..n : Chunk[x] \in Bytes
    BY <1>1
  <2>3. /\ SubSeq(Chunk, 1, n) \in Seq(Bytes) /\ Len(SubSeq(Chunk, 1, n)) = n
        /\ \A x \in 1..n : SubSeq(Chunk, 1, n)[x] = Chunk[x]
    BY <1>1, <1>3, <2>2, SubSeqProperties
  <2>4. /\ SubSeq(rx, taken + 1, taken + n) \in Seq(Bytes)
        /\ Len(SubSeq(rx, taken + 1, taken + n)) = n
        /\ \A x \in 1..n : SubSeq(rx, taken + 1, taken + n)[x] = rx[taken + x]
    <3>1. n \in Nat /\ taken + n <= Len(rx) /\ taken <= taken /\ rx \in Seq(Bytes)
      BY <1>1 DEF LineOK
    <3>2. QED
      BY <1>1, <3>1, LineText
  <2>5. SubSeq(Chunk, 1, n) = SubSeq(rx, taken + 1, taken + n)
    <3>1. \A x \in 1..n : SubSeq(Chunk, 1, n)[x] = SubSeq(rx, taken + 1, taken + n)[x]
      BY <1>1, <2>3, <2>4
    <3>2. QED
      BY <2>3, <2>4, <3>1, SeqEqual
  <2>6. /\ taken' \in taken..Len(rx) /\ taken + 1 \in (mark + 1)..taken'
        /\ taken + n \in (taken + 1)..taken'
    BY <1>1, <1>3
  <2>7. Stream!Deliver
    BY <2>1, <2>5, <2>6 DEF Stream!Deliver
  <2>8. QED
    BY <1>1, <2>1, <2>7
<1>4. QED
  BY <1>1, <1>2, <1>3

(* A step outside the expect functions that hands the script nothing.       *)
LEMMA QuietStep ==
  ASSUME StreamInv, UNCHANGED <<rx, told>>, taken' \in taken..Len(rx),
         start' = start \/ start' = 0, loco' \in Seq(Chars), t1' \in Seq(Chars),
         \/ pc' \notin {"any", "str"}
         \/ UNCHANGED <<taken, pc, t1, loco, want, start>>
  PROVE  StreamInv' /\ Stream!Skip
<1>1. Stream!Skip
  BY DEF told, Stream!Skip
<1>2. LineOK'
  BY DEF StreamInv, LineOK, told
<1>3. CASE pc' \notin {"any", "str"}
  BY <1>1, <1>2, <1>3 DEF StreamInv, TokensOK, AnyOK, StrOK
<1>4. CASE UNCHANGED <<taken, pc, t1, loco, want, start>>
  <2>1. TokensOK' /\ AnyOK' /\ StrOK'
    BY <1>4 DEF StreamInv, TokensOK, AnyOK, StrOK, told
  <2>2. QED
    BY <1>1, <1>2, <2>1 DEF StreamInv
<1>5. QED
  BY <1>3, <1>4

LEMMA ArriveStep ==
  ASSUME StreamInv, NEW b \in Bytes, Arrive(b)
  PROVE  StreamInv' /\ Stream!Arrive
<1> USE DEF line, out, call, locals, flags, told
<1>1. Stream!Arrive
  BY DEF Arrive, Stream!Arrive
<1>2. /\ rx \in Seq(Bytes) /\ rx' \in Seq(Bytes) /\ Len(rx') = Len(rx) + 1
      /\ \A x \in 1..Len(rx) : rx'[x] = rx[x]
      /\ UNCHANGED <<taken, start, mark, loco, t1, pc, want>>
  BY DEF Arrive, StreamInv, LineOK
<1>3. /\ taken \in Nat /\ start \in Nat /\ taken <= Len(rx)
      /\ t1 \in Seq(Chars) /\ loco \in Seq(Chars)
  BY LenProperties DEF StreamInv, LineOK
<1>4. LineOK' /\ TokensOK'
  BY <1>2, <1>3, LenProperties DEF StreamInv, LineOK, TokensOK
<1>5. AnyOK'
  BY <1>2, <1>3, JoinedLater DEF StreamInv, AnyOK
<1>6. StrOK'
  <2>1. CASE pc = "str"
    <3>1. Shown(t1, rx, start, taken) /\ Shown(loco, rx, start, taken) /\ Len(loco) = Bufsz - 1
      BY <2>1 DEF StreamInv, StrOK
    <3>2. Shown(t1, rx', start, taken) /\ Shown(loco, rx', start, taken)
      BY <1>2, <1>3, <3>1, ShownLater
    <3>3. QED
      BY <1>2, <3>1, <3>2 DEF StrOK
  <2>2. QED
    BY <1>2, <2>1 DEF StrOK
<1>7. QED
  BY <1>1, <1>4, <1>5, <1>6 DEF StreamInv

LEMMA ExpectStep ==
  ASSUME StreamInv, NEW kind, NEW tokens, Expect(kind, tokens),
         kind # "bin" => \A i \in 1..Len(tokens) :
                           tokens[i] \in Seq(Bytes) /\ tokens[i] # <<>> /\ NoNul(tokens[i])
  PROVE  StreamInv' /\ Stream!Skip
<1> USE DEF line, out, flags, told
<1>1. /\ t1' = <<>> /\ loco' = Zeros /\ start' = taken /\ pc' = kind /\ want' = tokens
      /\ UNCHANGED <<rx, taken, mark, piece>>
  BY DEF Expect
<1>2. Stream!Skip
  BY <1>1 DEF Stream!Skip, StreamInv, LineOK
<1>3. Zeros \in Seq(Chars) /\ Shown(Zeros, rx, taken, taken)
  BY ZeroText
<1>4. <<>> \in Seq(Chars) /\ Joined(<<>>, rx, taken, taken) /\ Shown(<<>>, rx, taken, taken)
  BY EmptyText
<1>5. LineOK' /\ TokensOK'
  BY <1>1, <1>3, <1>4 DEF StreamInv, LineOK, TokensOK
<1>6. Len(Zeros) = Bufsz - 1
  BY SizesAssumption DEF Zeros
<1>7. QED
  BY <1>1, <1>2, <1>3, <1>4, <1>5, <1>6 DEF StreamInv, AnyOK, StrOK

(* A read by expect_any or expect_str.  The text it searches:               *)
LEMMA PollText ==
  ASSUME StreamInv, pc \in {"any", "str"}, Count > 0
  PROVE  /\ Text \in Seq(Chars) /\ Shown(Text, rx, start, taken + Count)
         /\ pc = "any" => Joined(Text, rx, start, taken + Count)
         /\ Buffer \in Seq(Chars)
         /\ pc = "str" => Len(Buffer) = Bufsz - 1 /\ Shown(Buffer, rx, start, taken + Count)
<1>1. /\ Count \in Nat /\ Count <= Bufsz - 2 /\ taken + Count \in taken..Len(rx)
      /\ Chunk \in Seq(Bytes) /\ Len(Chunk) = Count
      /\ \A x \in 1..Count : Chunk[x] = rx[taken + x]
      /\ \A m \in 0..taken : Shown(Chunk, rx, m, taken + Count)
  BY ChunkText DEF StreamInv
<1>2. /\ rx \in Seq(Bytes) /\ Len(rx) \in Nat /\ taken \in Nat /\ start \in Nat /\ start <= taken
      /\ t1 \in Seq(Chars) /\ loco \in Seq(Chars) /\ taken <= Len(rx)
      /\ taken + Count <= Len(rx) /\ taken + Count \in Nat /\ taken <= taken + Count
  BY <1>1, LenProperties DEF StreamInv, LineOK
<1>3. Chunk \in Seq(Chars)
  BY <1>1, SeqMonotonic DEF Chars
<1> HIDE DEF Count, Chunk
<1>4. CASE pc = "any"
  <2>1. /\ Resized \in Seq(Chars) /\ Len(Resized) = Count
        /\ \A x \in 1..Count : Resized[x] = Nul \/ Resized[x] = rx[taken + x]
    <3>1. \A x \in 1..Count : Chunk[x] \in Chars
      BY <1>1, <1>3
    <3>2. Resized \in Seq(Chars) /\ Len(Resized) = Count
      BY <1>1, <3>1 DEF Resized, Chars
    <3>3. \A x \in 1..Count : Resized[x] = Nul \/ Resized[x] = Chunk[x]
      BY DEF Resized
    <3>4. QED
      BY <1>1, <3>2, <3>3
  <2>2. Text = t1 \o Resized /\ Buffer = Resized
    BY <1>4 DEF Text, Buffer
  <2>3. Joined(t1, rx, start, taken)
    BY <1>4 DEF StreamInv, AnyOK
  <2>4. Joined(t1 \o Resized, rx, start, taken + Count)
    BY <1>1, <1>2, <2>1, <2>3, JoinRead
  <2>5. t1 \o Resized \in Seq(Chars)
    BY <1>2, <2>1, ConcatIs
  <2>6. QED
    BY <1>4, <2>1, <2>2, <2>4, <2>5, JoinedIsShown
<1>5. CASE pc = "str"
  <2>1. Len(loco) = Bufsz - 1 /\ Shown(t1, rx, start, taken) /\ Shown(loco, rx, start, taken)
    BY <1>5 DEF StreamInv, StrOK
  <2>2. Shown(t1, rx, start, taken + Count) /\ Shown(loco, rx, start, taken + Count)
    BY <1>2, <2>1, ShownLater
  <2> DEFINE rest == SubSeq(loco, Count + 2, Len(loco))
             zero == <<Nul>> \o rest
  <2>3. Bufsz \in Nat /\ Count + 2 \in 1..(Len(loco) + 1)
    BY <1>1, <2>1, SizesAssumption
  <2>4. rest \in Seq(Chars) /\ Shown(rest, rx, start, taken + Count)
    BY <1>2, <2>2, <2>3, CutText
  <2>5. Len(rest) = Bufsz - 2 - Count
    <3>1. \A x \in (Count + 2)..Len(loco) : loco[x] \in Chars
      BY <1>1, <1>2
    <3>2. Len(rest) = IF Count + 2 <= Len(loco) THEN Len(loco) - (Count + 2) + 1 ELSE 0
      BY <1>1, <2>1, <2>3, <3>1, SubSeqProperties
    <3>3. QED
      BY <1>1, <2>1, <2>3, <3>2
  <2>6. <<Nul>> \in Seq(Chars) /\ Shown(<<Nul>>, rx, start, taken + Count) /\ Len(<<Nul>>) = 1
    BY ZeroText
  <2> HIDE DEF rest
  <2>7. zero \in Seq(Chars) /\ Len(zero) = Bufsz - 1 - Count /\ zero[1] = Nul
    <3>1. zero \in Seq(Chars) /\ Len(zero) = 1 + Len(rest) /\ \A x \in 1..1 : zero[x] = <<Nul>>[x]
      BY <2>4, <2>6, ConcatIs
    <3>2. QED
      BY <1>1, <2>3, <2>5, <3>1
  <2>8. Shown(zero, rx, start, taken + Count)
    <3>1. \A i \in 1..Len(zero) : \A j \in i..Len(zero) : Clean(zero, i, j) =>
            \E k \in (start + 1)..(taken + Count) :
               k + (j - i) <= taken + Count /\ At(zero, i, j, rx, k)
      <4> SUFFICES ASSUME NEW i \in 1..Len(zero), NEW j \in i..Len(zero), Clean(zero, i, j)
                   PROVE  \E k \in (start + 1)..(taken + Count) :
                             k + (j - i) <= taken + Count /\ At(zero, i, j, rx, k)
        OBVIOUS
      <4>1. i # 1
        BY <2>7 DEF Clean
      <4>2. /\ \A x \in 1..(1 + Len(rest)) : x > 1 => zero[x] = rest[x - 1]
            /\ Len(zero) = 1 + Len(rest) /\ Len(rest) \in Nat
        BY <2>4, <2>6, ConcatIs, LenProperties
      <4> HIDE DEF zero
      <4> DEFINE a == i - 1  b == j - 1
      <4>3. /\ a \in 1..Len(rest) /\ b \in a..Len(rest) /\ b - a = j - i
            /\ a \in Nat /\ b \in Nat
        BY <4>1, <4>2
      <4>4. ASSUME NEW x \in a..b PROVE rest[x] = zero[x + 1] /\ rest[x] # Nul
        <5>1. x + 1 \in i..j /\ x + 1 \in 1..(1 + Len(rest)) /\ x + 1 > 1 /\ (x + 1) - 1 = x
          BY <4>1, <4>2
        <5>2. QED
          BY <4>2, <5>1 DEF Clean
      <4>5. i = a + 1 /\ \A x \in 0..(j - i) : a + x \in a..b /\ (a + x) + 1 = i + x
        BY <4>1, <4>2
      <4> HIDE DEF a, b
      <4>6. PICK k \in (start + 1)..(taken + Count) :
              k + (b - a) <= taken + Count /\ At(rest, a, b, rx, k)
        BY <2>4, <4>3, <4>4 DEF Shown, Clean
      <4>7. ASSUME NEW x \in 0..(j - i) PROVE zero[i + x] = rx[k + x]
        BY <4>3, <4>4, <4>5, <4>6 DEF At
      <4>8. QED
        BY <4>3, <4>6, <4>7 DEF At
    <3>2. QED
      BY <3>1 DEF Shown
  <2> HIDE DEF zero
  <2>9. Overwritten = Chunk \o <<Nul>> \o rest /\ Chunk \o <<Nul>> \o rest = Chunk \o zero
    <3>1. (Chunk \o <<Nul>>) \o rest = Chunk \o (<<Nul>> \o rest)
      BY <1>3, <2>4, <2>6, ConcatAssociative
    <3>2. QED
      BY <3>1 DEF Overwritten, rest, zero
  <2>10. /\ Chunk \o zero \in Seq(Chars) /\ Len(Chunk \o zero) = Bufsz - 1
         /\ Shown(Chunk \o zero, rx, start, taken + Count)
    <3>1. Shown(Chunk, rx, start, taken + Count)
      BY <1>1, <1>2
    <3>2. Chunk \o zero \in Seq(Chars) /\ Len(Chunk \o zero) = Len(Chunk) + Len(zero)
      BY <1>3, <2>7, ConcatIs
    <3>3. Len(Chunk \o zero) = Bufsz - 1
      BY <1>1, <2>3, <2>7, <3>2
    <3>4. Shown(Chunk \o zero, rx, start, taken + Count)
      BY <1>2, <1>3, <2>7, <2>8, <3>1, JoinAtZero
    <3>5. QED
      BY <3>2, <3>3, <3>4
  <2>11. SubSeq(Chunk \o zero, Count + 1, Bufsz - 1) = zero
    <3>1. /\ \A x \in (Count + 1)..(Bufsz - 1) : (Chunk \o zero)[x] = zero[x - Count]
          /\ \A x \in (Count + 1)..(Bufsz - 1) : (Chunk \o zero)[x] \in Chars
      <4>1. \A x \in 1..(Len(Chunk) + Len(zero)) : x > Len(Chunk) => (Chunk \o zero)[x] = zero[x - Len(Chunk)]
        BY <1>3, <2>7, ConcatIs
      <4>2. \A x \in (Count + 1)..(Bufsz - 1) : x \in 1..(Len(Chunk) + Len(zero)) /\ x > Len(Chunk)
        BY <1>1, <2>3, <2>7
      <4>3. QED
        BY <1>1, <4>1, <4>2, <2>10
    <3> DEFINE full == Chunk \o zero
               u == SubSeq(full, Count + 1, Bufsz - 1)
    <3>2. /\ u \in Seq(Chars) /\ Len(u) = IF Count + 1 <= Bufsz - 1 THEN (Bufsz - 1) - (Count + 1) + 1 ELSE 0
          /\ \A x \in 1..((Bufsz - 1) - (Count + 1) + 1) : u[x] = full[(Count + 1) + x - 1]
      <4>1. Count + 1 \in Int /\ Bufsz - 1 \in Int
        BY <1>1, <2>3
      <4>2. \A x \in (Count + 1)..(Bufsz - 1) : full[x] \in Chars
        BY <3>1
      <4> HIDE DEF full
      <4>3. QED
        BY <4>1, <4>2, SubSeqProperties
    <3> HIDE DEF u
    <3>3. Len(u) = Len(zero)
      BY <1>1, <2>3, <2>7, <3>2
    <3>4. ASSUME NEW x \in 1..Len(u) PROVE u[x] = zero[x]
      <4>1. /\ x \in 1..((Bufsz - 1) - (Count + 1) + 1) /\ (Count + 1) + x - 1 = Count + x
            /\ Count + x \in (Count + 1)..(Bufsz - 1) /\ (Count + x) - Count = x
        BY <1>1, <2>3, <2>7, <3>3
      <4>2. QED
        BY <3>1, <3>2, <4>1
    <3>5. u = zero
      BY <2>7, <3>2, <3>3, <3>4, SeqEqual
    <3>6. QED
      BY <3>5 DEF u
  <2>12. Buffer = Chunk \o zero /\ Text = t1 \o zero
    BY <1>5, <2>9, <2>10, <2>11 DEF Buffer, Text
  <2>13. t1 \o zero \in Seq(Chars) /\ Shown(t1 \o zero, rx, start, taken + Count)
    BY <1>2, <2>2, <2>7, <2>8, ConcatIs, JoinAtZero
  <2>14. QED
    BY <1>5, <2>10, <2>12, <2>13
<1>6. QED
  BY <1>4, <1>5

LEMMA TruncatedText ==
  ASSUME NEW m \in Nat, NEW n \in Nat, NEW s \in Seq(Chars), rx \in Seq(Bytes)
  PROVE  /\ Truncate(s) \in Seq(Chars)
         /\ Joined(s, rx, m, n) => Joined(Truncate(s), rx, m, n)
         /\ Shown(s, rx, m, n) => Shown(Truncate(s), rx, m, n)
<1>1. CASE Len(s) > Maxbufsz /\ (Bufsz \div 4) + 1 <= Len(s) + 1
  <2>1. (Bufsz \div 4) + 1 \in 1..(Len(s) + 1)
    BY <1>1, SizesAssumption, LenProperties
  <2>2. QED
    BY <1>1, <2>1, CutText DEF Truncate
<1>2. CASE Len(s) > Maxbufsz /\ (Bufsz \div 4) + 1 > Len(s) + 1
  <2>1. SubSeq(s, (Bufsz \div 4) + 1, Len(s)) = <<>>
    BY <1>2, SizesAssumption, LenProperties, SubSeqEmpty
  <2>2. QED
    BY <1>2, <2>1, EmptyText, EmptySeq DEF Truncate
<1>3. CASE ~(Len(s) > Maxbufsz)
  BY <1>3 DEF Truncate
<1>4. QED
  BY <1>1, <1>2, <1>3, SizesAssumption, LenProperties

LEMMA PollStep ==
  ASSUME StreamInv, Poll
  PROVE  StreamInv' /\ (Stream!Skip \/ Stream!Deliver)
<1> USE DEF line, out, flags, told
<1>1. /\ Count > 0 /\ taken' = taken + Count /\ rx' = rx /\ pc \in {"any", "str", "bin"}
      /\ t1' = IF pc = "str" /\ Found # {} THEN Text ELSE Truncate(Text)
  BY DEF Poll, Expecting
<1>2. /\ taken + Count \in taken..Len(rx) /\ Count \in Nat
      /\ rx \in Seq(Bytes) /\ start \in 0..taken /\ mark \in 0..taken /\ taken \in Nat
      /\ Len(rx) \in Nat
  BY ChunkText, LenProperties DEF StreamInv, LineOK
<1>3. CASE pc = "bin"
  <2>1. Text \in Seq(Chars) /\ Buffer \in Seq(Chars)
    <3>1. Text = t1 /\ Buffer = Resized
      BY <1>3 DEF Text, Buffer
    <3>2. Chunk \in Seq(Bytes) /\ Len(Chunk) = Count
      BY ChunkText DEF StreamInv
    <3>3. \A x \in 1..Count : Chunk[x] \in Chars
      BY <3>2, <1>2 DEF Chars
    <3>4. Resized \in Seq(Chars)
      BY <1>2, <3>3 DEF Resized, Chars
    <3>5. QED
      BY <3>1, <3>4 DEF StreamInv, LineOK
  <2>2. t1' \in Seq(Chars)
    BY <1>1, <1>2, <1>3, <2>1, TruncatedText
  <2>3. CASE Found = {}
    BY <1>1, <1>2, <1>3, <2>1, <2>2, <2>3, QuietStep DEF Poll
  <2>4. CASE Found # {}
    <3>1. pc' = "idle" /\ loco' = <<>> /\ start' = 0 /\ UNCHANGED told
      BY <1>3, <2>4 DEF Poll, Return
    <3>2. QED
      BY <1>1, <1>2, <2>2, <3>1, QuietStep
  <2>5. QED
    BY <2>3, <2>4
<1>4. CASE pc \in {"any", "str"}
  <2>1. /\ Text \in Seq(Chars) /\ Shown(Text, rx, start, taken + Count)
        /\ pc = "any" => Joined(Text, rx, start, taken + Count)
        /\ Buffer \in Seq(Chars)
        /\ pc = "str" => Len(Buffer) = Bufsz - 1 /\ Shown(Buffer, rx, start, taken + Count)
    BY <1>1, <1>4, PollText
  <2>2. /\ Truncate(Text) \in Seq(Chars) /\ Shown(Truncate(Text), rx, start, taken + Count)
        /\ pc = "any" => Joined(Truncate(Text), rx, start, taken + Count)
    BY <1>2, <2>1, TruncatedText
  <2>3. CASE Found = {}
    <3>1. t1' = Truncate(Text) /\ loco' = Buffer /\ UNCHANGED <<pc, want, start, mark, piece>>
      BY <1>1, <2>3 DEF Poll
    <3>2. LineOK' /\ TokensOK'
      BY <1>1, <1>2, <2>1, <2>2, <3>1 DEF StreamInv, LineOK, TokensOK
    <3>3. AnyOK' /\ StrOK'
      BY <1>1, <2>1, <2>2, <3>1 DEF AnyOK, StrOK
    <3>4. Stream!Skip
      BY <1>1, <1>2, <3>1 DEF Stream!Skip
    <3>5. QED
      BY <3>2, <3>3, <3>4 DEF StreamInv
  <2>4. CASE Found # {}
    <3>1. /\ pc' = "idle" /\ loco' = <<>> /\ start' = 0
          /\ \E i \in Found : First(i) /\ Hand(want[i], taken')
      BY <1>4, <2>4 DEF Poll, Return
    <3>2. PICK i \in Found : piece' = want[i] /\ mark' = taken'
      BY <3>1 DEF Hand
    <3>3. /\ i \in 1..Len(want) /\ Occurs(want[i], Text) /\ mark <= start
          /\ want[i] \in Seq(Bytes) /\ want[i] # <<>> /\ NoNul(want[i])
      BY <1>4, <3>2 DEF Found, Pattern, StreamInv, TokensOK
    <3>4. PICK k \in (start + 1)..(taken + Count) : \E e \in k..(taken + Count) :
             want[i] = SubSeq(rx, k, e)
      <4> DEFINE n == taken + Count
                 w == want[i]
      <4>1. /\ start \in Nat /\ n \in Nat /\ n <= Len(rx) /\ rx \in Seq(Bytes)
            /\ Text \in Seq(Chars) /\ Shown(Text, rx, start, n)
            /\ w \in Seq(Bytes) /\ w # <<>> /\ NoNul(w) /\ Occurs(w, Text)
        BY <1>2, <2>1, <3>3
      <4> HIDE DEF n, w
      <4>2. \E k \in (start + 1)..n : \E e \in k..n : w = SubSeq(rx, k, e)
        BY <4>1, FoundToken
      <4>3. QED
        BY <4>2 DEF n, w
    <3>5. PICK e \in k..(taken + Count) : want[i] = SubSeq(rx, k, e)
      BY <3>4
    <3>6. k \in (mark + 1)..(taken + Count)
      BY <1>2, <3>3
    <3>7. Stream!Deliver
      BY <1>1, <1>2, <3>2, <3>5, <3>6 DEF Stream!Deliver
    <3>8. StreamInv'
      <4>1. t1' \in Seq(Chars)
        BY <1>1, <2>1, <2>2
      <4>2. QED
        BY <1>1, <1>2, <3>1, <3>2, <4>1 DEF StreamInv, LineOK, TokensOK, AnyOK, StrOK
    <3>9. QED
      BY <3>7, <3>8
  <2>5. QED
    BY <2>3, <2>4
<1>5. QED
  BY <1>1, <1>3, <1>4

(* gets, read, the answer of write_cb and the callback.                     *)
LEMMA ReadStep ==
  ASSUME StreamInv, NEW n \in 0..Count, Given(n),
         taken' = taken + Count, rx' = rx, start' = start, loco' = loco,
         pc' = "idle", t1' = t1 \/ t1' = Chunk
  PROVE  StreamInv' /\ (Stream!Skip \/ Stream!Deliver)
<1>1. mark' \in 0..taken' /\ (Stream!Skip \/ Stream!Deliver)
  BY GivenStep DEF StreamInv
<1>2. Chunk \in Seq(Chars) /\ taken + Count \in taken..Len(rx)
  BY ChunkText, SeqMonotonic DEF StreamInv, Chars
<1> HIDE DEF Count, Chunk
<1>3. LineOK'
  BY <1>1, <1>2 DEF StreamInv, LineOK
<1>4. QED
  BY <1>1, <1>3 DEF StreamInv, TokensOK, AnyOK, StrOK

LEMMA StreamStep == StreamInv /\ [Next]_vars => StreamInv' /\ [Stream!Next]_(Stream!vars)
<1> SUFFICES ASSUME StreamInv, [Next]_vars
             PROVE  StreamInv' /\ [Stream!Next]_(Stream!vars)
  OBVIOUS
<1> USE DEF line, out, call, locals, flags, told
<1>1. ASSUME Stream!Skip \/ Stream!Deliver \/ Stream!Arrive PROVE [Stream!Next]_(Stream!vars)
  BY <1>1 DEF Stream!Next
<1>2. /\ t1 \in Seq(Chars) /\ loco \in Seq(Chars) /\ <<>> \in Seq(Chars)
      /\ taken \in taken..Len(rx) /\ Len(rx) \in taken..Len(rx)
      /\ taken + Count \in taken..Len(rx) /\ Count \in 0..Count
  BY ChunkText, LenProperties DEF StreamInv, LineOK
<1>3. CASE \E b \in Bytes : Arrive(b)
  BY <1>1, <1>3, ArriveStep
<1>4. CASE Waiting
  <2>1. \A a \in Arrays : \A i \in 1..Len(a) : a[i] \in Seq(Bytes) /\ a[i] # <<>> /\ NoNul(a[i])
    BY TokensAssumption
  <2>2. \A s \in Strings : \A i \in 1..Len(<<s>>) :
           <<s>>[i] \in Seq(Bytes) /\ <<s>>[i] # <<>> /\ NoNul(<<s>>[i])
    BY TokensAssumption
  <2>3. QED
    BY <1>1, <1>4, <2>1, <2>2, ExpectStep DEF Waiting
<1>5. CASE Poll
  BY <1>1, <1>5, PollStep
<1>6. CASE Gets \/ ReadArray \/ Answer
  BY <1>1, <1>2, <1>6, ReadStep DEF Gets, ReadArray, Answer, Read
<1>7. CASE Scan
  <2>1. PICK n \in 0..Count : Given(n)
    BY <1>7 DEF Scan
  <2>2. QED
    BY <1>1, <1>7, <2>1, ReadStep DEF Scan
<1>8. CASE \/ Transmit \/ Flush \/ Writing \/ GiveUp \/ (\E n \in 1..left.size : Put(n))
           \/ WriteEnds \/ WriteFails \/ EndLine \/ (\E on \in BOOLEAN : SetCb(on)) \/ CallbackEnds
  <2>1. /\ UNCHANGED <<rx, told>> /\ taken' \in taken..Len(rx)
        /\ start' = start \/ start' = 0
        /\ loco' \in Seq(Chars) /\ t1' \in Seq(Chars)
        /\ \/ pc' \notin {"any", "str"}
           \/ UNCHANGED <<taken, pc, t1, loco, want, start>>
    <3>1. CASE Transmit
      BY <1>2, <3>1 DEF Transmit
    <3>2. CASE Flush
      BY <1>2, <3>2 DEF Flush, Flushed
    <3>3. CASE Writing
      BY <1>2, <3>3 DEF Writing, Write, WebWrite, Start, Flushed
    <3>4. CASE GiveUp
      BY <1>2, <3>4 DEF GiveUp, Return
    <3>5. CASE \E n \in 1..left.size : Put(n)
      BY <1>2, <3>5 DEF Put
    <3>6. CASE WriteEnds \/ WriteFails
      BY <1>2, <3>6 DEF WriteEnds, WriteFails, WriteReturns
    <3>7. CASE EndLine
      BY <1>2, <3>7 DEF EndLine
    <3>8. CASE (\E on \in BOOLEAN : SetCb(on)) \/ CallbackEnds
      BY <1>2, <3>8 DEF SetCb, CallbackEnds
    <3>9. QED
      BY <1>8, <3>1, <3>2, <3>3, <3>4, <3>5, <3>6, <3>7, <3>8
  <2>2. QED
    BY <1>1, <2>1, QuietStep
<1>9. CASE UNCHANGED vars
  <2>1. UNCHANGED <<rx, told, taken, pc, t1, loco, want, start>>
    BY <1>9 DEF vars
  <2>2. QED
    BY <1>1, <1>2, <2>1, QuietStep
<1>10. QED
  BY <1>3, <1>4, <1>5, <1>6, <1>7, <1>8, <1>9 DEF Next, InCall

(* A script is handed only what came over the line, each piece in one run,  *)
(* in order and no byte twice, whatever buffers and calls it uses.          *)
THEOREM LineInOrder == Spec => StreamInOrder
BY InitStream, StreamStep, PTL DEF Spec, StreamInOrder, Stream!Spec

-----------------------------------------------------------------------------
(* Writing.  What left the line and what waits to leave, as one text: of    *)
(* each write it holds its first bytes in order, of the one under way       *)
(* exactly those bwrite has sent unless they were flushed.                  *)

Queue == wire \o txq

InOrder(s) ==
  \A i \in 1..Len(s) :
    /\ s[i][2] > 1 => i > 1 /\ s[i - 1] = <<s[i][1], s[i][2] - 1>>
    /\ \A j \in 1..(i - 1) : s[j] # s[i]

OutOK ==
  /\ txq \in Seq(Sent) /\ wire \in Seq(Sent)
  /\ left \in [size : Nat, sent : Nat] /\ left.sent <= left.size
  /\ after \in Afters /\ writes \in 0..MaxWrites
  /\ pc \in {"write", "cr"} => writes > 0

NumbersOK ==
  \A i \in 1..Len(Queue) :
    /\ Queue[i][1] <= writes
    /\ Queue[i][1] = writes => /\ pc = "write" => Queue[i][2] \in 1..left.sent
                               /\ pc = "cr" => Queue[i][2] # Cr

LastOK ==
  pc = "write" /\ left.sent > 0 =>
    Len(Queue) > 0 /\ Queue[Len(Queue)] = <<writes, left.sent>>

WriteInv == OutOK /\ NumbersOK /\ LastOK /\ InOrder(Queue)

(* A byte leaves the queue: the text is the same. *)
LEMMA MoveOne ==
  ASSUME NEW S, NEW s \in Seq(S), NEW q \in Seq(S), q # <<>>
  PROVE  /\ Append(s, Head(q)) \o Tail(q) = s \o q
         /\ Append(s, Head(q)) \in Seq(S) /\ Tail(q) \in Seq(S)
<1>1. Head(q) \in S /\ Tail(q) \in Seq(S) /\ q = <<Head(q)>> \o Tail(q)
  OBVIOUS
<1>2. Append(s, Head(q)) = s \o <<Head(q)>> /\ <<Head(q)>> \in Seq(S)
  BY <1>1, AppendIsConcat
<1>3. Append(s, Head(q)) \in Seq(S)
  BY <1>1, AppendProperties
<1>4. (s \o <<Head(q)>>) \o Tail(q) = s \o (<<Head(q)>> \o Tail(q))
  BY <1>1, <1>2, ConcatAssociative
<1>5. QED
  BY <1>1, <1>2, <1>3, <1>4

(* What was flushed had nothing after it. *)
LEMMA OrderOfFirst ==
  ASSUME NEW s \in Seq(Sent), NEW q \in Seq(Sent), InOrder(s \o q)
  PROVE  InOrder(s)
<1>1. /\ Len(s \o q) = Len(s) + Len(q) /\ Len(s) \in Nat /\ Len(q) \in Nat
      /\ \A x \in 1..Len(s) : (s \o q)[x] = s[x]
  BY ConcatIs
<1> DEFINE t == s \o q
<1> HIDE DEF t
<1>2. SUFFICES ASSUME NEW i \in 1..Len(s)
               PROVE  /\ s[i][2] > 1 => i > 1 /\ s[i - 1] = <<s[i][1], s[i][2] - 1>>
                      /\ \A j \in 1..(i - 1) : s[j] # s[i]
  BY DEF InOrder
<1>3. i \in 1..Len(t) /\ t[i] = s[i] /\ \A j \in 1..(i - 1) : j \in 1..Len(s) /\ t[j] = s[j]
  BY <1>1 DEF t
<1>4. /\ t[i][2] > 1 => i > 1 /\ t[i - 1] = <<t[i][1], t[i][2] - 1>>
      /\ \A j \in 1..(i - 1) : t[j] # t[i]
  BY <1>3 DEF InOrder, t
<1>5. i > 1 => i - 1 \in 1..(i - 1)
  OBVIOUS
<1>6. QED
  BY <1>3, <1>4, <1>5

(* The next bytes of a write come behind the ones before. *)
LEMMA OrderOfMore ==
  ASSUME NEW s \in Seq(Sent), InOrder(s), NEW q \in Seq(Sent), NEW w \in Nat, NEW k \in Nat,
         \A i \in 1..Len(q) : q[i] = <<w, k + i>>,
         \A i \in 1..Len(s) : s[i][1] = w => s[i][2] \in 1..k,
         k > 0 => Len(s) > 0 /\ s[Len(s)] = <<w, k>>
  PROVE  InOrder(s \o q)
<1> DEFINE t == s \o q
           l == Len(s)
           n == Len(q)
<1>1. /\ Len(t) = l + n /\ l \in Nat /\ n \in Nat
      /\ \A x \in 1..l : t[x] = s[x]
      /\ \A x \in 1..(l + n) : x > l => t[x] = q[x - l]
  BY ConcatIs
<1>2. \A i \in 1..l : /\ s[i][2] > 1 => i > 1 /\ s[i - 1] = <<s[i][1], s[i][2] - 1>>
                      /\ \A j \in 1..(i - 1) : s[j] # s[i]
  BY DEF InOrder
<1>3. /\ \A i \in 1..n : q[i] = <<w, k + i>>
      /\ \A i \in 1..l : s[i][1] = w => s[i][2] \in 1..k
      /\ k > 0 => l > 0 /\ s[l] = <<w, k>>
  OBVIOUS
<1> SUFFICES ASSUME NEW i \in 1..Len(t)
             PROVE  /\ t[i][2] > 1 => i > 1 /\ t[i - 1] = <<t[i][1], t[i][2] - 1>>
                    /\ \A j \in 1..(i - 1) : t[j] # t[i]
  BY DEF InOrder
<1> HIDE DEF t, l, n
<1>4. CASE i <= l
  <2>1. i \in 1..l /\ \A j \in 1..(i - 1) : j \in 1..l
    BY <1>1, <1>4
  <2>2. i > 1 => i - 1 \in 1..(i - 1)
    BY <1>1
  <2>3. QED
    BY <1>1, <1>2, <2>1, <2>2
<1>5. CASE i > l
  <2>1. i - l \in 1..n /\ i \in 1..(l + n)
    BY <1>1, <1>5
  <2>2. t[i] = <<w, k + (i - l)>>
    BY <1>1, <1>3, <1>5, <2>1
  <2>3. ASSUME NEW j \in 1..(i - 1) PROVE t[j] # t[i]
    <3>1. CASE j <= l
      <4>1. j \in 1..l /\ t[j] = s[j]
        BY <1>1, <3>1
      <4>2. ASSUME s[j] = <<w, k + (i - l)>> PROVE FALSE
        <5>1. s[j][1] = w /\ s[j][2] = k + (i - l)
          BY <4>2
        <5>2. k + (i - l) \in 1..k
          BY <1>3, <4>1, <5>1
        <5>3. QED
          BY <5>2, <1>1, <2>1
      <4>3. QED
        BY <2>2, <4>1, <4>2
    <3>2. CASE j > l
      <4>1. j \in 1..(l + n) /\ j - l \in 1..n /\ k + (j - l) # k + (i - l)
        BY <1>1, <2>1, <3>2
      <4>2. t[j] = <<w, k + (j - l)>>
        BY <1>1, <1>3, <3>2, <4>1
      <4>3. QED
        BY <2>2, <4>1, <4>2
    <3>3. QED
      BY <3>1, <3>2, <1>1
  <2>4. ASSUME k + (i - l) > 1 PROVE i > 1 /\ t[i - 1] = <<w, (k + (i - l)) - 1>>
    <3>1. CASE i - l = 1
      <4>1. k > 0 /\ i = l + 1
        BY <1>1, <2>1, <2>4, <3>1
      <4>2. l > 0 /\ s[l] = <<w, k>>
        BY <1>3, <4>1
      <4>3. i - 1 = l /\ l \in 1..l /\ (k + (i - l)) - 1 = k /\ i > 1
        BY <1>1, <4>1, <4>2
      <4>4. QED
        BY <1>1, <4>2, <4>3
    <3>2. CASE i - l # 1
      <4>1. /\ i - 1 \in 1..(l + n) /\ i - 1 > l /\ (i - 1) - l \in 1..n
            /\ k + ((i - 1) - l) = (k + (i - l)) - 1 /\ i > 1
        BY <1>1, <2>1, <3>2
      <4>2. QED
        BY <1>1, <1>3, <4>1
    <3>3. QED
      BY <3>1, <3>2
  <2>5. t[i][1] = w /\ t[i][2] = k + (i - l)
    BY <2>2
  <2>6. QED
    BY <2>3, <2>4, <2>5
<1>6. QED
  BY <1>1, <1>4, <1>5

(* putsln's end of line is not a second byte of the text. *)
LEMMA OrderOfEnd ==
  ASSUME NEW s \in Seq(Sent), InOrder(s), NEW w \in 1..MaxWrites,
         \A i \in 1..Len(s) : s[i][1] = w => s[i][2] # Cr
  PROVE  InOrder(Append(s, <<w, Cr>>))
<1> DEFINE e == <<w, Cr>>
           t == Append(s, e)
           l == Len(s)
<1>1. e \in Sent /\ e[1] = w /\ e[2] = 0
  BY DEF Sent, Cr
<1>2. Len(t) = l + 1 /\ l \in Nat /\ t[l + 1] = e /\ \A x \in 1..l : t[x] = s[x]
  <2> HIDE DEF e
  <2>1. QED BY <1>1, AppendProperties, LenProperties
<1>3. \A i \in 1..l : /\ s[i][2] > 1 => i > 1 /\ s[i - 1] = <<s[i][1], s[i][2] - 1>>
                      /\ \A j \in 1..(i - 1) : s[j] # s[i]
  BY DEF InOrder
<1>4. \A i \in 1..l : s[i] # e
  <2>1. SUFFICES ASSUME NEW i \in 1..l, s[i] = e PROVE FALSE
    OBVIOUS
  <2>2. s[i][1] = w /\ s[i][2] = Cr
    BY <2>1
  <2>3. QED
    BY <2>2
<1> HIDE DEF e, t, l
<1> SUFFICES ASSUME NEW i \in 1..Len(t)
             PROVE  /\ t[i][2] > 1 => i > 1 /\ t[i - 1] = <<t[i][1], t[i][2] - 1>>
                    /\ \A j \in 1..(i - 1) : t[j] # t[i]
  BY DEF InOrder, t, e
<1>5. CASE i <= l
  <2>1. i \in 1..l /\ \A j \in 1..(i - 1) : j \in 1..l
    BY <1>2, <1>5
  <2>2. i > 1 => i - 1 \in 1..(i - 1)
    BY <1>2
  <2>3. QED
    BY <1>2, <1>3, <2>1, <2>2
<1>6. CASE i = l + 1
  <2>1. t[i] = e /\ ~(e[2] > 1)
    BY <1>1, <1>2, <1>6
  <2>2. \A j \in 1..(i - 1) : j \in 1..l
    BY <1>2, <1>6
  <2>3. QED
    BY <1>2, <1>4, <2>1, <2>2
<1>7. QED
  BY <1>2, <1>5, <1>6

LEMMA InitWrite == Init => WriteInv
<1> SUFFICES ASSUME Init PROVE WriteInv
  OBVIOUS
<1>1. /\ txq = <<>> /\ wire = <<>> /\ <<>> \in Seq(Sent) /\ Len(<<>>) = 0
  BY DEF Init
<1>2. Len(Queue) = 0
  <2>1. Len(wire \o txq) = Len(wire) + Len(txq)
    BY <1>1, ConcatIs
  <2>2. QED
    BY <1>1, <2>1 DEF Queue
<1>3. OutOK
  BY <1>1, SizesAssumption DEF Init, OutOK, Afters
<1>4. NumbersOK /\ LastOK /\ InOrder(Queue)
  BY <1>2 DEF Init, NumbersOK, LastOK, InOrder
<1>5. QED
  BY <1>3, <1>4 DEF WriteInv

LEMMA QueueIs ==
  ASSUME OutOK
  PROVE  Queue \in Seq(Sent) /\ Len(Queue) \in Nat
         /\ \A i \in 1..Len(Queue) : Queue[i] \in Sent
<1>1. Queue \in Seq(Sent)
  BY ConcatIs DEF OutOK, Queue
<1>2. Len(Queue) \in Nat /\ \A i \in 1..Len(Queue) : Queue[i] \in Sent
  BY <1>1, LenProperties, ElementOfSeq
<1>3. QED
  BY <1>1, <1>2

(* Calls that do not write. *)
LEMMA SilentWrite ==
  ASSUME WriteInv, UNCHANGED out, pc' = pc \/ pc' \notin {"write", "cr"}
  PROVE  WriteInv'
<1>1. UNCHANGED <<txq, wire, left, after, writes>>
  BY DEF out
<1>2. Queue' = Queue
  BY <1>1 DEF Queue
<1>3. OutOK'
  BY <1>1 DEF WriteInv, OutOK
<1>4. NumbersOK' /\ LastOK'
  BY <1>1, <1>2 DEF WriteInv, NumbersOK, LastOK
<1>5. QED
  BY <1>2, <1>3, <1>4 DEF WriteInv

LEMMA TransmitWrite ==
  ASSUME WriteInv, Transmit
  PROVE  WriteInv'
<1>1. /\ txq # <<>> /\ wire' = Append(wire, Head(txq)) /\ txq' = Tail(txq)
      /\ UNCHANGED <<left, after, writes, pc>>
  BY DEF Transmit
<1>2. txq \in Seq(Sent) /\ wire \in Seq(Sent)
  BY DEF WriteInv, OutOK
<1>3. Queue' = Queue /\ wire' \in Seq(Sent) /\ txq' \in Seq(Sent)
  BY <1>1, <1>2, MoveOne DEF Queue
<1>4. OutOK'
  BY <1>1, <1>3 DEF WriteInv, OutOK
<1>5. NumbersOK' /\ LastOK'
  BY <1>1, <1>3 DEF WriteInv, NumbersOK, LastOK
<1>6. QED
  BY <1>3, <1>4, <1>5 DEF WriteInv

(* Before a call that writes the queue may be emptied: what stays is what   *)
(* left the line.                                                           *)
LEMMA EmptiedQueue ==
  ASSUME WriteInv, wire' = wire, txq' \in {txq, <<>>}
  PROVE  /\ txq' \in Seq(Sent) /\ InOrder(Queue')
         /\ Len(Queue') \in Nat /\ \A i \in 1..Len(Queue') : Queue'[i][1] <= writes
<1>1. txq \in Seq(Sent) /\ wire \in Seq(Sent)
  BY DEF WriteInv, OutOK
<1>2. CASE txq' = txq
  <2>1. Queue' = Queue
    BY <1>2 DEF Queue
  <2>2. QED
    BY <1>1, <1>2, <2>1, QueueIs DEF WriteInv, NumbersOK
<1>3. CASE txq' = <<>>
  <2>1. Queue' = wire
    BY <1>1, <1>3, ConcatEmptySeq DEF Queue
  <2>2. InOrder(wire)
    BY <1>1, OrderOfFirst DEF WriteInv, Queue
  <2>3. /\ Len(wire) \in Nat /\ Len(Queue) = Len(wire) + Len(txq) /\ Len(txq) \in Nat
        /\ \A i \in 1..Len(wire) : Queue[i] = wire[i]
    BY <1>1, ConcatIs DEF Queue
  <2>4. \A i \in 1..Len(wire) : wire[i][1] <= writes
    <3>1. \A i \in 1..Len(wire) : i \in 1..Len(Queue)
      BY <2>3
    <3>2. QED
      BY <2>3, <3>1 DEF WriteInv, NumbersOK
  <2>5. QED
    BY <1>3, <2>1, <2>2, <2>3, <2>4, EmptySeq
<1>4. QED
  BY <1>2, <1>3

LEMMA BeginWrite ==
  ASSUME WriteInv, Flush \/ Writing
  PROVE  WriteInv'
<1>1. wire' = wire /\ txq' \in {txq, <<>>}
  BY DEF Flush, Writing, Write, WebWrite, Flushed, line
<1>2. /\ txq' \in Seq(Sent) /\ InOrder(Queue')
      /\ Len(Queue') \in Nat /\ \A i \in 1..Len(Queue') : Queue'[i][1] <= writes
  BY <1>1, EmptiedQueue
<1>3. CASE Flush
  <2>1. pc' = "idle" /\ UNCHANGED <<left, after, writes>>
    BY <1>3 DEF Flush
  <2>2. OutOK'
    BY <1>1, <1>2, <2>1 DEF WriteInv, OutOK
  <2>3. NumbersOK' /\ LastOK'
    BY <1>2, <2>1 DEF NumbersOK, LastOK
  <2>4. QED
    BY <1>2, <2>2, <2>3 DEF WriteInv
<1>4. CASE Writing
  <2>1. PICK n \in Lengths : \E then \in Afters : Start(n, then)
    BY <1>4 DEF Writing, Write, WebWrite, Afters
  <2>2. /\ pc' = "write" /\ writes' = writes + 1 /\ writes < MaxWrites
        /\ left' = [size |-> n, sent |-> 0] /\ after' \in Afters /\ n \in Nat
    BY <2>1, SizesAssumption DEF Start
  <2>3. writes \in Nat /\ writes' \in 0..MaxWrites /\ writes' > 0
    BY <2>2, SizesAssumption DEF WriteInv, OutOK
  <2>4. OutOK'
    BY <1>1, <1>2, <2>2, <2>3 DEF WriteInv, OutOK
  <2>5. OutOK
    BY DEF WriteInv
  <2>6. NumbersOK'
    <3>1. Queue' \in Seq(Sent) /\ \A i \in 1..Len(Queue') : Queue'[i] \in Sent
      <4>1. Queue' = wire \o txq' /\ wire \in Seq(Sent)
        BY <1>1, <2>5 DEF Queue, OutOK
      <4>2. Queue' \in Seq(Sent)
        BY <1>2, <4>1, ConcatIs
      <4>3. QED
        BY <4>2, ElementOfSeq, LenProperties
    <3>2. ASSUME NEW i \in 1..Len(Queue') PROVE Queue'[i][1] <= writes' /\ Queue'[i][1] # writes'
      <4>1. Queue'[i][1] \in 1..MaxWrites
        BY <3>1 DEF Sent
      <4>2. Queue'[i][1] \in Nat /\ Queue'[i][1] <= writes
        BY <1>2, <4>1
      <4>3. QED
        BY <2>2, <2>3, <4>2
    <3>3. QED
      BY <3>2 DEF NumbersOK
  <2>7. LastOK'
    BY <2>2 DEF LastOK
  <2>8. QED
    BY <1>2, <2>4, <2>6, <2>7 DEF WriteInv
<1>5. QED
  BY <1>3, <1>4

LEMMA ConcatThree ==
  ASSUME NEW S, NEW a \in Seq(S), NEW b \in Seq(S), NEW c \in Seq(S)
  PROVE  a \o (b \o c) = (a \o b) \o c
BY ConcatAssociative

LEMMA PutWrite ==
  ASSUME WriteInv, NEW n, Put(n)
  PROVE  WriteInv'
<1> DEFINE q == [i \in 1..n |-> <<writes, left.sent + i>>]
           k == left.sent
<1>1. /\ pc = "write" /\ n \in 1..(left.size - k) /\ txq' = txq \o q
      /\ left' = [left EXCEPT !.sent = k + n]
      /\ UNCHANGED <<wire, after, writes, pc>>
  BY DEF Put, call
<1>2. /\ txq \in Seq(Sent) /\ wire \in Seq(Sent) /\ k \in Nat /\ left.size \in Nat
      /\ left \in [size : Nat, sent : Nat] /\ writes \in 1..MaxWrites
      /\ after \in Afters
  BY <1>1, SizesAssumption DEF WriteInv, OutOK
<1>3. n \in Nat /\ n > 0 /\ k + n <= left.size
  BY <1>1, <1>2
<1>4. \A i \in 1..n : <<writes, k + i>> \in Sent
  BY <1>2, <1>3 DEF Sent
<1>5. q \in Seq(Sent) /\ Len(q) = n /\ \A i \in 1..n : q[i] = <<writes, k + i>>
  BY <1>3, <1>4
<1>6. left' = [size |-> left.size, sent |-> k + n]
  BY <1>1, <1>2
<1> HIDE DEF q
<1>7. Queue' = Queue \o q /\ txq' \in Seq(Sent)
  <2>1. txq \o q \in Seq(Sent)
    BY <1>2, <1>5, ConcatIs
  <2>2. q \in Seq(Sent)
    BY <1>5
  <2>3. wire \o (txq \o q) = (wire \o txq) \o q
    BY <1>2, <2>2, ConcatThree
  <2>4. QED
    BY <1>1, <2>1, <2>3 DEF Queue
<1>8. OutOK'
  <2>1. k + n \in Nat
    BY <1>2, <1>3
  <2>2. left' \in [size : Nat, sent : Nat] /\ left'.sent = k + n /\ left'.size = left.size
    BY <1>2, <1>6, <2>1
  <2>3. left'.sent <= left'.size
    BY <1>3, <2>2
  <2>4. pc' = "write" /\ wire' = wire /\ after' = after /\ writes' = writes
    BY <1>1
  <2> HIDE DEF k
  <2>5. QED
    BY <1>2, <1>7, <2>2, <2>3, <2>4, SizesAssumption DEF OutOK
<1>9. Queue \in Seq(Sent) /\ \A i \in 1..Len(Queue) : Queue[i] \in Sent
  BY QueueIs DEF WriteInv
<1>10. /\ InOrder(Queue)
       /\ \A i \in 1..Len(Queue) : Queue[i][1] = writes => Queue[i][2] \in 1..k
       /\ \A i \in 1..Len(Queue) : Queue[i][1] <= writes
       /\ k > 0 => Len(Queue) > 0 /\ Queue[Len(Queue)] = <<writes, k>>
  BY <1>1 DEF WriteInv, NumbersOK, LastOK
<1>11. InOrder(Queue')
  <2>1. writes \in Nat
    BY <1>2
  <2>2. QED
    BY <1>2, <1>5, <1>7, <1>9, <1>10, <2>1, OrderOfMore
<1> DEFINE l == Len(Queue)
<1>12. /\ Len(Queue') = l + n /\ l \in Nat
       /\ \A x \in 1..l : Queue'[x] = Queue[x]
       /\ \A x \in 1..(l + n) : x > l => Queue'[x] = q[x - l]
  BY <1>5, <1>7, <1>9, ConcatIs
<1> HIDE DEF l, k
<1>13. ASSUME NEW i \in 1..(l + n)
       PROVE  /\ Queue'[i][1] <= writes
              /\ Queue'[i][1] = writes => Queue'[i][2] \in 1..(k + n)
  <2>1. CASE i <= l
    <3>1. i \in 1..l
      BY <1>12, <2>1
    <3>2. Queue[i][1] = writes => Queue[i][2] \in 1..(k + n)
      BY <1>2, <1>3, <1>10, <3>1 DEF l
    <3>3. QED
      BY <1>10, <1>12, <3>1, <3>2 DEF l
  <2>2. CASE i > l
    <3>1. i - l \in 1..n
      BY <1>3, <1>12, <2>2
    <3>2. Queue'[i] = <<writes, k + (i - l)>>
      BY <1>5, <1>12, <2>2, <3>1
    <3>3. Queue'[i][1] = writes /\ Queue'[i][2] = k + (i - l)
      BY <3>2
    <3>4. k + (i - l) \in 1..(k + n) /\ writes <= writes
      BY <1>2, <1>3, <3>1
    <3>5. QED
      BY <3>3, <3>4
  <2>3. QED
    BY <2>1, <2>2, <1>12, <1>3
<1>14. left'.sent = k + n /\ pc' = "write" /\ writes' = writes
  BY <1>1, <1>6
<1>15. NumbersOK'
  BY <1>12, <1>13, <1>14 DEF NumbersOK
<1>16. LastOK'
  <2>1. l + n \in 1..(l + n) /\ l + n > l /\ (l + n) - l = n /\ n \in 1..n /\ l + n > 0
    BY <1>3, <1>12
  <2>2. Queue'[l + n] = q[n]
    BY <1>12, <2>1
  <2>3. q[n] = <<writes, k + n>>
    BY <1>5, <2>1
  <2>4. QED
    BY <1>12, <1>14, <2>1, <2>2, <2>3 DEF LastOK
<1>17. QED
  BY <1>8, <1>11, <1>15, <1>16 DEF WriteInv

(* bwrite returns: of the write nothing more comes but the end of line. *)
LEMMA EndWrite ==
  ASSUME WriteInv, WriteEnds \/ WriteFails
  PROVE  WriteInv'
<1>1. /\ pc = "write" /\ pc' \in {"idle", "cr", "answer"} /\ after' = "idle"
      /\ left' = [size |-> 0, sent |-> 0] /\ UNCHANGED <<txq, wire, writes>>
  BY DEF WriteEnds, WriteFails, WriteReturns
<1>2. Queue' = Queue
  BY <1>1 DEF Queue
<1>3. OutOK'
  BY <1>1 DEF WriteInv, OutOK, Afters
<1>4. NumbersOK'
  <2>1. \A i \in 1..Len(Queue) : Queue[i][1] <= writes /\ (Queue[i][1] = writes => Queue[i][2] # Cr)
    BY <1>1 DEF WriteInv, NumbersOK, Cr
  <2>2. QED
    BY <1>1, <1>2, <2>1 DEF NumbersOK
<1>5. LastOK'
  BY <1>1 DEF LastOK
<1>6. QED
  BY <1>2, <1>3, <1>4, <1>5 DEF WriteInv

LEMMA CrWrite ==
  ASSUME WriteInv, EndLine
  PROVE  WriteInv'
<1>1. /\ pc = "cr" /\ pc' = "idle" /\ UNCHANGED <<wire, left, after, writes>>
      /\ txq' = txq \/ txq' = Append(txq, <<writes, Cr>>)
  BY DEF EndLine
<1>2. txq \in Seq(Sent) /\ wire \in Seq(Sent) /\ writes \in 1..MaxWrites
  BY <1>1, SizesAssumption DEF WriteInv, OutOK
<1>3. /\ InOrder(Queue) /\ Queue \in Seq(Sent)
      /\ \A i \in 1..Len(Queue) : Queue[i][1] <= writes /\ (Queue[i][1] = writes => Queue[i][2] # Cr)
  BY <1>1, QueueIs DEF WriteInv, NumbersOK
<1>4. CASE txq' = txq
  <2>1. Queue' = Queue
    BY <1>1, <1>4 DEF Queue
  <2>2. OutOK' /\ NumbersOK' /\ LastOK'
    BY <1>1, <1>3, <1>4, <2>1 DEF WriteInv, OutOK, NumbersOK, LastOK
  <2>3. QED
    BY <1>3, <2>1, <2>2 DEF WriteInv
<1>5. CASE txq' = Append(txq, <<writes, Cr>>)
  <2> DEFINE e == <<writes, Cr>>
  <2>1. e \in Sent /\ e[1] = writes
    BY <1>2 DEF Sent, Cr
  <2> HIDE DEF e
  <2>2. txq' = txq \o <<e>> /\ <<e>> \in Seq(Sent) /\ Append(Queue, e) = Queue \o <<e>>
        /\ txq' \in Seq(Sent)
    <3>1. txq' = txq \o <<e>>
      BY <1>2, <1>5, <2>1, AppendIsConcat DEF e
    <3>2. Append(Queue, e) = Queue \o <<e>>
      BY <1>3, <2>1, AppendIsConcat
    <3>3. <<e>> \in Seq(Sent)
      BY <2>1
    <3>4. txq' \in Seq(Sent)
      BY <1>2, <3>1, <3>3, ConcatIs
    <3>5. QED
      BY <3>1, <3>2, <3>3, <3>4
  <2>3. Queue' = Append(Queue, e)
    <3>1. wire \o (txq \o <<e>>) = (wire \o txq) \o <<e>>
      BY <1>2, <2>2, ConcatAssociative
    <3>2. QED
      BY <1>1, <2>2, <3>1 DEF Queue
  <2>4. InOrder(Queue')
    BY <1>2, <1>3, <2>3, OrderOfEnd DEF e
  <2>5. /\ Len(Queue') = Len(Queue) + 1 /\ Len(Queue) \in Nat /\ Queue'[Len(Queue) + 1] = e
        /\ \A x \in 1..Len(Queue) : Queue'[x] = Queue[x]
    BY <1>3, <2>1, <2>3, AppendProperties, LenProperties
  <2>6. \A i \in 1..Len(Queue') : Queue'[i][1] <= writes
    <3> SUFFICES ASSUME NEW i \in 1..Len(Queue') PROVE Queue'[i][1] <= writes
      OBVIOUS
    <3>1. CASE i = Len(Queue) + 1
      <4>1. Queue'[i][1] = writes /\ writes \in Nat
        BY <1>2, <2>1, <2>5, <3>1
      <4>2. QED
        BY <4>1
    <3>2. CASE i # Len(Queue) + 1
      <4>1. i \in 1..Len(Queue)
        BY <2>5, <3>2
      <4>2. QED
        BY <1>3, <2>5, <4>1
    <3>3. QED
      BY <3>1, <3>2
  <2>7. OutOK'
    BY <1>1, <1>2, <2>2 DEF WriteInv, OutOK
  <2>8. NumbersOK' /\ LastOK'
    BY <1>1, <2>6 DEF NumbersOK, LastOK
  <2>9. QED
    BY <2>4, <2>7, <2>8 DEF WriteInv
<1>6. QED
  BY <1>1, <1>4, <1>5

LEMMA StepWrite == WriteInv /\ [Next]_vars => WriteInv'
<1> SUFFICES ASSUME WriteInv, [Next]_vars PROVE WriteInv'
  OBVIOUS
<1>1. CASE \/ \E b \in Bytes : Arrive(b)
           \/ Waiting \/ Gets \/ ReadArray \/ Poll \/ Answer \/ GiveUp
           \/ (\E on \in BOOLEAN : SetCb(on)) \/ Scan \/ CallbackEnds
  <2>1. UNCHANGED out
    BY <1>1 DEF Arrive, Waiting, Expect, Gets, ReadArray, Read, Poll, Answer, GiveUp, SetCb,
                Scan, CallbackEnds
  <2>2. pc' = pc \/ pc' \notin {"write", "cr"}
    BY <1>1 DEF Arrive, Waiting, Expect, Gets, ReadArray, Read, Poll, Answer, GiveUp, Return,
                SetCb, Scan, CallbackEnds
  <2>3. QED
    BY <2>1, <2>2, SilentWrite
<1>2. CASE Transmit
  BY <1>2, TransmitWrite
<1>3. CASE Flush \/ Writing
  BY <1>3, BeginWrite
<1>4. CASE \E n \in 1..left.size : Put(n)
  BY <1>4, PutWrite
<1>5. CASE WriteEnds \/ WriteFails
  BY <1>5, EndWrite
<1>6. CASE EndLine
  BY <1>6, CrWrite
<1>7. CASE UNCHANGED vars
  BY <1>7, SilentWrite DEF vars
<1>8. QED
  BY <1>1, <1>2, <1>3, <1>4, <1>5, <1>6, <1>7 DEF Next, InCall

LEMMA WriteInvariant == Spec => []WriteInv
BY InitWrite, StepWrite, PTL DEF Spec

(* Whatever is flushed, and however write(2) cuts a text, the bytes of it   *)
(* that leave are its first ones, in order and none twice.                  *)
THEOREM TextsInOrder == Spec => []TextFromStart
<1>1. WriteInv => TextFromStart
  <2> SUFFICES ASSUME WriteInv PROVE TextFromStart
    OBVIOUS
  <2>1. InOrder(wire)
    BY OrderOfFirst DEF WriteInv, OutOK, Queue
  <2>2. QED
    BY <2>1 DEF InOrder, TextFromStart
<1>2. QED
  BY <1>1, WriteInvariant, PTL

-----------------------------------------------------------------------------
(* The types, and what the two invariants above leave out of them.          *)

CallOK == pc \in {"idle", "write", "cr", "answer"} \cup Expecting
SizesOK == Len(rx) <= MaxArrived /\ Len(loco) < Bufsz
ScriptOK == want \in Seq(Seq(Bytes)) /\ piece \in Seq(Bytes)
FlagsOK == hooked \in BOOLEAN /\ dirty \in BOOLEAN /\ incb \in BOOLEAN /\ owed \in BOOLEAN

TypeInv == CallOK /\ SizesOK /\ ScriptOK /\ FlagsOK

LEMMA InitTypes == Init => TypeInv
<1> SUFFICES ASSUME Init PROVE TypeInv
  OBVIOUS
<1>1. CallOK /\ ScriptOK
  BY DEF Init, CallOK, ScriptOK
<1>2. Len(<<>>) = 0
  OBVIOUS
<1>3. SizesOK
  BY <1>2, SizesAssumption DEF Init, SizesOK
<1>4. FlagsOK
  BY Zenon DEF Init, FlagsOK
<1>5. QED
  BY <1>1, <1>3, <1>4 DEF TypeInv

LEMMA CallStep ==
  ASSUME CallOK, Next
  PROVE  CallOK'
<1> USE DEF CallOK, Expecting, line, out, call, locals, flags, told
<1>1. CASE (\E b \in Bytes : Arrive(b)) \/ Transmit \/ Flush
  BY <1>1 DEF Arrive, Transmit, Flush
<1>2. CASE Waiting
  BY <1>2 DEF Waiting, Expect
<1>3. CASE Gets \/ ReadArray \/ Answer
  BY <1>3 DEF Gets, ReadArray, Answer, Read
<1>4. CASE Writing
  BY <1>4 DEF Writing, Write, WebWrite, Start
<1>5. CASE Poll \/ GiveUp
  BY <1>5 DEF Poll, GiveUp, Return
<1>6. CASE (\E n \in 1..left.size : Put(n)) \/ WriteEnds \/ WriteFails \/ EndLine
  BY <1>6 DEF Put, WriteEnds, WriteFails, WriteReturns, EndLine
<1>7. CASE (\E on \in BOOLEAN : SetCb(on)) \/ Scan \/ CallbackEnds
  BY <1>7 DEF SetCb, Scan, CallbackEnds
<1>8. QED
  BY <1>1, <1>2, <1>3, <1>4, <1>5, <1>6, <1>7 DEF Next, InCall

(* The buffer of a call never outgrows the one it was made with.            *)
LEMMA SizesStep ==
  ASSUME StreamInv, SizesOK, Next
  PROVE  SizesOK'
<1> USE DEF line, out, call, locals, flags, told
<1>1. Len(<<>>) = 0 /\ Bufsz \in Nat /\ Bufsz > 2
  BY SizesAssumption
<1>2. CASE \E b \in Bytes : Arrive(b)
  <2>1. PICK b \in Bytes : Arrive(b)
    BY <1>2
  <2>2. /\ Len(rx) < MaxArrived /\ rx' = Append(rx, b) /\ loco' = loco /\ rx \in Seq(Bytes)
    BY <2>1 DEF Arrive, StreamInv, LineOK
  <2>3. Len(rx') = Len(rx) + 1 /\ Len(rx) \in Nat
    BY <2>2
  <2>4. QED
    BY <2>2, <2>3, SizesAssumption DEF SizesOK
<1>3. CASE Waiting
  <2>1. rx' = rx /\ loco' = Zeros
    BY <1>3 DEF Waiting, Expect
  <2>2. Len(Zeros) = Bufsz - 1
    BY <1>1 DEF Zeros
  <2>3. QED
    BY <1>1, <2>1, <2>2 DEF SizesOK
<1>4. CASE Poll
  <2>1. /\ rx' = rx /\ pc \in Expecting /\ Count > 0
        /\ loco' = Buffer \/ loco' = <<>>
    BY <1>4 DEF Poll, Return
  <2>2. Count \in Nat /\ Count <= Bufsz - 2
    BY ChunkText DEF StreamInv
  <2>3. Len(Buffer) < Bufsz
    <3>1. CASE pc = "str"
      BY <1>1, <2>1, <3>1, PollText
    <3>2. CASE pc # "str"
      <4>1. Buffer = Resized
        BY <3>2 DEF Buffer
      <4>2. Len(Resized) = Count
        <5> HIDE DEF Count
        <5>1. QED BY <2>2 DEF Resized
      <4>3. QED
        BY <1>1, <2>2, <4>1, <4>2
    <3>3. QED
      BY <3>1, <3>2
  <2>4. QED
    BY <1>1, <2>1, <2>3 DEF SizesOK
<1>5. CASE GiveUp
  BY <1>1, <1>5 DEF GiveUp, Return, SizesOK
<1>6. CASE \/ Transmit \/ Gets \/ ReadArray \/ Answer \/ Flush \/ Writing
           \/ (\E n \in 1..left.size : Put(n)) \/ WriteEnds \/ WriteFails \/ EndLine
           \/ (\E on \in BOOLEAN : SetCb(on)) \/ Scan \/ CallbackEnds
  <2>1. UNCHANGED <<rx, loco>>
    BY <1>6 DEF Transmit, Gets, ReadArray, Answer, Read, Flush, Writing, Write, WebWrite, Put,
                WriteEnds, WriteFails, EndLine, SetCb, Scan, CallbackEnds
  <2>2. QED
    BY <2>1 DEF SizesOK
<1>7. QED
  BY <1>2, <1>3, <1>4, <1>5, <1>6 DEF Next, InCall

(* What the script passes in, and what it is handed.                        *)
LEMMA ScriptStep ==
  ASSUME StreamInv, ScriptOK, Next
  PROVE  ScriptOK'
<1> USE DEF line, out, call, locals, flags, told
<1>1. want' \in Seq(Seq(Bytes))
  <2>1. <<>> \in Seq(Seq(Bytes)) /\ want \in Seq(Seq(Bytes))
    BY DEF ScriptOK
  <2>2. CASE Waiting
    <3>1. PICK kind : \/ \E a \in Arrays : Expect(kind, a)
                      \/ \E s \in Strings : Expect(kind, <<s>>)
      BY <2>2 DEF Waiting
    <3>2. want' \in Arrays \/ \E s \in Strings : want' = <<s>>
      BY <3>1 DEF Expect
    <3>3. CASE want' \in Arrays
      BY <3>3, TokensAssumption
    <3>4. CASE \E s \in Strings : want' = <<s>>
      <4>1. PICK s \in Strings : want' = <<s>>
        BY <3>4
      <4>2. s \in Seq(Bytes)
        BY TokensAssumption
      <4>3. QED
        BY <4>1, <4>2
    <3>5. QED
      BY <3>2, <3>3, <3>4
  <2>3. CASE ~Waiting
    <3>1. want' = want \/ want' = <<>>
      BY <2>3 DEF Next, InCall, Arrive, Transmit, Gets, ReadArray, Answer, Read, Flush, Writing,
                  Write, WebWrite, Put, WriteEnds, WriteFails, EndLine, SetCb, Scan,
                  CallbackEnds, Poll, GiveUp, Return
    <3>2. QED
      BY <2>1, <3>1
  <2>4. QED
    BY <2>2, <2>3
<1>2. piece' \in Seq(Bytes)
  <2>1. rx \in Seq(Bytes) /\ taken \in 0..Len(rx) /\ mark \in 0..taken /\ piece \in Seq(Bytes)
    BY DEF StreamInv, LineOK, ScriptOK
  <2>2. Len(rx) \in Nat /\ taken \in Nat /\ mark \in Nat
    BY <2>1, LenProperties
  <2>3. [Stream!Next]_(Stream!vars)
    BY StreamStep
  <2>4. CASE piece' = piece
    BY <2>1, <2>4
  <2>5. CASE Stream!Deliver
    <3>1. PICK n \in taken..Len(rx) : \E i \in (mark + 1)..n : \E j \in i..n :
             piece' = SubSeq(rx, i, j)
      BY <2>5 DEF Stream!Deliver
    <3>2. PICK i \in (mark + 1)..n : \E j \in i..n : piece' = SubSeq(rx, i, j)
      BY <3>1
    <3>3. PICK j \in i..n : piece' = SubSeq(rx, i, j)
      BY <3>2
    <3>4. i \in 1..Len(rx) /\ j \in i..Len(rx) /\ i \in Int /\ j \in Int
      BY <2>2
    <3>5. \A x \in i..j : rx[x] \in Bytes
      BY <2>1, <2>2, <3>4
    <3>6. SubSeq(rx, i, j) \in Seq(Bytes)
      BY <3>4, <3>5, SubSeqProperties
    <3>7. QED
      BY <3>3, <3>6
  <2>6. QED
    BY <2>3, <2>4, <2>5 DEF Stream!Next, Stream!Arrive, Stream!Skip, Stream!vars
<1>3. QED
  BY <1>1, <1>2 DEF ScriptOK

LEMMA FlagsStep ==
  ASSUME FlagsOK, Next
  PROVE  FlagsOK'
<1> USE DEF line, out, call, locals, flags, told, FlagsOK
<1>1. CASE (\E b \in Bytes : Arrive(b)) \/ Transmit \/ Flush
  BY <1>1, Zenon DEF Arrive, Transmit, Flush
<1>2. CASE Waiting
  BY <1>2, Zenon DEF Waiting, Expect
<1>3. CASE Gets \/ ReadArray \/ Answer
  BY <1>3, Zenon DEF Gets, ReadArray, Answer, Read
<1>4. CASE Writing
  BY <1>4, Zenon DEF Writing, Write, WebWrite, Start
<1>5. CASE Poll \/ GiveUp
  BY <1>5, Zenon DEF Poll, GiveUp, Return
<1>6. CASE \E n \in 1..left.size : Put(n)
  BY <1>6, Zenon DEF Put
<1>7. CASE WriteEnds \/ WriteFails
  <2>1. UNCHANGED <<hooked, incb>>
    BY <1>7 DEF WriteEnds, WriteFails
  <2>2. Accepted(TRUE) \/ Accepted(FALSE)
    <3>1. CASE left.sent > 0
      BY <1>7, <3>1 DEF WriteEnds, WriteFails, Accepted
    <3>2. CASE ~(left.sent > 0)
      BY <1>7, <3>2 DEF WriteEnds, WriteFails, Accepted
    <3>3. QED
      BY <3>1, <3>2
  <2>3. dirty' \in BOOLEAN /\ owed' \in BOOLEAN
    BY <2>2, Zenon DEF Accepted
  <2>4. QED
    BY <2>1, <2>3, Zenon
<1>8. CASE EndLine
  <2>1. UNCHANGED <<hooked, incb>> /\ \E yes \in BOOLEAN : Accepted(yes)
    BY <1>8 DEF EndLine
  <2>2. dirty' \in BOOLEAN /\ owed' \in BOOLEAN
    BY <2>1, Zenon DEF Accepted
  <2>3. QED
    BY <2>1, <2>2, Zenon
<1>9. CASE (\E on \in BOOLEAN : SetCb(on)) \/ CallbackEnds
  BY <1>9, Zenon DEF SetCb, CallbackEnds
<1>10. CASE Scan
  <2>1. hooked' = hooked /\ owed' = FALSE
    BY <1>10 DEF Scan
  <2>2. PICK n \in 0..Count : incb' = (n > 0) /\ dirty' = (Count > 0 /\ n = 0)
    BY <1>10 DEF Scan
  <2>3. (incb' = TRUE \/ incb' = FALSE) /\ (dirty' = TRUE \/ dirty' = FALSE)
    BY <2>2
  <2>4. QED
    BY <2>1, <2>3, Zenon
<1>11. QED
  BY <1>1, <1>2, <1>3, <1>4, <1>5, <1>6, <1>7, <1>8, <1>9, <1>10 DEF Next, InCall

LEMMA StepTypes == StreamInv /\ TypeInv /\ [Next]_vars => TypeInv'
<1> SUFFICES ASSUME StreamInv, TypeInv, [Next]_vars PROVE TypeInv'
  OBVIOUS
<1>1. CASE Next
  BY <1>1, CallStep, SizesStep, ScriptStep, FlagsStep DEF TypeInv
<1>2. CASE UNCHANGED vars
  BY <1>2 DEF vars, line, out, call, locals, flags, told,
              TypeInv, CallOK, SizesOK, ScriptOK, FlagsOK
<1>3. QED
  BY <1>1, <1>2

(* The state keeps its types, the buffers of the calls their bounds.        *)
THEOREM UartTypes == Spec => []TypeOK
<1>1. StreamInv /\ WriteInv /\ TypeInv => TypeOK
  <2> SUFFICES ASSUME StreamInv, WriteInv, TypeInv PROVE TypeOK
    OBVIOUS
  <2>1. /\ rx \in Seq(Bytes) /\ taken \in 0..Len(rx) /\ start \in 0..taken /\ mark \in 0..taken
        /\ loco \in Seq(Bytes \cup {Nul}) /\ t1 \in Seq(Bytes \cup {Nul})
    BY DEF StreamInv, LineOK, Chars
  <2>2. /\ txq \in Seq(Sent) /\ wire \in Seq(Sent)
        /\ left \in [size : Nat, sent : Nat] /\ left.sent <= left.size
        /\ after \in Afters /\ writes \in 0..MaxWrites
    BY DEF WriteInv, OutOK
  <2>3. QED
    BY <2>1, <2>2, Zenon DEF TypeInv, CallOK, SizesOK, ScriptOK, FlagsOK, TypeOK
<1>2. QED
  BY <1>1, InitStream, StreamStep, WriteInvariant, InitTypes, StepTypes, PTL DEF Spec
=============================================================================
