----------------------------- MODULE WireProofs -----------------------------
(***************************************************************************)
(* The receive buffer is a queue of bytes: its compaction is not visible,  *)
(* whatever was appended and consumed before.                              *)
(***************************************************************************)
EXTENDS Wire, SequenceTheorems, TLAPS

\* The states of a buffer of bytes of a set S.
Buffers(S) == {b \in [bytes : Seq(S), read : Nat] : b.read <= Len(b.bytes)}

\* What data returns.
LEMMA DataProperties ==
  ASSUME NEW S, NEW s \in Seq(S), NEW r \in 0 .. Len(s)
  PROVE  /\ SubSeq(s, r + 1, Len(s)) \in Seq(S)
         /\ Len(SubSeq(s, r + 1, Len(s))) = Len(s) - r
         /\ \A i \in 1 .. Len(s) - r : SubSeq(s, r + 1, Len(s))[i] = s[r + i]
<1> DEFINE n == Len(s)
           m == r + 1
<1>1. n \in Nat /\ r \in Nat /\ r <= n /\ m \in Int /\ n \in Int
  OBVIOUS
<1>2. \A i \in m .. n : s[i] \in S
  OBVIOUS
<1> HIDE DEF n, m
<1>3. /\ SubSeq(s, m, n) \in Seq(S)
      /\ Len(SubSeq(s, m, n)) = IF m <= n THEN n - m + 1 ELSE 0
      /\ \A i \in 1 .. n - m + 1 : SubSeq(s, m, n)[i] = s[m + i - 1]
  BY <1>1, <1>2, SubSeqProperties
<1>4. n - m + 1 = n - r /\ \A i \in 1 .. n - r : m + i - 1 = r + i
  BY <1>1 DEF m
<1>5. Len(SubSeq(s, m, n)) = n - r
  BY <1>1, <1>3 DEF m
<1>6. \A i \in 1 .. n - r : SubSeq(s, m, n)[i] = s[r + i]
  BY <1>3, <1>4
<1> QED BY <1>3, <1>5, <1>6 DEF n, m

\* data by the fields of a buffer.
LEMMA DataOf ==
  ASSUME NEW s, NEW r
  PROVE  /\ data([bytes |-> s, read |-> r]) = SubSeq(s, r + 1, Len(s))
         /\ data([bytes |-> s, read |-> 0]) = SubSeq(s, 1, Len(s))
<1>1. \A x : data(x) = SubSeq(x.bytes, x.read + 1, Len(x.bytes))
  BY DEF data
<1>2. [bytes |-> s, read |-> r].bytes = s /\ [bytes |-> s, read |-> r].read = r
  OBVIOUS
<1>3. [bytes |-> s, read |-> 0].bytes = s /\ [bytes |-> s, read |-> 0].read + 1 = 1
  OBVIOUS
<1> QED BY <1>1, <1>2, <1>3 DEF data

\* Two sequences with the same elements are the same.
LEMMA SameElements ==
  ASSUME NEW S, NEW s \in Seq(S), NEW t \in Seq(S), Len(s) = Len(t),
         \A i \in 1 .. Len(s) : s[i] = t[i]
  PROVE  s = t
OBVIOUS

\* append compacts the buffer when half of it was read: what is left to read is
\* what there was, followed by the new bytes.
THEOREM AppendAddsBytes ==
  ASSUME NEW S, NEW b \in Buffers(S), NEW new \in Seq(S)
  PROVE  /\ append(b, new) \in Buffers(S)
         /\ data(append(b, new)) = data(b) \o new
<1> DEFINE s == b.bytes
           r == b.read
           d == data(b)
<1>1. s \in Seq(S) /\ r \in 0 .. Len(s) /\ Len(s) \in Nat /\ b = [bytes |-> s, read |-> r]
  BY DEF Buffers
<1>2. data(b) = SubSeq(s, r + 1, Len(s))
  BY DEF data
<1> HIDE DEF s, r, d
<1>3. d \in Seq(S) /\ Len(d) = Len(s) - r /\ \A i \in 1 .. Len(s) - r : d[i] = s[r + i]
  BY <1>1, <1>2, DataProperties DEF d
<1>4. d \o new \in Seq(S) /\ Len(d \o new) = Len(s) - r + Len(new) /\ Len(new) \in Nat
  BY <1>1, <1>3
<1>5. CASE append(b, new) = [bytes |-> d \o new, read |-> 0]
  <2> DEFINE u == d \o new
  <2>0. u \in Seq(S) /\ append(b, new) = [bytes |-> u, read |-> 0]
    BY <1>4, <1>5
  <2> HIDE DEF u
  <2>1. append(b, new) \in Buffers(S)
    <3>1. Len(u) \in Nat
      BY <2>0
    <3> QED BY <2>0, <3>1 DEF Buffers
  <2>2. data(append(b, new)) = SubSeq(u, 1, Len(u))
    BY <2>0, DataOf
  <2>3. SubSeq(u, 1, Len(u)) = u
    BY <2>0, SubSeqFull
  <2> QED BY <2>1, <2>2, <2>3 DEF d, u
<1>6. CASE append(b, new) = [bytes |-> s \o new, read |-> r]
  <2> DEFINE t == s \o new
  <2>1. /\ t \in Seq(S) /\ Len(t) = Len(s) + Len(new) /\ r \in 0 .. Len(t)
        /\ \A i \in 1 .. Len(s) : t[i] = s[i]
        /\ \A i \in 1 .. Len(new) : t[Len(s) + i] = new[i]
    BY <1>1, <1>4
  <2>2. append(b, new) = [bytes |-> t, read |-> r]
    BY <1>6
  <2> HIDE DEF t
  <2>3. append(b, new) \in Buffers(S)
    BY <1>1, <2>1, <2>2 DEF Buffers
  <2> DEFINE e == SubSeq(t, r + 1, Len(t))
  <2>4. data(append(b, new)) = e
    BY <2>2, DataOf
  <2>5. e \in Seq(S) /\ Len(e) = Len(t) - r /\ \A i \in 1 .. Len(t) - r : e[i] = t[r + i]
    BY <2>1, DataProperties
  <2> HIDE DEF e
  <2>6. Len(e) = Len(d \o new)
    BY <1>1, <1>4, <2>1, <2>5
  <2>7. ASSUME NEW i \in 1 .. Len(e)
        PROVE  e[i] = (d \o new)[i]
    <3>1. e[i] = t[r + i] /\ i \in Nat \ {0} /\ i <= Len(s) + Len(new) - r
      BY <1>1, <1>4, <2>1, <2>5
    <3>2. CASE i <= Len(s) - r
      <4>1. r + i \in 1 .. Len(s) /\ i \in 1 .. Len(s) - r /\ i \in 1 .. Len(d)
        BY <1>1, <1>3, <3>1, <3>2
      <4>2. (d \o new)[i] = d[i]
        BY <1>3, <4>1
      <4> QED BY <1>3, <2>1, <3>1, <4>1, <4>2
    <3>3. CASE i > Len(s) - r
      <4> DEFINE j == i - (Len(s) - r)
      <4>1. j \in 1 .. Len(new) /\ r + i = Len(s) + j /\ i = Len(d) + j
        <5>1. \A l, q, k, x \in Nat : x <= l + k - q /\ x > l - q =>
                /\ x - (l - q) \in 1 .. k /\ q + x = l + (x - (l - q)) /\ x = (l - q) + (x - (l - q))
          OBVIOUS
        <5>2. Len(s) \in Nat /\ r \in Nat /\ Len(new) \in Nat /\ i \in Nat /\ Len(d) = Len(s) - r
          BY <1>1, <1>3, <1>4, <3>1
        <5> QED BY <3>1, <3>3, <5>1, <5>2
      <4> HIDE DEF j
      <4>2. (d \o new)[Len(d) + j] = new[j]
        BY <1>3, <4>1
      <4> QED BY <2>1, <3>1, <4>1, <4>2
    <3>4. i <= Len(s) - r \/ i > Len(s) - r
      <4>1. Len(s) \in Nat /\ r \in Nat /\ i \in Nat
        BY <1>1, <3>1
      <4> QED BY <4>1
    <3> QED BY <3>2, <3>3, <3>4
  <2>8. e = d \o new
    BY <1>4, <2>5, <2>6, <2>7, SameElements
  <2> QED BY <2>3, <2>4, <2>8 DEF d
<1> QED BY <1>1, <1>5, <1>6 DEF append, s, r, d

\* consume clears a buffer that is read to its end: what is left to read is what
\* there was, without its first bytes.
THEOREM ConsumeDropsBytes ==
  ASSUME NEW S, NEW b \in Buffers(S), NEW n \in 0 .. Len(data(b))
  PROVE  /\ consume(b, n) \in Buffers(S)
         /\ data(consume(b, n)) = SubSeq(data(b), n + 1, Len(data(b)))
<1> DEFINE s == b.bytes
           r == b.read
           d == data(b)
<1>1. s \in Seq(S) /\ r \in 0 .. Len(s) /\ Len(s) \in Nat /\ b = [bytes |-> s, read |-> r]
  BY DEF Buffers
<1>2. data(b) = SubSeq(s, r + 1, Len(s))
  BY DEF data
<1> HIDE DEF s, r
<1>3. d \in Seq(S) /\ Len(d) = Len(s) - r /\ \A i \in 1 .. Len(s) - r : d[i] = s[r + i]
  BY <1>1, <1>2, DataProperties
<1>4. n \in 0 .. Len(d)
  OBVIOUS
<1> HIDE DEF d
<1> DEFINE e == SubSeq(d, n + 1, Len(d))
<1>5. e \in Seq(S) /\ Len(e) = Len(d) - n /\ \A i \in 1 .. Len(d) - n : e[i] = d[n + i]
  BY <1>3, <1>4, DataProperties
<1> HIDE DEF e
<1>6. CASE r + n = Len(s)
  <2>1. consume(b, n) = NoBytes
    BY <1>6 DEF consume, r, s
  <2>2. NoBytes \in Buffers(S) /\ data(NoBytes) = <<>>
    BY DEF NoBytes, Buffers, data
  <2>3. Len(e) = 0
    BY <1>1, <1>3, <1>4, <1>5, <1>6
  <2>4. e = <<>>
    BY <1>5, <2>3
  <2> QED BY <2>1, <2>2, <2>4 DEF e, d
<1>7. CASE r + n # Len(s)
  <2>1. consume(b, n) = [bytes |-> s, read |-> r + n]
    BY <1>1, <1>7 DEF consume
  <2>2. r + n \in 0 .. Len(s)
    BY <1>1, <1>3, <1>4
  <2>3. consume(b, n) \in Buffers(S)
    BY <1>1, <2>1, <2>2 DEF Buffers
  <2> DEFINE f == SubSeq(s, r + n + 1, Len(s))
             k == r + n
  <2>4. data(consume(b, n)) = f
    BY <2>1, DataOf
  <2>5. f \in Seq(S) /\ Len(f) = Len(s) - k /\ \A i \in 1 .. Len(s) - k : f[i] = s[k + i]
    <3>1. k \in 0 .. Len(s) /\ f = SubSeq(s, k + 1, Len(s))
      BY <2>2
    <3> HIDE DEF k, f
    <3> QED BY <1>1, <3>1, DataProperties
  <2> HIDE DEF f
  <2>6. Len(f) = Len(e)
    BY <1>1, <1>3, <1>4, <1>5, <2>5
  <2>7. ASSUME NEW i \in 1 .. Len(f)
        PROVE  f[i] = e[i]
    <3>1. i \in 1 .. Len(d) - n /\ n + i \in 1 .. Len(s) - r /\ k + i = r + (n + i)
      BY <1>1, <1>3, <1>4, <2>5
    <3>2. i \in 1 .. Len(s) - k
      BY <2>5
    <3>3. f[i] = s[r + (n + i)]
      BY <2>5, <3>1, <3>2
    <3> QED BY <1>3, <1>5, <3>1, <3>3
  <2>8. f = e
    BY <1>5, <2>5, <2>6, <2>7, SameElements
  <2> QED BY <2>3, <2>4, <2>8 DEF e, d
<1> QED BY <1>6, <1>7 DEF d, e
=============================================================================
