-------------------------- MODULE AsyncViewProofs --------------------------
(***************************************************************************)
(* Lemmas about the requests in flight of a page: what a sequence holds    *)
(* after a request is added to it, taken from it, or answered.             *)
(***************************************************************************)
EXTENDS AsyncView, Integers, SequencesExt, SequenceTheorems, TLAPS

\* A sequence of whatever values it holds.
IsSeq(s) == s \in Seq({s[i] : i \in DOMAIN s})

\* A sequence is known by its length and its elements.
LEMMA FromElements ==
  ASSUME NEW s, NEW n \in Nat, s = [i \in 1 .. n |-> s[i]]
  PROVE  IsSeq(s) /\ Len(s) = n
  <1> DEFINE S == {s[i] : i \in DOMAIN s}
  <1>1. DOMAIN s = 1 .. n
    OBVIOUS
  <1>2. \A i \in 1 .. n : s[i] \in S
    BY <1>1
  <1> HIDE DEF S
  <1>3. s \in [1 .. n -> S]
    BY <1>2
  <1>4. s \in Seq(S)
    BY <1>3, SeqDef
  <1>5. DOMAIN s = 1 .. Len(s) /\ Len(s) \in Nat
    BY <1>4, LenProperties
  <1>6. Len(s) = n
    <2>1. \A k, m \in Nat : k < m => m \in 1 .. m /\ m \notin 1 .. k
      OBVIOUS
    <2> QED
      BY <1>1, <1>5, <2>1
  <1> QED
    BY <1>4, <1>6 DEF IsSeq, S

LEMMA Indices ==
  ASSUME NEW s, IsSeq(s)
  PROVE  /\ Len(s) \in Nat /\ DOMAIN s = 1 .. Len(s)
         /\ s = [i \in 1 .. Len(s) |-> s[i]]
  <1> DEFINE S == {s[i] : i \in DOMAIN s}
  <1>1. s \in Seq(S)
    BY DEF IsSeq
  <1> HIDE DEF S
  <1> QED
    BY <1>1, LenProperties

\* A request more.
LEMMA Appended ==
  ASSUME NEW s, IsSeq(s), NEW e
  PROVE  /\ IsSeq(Append(s, e)) /\ Len(Append(s, e)) = Len(s) + 1
         /\ \A i \in DOMAIN s : Append(s, e)[i] = s[i]
         /\ Append(s, e)[Len(s) + 1] = e
  <1>1. Append(s, e) = [i \in 1 .. Len(s) + 1 |-> IF i <= Len(s) THEN s[i] ELSE e]
    <2> DEFINE S == {s[i] : i \in DOMAIN s} \union {e}
    <2>1. s \in Seq(S) /\ e \in S
      <3>1. s \in Seq({s[i] : i \in DOMAIN s})
        BY DEF IsSeq
      <3> QED
        BY <3>1, SeqMonotonic
    <2> HIDE DEF S
    <2>2. /\ Append(s, e) \in Seq(S) /\ Len(Append(s, e)) = Len(s) + 1 /\ Len(s) \in Nat
          /\ \A i \in 1 .. Len(s) : Append(s, e)[i] = s[i]
          /\ Append(s, e)[Len(s) + 1] = e
      BY <2>1
    <2>3. PICK a : a = Append(s, e)
      OBVIOUS
    <2>4. a \in [1 .. Len(s) + 1 -> S]
      BY <2>2, <2>3, LenProperties
    <2>5. \A i \in 1 .. Len(s) + 1 : a[i] = IF i <= Len(s) THEN s[i] ELSE e
      BY <2>2, <2>3
    <2> QED
      BY <2>3, <2>4, <2>5
  <1>2. Len(s) \in Nat /\ Len(s) + 1 \in Nat /\ DOMAIN s = 1 .. Len(s)
    BY Indices
  <1>3. PICK a : a = Append(s, e)
    OBVIOUS
  <1>4. /\ a = [i \in 1 .. Len(s) + 1 |-> a[i]] /\ a[Len(s) + 1] = e
        /\ \A i \in 1 .. Len(s) : a[i] = s[i]
    BY <1>1, <1>2, <1>3
  <1>5. IsSeq(a) /\ Len(a) = Len(s) + 1
    BY <1>2, <1>4, FromElements
  <1> QED
    BY <1>2, <1>3, <1>4, <1>5

\* A request less.
LEMMA Removed ==
  ASSUME NEW s, IsSeq(s), NEW i \in DOMAIN s
  PROVE  /\ IsSeq(RemoveAt(s, i)) /\ Len(RemoveAt(s, i)) = Len(s) - 1
         /\ \A j \in DOMAIN RemoveAt(s, i) :
              RemoveAt(s, i)[j] = s[IF j < i THEN j ELSE j + 1]
  <1> DEFINE S == {s[j] : j \in DOMAIN s}
  <1>1. s \in Seq(S)
    BY DEF IsSeq
  <1>2. i \in 1 .. Len(s) /\ Len(s) \in Nat /\ \A j \in 1 .. Len(s) : s[j] \in S
    BY Indices
  <1> HIDE DEF S
  <1>3. PICK f : f = SubSeq(s, 1, i - 1)
    OBVIOUS
  <1>4. PICK g : g = SubSeq(s, i + 1, Len(s))
    OBVIOUS
  <1>5. f \in Seq(S) /\ Len(f) = i - 1 /\ \A j \in 1 .. i - 1 : f[j] = s[j]
    BY <1>2, <1>3, SubSeqProperties
  <1>6. g \in Seq(S) /\ Len(g) = Len(s) - i /\ \A j \in 1 .. Len(s) - i : g[j] = s[i + j]
    <2>1. \A j \in i + 1 .. Len(s) : s[j] \in S
      BY <1>2
    <2>2. /\ g \in Seq(S) /\ Len(g) = IF i + 1 <= Len(s) THEN Len(s) - (i + 1) + 1 ELSE 0
          /\ \A j \in 1 .. Len(s) - (i + 1) + 1 : g[j] = s[(i + 1) + j - 1]
      BY <1>2, <1>4, <2>1, SubSeqProperties
    <2> QED
      BY <1>2, <2>2
  <1>7. PICK r : r = RemoveAt(s, i)
    OBVIOUS
  <1>8. /\ r \in Seq(S) /\ Len(r) = Len(s) - 1
        /\ \A j \in 1 .. Len(s) - 1 : r[j] = IF j <= i - 1 THEN f[j] ELSE g[j - (i - 1)]
    <2>1. r = f \o g
      BY <1>3, <1>4, <1>7 DEF RemoveAt
    <2>2. /\ r \in Seq(S) /\ Len(r) = Len(f) + Len(g)
          /\ \A j \in 1 .. Len(f) + Len(g) : r[j] = IF j <= Len(f) THEN f[j] ELSE g[j - Len(f)]
      BY <1>5, <1>6, <2>1, ConcatProperties
    <2>3. Len(f) = i - 1 /\ Len(f) + Len(g) = Len(s) - 1
      BY <1>2, <1>5, <1>6
    <2> QED
      BY <2>2, <2>3
  <1>9. ASSUME NEW j \in 1 .. Len(s) - 1
        PROVE  r[j] = s[IF j < i THEN j ELSE j + 1]
    <2>1. CASE j < i
      BY <1>2, <1>5, <1>8, <2>1
    <2>2. CASE j >= i
      <3>1. j - (i - 1) \in 1 .. Len(s) - i /\ i + (j - (i - 1)) = j + 1
        BY <1>2, <2>2
      <3>2. r[j] = g[j - (i - 1)]
        BY <1>2, <1>8, <2>2
      <3>3. g[j - (i - 1)] = s[j + 1]
        BY <1>6, <3>1
      <3> QED
        BY <1>2, <2>2, <3>2, <3>3
    <2> QED
      BY <1>2, <2>1, <2>2
  <1>10. r = [j \in 1 .. Len(r) |-> r[j]] /\ DOMAIN r = 1 .. Len(s) - 1 /\ Len(r) \in Nat
    BY <1>2, <1>8
  <1>11. IsSeq(r)
    BY <1>10, FromElements
  <1> QED
    BY <1>7, <1>8, <1>9, <1>10, <1>11

\* Requests are answered, or otherwise replaced one by one.
LEMMA Replaced ==
  ASSUME NEW s, IsSeq(s), NEW t, t = [i \in DOMAIN s |-> t[i]]
  PROVE  IsSeq(t) /\ Len(t) = Len(s) /\ DOMAIN t = DOMAIN s
  <1>1. Len(s) \in Nat /\ t = [i \in 1 .. Len(s) |-> t[i]]
    BY Indices
  <1> QED
    BY <1>1, FromElements
=============================================================================
