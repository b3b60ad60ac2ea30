---------------------------- MODULE PartsProofs ----------------------------
(***************************************************************************)
(* Theorems about generateADCBuffer, the clock behind millis(), the serial *)
(* port and the web server.                                                *)
(***************************************************************************)
EXTENDS AdcBuffer, SystemClock, SerialPort, WebServer, SequenceTheorems,
  InductionLemmas, TLAPS

(***************************************************************************)
(* generateADCBuffer.                                                      *)
(***************************************************************************)
\* Why the divisor is never zero: the multiplier is 2 modulo 4, also after a wrap.
AdcInv == cMultiplier \in 0 .. 255 /\ cMultiplier % 4 = 2 /\ SizeIsBlock

\* Each round of the loop keeps the multiplier at 2 modulo 4, also when the char
\* wraps, and ends the loop only with a block of the size it records.
LEMMA RoundKeepsInv == AdcInv /\ tryBuffer => AdcInv'
<1> SUFFICES ASSUME AdcInv, tryBuffer PROVE AdcInv'
  OBVIOUS
<1>1. cMultiplier' \in 0 .. 255 /\ cMultiplier' % 4 = 2
  <2>1. cMultiplier' = (cMultiplier + 20) % 256
    BY DEF tryBuffer, Stride
  <2>2. cMultiplier \in 0 .. 255 /\ cMultiplier % 4 = 2
    BY DEF AdcInv
  <2> QED
    BY <2>1, <2>2
<1>2. SizeIsBlock'
  <2> DEFINE size == BufferSize(getFreeHeap, cMultiplier)
  <2>1. iABufferSize' = size /\ malloc(size)
    BY DEF tryBuffer, clear_alloc
  <2>2. allocating' = Repeats(cABuffer', cMultiplier')
    BY DEF tryBuffer
  <2> HIDE DEF size
  <2>3. CASE cABuffer' = NoBuffer
    BY <2>2, <2>3 DEF SizeIsBlock, Repeats
  <2>4. CASE cABuffer' = size
    BY <2>1, <2>4 DEF SizeIsBlock
  <2> QED
    BY <2>1, <2>3, <2>4 DEF malloc
<1> QED
  BY <1>1, <1>2 DEF AdcInv

\* ESP.getFreeHeap()/cMultiplier never divides by zero, whatever the heap and
\* however often malloc fails.
THEOREM NoDivisionByZero == AdcSpec => []DivisorNeverZero
<1>1. AdcInit => AdcInv
  BY DEF AdcInit, AdcInv, SizeIsBlock, FirstMultiplier
<1>2. AdcInv /\ [AdcNext]_adcVars => AdcInv'
  <2>1. ASSUME AdcInv, UNCHANGED adcVars PROVE AdcInv'
    BY <2>1 DEF AdcInv, adcVars, SizeIsBlock
  <2> QED
    BY <2>1, RoundKeepsInv DEF AdcNext
<1>3. AdcInv => DivisorNeverZero
  BY DEF AdcInv, DivisorNeverZero
<1> QED
  BY <1>1, <1>2, <1>3, PTL DEF AdcSpec

\* The sampler never writes behind its ring: iABufferSize is the size of the block,
\* for every heap.
THEOREM RingFitsItsBlock == AdcSpec => []SizeIsBlock
<1>1. AdcInit => AdcInv
  BY DEF AdcInit, AdcInv, SizeIsBlock, FirstMultiplier
<1>2. AdcInv /\ [AdcNext]_adcVars => AdcInv'
  <2>1. ASSUME AdcInv, UNCHANGED adcVars PROVE AdcInv'
    BY <2>1 DEF AdcInv, adcVars, SizeIsBlock
  <2> QED
    BY <2>1, RoundKeepsInv DEF AdcNext
<1>3. AdcInv => SizeIsBlock
  BY DEF AdcInv
<1> QED
  BY <1>1, <1>2, <1>3, PTL DEF AdcSpec

\* The sums of the first holes of a heap.
Totals(g, s) ==
  /\ g[0] = 0 /\ \A n \in 1 .. Len(s) : g[n] = g[n - 1] + s[n]
  /\ \A n \in 0 .. Len(s) : g[n] \in Nat

LEMMA TotalsExist ==
  ASSUME NEW s \in Seq(Nat)
  PROVE  \E g : Totals(g, s) /\ Total(s) = g[Len(s)]
<1> DEFINE N == Len(s)
           Solves(g) == g = [n \in 0 .. N |-> IF n = 0 THEN 0 ELSE g[n - 1] + s[n]]
           step == [p \in (1 .. N) \X Nat |-> p[2] + s[p[1]]]
<1>1. N \in Nat /\ \A n \in 1 .. N : s[n] \in Nat
  OBVIOUS
<1>2. Total(s) = (CHOOSE g : Solves(g))[N]
  BY DEF Total
<1>3. step \in [(1 .. N) \X Nat -> Nat]
  BY <1>1
<1>4. ASSUME NEW n \in 1 .. N, NEW v \in Nat PROVE step[<<n, v>>] = v + s[n]
  OBVIOUS
<1> HIDE DEF N, step
<1>5. PICK h \in [0 .. N -> Nat] : StepsFrom(h, 0, step, N)
  BY <1>1, <1>3, RecursionExists
<1>6. Solves(h)
  <2>1. ASSUME NEW n \in 0 .. N PROVE h[n] = IF n = 0 THEN 0 ELSE h[n - 1] + s[n]
    <3>1. CASE n = 0
      BY <1>5, <3>1 DEF StepsFrom
    <3>2. CASE n # 0
      <4>1. n \in 1 .. N /\ n - 1 \in 0 .. N
        BY <1>1, <3>2
      <4>2. h[n] = step[<<n, h[n - 1]>>] /\ h[n - 1] \in Nat
        BY <1>5, <4>1 DEF StepsFrom
      <4> QED
        BY <1>4, <3>2, <4>1, <4>2
    <3> QED
      BY <3>1, <3>2
  <2>2. h = [n \in 0 .. N |-> h[n]]
    BY <1>5
  <2> QED
    BY <2>1, <2>2
<1>7. ASSUME NEW g, Solves(g) PROVE Totals(g, s)
  <2> DEFINE S == {n \in Nat : n <= N => g[n] \in Nat}
  <2>1. ASSUME NEW n \in 0 .. N PROVE g[n] = IF n = 0 THEN 0 ELSE g[n - 1] + s[n]
    BY <1>7
  <2> HIDE DEF Solves
  <2>2. 0 \in S
    BY <1>1, <2>1
  <2>3. ASSUME NEW n \in Nat, n \in S PROVE n + 1 \in S
    <3> SUFFICES ASSUME n + 1 <= N PROVE g[n + 1] \in Nat
      OBVIOUS
    <3>1. n + 1 \in 0 .. N /\ n + 1 \in 1 .. N /\ n + 1 # 0 /\ (n + 1) - 1 = n /\ n <= N
      BY <1>1
    <3>2. g[n + 1] = g[n] + s[n + 1] /\ g[n] \in Nat /\ s[n + 1] \in Nat
      BY <1>1, <2>1, <2>3, <3>1
    <3> QED
      BY <3>2
  <2> HIDE DEF S
  <2>4. \A n \in Nat : n \in S
    BY <2>2, <2>3, SetInduction
  <2>5. \A n \in 0 .. N : g[n] \in Nat
    BY <1>1, <2>4 DEF S
  <2>6. \A n \in 1 .. N : g[n] = g[n - 1] + s[n]
    BY <1>1, <2>1
  <2>7. g[0] = 0
    BY <1>1, <2>1
  <2> QED
    BY <2>5, <2>6, <2>7 DEF Totals, N
<1> HIDE DEF Solves
<1>8. Solves(CHOOSE g : Solves(g))
  BY <1>6
<1>9. Totals((CHOOSE g : Solves(g)), s)
  BY <1>7, <1>8
<1> QED
  BY <1>2, <1>9 DEF N

LEMMA TotalType == ASSUME NEW s \in Seq(Nat) PROVE Total(s) \in Nat
<1>1. PICK g : Totals(g, s) /\ Total(s) = g[Len(s)]
  BY TotalsExist
<1>2. Len(s) \in 0 .. Len(s)
  OBVIOUS
<1> QED
  BY <1>1, <1>2 DEF Totals

\* The bytes of c holes of the size a, and of all but one of them.
LEMMA OneLess ==
  ASSUME NEW a \in Nat, NEW c \in Nat, c > 0
  PROVE  a * c - a = a * (c - 1) /\ a <= a * c
<1>1. a * (c - 1) \in Nat
  OBVIOUS
<1>2. a * c = a * (c - 1) + a
  OBVIOUS
<1> QED
  BY <1>1, <1>2

\* A block carved out of a hole is missing from the free heap, once.
LEMMA TotalLess ==
  ASSUME NEW s \in Seq(Nat), NEW h \in 1 .. Len(s), NEW k \in Nat, k <= s[h]
  PROVE  LET t == [s EXCEPT ![h] = @ - k]
         IN  t \in Seq(Nat) /\ Total(t) = Total(s) - k
<1> DEFINE t == [s EXCEPT ![h] = @ - k]
           N == Len(s)
<1>1. N \in Nat /\ h \in 1 .. N /\ \A n \in 1 .. N : s[n] \in Nat
  OBVIOUS
<1>2. /\ t \in Seq(Nat) /\ Len(t) = N
      /\ \A n \in 1 .. N : t[n] = IF n = h THEN s[n] - k ELSE s[n]
  <2>1. s[h] - k \in Nat
    BY <1>1
  <2> QED
    BY <2>1
<1> HIDE DEF t
<1>3. PICK f : Totals(f, s) /\ Total(s) = f[N]
  BY TotalsExist
<1>4. PICK g : Totals(g, t) /\ Total(t) = g[N]
  BY <1>2, TotalsExist
<1> HIDE DEF N
<1>5. /\ f[0] = 0 /\ \A n \in 1 .. N : f[n] = f[n - 1] + s[n]
      /\ \A n \in 0 .. N : f[n] \in Nat
  BY <1>3 DEF Totals, N
<1>6. /\ g[0] = 0 /\ \A n \in 1 .. N : g[n] = g[n - 1] + t[n]
      /\ \A n \in 0 .. N : g[n] \in Nat
  BY <1>2, <1>4 DEF Totals
<1> DEFINE Same(n) == g[n] = IF n < h THEN f[n] ELSE f[n] - k
           S == {n \in Nat : n <= N => Same(n)}
<1>7. 0 \in S
  BY <1>1, <1>5, <1>6
<1>8. ASSUME NEW n \in Nat, n \in S PROVE n + 1 \in S
  <2> SUFFICES ASSUME n + 1 <= N PROVE Same(n + 1)
    OBVIOUS
  <2>1. n + 1 \in 1 .. N /\ (n + 1) - 1 = n /\ n <= N /\ n \in 0 .. N
    BY <1>1
  <2>2. g[n + 1] = g[n] + t[n + 1] /\ f[n + 1] = f[n] + s[n + 1] /\ Same(n)
    BY <1>5, <1>6, <1>8, <2>1
  <2>3. f[n] \in Nat /\ g[n] \in Nat /\ s[n + 1] \in Nat
    BY <1>1, <1>5, <1>6, <2>1
  <2>4. t[n + 1] = IF n + 1 = h THEN s[n + 1] - k ELSE s[n + 1]
    BY <1>2, <2>1
  <2>5. CASE n + 1 < h
    BY <1>1, <2>2, <2>3, <2>4, <2>5
  <2>6. CASE n + 1 = h
    <3>1. g[n] = f[n] /\ t[n + 1] = s[n + 1] - k
      BY <1>1, <2>2, <2>4, <2>6
    <3> DEFINE a == f[n]
               b == s[n + 1]
    <3>2. a \in Nat /\ b \in Nat /\ g[n + 1] = a + (b - k) /\ f[n + 1] = a + b
      BY <2>2, <2>3, <3>1
    <3> HIDE DEF a, b
    <3>3. g[n + 1] = f[n + 1] - k
      BY <3>2
    <3>4. ~(n + 1 < h)
      BY <1>1, <2>6
    <3> QED
      BY <3>3, <3>4
  <2>7. CASE n + 1 > h
    BY <1>1, <2>2, <2>3, <2>4, <2>7
  <2> QED
    BY <1>1, <2>5, <2>6, <2>7
<1> HIDE DEF S
<1>9. \A n \in Nat : n \in S
  BY <1>7, <1>8, SetInduction
<1>10. Same(N)
  BY <1>1, <1>9 DEF S
<1>11. g[N] = f[N] - k
  BY <1>1, <1>10
<1> QED
  BY <1>2, <1>3, <1>4, <1>11 DEF t

\* What is appended is counted, once.
LEMMA TotalAppend ==
  ASSUME NEW s \in Seq(Nat), NEW x \in Nat
  PROVE  Total(Append(s, x)) = Total(s) + x
<1> DEFINE t == Append(s, x)
           N == Len(s)
<1>1. /\ N \in Nat /\ t \in Seq(Nat) /\ Len(t) = N + 1 /\ t[N + 1] = x
      /\ \A n \in 1 .. N : t[n] = s[n] /\ s[n] \in Nat
  OBVIOUS
<1> HIDE DEF t
<1>2. PICK f : Totals(f, s) /\ Total(s) = f[N]
  BY TotalsExist
<1>3. PICK g : Totals(g, t) /\ Total(t) = g[N + 1]
  BY <1>1, TotalsExist
<1> HIDE DEF N
<1>4. /\ f[0] = 0 /\ \A n \in 1 .. N : f[n] = f[n - 1] + s[n]
      /\ \A n \in 0 .. N : f[n] \in Nat
  BY <1>2 DEF Totals, N
<1>5. /\ g[0] = 0 /\ \A n \in 1 .. N + 1 : g[n] = g[n - 1] + t[n]
  BY <1>1, <1>3 DEF Totals
<1> DEFINE S == {n \in Nat : n <= N => g[n] = f[n]}
<1>6. 0 \in S
  BY <1>4, <1>5
<1>7. ASSUME NEW n \in Nat, n \in S PROVE n + 1 \in S
  <2> SUFFICES ASSUME n + 1 <= N PROVE g[n + 1] = f[n + 1]
    OBVIOUS
  <2>1. /\ n + 1 \in 1 .. N /\ n + 1 \in 1 .. N + 1 /\ (n + 1) - 1 = n /\ n <= N
    BY <1>1
  <2> QED
    BY <1>1, <1>4, <1>5, <1>7, <2>1
<1> HIDE DEF S
<1>8. \A n \in Nat : n \in S
  BY <1>6, <1>7, SetInduction
<1>9. g[N] = f[N]
  BY <1>1, <1>8 DEF S
<1>10. N + 1 \in 1 .. N + 1 /\ (N + 1) - 1 = N
  BY <1>1
<1>11. g[N + 1] = f[N] + x
  BY <1>1, <1>5, <1>9, <1>10
<1> QED
  BY <1>2, <1>3, <1>11 DEF t

LEMMA KindType ==
  ASSUME NEW kinds \in Seq(Kinds), NEW k \in 1 .. Len(kinds)
  PROVE  /\ kinds[k] \in Kinds /\ kinds[k].size \in Nat /\ kinds[k].count \in Nat
         /\ DOMAIN kinds = 1 .. Len(kinds)
<1>1. kinds[k] \in Kinds /\ DOMAIN kinds = 1 .. Len(kinds)
  OBVIOUS
<1>2. ASSUME NEW r \in Kinds PROVE r.size \in Nat /\ r.count \in Nat
  BY DEF Kinds
<1> QED
  BY <1>1, <1>2

\* The bytes in the holes of each kind.
Bytes(kinds) == [k \in DOMAIN kinds |-> kinds[k].size * kinds[k].count]

LEMMA BytesType ==
  ASSUME NEW kinds \in Seq(Kinds)
  PROVE  /\ Bytes(kinds) \in Seq(Nat) /\ Len(Bytes(kinds)) = Len(kinds)
         /\ Free(kinds) = Total(Bytes(kinds)) /\ Free(kinds) \in Nat
<1>1. \A k \in 1 .. Len(kinds) : kinds[k].size \in Nat /\ kinds[k].count \in Nat
  BY KindType
<1>2. \A k \in 1 .. Len(kinds) : kinds[k].size * kinds[k].count \in Nat
  BY <1>1
<1>3. Bytes(kinds) \in Seq(Nat) /\ Len(Bytes(kinds)) = Len(kinds)
  BY <1>2 DEF Bytes
<1>4. Free(kinds) = Total(Bytes(kinds))
  BY DEF Free, Bytes
<1> QED
  BY <1>3, <1>4, TotalType

LEMMA AppendIs ==
  ASSUME NEW q \in Seq(Nat), NEW z \in Nat, NEW n, n = Len(q)
  PROVE  Append(q, z) = [i \in 1 .. n + 1 |-> IF i = n + 1 THEN z ELSE q[i]]
<1> DEFINE t == Append(q, z)
<1>1. /\ t \in Seq(Nat) /\ Len(t) = n + 1 /\ n \in Nat
      /\ \A i \in 1 .. n + 1 : t[i] = IF i = n + 1 THEN z ELSE q[i]
  OBVIOUS
<1> HIDE DEF t
<1>2. t = [i \in 1 .. n + 1 |-> t[i]]
  BY <1>1
<1>3. t = [i \in 1 .. n + 1 |-> IF i = n + 1 THEN z ELSE q[i]]
  BY <1>1, <1>2
<1> QED
  BY <1>3 DEF t

\* A block carved out of a hole is missing from the free heap, once; the rest of
\* the hole is a hole of its own.
LEMMA FreeLess ==
  ASSUME NEW kinds \in Seq(Kinds), NEW k \in 1 .. Len(kinds), kinds[k].count > 0,
         NEW size \in Nat, size <= kinds[k].size
  PROVE  LET rest == Append([kinds EXCEPT ![k].count = @ - 1],
                            [size |-> kinds[k].size - size, count |-> 1])
         IN  rest \in Seq(Kinds) /\ Free(rest) = Free(kinds) - size
<1> DEFINE fewer == [kinds EXCEPT ![k].count = @ - 1]
           new == [size |-> kinds[k].size - size, count |-> 1]
           rest == Append(fewer, new)
           old == Bytes(kinds)
           a == kinds[k].size
           c == kinds[k].count
           N == Len(kinds)
<1>1. /\ N \in Nat /\ k \in 1 .. N /\ \A i \in 1 .. N : kinds[i] \in Kinds
      /\ a \in Nat /\ c \in Nat /\ c > 0 /\ size <= a
  BY KindType
<1>2. new \in Kinds /\ new.size = a - size /\ new.count = 1
  BY <1>1 DEF Kinds
<1>3. /\ Len(fewer) = N /\ DOMAIN fewer = 1 .. N
      /\ fewer = [i \in 1 .. N |-> IF i = k THEN [kinds[k] EXCEPT !.count = c - 1] ELSE kinds[i]]
  OBVIOUS
<1>4. /\ [kinds[k] EXCEPT !.count = c - 1] \in Kinds
      /\ [kinds[k] EXCEPT !.count = c - 1].size = a
      /\ [kinds[k] EXCEPT !.count = c - 1].count = c - 1
  <2>1. kinds[k] \in [size : Nat, count : Nat] /\ c - 1 \in Nat
    BY <1>1 DEF Kinds
  <2> QED
    BY <2>1 DEF Kinds
<1>5. fewer \in Seq(Kinds)
  BY <1>1, <1>3, <1>4
<1>6. rest \in Seq(Kinds)
  BY <1>2, <1>5
<1>7. old \in Seq(Nat) /\ Len(old) = N /\ Free(kinds) = Total(old) /\ old[k] = a * c
  BY <1>1, BytesType DEF Bytes
<1>8. a * c - a = a * (c - 1) /\ a <= a * c
  BY <1>1, OneLess
<1> DEFINE less == [old EXCEPT ![k] = @ - a]
<1>9. less \in Seq(Nat) /\ Total(less) = Total(old) - a
  BY <1>1, <1>7, <1>8, TotalLess
<1>10. Bytes(fewer) = less
  <2>1. DOMAIN Bytes(fewer) = 1 .. N /\ DOMAIN less = 1 .. N
    BY <1>3, <1>7 DEF Bytes
  <2>2. ASSUME NEW i \in 1 .. N PROVE Bytes(fewer)[i] = less[i]
    <3>1. Bytes(fewer)[i] = fewer[i].size * fewer[i].count
      BY <1>3 DEF Bytes
    <3>2. old[i] = kinds[i].size * kinds[i].count
      BY DEF Bytes
    <3>3. less[i] = IF i = k THEN old[k] - a ELSE old[i]
      BY <1>7
    <3>4. CASE i = k
      <4>1. fewer[i].size = a /\ fewer[i].count = c - 1
        BY <1>3, <1>4, <3>4
      <4> QED
        BY <1>7, <1>8, <3>1, <3>3, <3>4, <4>1
    <3>5. CASE i # k
      BY <1>3, <3>1, <3>2, <3>3, <3>5
    <3> QED
      BY <3>4, <3>5
  <2>3. Bytes(fewer) = [i \in 1 .. N |-> fewer[i].size * fewer[i].count]
    BY <1>3 DEF Bytes
  <2>4. less = [i \in 1 .. N |-> less[i]]
    <3>1. less = [i \in DOMAIN old |-> IF i = k THEN old[k] - a ELSE old[i]]
      OBVIOUS
    <3>2. \A i \in DOMAIN old : less[i] = IF i = k THEN old[k] - a ELSE old[i]
      OBVIOUS
    <3>3. DOMAIN old = 1 .. N
      BY DEF Bytes
    <3> HIDE DEF less, old
    <3> QED
      BY <3>1, <3>2, <3>3
  <2> HIDE DEF less
  <2> QED
    BY <2>1, <2>2, <2>3, <2>4
<1>11. Bytes(rest) = Append(less, a - size)
  <2>1. DOMAIN rest = 1 .. N + 1 /\ rest[N + 1] = new /\ \A i \in 1 .. N : rest[i] = fewer[i]
    BY <1>2, <1>5, <1>3
  <2>2. less = [i \in 1 .. N |-> fewer[i].size * fewer[i].count]
    BY <1>3, <1>10 DEF Bytes
  <2>3. new.size * new.count = a - size
    BY <1>1, <1>2
  <2>4. Bytes(rest) = [i \in 1 .. N + 1 |-> rest[i].size * rest[i].count]
    BY <2>1 DEF Bytes
  <2>5. \A i \in 1 .. N : less[i] = fewer[i].size * fewer[i].count
    BY <2>2
  <2>6. Len(less) = N /\ less \in Seq(Nat) /\ a - size \in Nat
    BY <1>1, <1>7, <1>9
  <2>7. Append(less, a - size) = [i \in 1 .. N + 1 |-> IF i = N + 1 THEN a - size ELSE less[i]]
    <3> HIDE DEF less, a, N
    <3> QED
      BY <2>6, AppendIs
  <2>8. ASSUME NEW i \in 1 .. N + 1
        PROVE  rest[i].size * rest[i].count = IF i = N + 1 THEN a - size ELSE less[i]
    <3>1. CASE i = N + 1
      BY <2>1, <2>3, <3>1
    <3>2. CASE i # N + 1
      <4>1. i \in 1 .. N
        BY <1>1, <3>2
      <4> QED
        BY <2>1, <2>5, <3>2, <4>1
    <3> QED
      BY <3>1, <3>2
  <2> HIDE DEF rest, less, a, N
  <2> QED
    BY <2>4, <2>7, <2>8
<1>12. a - size \in Nat
  BY <1>1
<1>13. Free(rest) = (Total(old) - a) + (a - size)
  <2>1. Free(rest) = Total(Bytes(rest))
    BY <1>6, BytesType
  <2> HIDE DEF rest, less, a, old
  <2> QED
    BY <1>9, <1>11, <1>12, <2>1, TotalAppend
<1>14. Total(old) \in Nat
  BY <1>7, TotalType
<1>15. Free(rest) = Free(kinds) - size
  <2> HIDE DEF rest, a, old
  <2> QED
    BY <1>1, <1>7, <1>13, <1>14
<1> QED
  BY <1>6, <1>15

\* The share of the heap a round asks for.
Share(F, m) == F \div m

LEMMA ShareFalls ==
  ASSUME NEW F \in Nat, NEW a \in Nat \ {0}, NEW b \in Nat \ {0}, a <= b
  PROVE  Share(F, b) \in Nat /\ Share(F, a) \in Nat /\ Share(F, b) <= Share(F, a)
<1> DEFINE q == F \div b
           p == F \div a
<1>1. q \in Nat /\ p \in Nat /\ q * b <= F /\ F < (p + 1) * a
  OBVIOUS
<1> HIDE DEF q, p
<1>2. q * a <= q * b
  BY <1>1
<1>3. q < p + 1
  <2> SUFFICES ASSUME p + 1 <= q PROVE FALSE
    BY <1>1
  <2>1. (p + 1) * a <= q * a
    BY <1>1
  <2> QED
    BY <1>1, <1>2, <2>1
<1>4. q <= p
  BY <1>1, <1>3
<1> QED
  BY <1>1, <1>4 DEF q, p, Share

LEMMA ShareType == ASSUME NEW F \in Nat, NEW m \in Nat \ {0} PROVE Share(F, m) \in Nat
  BY DEF Share

\* A block is never larger than its share, and no smaller when that is not.
LEMMA SizeIs ==
  ASSUME NEW F \in Nat, NEW m \in Nat \ {0}
  PROVE  /\ Share(F, m) \in Nat /\ BufferSize(F, m) \in Nat
         /\ BufferSize(F, m) <= Share(F, m)
         /\ BufferSize(F, m) >= 1 <=> Share(F, m) >= 1
<1>1. Share(F, m) \in Nat
  BY ShareType
<1>2. BufferSize(F, m) = IF Share(F, m) > BufferCap THEN BufferCap ELSE Share(F, m)
  BY DEF BufferSize, Share
<1> QED
  BY <1>1, <1>2, AdcAssumption

LEMMA SizeFalls ==
  ASSUME NEW F \in Nat, NEW G \in Nat, NEW a \in Nat \ {0}, NEW b \in Nat \ {0},
         Share(F, b) <= Share(G, a)
  PROVE  BufferSize(F, b) <= BufferSize(G, a)
<1>1. Share(F, b) \in Nat /\ Share(G, a) \in Nat
  BY ShareType
<1>2. /\ BufferSize(F, b) = IF Share(F, b) > BufferCap THEN BufferCap ELSE Share(F, b)
      /\ BufferSize(G, a) = IF Share(G, a) > BufferCap THEN BufferCap ELSE Share(G, a)
  BY DEF BufferSize, Share
<1> QED
  BY <1>1, <1>2, AdcAssumption

\* What is free is enough for a slot in every round, and how much a round may
\* find: the first four drop a block each; a round from 100 on follows one whose
\* block fitted no hole, and so do the rounds after the char has wrapped, which
\* ask for more than the round before it did.
Below(kinds, size) == \A k \in DOMAIN kinds : kinds[k].count > 0 => kinds[k].size < size

FirstRounds(F, m) ==
  /\ m \in {10, 30, 50, 70, 90}
  /\ m = 10 => F >= 400
  /\ m = 30 => F >= 360
  /\ m = 50 => F >= 348
  /\ m = 70 => F >= 341
  /\ m = 90 => F >= 336

HeapInv ==
  /\ holes \in Seq(Kinds)
  /\ cMultiplier \in 1 .. 255 /\ cMultiplier % 4 = 2
  /\ allocating =>
       \/ FirstRounds(getFreeHeap, cMultiplier)
       \/ /\ cMultiplier < 100 /\ getFreeHeap >= 254
          /\ Below(holes, BufferSize(getFreeHeap, 100))
       \/ /\ cMultiplier >= 100 /\ getFreeHeap >= 254
          /\ Below(holes, BufferSize(getFreeHeap, cMultiplier - 20))
  /\ ~allocating => iABufferSize >= 1

LEMMA RoundKeepsHeap == HeapInv /\ tryBuffer => HeapInv'
<1> SUFFICES ASSUME HeapInv, tryBuffer PROVE HeapInv'
  OBVIOUS
<1> DEFINE F == getFreeHeap
           G == getFreeHeap'
           m == cMultiplier
           n == cMultiplier'
           s == BufferSize(F, m)
<1>1. /\ holes \in Seq(Kinds) /\ m \in 1 .. 255 /\ m % 4 = 2 /\ allocating
      /\ \/ FirstRounds(F, m)
         \/ m < 100 /\ F >= 254 /\ Below(holes, BufferSize(F, 100))
         \/ m >= 100 /\ F >= 254 /\ Below(holes, BufferSize(F, m - 20))
  BY DEF HeapInv, tryBuffer
<1>2. /\ iABufferSize' = s /\ malloc(s) /\ n = (m + 20) % 256
      /\ allocating' = (cABuffer' = NoBuffer \/ n < 100)
  BY DEF tryBuffer, clear_alloc, Stride, Repeats
<1>3. n \in 1 .. 255 /\ n % 4 = 2 /\ (m < 236 => n = m + 20) /\ (m >= 236 => n < 100)
  <2>1. m \in 1 .. 255 /\ m % 4 = 2 /\ n = (m + 20) % 256
    BY <1>1, <1>2
  <2> HIDE DEF m, n
  <2>2. CASE m < 236
    BY <2>1, <2>2
  <2>3. CASE m >= 236
    <3>1. m + 20 \in 256 .. 275 /\ n = m - 236
      BY <2>1, <2>3
    <3>2. m # 236
      BY <2>1
    <3>3. n \in 1 .. 19 /\ n % 4 = 2
      BY <2>1, <2>3, <3>1, <3>2
    <3> QED
      BY <2>1, <2>3, <3>3
  <2> QED
    BY <2>1, <2>2, <2>3
<1>4. F \in Nat
  BY <1>1, BytesType DEF getFreeHeap
<1>5. s \in Nat /\ Share(F, m) \in Nat /\ s <= Share(F, m) /\ (s >= 1 <=> Share(F, m) >= 1)
  <2>1. m \in Nat \ {0}
    BY <1>1
  <2> HIDE DEF F, m
  <2> QED
    BY <1>4, <2>1, SizeIs
\* Whoever asks for what fits no hole gets nothing; a block that is got comes off
\* the heap, whichever hole it is in.
<1>6. \/ /\ cABuffer' = NoBuffer /\ G = F /\ holes' = holes
         /\ s >= 1 => Below(holes, s)
      \/ /\ cABuffer' = s /\ G = F - s /\ holes' \in Seq(Kinds)
         /\ ~Below(holes, s) /\ \A size \in Nat : Below(holes, size) => Below(holes', size)
  <2>0. /\ \A k \in DOMAIN holes : holes[k].size \in Nat /\ holes[k].count \in Nat
        /\ DOMAIN holes = 1 .. Len(holes)
    <3>1. DOMAIN holes = 1 .. Len(holes)
      BY <1>1
    <3> QED
      BY <1>1, <3>1, KindType
  <2>1. CASE cABuffer' = NoBuffer /\ UNCHANGED holes /\ (s > 0 => Fits(s) = {})
    <3>1. G = F
      BY <2>1 DEF getFreeHeap
    <3>2. ASSUME s >= 1, NEW k \in DOMAIN holes, holes[k].count > 0
          PROVE  holes[k].size < s
      <4> DEFINE v == holes[k].size
      <4>1. k \notin Fits(s)
        BY <1>5, <2>1, <3>2
      <4>2. ~(v >= s) /\ v \in Nat
        BY <2>0, <3>2, <4>1 DEF Fits
      <4> HIDE DEF v, s
      <4>3. v < s
        BY <1>5, <4>2
      <4> QED
        BY <4>3 DEF v
    <3> HIDE DEF F, G, s
    <3> QED
      BY <2>1, <3>1, <3>2 DEF Below
  <2>2. ASSUME NEW k \in Fits(s), cABuffer' = s,
               holes' = Append([holes EXCEPT ![k].count = @ - 1],
                               [size |-> holes[k].size - s, count |-> 1])
        PROVE  /\ G = F - s /\ holes' \in Seq(Kinds)
               /\ ~Below(holes, s) /\ \A size \in Nat : Below(holes, size) => Below(holes', size)
    <3> HIDE DEF s
    <3>1. k \in 1 .. Len(holes) /\ k \in DOMAIN holes /\ holes[k].count > 0 /\ holes[k].size >= s
      BY <2>0 DEF Fits
    <3>2. holes' \in Seq(Kinds) /\ Free(holes') = Free(holes) - s
      <4>1. s <= holes[k].size
        BY <1>5, <2>0, <3>1
      <4> QED
        BY <1>1, <1>5, <2>2, <3>1, <4>1, FreeLess
    <3>3. ~Below(holes, s)
      BY <1>5, <2>0, <3>1 DEF Below
    <3>4. ASSUME NEW size \in Nat, Below(holes, size) PROVE Below(holes', size)
      <4> SUFFICES ASSUME NEW i \in DOMAIN holes', holes'[i].count > 0
                   PROVE  holes'[i].size < size
        BY DEF Below
      <4> DEFINE N == Len(holes)
                 fewer == [holes EXCEPT ![k].count = @ - 1]
                 new == [size |-> holes[k].size - s, count |-> 1]
      <4>1. holes[k].size < size /\ new.size < size
        BY <1>5, <2>0, <3>1, <3>4 DEF Below
      <4>2. N \in Nat /\ DOMAIN fewer = 1 .. N /\ Len(fewer) = N /\ fewer \in Seq(Kinds)
        <5>1. holes[k].count - 1 \in Nat
          BY <2>0, <3>1
        <5>2. \A j \in 1 .. N : holes[j] \in Kinds
          BY <1>1
        <5>3. [holes[k] EXCEPT !.count = holes[k].count - 1] \in Kinds
          BY <3>1, <5>1, <5>2 DEF Kinds
        <5> QED
          BY <1>1, <3>1, <5>2, <5>3
      <4>3. CASE i = N + 1
        <5>1. holes'[i] = new
          BY <2>2, <4>2, <4>3
        <5> QED
          BY <4>1, <5>1
      <4>4. CASE i \in 1 .. N
        <5>1. holes'[i] = fewer[i]
          BY <2>2, <4>2, <4>4
        <5>2. fewer[i] = IF i = k THEN [holes[k] EXCEPT !.count = holes[k].count - 1] ELSE holes[i]
          BY <2>0, <4>4
        <5>3. CASE i = k
          <6>0. holes[k] \in Kinds
            BY <1>1, <3>1
          <6>1. holes[k] \in [size : Nat, count : Nat]
            BY <6>0 DEF Kinds
          <6>2. fewer[i].size = holes[k].size
            BY <5>2, <5>3, <6>1
          <6> QED
            BY <4>1, <5>1, <6>2
        <5>4. CASE i # k
          BY <2>0, <3>4, <4>4, <5>1, <5>2, <5>4 DEF Below
        <5> QED
          BY <5>3, <5>4
      <4>5. i \in 1 .. N + 1
        BY <2>2, <4>2
      <4> QED
        BY <4>2, <4>3, <4>4, <4>5
    <3> QED
      BY <3>2, <3>3, <3>4 DEF getFreeHeap
  <2> QED
    BY <1>2, <2>1, <2>2 DEF malloc
<1> HIDE DEF F, G, m, n, s
<1>7. holes' \in Seq(Kinds)
  BY <1>1, <1>6
<1>8. s = BufferSize(F, m)
  BY DEF s, F, m
<1>9. ASSUME NEW x \in Nat, NEW y \in Nat, x <= y, Below(holes, x) PROVE Below(holes, y)
  <2> SUFFICES ASSUME NEW k \in DOMAIN holes, holes[k].count > 0 PROVE holes[k].size < y
    BY DEF Below
  <2>1. holes[k].size < x /\ holes[k].size \in Nat
    <3>1. k \in 1 .. Len(holes)
      BY <1>1
    <3> QED
      BY <1>1, <1>9, <3>1, KindType DEF Below
  <2> QED
    BY <1>9, <2>1
<1> DEFINE Goal ==
             /\ allocating' =>
                  \/ FirstRounds(G, n)
                  \/ n < 100 /\ G >= 254 /\ Below(holes', BufferSize(G, 100))
                  \/ n >= 100 /\ G >= 254 /\ Below(holes', BufferSize(G, n - 20))
             /\ ~allocating' => s >= 1
<1>10. SUFFICES Goal
  BY <1>2, <1>3, <1>7 DEF HeapInv, n, G, s
<1>11. s # NoBuffer
  BY <1>5 DEF NoBuffer
<1>12. /\ cABuffer' = NoBuffer => allocating'
       /\ n < 100 => allocating'
       /\ cABuffer' # NoBuffer /\ ~(n < 100) => ~allocating'
  BY <1>2, Zenon
<1>13. n < 100 \/ n >= 100
  BY <1>3
\* The rounds that ask in vain.
<1>14. ASSUME Below(holes, s), s >= 1, F >= 254, ~FirstRounds(F, m) \/ m = 90 PROVE Goal
  <2>1. cABuffer' = NoBuffer /\ G = F /\ holes' = holes /\ allocating'
    BY <1>2, <1>6, <1>14
  <2>2. CASE n >= 100
    <3>1. n - 20 = m
      BY <1>1, <1>3, <2>2
    <3>2. Below(holes', BufferSize(G, n - 20))
      BY <1>8, <1>14, <2>1, <3>1
    <3> QED
      BY <1>14, <2>1, <2>2, <3>2
  <2>3. CASE n < 100 /\ m < 100
    <3>1. ~FirstRounds(F, m)
      BY <1>3, <1>14, <2>3
    <3>2. Below(holes, BufferSize(F, 100))
      BY <1>1, <2>3, <3>1
    <3> QED
      BY <1>14, <2>1, <2>3, <3>2
  <2>4. CASE n < 100 /\ m >= 100
    <3>0. m \in Nat \ {0} /\ 100 \in Nat \ {0} /\ 100 <= m
      BY <1>1, <2>4
    <3>1. Share(F, m) <= Share(F, 100)
      BY <1>4, <3>0, ShareFalls
    <3>2. s <= BufferSize(F, 100) /\ BufferSize(F, 100) \in Nat
      BY <1>4, <1>8, <3>0, <3>1, SizeFalls, SizeIs
    <3>3. Below(holes, BufferSize(F, 100))
      BY <1>5, <1>9, <1>14, <3>2
    <3> QED
      BY <1>14, <2>1, <2>4, <3>3
  <2> QED
    BY <1>1, <1>3, <2>2, <2>3, <2>4
\* The first rounds.
<1>15. CASE FirstRounds(F, m)
  <2>1. m \in {10, 30, 50, 70, 90} /\ F >= 336
    BY <1>4, <1>15 DEF FirstRounds
  <2>2. s >= 1
    BY <1>4, <1>5, <2>1 DEF Share
  <2>3. CASE cABuffer' = NoBuffer
    <3>1. G = F /\ holes' = holes /\ Below(holes, s) /\ allocating'
      BY <1>6, <1>11, <1>12, <2>2, <2>3
    <3>2. CASE m = 90
      BY <1>4, <1>14, <2>1, <2>2, <3>1, <3>2
    <3>3. CASE m # 90
      <4>1. FirstRounds(G, n)
        BY <1>3, <1>4, <1>15, <3>1, <3>3 DEF FirstRounds
      <4> QED
        BY <3>1, <4>1
    <3> QED
      BY <3>2, <3>3
  <2>4. CASE cABuffer' # NoBuffer
    <3>1. G = F - s
      BY <1>6, <2>4
    <3>2. CASE m = 90
      <4>1. ~allocating'
        <5>1. ~(n < 100)
          BY <1>3, <3>2
        <5> QED
          BY <1>12, <2>4, <5>1
      <4> QED
        BY <2>2, <4>1
    <3>3. CASE m # 90
      <4>1. FirstRounds(G, n)
        BY <1>3, <1>4, <1>5, <1>15, <3>1, <3>3 DEF FirstRounds, Share
      <4>2. n < 100
        BY <1>3, <2>1, <3>3
      <4> QED
        BY <1>12, <4>1, <4>2
    <3> QED
      BY <3>2, <3>3
  <2> QED
    BY <2>3, <2>4
\* After the char has wrapped.
<1>16. CASE ~FirstRounds(F, m) /\ m < 100 /\ F >= 254 /\ Below(holes, BufferSize(F, 100))
  <2>0. m \in Nat \ {0} /\ 100 \in Nat \ {0} /\ m <= 100
    BY <1>1, <1>16
  <2>1. Share(F, 100) <= Share(F, m) /\ Share(F, 100) \in Nat
    BY <1>4, <2>0, ShareFalls
  <2>2. BufferSize(F, 100) <= s /\ BufferSize(F, 100) \in Nat
    BY <1>4, <1>8, <2>0, <2>1, SizeFalls, SizeIs
  <2>3. Below(holes, s)
    BY <1>5, <1>9, <1>16, <2>2
  <2>4. Share(F, 100) >= 1
    BY <1>4, <1>16 DEF Share
  <2>5. s >= 1
    BY <1>5, <2>1, <2>4
  <2> QED
    BY <1>14, <1>16, <2>3, <2>5
\* From 100 on.
<1>17. CASE ~FirstRounds(F, m) /\ m >= 100 /\ F >= 254
            /\ Below(holes, BufferSize(F, m - 20))
  <2>1. m <= 254 /\ m - 20 \in Nat \ {0}
    BY <1>1, <1>17
  <2>2. s >= 1
    <3>0. m \in Nat \ {0} /\ 254 \in Nat \ {0} /\ m <= 254
      BY <1>1, <2>1
    <3>1. Share(F, 254) <= Share(F, m) /\ Share(F, 254) \in Nat
      BY <1>4, <3>0, ShareFalls
    <3>2. Share(F, 254) >= 1
      BY <1>4, <1>17 DEF Share
    <3> QED
      BY <1>5, <3>1, <3>2
  <2>3. CASE Below(holes, s)
    BY <1>14, <1>17, <2>2, <2>3
  <2>4. CASE ~Below(holes, s)
    <3>1. /\ cABuffer' = s /\ G = F - s
          /\ \A size \in Nat : Below(holes, size) => Below(holes', size)
      BY <1>6, <2>2, <2>4
    <3>2. cABuffer' # NoBuffer
      BY <1>5, <3>1 DEF NoBuffer
    <3>3. CASE n >= 100
      <4>1. ~allocating'
        <5>1. ~(n < 100)
          BY <1>3, <3>3
        <5> QED
          BY <1>12, <3>2, <5>1
      <4> QED
        BY <2>2, <4>1
    <3>4. CASE n < 100
      <4> DEFINE x == BufferSize(F, m - 20)
                 p == Share(F, m - 20)
                 q == Share(F, m)
      <4>1. m >= 236 /\ m - 20 >= 216
        BY <1>1, <1>3, <1>17, <3>4
      <4>2. x \in Nat /\ p \in Nat /\ x <= p
        BY <1>4, <2>1, SizeIs
      <4>3. x > s
        <5> HIDE DEF x
        <5>1. x <= s => Below(holes, s)
          BY <1>5, <1>9, <1>17, <4>2 DEF x
        <5> QED
          BY <1>5, <2>4, <4>2, <5>1
      <4>4. p <= Share(F, 216) /\ q <= Share(F, 236) /\ q \in Nat
        <5>1. m \in Nat \ {0} /\ 216 \in Nat \ {0} /\ 236 \in Nat \ {0}
          BY <1>1
        <5> QED
          BY <1>4, <2>1, <4>1, <5>1, ShareFalls
      <4>5. s <= q
        BY <1>5
      <4> HIDE DEF x, p, q
      <4>6. Share(F, 216) >= 2
        BY <1>4, <2>2, <1>5, <4>2, <4>3, <4>4 DEF Share
      <4>7. G \in Nat /\ G >= 254 /\ Share(F, 216) <= Share(G, 100)
        BY <1>4, <1>5, <3>1, <4>4, <4>5, <4>6 DEF Share
      <4>8. p <= Share(G, 100)
        BY <1>4, <4>2, <4>4, <4>7 DEF Share
      <4>9. x <= BufferSize(G, 100) /\ BufferSize(G, 100) \in Nat
        <5>1. 100 \in Nat \ {0} /\ Share(F, m - 20) <= Share(G, 100)
          BY <4>8 DEF p
        <5> QED
          BY <1>4, <2>1, <4>7, <5>1, SizeFalls, SizeIs DEF x
      <4>10. Below(holes, BufferSize(G, 100))
        BY <1>9, <1>17, <4>2, <4>9 DEF x
      <4> QED
        BY <1>12, <2>2, <3>1, <3>4, <4>7, <4>9, <4>10
    <3> QED
      BY <1>3, <3>3, <3>4
  <2> QED
    BY <2>3, <2>4
<1> QED
  BY <1>1, <1>15, <1>16, <1>17

\* generateADCBuffer returns with a block of the size it records and at least one
\* slot, whatever holes the heap consists of and however often malloc fails.
THEOREM RingHasASlot == ASSUME HeapsAreLarge PROVE AdcSpec => []BufferIsWhole
<1>1. AdcInit => HeapInv
  <2> SUFFICES ASSUME AdcInit PROVE HeapInv
    OBVIOUS
  <2>1. holes \in HeapShapes /\ cMultiplier = 10 /\ allocating
    BY DEF AdcInit, FirstMultiplier
  <2>2. holes \in Seq(Kinds) /\ getFreeHeap >= 400
    BY <2>1, AdcAssumption DEF HeapsAreLarge, getFreeHeap
  <2> QED
    BY <2>1, <2>2 DEF HeapInv, FirstRounds
<1>2. HeapInv /\ [AdcNext]_adcVars => HeapInv'
  <2>1. ASSUME HeapInv, UNCHANGED adcVars PROVE HeapInv'
    BY <2>1 DEF HeapInv, adcVars, getFreeHeap
  <2> QED
    BY <2>1, RoundKeepsHeap DEF AdcNext
<1>3. HeapInv /\ SizeIsBlock => BufferIsWhole
  BY DEF HeapInv, BufferIsWhole
<1> QED
  BY <1>1, <1>2, <1>3, RingFitsItsBlock, PTL DEF AdcSpec

(***************************************************************************)
(* millis().                                                               *)
(***************************************************************************)
ClockTypes ==
  /\ micros \in 0 .. MicrosMod - 1 /\ sinceTick \in 0 .. TickGap
  /\ wraps \in Nat /\ micros_overflow_count \in Nat
  /\ micros_at_last_overflow_tick \in 0 .. MicrosMod - 1

\* Since the tick the register has not wrapped, or once and not as far as it was.
TickSeen ==
  \/ /\ micros = micros_at_last_overflow_tick + sinceTick
     /\ micros_overflow_count = wraps
  \/ /\ micros + MicrosMod = micros_at_last_overflow_tick + sinceTick
     /\ micros_overflow_count + 1 = wraps

ClockInv == ClockTypes /\ TickSeen

LEMMA SeenWraps == ClockInv => WrapsAreSeen
  BY ClockAssumption DEF ClockInv, ClockTypes, TickSeen, WrapsAreSeen, Overflows

LEMMA TickKeepsInv == ClockInv /\ micros_overflow_tick => ClockInv'
  BY SeenWraps, ClockAssumption
  DEF ClockInv, ClockTypes, TickSeen, WrapsAreSeen, micros_overflow_tick

LEMMA TimeKeepsInv ==
  ASSUME NEW d \in 1 .. TickGap, ClockInv, passTime(d) PROVE ClockInv'
  BY ClockAssumption DEF ClockInv, ClockTypes, TickSeen, passTime

LEMMA ClockStep == ClockInv /\ [ClockNext]_clockVars => ClockInv'
<1>1. ASSUME ClockInv, UNCHANGED clockVars PROVE ClockInv'
  BY <1>1 DEF ClockInv, ClockTypes, TickSeen, clockVars
<1> QED
  BY <1>1, TickKeepsInv, TimeKeepsInv DEF ClockNext

LEMMA ClockStarts == ClockInit => ClockInv
  BY ClockAssumption DEF ClockInit, ClockInv, ClockTypes, TickSeen

\* millis() counts every wrap of the register once, for every width of it, as long
\* as the timer runs within one turn of the register.
THEOREM WrapsSeen == ClockSpec => []WrapsAreSeen
  BY ClockStarts, ClockStep, SeenWraps, PTL DEF ClockSpec

LEMMA DivNat == ASSUME NEW a \in Nat, NEW p \in Nat \ {0} PROVE a \div p \in Nat
  OBVIOUS

\* Division of naturals is monotone.
LEMMA DivMonotone ==
  ASSUME NEW a \in Nat, NEW b \in Nat, NEW p \in Nat \ {0}, a <= b
  PROVE  a \div p <= b \div p
<1> DEFINE x == a \div p
           y == b \div p
<1>1. x \in Int /\ a = p * x + (a % p) /\ a % p \in 0 .. p - 1
  OBVIOUS
<1>2. y \in Int /\ b = p * y + (b % p) /\ b % p \in 0 .. p - 1
  OBVIOUS
<1>3. ASSUME x >= y + 1 PROVE FALSE
  <2>1. p * x >= p * (y + 1)
    BY <1>1, <1>2, <1>3
  <2>2. p * (y + 1) = p * y + p
    BY <1>2
  <2> QED
    BY <1>1, <1>2, <2>1, <2>2
<1> QED
  BY <1>1, <1>2, <1>3

\* A sum of whole milliseconds is ahead of the time it stands for by less than
\* one: k turns of p leave less than two of them out of d.
LEMMA WholeMillis ==
  ASSUME NEW p \in Nat \ {0}, NEW k \in Int, NEW d \in Nat, NEW x \in 0 .. p - 1,
         k * p <= d + x
  PROVE  k <= d \div p + 1
<1> DEFINE e == d \div p
           z == d % p
<1>1. e \in Int /\ d = p * e + z /\ z \in 0 .. p - 1
  OBVIOUS
<1> HIDE DEF e, z
<1>2. SUFFICES ASSUME k >= e + 2 PROVE FALSE
  BY <1>1 DEF e
<1>3. k * p >= (e + 2) * p
  BY <1>1, <1>2
<1>4. (e + 2) * p = (p * e + p) + p
  BY <1>1
<1>5. z + x < p + p
  BY <1>1
<1> QED
  BY <1>1, <1>3, <1>4, <1>5

\* The difference of two numbers of a width is no more than what lies between
\* them.
LEMMA WrappedDifference ==
  ASSUME NEW n \in Nat \ {0}, NEW a \in Nat, NEW b \in Nat, a <= b
  PROVE  ((b % n) - (a % n)) % n <= b - a
<1> DEFINE q == a \div n
           r == b \div n
           u == (b % n) - (a % n)
           t == u \div n
           v == u % n
           c == (r - q) + t
<1>1. q \in Int /\ a = n * q + (a % n) /\ a % n \in Int
  OBVIOUS
<1>2. r \in Int /\ b = n * r + (b % n) /\ b % n \in Int
  OBVIOUS
<1>3. u \in Int
  BY <1>1, <1>2
<1>4. b - a = n * (r - q) + u
  BY <1>1, <1>2
<1> HIDE DEF q, r, u
<1>5. t \in Int /\ u = n * t + v /\ v \in 0 .. n - 1
  BY <1>3
<1> HIDE DEF t, v
<1>6. c \in Int /\ n * c = n * (r - q) + n * t
  BY <1>1, <1>2, <1>5
<1>7. b - a = n * c + v
  BY <1>1, <1>2, <1>4, <1>5, <1>6
<1> HIDE DEF c
<1>8. CASE c >= 0
  <2>1. n * c >= 0
    BY <1>6, <1>8
  <2>2. v <= b - a
    BY <1>5, <1>6, <1>7, <2>1
  <2> QED
    BY <2>2 DEF v, u
<1>9. CASE c <= -1
  <2>1. n * c <= -n
    BY <1>6, <1>9
  <2> QED
    BY <1>5, <1>6, <1>7, <2>1
<1> QED
  BY <1>6, <1>8, <1>9

\* The milliseconds of u turns of a register of range n and a rest of m, and the
\* microseconds they are taken from.
Millis(u, m, n, p) == u * (n \div p) + (m \div p)
Micros(u, m, n) == u * n + m

LEMMA MillisType ==
  ASSUME NEW p \in Nat \ {0}, NEW n \in Nat, NEW u \in Nat, NEW m \in Nat
  PROVE  Millis(u, m, n, p) \in Nat /\ Micros(u, m, n) \in Nat
<1> DEFINE w == n \div p
           a == m \div p
<1>1. w \in Nat /\ a \in Nat
  BY DivNat
<1> HIDE DEF w, a
<1>2. u * w + a \in Nat /\ u * n + m \in Nat
  BY <1>1
<1> QED
  BY <1>2 DEF Millis, Micros, w, a

\* Time that passes adds its milliseconds to the sum, or one more.
LEMMA MillisAdd ==
  ASSUME NEW p \in Nat \ {0}, NEW n \in Nat, NEW u \in Nat, NEW v \in Nat,
         NEW m \in Nat, NEW k \in Nat, m <= n,
         (v = u /\ k >= m) \/ (v = u + 1 /\ k + n >= m)
  PROVE  /\ Millis(u, m, n, p) <= Millis(v, k, n, p)
         /\ Millis(v, k, n, p) - Millis(u, m, n, p)
              <= (Micros(v, k, n) - Micros(u, m, n)) \div p + 1
<1> DEFINE w == n \div p
           r == n % p
           a == m \div p
           x == m % p
           b == k \div p
           y == k % p
           d == Micros(v, k, n) - Micros(u, m, n)
           A == Millis(u, m, n, p)
           B == Millis(v, k, n, p)
<1>1. w \in Nat /\ n = p * w + r /\ r \in 0 .. p - 1
  BY DivNat
<1>2. a \in Nat /\ m = p * a + x /\ x \in 0 .. p - 1
  BY DivNat
<1>3. b \in Nat /\ k = p * b + y /\ y \in 0 .. p - 1
  BY DivNat
<1>4. a <= w /\ (k >= m => a <= b)
  BY DivMonotone
<1>5. A = u * w + a /\ B = v * w + b /\ d = (v * n + k) - (u * n + m)
  BY DEF Millis, Micros
<1> HIDE DEF w, r, a, x, b, y, d, A, B
<1>6. p * a \in Nat /\ p * b \in Nat /\ p * w \in Nat /\ u * w \in Nat /\ u * n \in Nat
  BY <1>1, <1>2, <1>3
<1> DEFINE turn == IF v = u THEN 0 ELSE w
           more == IF v = u THEN 0 ELSE n
           c == (b + turn) - a
<1>7. v * w = u * w + turn /\ v * n = u * n + more /\ turn \in Nat /\ more \in Nat
  BY <1>1
<1>8. c \in Nat
  BY <1>1, <1>2, <1>3, <1>4
<1>9. d = (k + more) - m /\ d \in Nat
  BY <1>5, <1>6, <1>7
<1>10. p * turn <= more /\ p * turn \in Nat
  BY <1>1, <1>6
<1>11. c * p = (p * b + p * turn) - p * a
  BY <1>2, <1>3, <1>7
<1> HIDE DEF turn, more
<1>12. B = A + c /\ A \in Nat
  <2>1. A = u * w + a /\ B = (u * w + turn) + b
    BY <1>5, <1>7
  <2> QED
    BY <1>2, <1>3, <1>6, <1>7, <2>1
<1> HIDE DEF c
<1>13. c * p <= d + x
  BY <1>2, <1>3, <1>6, <1>7, <1>9, <1>10, <1>11
<1>14. c <= d \div p + 1
  BY <1>2, <1>8, <1>9, <1>13, WholeMillis
<1>15. A <= B /\ B - A = c
  BY <1>8, <1>12
<1> QED
  BY <1>14, <1>15 DEF A, B, d

\* What millis() returns before it is cut to its width.
WholeSum == Millis(wraps, micros, MicrosMod, PerMilli)

LEMMA SumAdvances ==
  ASSUME ClockInv, [ClockNext]_clockVars
  PROVE  /\ WholeSum \in Nat /\ WholeSum' \in Nat /\ WholeSum <= WholeSum'
         /\ TrueTime \in Nat /\ TrueTime' \in Nat
         /\ WholeSum' - WholeSum <= (TrueTime' - TrueTime) \div PerMilli + 1
<1>1. PerMilli \in Nat \ {0} /\ MicrosMod \in Nat
  BY ClockAssumption
<1>2. /\ micros \in Nat /\ micros <= MicrosMod /\ micros' \in Nat
      /\ wraps \in Nat /\ wraps' \in Nat
  <2>1. /\ micros \in 0 .. MicrosMod - 1 /\ micros' \in 0 .. MicrosMod - 1
        /\ wraps \in Nat /\ wraps' \in Nat
    BY ClockStep DEF ClockInv, ClockTypes
  <2> QED
    BY <1>1, <2>1
<1>3. \/ wraps' = wraps /\ micros' >= micros
      \/ wraps' = wraps + 1 /\ micros' + MicrosMod >= micros
  <2>1. CASE UNCHANGED clockVars
    BY <1>2, <2>1 DEF clockVars
  <2>2. CASE micros_overflow_tick
    BY <1>2, <2>2 DEF micros_overflow_tick
  <2>3. ASSUME NEW t \in 1 .. TickGap, passTime(t)
        PROVE  \/ wraps' = wraps /\ micros' >= micros
               \/ wraps' = wraps + 1 /\ micros' + MicrosMod >= micros
    <3>1. t \in Nat
      BY ClockAssumption
    <3>2. \/ wraps' = wraps + 1 /\ micros' = (micros + t) - MicrosMod
          \/ wraps' = wraps /\ micros' = micros + t
      BY <1>1, <1>2, <2>3, <3>1 DEF passTime
    <3>3. CASE wraps' = wraps + 1 /\ micros' = (micros + t) - MicrosMod
      BY <1>1, <1>2, <3>1, <3>3
    <3>4. CASE wraps' = wraps /\ micros' = micros + t
      BY <1>1, <1>2, <3>1, <3>4
    <3> QED
      BY <3>2, <3>3, <3>4
  <2> QED
    BY <2>1, <2>2, <2>3 DEF ClockNext
<1>4. /\ TrueTime = Micros(wraps, micros, MicrosMod)
      /\ TrueTime' = Micros(wraps', micros', MicrosMod)
      /\ WholeSum' = Millis(wraps', micros', MicrosMod, PerMilli)
  BY DEF TrueTime, Micros, WholeSum
<1>5. /\ WholeSum \in Nat /\ WholeSum' \in Nat /\ TrueTime \in Nat /\ TrueTime' \in Nat
  BY <1>1, <1>2, <1>4, MillisType DEF WholeSum
<1>6. /\ WholeSum <= WholeSum'
      /\ WholeSum' - WholeSum <= (TrueTime' - TrueTime) \div PerMilli + 1
  BY <1>1, <1>2, <1>3, <1>4, MillisAdd DEF WholeSum
<1> QED
  BY <1>5, <1>6

\* Whoever subtracts two readings of millis() gets the time between them, over
\* wraps of the microsecond register and of millis() itself, for every width of
\* the two.
THEOREM TimeAdvances == ClockSpec => MillisAdvances
<1> DEFINE Advances ==
      (millis' - millis) % MillisMod <= (TrueTime' - TrueTime) \div PerMilli + 1
<1>1. ASSUME ClockInv, WrapsAreSeen, WrapsAreSeen', [ClockNext]_clockVars
      PROVE  Advances
  <2>1. millis = WholeSum % MillisMod /\ millis' = WholeSum' % MillisMod
    BY <1>1 DEF WrapsAreSeen, millis, WholeSum, Millis, MillisPerWrap
  <2> DEFINE A == WholeSum
             B == WholeSum'
             bound == (TrueTime' - TrueTime) \div PerMilli + 1
  <2>2. A \in Nat /\ B \in Nat /\ A <= B /\ B - A <= bound
    BY <1>1, SumAdvances
  <2>3. MillisMod \in Nat \ {0} /\ PerMilli \in Nat \ {0}
    BY ClockAssumption
  <2>4. bound \in Int
    <3>1. TrueTime \in Nat /\ TrueTime' \in Nat
      BY <1>1, SumAdvances
    <3> QED
      BY <2>3, <3>1
  <2> HIDE DEF A, B, bound
  <2>5. ((B % MillisMod) - (A % MillisMod)) % MillisMod <= B - A
    BY <2>2, <2>3, WrappedDifference
  <2>6. ((B % MillisMod) - (A % MillisMod)) % MillisMod \in Int
    BY <2>2, <2>3
  <2>7. ((B % MillisMod) - (A % MillisMod)) % MillisMod <= bound
    BY <2>2, <2>4, <2>5, <2>6
  <2> QED
    BY <2>1, <2>7 DEF A, B, bound
<1>2. ASSUME ClockInv, WrapsAreSeen, WrapsAreSeen', [ClockNext]_clockVars
      PROVE  [Advances]_clockVars
  BY <1>1, <1>2
<1> QED
  BY <1>2, ClockStarts, ClockStep, WrapsSeen, PTL DEF ClockSpec, MillisAdvances

(***************************************************************************)
(* The serial port.                                                        *)
(***************************************************************************)
SerialTypes ==
  /\ fifo \in Seq(Int) /\ Len(fifo) <= FifoSize
  /\ cells \in [0 .. TxBufferSize - 1 -> Int]
  /\ _begin \in 0 .. TxBufferSize - 1 /\ _end \in 0 .. TxBufferSize - 1
  /\ room \in 0 .. FifoSize /\ moved \in BOOLEAN
  /\ accepted \in Int /\ sent \in Int

\* What write() has seen is still so, unless the interrupt has moved bytes.
WriteLooked ==
  /\ task \in {"looked", "transmit"} /\ ~moved => Len(fifo) + room <= FifoSize
  /\ task = "transmit" => room > 0 /\ _begin = _end

\* getSize of a ring from b to e, and the bytes under way one by one: those of
\* the FIFO f, those of the ring with cells c, and the next to be accepted, a.
Size(b, e) == IF e >= b THEN e - b ELSE TxBufferSize - (b - e)
Under(f, b, e, c, a, i) ==
  IF i <= Len(f) THEN f[i]
  ELSE IF i <= Len(f) + Size(b, e) THEN c[Ahead(b, i - Len(f) - 1)]
  ELSE a

ChainOf(f, b, e, c, a, s) ==
  /\ Under(f, b, e, c, a, 1) = s
  /\ \A i \in 1 .. Len(f) + Size(b, e) :
        Under(f, b, e, c, a, i + 1) = Follows(Under(f, b, e, c, a, i))
Chained == ChainOf(fifo, _begin, _end, cells, accepted, sent)

SerialInv == SerialTypes /\ WriteLooked /\ Chained

LEMMA AheadIs ==
  ASSUME NEW b \in 0 .. TxBufferSize - 1, NEW n \in 0 .. TxBufferSize
  PROVE  /\ b + n < TxBufferSize => Ahead(b, n) = b + n
         /\ b + n >= TxBufferSize => Ahead(b, n) = b + n - TxBufferSize
         /\ Ahead(b, n) \in 0 .. TxBufferSize - 1
<1>1. TxBufferSize \in Nat \ {0}
  BY SerialAssumption
<1>2. CASE b + n < TxBufferSize
  <2>1. b + n \in 0 .. TxBufferSize - 1
    BY <1>1, <1>2
  <2>2. (b + n) % TxBufferSize = b + n
    BY <1>1, <2>1
  <2>3. Ahead(b, n) = b + n
    BY <2>2 DEF Ahead
  <2> QED
    BY <1>1, <1>2, <2>1, <2>3
<1>3. CASE b + n >= TxBufferSize
  <2>1. b + n - TxBufferSize \in 0 .. TxBufferSize - 1
    BY <1>1, <1>3
  <2>2. (b + n) % TxBufferSize = b + n - TxBufferSize
    BY <1>1, <1>3, <2>1
  <2>3. Ahead(b, n) = b + n - TxBufferSize
    BY <2>2 DEF Ahead
  <2> QED
    BY <1>1, <1>3, <2>1, <2>3
<1> QED
  BY <1>1, <1>2, <1>3

LEMMA SizeOfRing ==
  ASSUME NEW b \in 0 .. TxBufferSize - 1, NEW e \in 0 .. TxBufferSize - 1
  PROVE  /\ Size(b, e) \in 0 .. TxBufferSize - 1
         /\ Ahead(b, Size(b, e)) = e
  <1>1. Size(b, e) \in 0 .. TxBufferSize - 1 /\ Size(b, e) \in 0 .. TxBufferSize
    BY SerialAssumption DEF Size
  <1>2. e >= b => Ahead(b, Size(b, e)) = e
    BY <1>1, AheadIs, SerialAssumption DEF Size
  <1>3. e < b => Ahead(b, Size(b, e)) = e
    BY <1>1, AheadIs, SerialAssumption DEF Size
  <1> QED
    BY <1>1, <1>2, <1>3

\* Places of the ring fewer than its size apart are different.
LEMMA AheadDiffers ==
  ASSUME NEW b \in 0 .. TxBufferSize - 1,
         NEW m \in 0 .. TxBufferSize - 1, NEW n \in 0 .. TxBufferSize - 1, m # n
  PROVE  Ahead(b, m) # Ahead(b, n)
<1>1. m \in 0 .. TxBufferSize /\ n \in 0 .. TxBufferSize /\ TxBufferSize \in Nat
  BY SerialAssumption
<1>2. \/ Ahead(b, m) = b + m /\ b + m < TxBufferSize
      \/ Ahead(b, m) = b + m - TxBufferSize /\ b + m >= TxBufferSize
  BY <1>1, AheadIs
<1>3. \/ Ahead(b, n) = b + n /\ b + n < TxBufferSize
      \/ Ahead(b, n) = b + n - TxBufferSize /\ b + n >= TxBufferSize
  BY <1>1, AheadIs
<1> QED
  BY <1>1, <1>2, <1>3

LEMMA AheadTwice ==
  ASSUME NEW b \in 0 .. TxBufferSize - 1, NEW m \in 0 .. TxBufferSize - 1,
         NEW n \in 0 .. TxBufferSize - 1, m + n < TxBufferSize
  PROVE  Ahead(Ahead(b, m), n) = Ahead(b, m + n)
<1>1. m \in 0 .. TxBufferSize /\ n \in 0 .. TxBufferSize /\ m + n \in 0 .. TxBufferSize
      /\ TxBufferSize \in Nat
  BY SerialAssumption
<1>2. Ahead(b, m) \in 0 .. TxBufferSize - 1 /\ Ahead(b, m + n) \in 0 .. TxBufferSize - 1
  BY <1>1, AheadIs
<1>3. Ahead(b, m) = b + m \/ Ahead(b, m) = b + m - TxBufferSize
  BY <1>1, AheadIs
<1>4. Ahead(b, m + n) = b + (m + n) \/ Ahead(b, m + n) = b + (m + n) - TxBufferSize
  BY <1>1, AheadIs
<1>5. Ahead(Ahead(b, m), n) = Ahead(b, m) + n
      \/ Ahead(Ahead(b, m), n) = Ahead(b, m) + n - TxBufferSize
  BY <1>1, <1>2, AheadIs
<1>6. Ahead(Ahead(b, m), n) \in 0 .. TxBufferSize - 1
  BY <1>1, <1>2, AheadIs
<1> QED
  BY <1>1, <1>2, <1>3, <1>4, <1>5, <1>6

\* BytesInOrder says of one sequence what ChainOf says place by place.
LEMMA ChainIsOrder == SerialInv => BytesInOrder
<1> SUFFICES ASSUME SerialInv PROVE BytesInOrder
  OBVIOUS
<1> DEFINE g == Size(_begin, _end)
           l == Len(fifo)
           ring == Ring(g)
           numbers == Append(fifo \o ring, accepted)
           U(i) == Under(fifo, _begin, _end, cells, accepted, i)
<1>1. g \in 0 .. TxBufferSize - 1 /\ g \in Nat /\ l \in Nat /\ getSize = g
  BY SizeOfRing, SerialAssumption DEF SerialInv, SerialTypes, getSize, Size
<1>2. ring \in Seq(Int) /\ Len(ring) = g
  <2>1. \A i \in 1 .. g : cells[Ahead(_begin, i - 1)] \in Int
    <3> SUFFICES ASSUME NEW i \in 1 .. g PROVE cells[Ahead(_begin, i - 1)] \in Int
      OBVIOUS
    <3>1. i - 1 \in 0 .. TxBufferSize
      BY <1>1, SerialAssumption
    <3>2. Ahead(_begin, i - 1) \in 0 .. TxBufferSize - 1
      BY <3>1, AheadIs DEF SerialInv, SerialTypes
    <3> QED
      BY <3>2 DEF SerialInv, SerialTypes
  <2>2. ring = [i \in 1 .. g |-> cells[Ahead(_begin, i - 1)]]
    BY DEF Ring
  <2> HIDE DEF g, ring
  <2> QED
    BY <1>1, <2>1, <2>2
<1>3. fifo \in Seq(Int) /\ accepted \in Int
  BY DEF SerialInv, SerialTypes
<1>4. ring = [i \in 1 .. g |-> cells[Ahead(_begin, i - 1)]]
  BY DEF Ring
<1> HIDE DEF ring
<1>5. Len(numbers) = l + g + 1
  BY <1>1, <1>2, <1>3
<1>6. ASSUME NEW i \in 1 .. l + g + 1 PROVE numbers[i] = U(i)
  <2>1. CASE i <= l
    BY <1>1, <1>2, <1>3, <2>1 DEF Under
  <2>2. CASE i > l /\ i <= l + g
    <3>1. numbers[i] = ring[i - l]
      BY <1>1, <1>2, <1>3, <2>2
    <3>2. i - l \in 1 .. g
      BY <1>1, <2>2
    <3>3. ring[i - l] = cells[Ahead(_begin, i - l - 1)]
      BY <1>4, <3>2
    <3>4. U(i) = cells[Ahead(_begin, i - l - 1)]
      BY <1>1, <2>2 DEF Under
    <3> QED
      BY <3>1, <3>3, <3>4
  <2>3. CASE i = l + g + 1
    <3>1. numbers[i] = accepted
      BY <1>1, <1>2, <1>3, <2>3
    <3>2. ~(i <= l) /\ ~(i <= l + g)
      BY <1>1, <2>3
    <3>3. U(i) = accepted
      BY <3>2 DEF Under
    <3> QED
      BY <3>1, <3>3
  <2> HIDE DEF numbers, U, g, l
  <2> QED
    BY <1>1, <2>1, <2>2, <2>3
<1>7. U(1) = sent /\ \A i \in 1 .. l + g : U(i + 1) = Follows(U(i))
  BY DEF SerialInv, Chained, ChainOf
<1> HIDE DEF numbers, U
<1>8. numbers[1] = sent
  BY <1>1, <1>6, <1>7
<1>9. ASSUME NEW i \in 1 .. Len(numbers) - 1 PROVE numbers[i + 1] = Follows(numbers[i])
  <2>1. i \in 1 .. l + g + 1 /\ i + 1 \in 1 .. l + g + 1 /\ i \in 1 .. l + g
    BY <1>1, <1>5
  <2>2. numbers[i] = U(i) /\ numbers[i + 1] = U(i + 1)
    BY <1>6, <2>1
  <2> QED
    BY <1>7, <2>1, <2>2
<1> USE DEF numbers
<1>10. numbers = Append(fifo \o Ring(getSize), accepted)
  BY <1>1 DEF ring
<1> HIDE DEF numbers
<1> QED
  BY <1>8, <1>9, <1>10 DEF BytesInOrder

\* A chain that grows by one number at its end is a chain.
LEMMA ChainGrows ==
  ASSUME NEW f \in Seq(Int), NEW f2 \in Seq(Int), NEW b, NEW e, NEW e2, NEW c, NEW c2,
         NEW a, NEW s, Size(b, e) \in Nat, Size(b, e2) \in Nat,
         Len(f2) + Size(b, e2) = Len(f) + Size(b, e) + 1,
         \A i \in 1 .. Len(f) + Size(b, e) + 1 :
            Under(f2, b, e2, c2, Follows(a), i) = Under(f, b, e, c, a, i),
         ChainOf(f, b, e, c, a, s)
  PROVE  ChainOf(f2, b, e2, c2, Follows(a), s)
<1> DEFINE m == Len(f) + Size(b, e)
           U(i) == Under(f, b, e, c, a, i)
           V(i) == Under(f2, b, e2, c2, Follows(a), i)
<1>1. m \in Nat
  OBVIOUS
<1>2. U(1) = s /\ \A i \in 1 .. m : U(i + 1) = Follows(U(i))
  BY DEF ChainOf
<1>3. \A i \in 1 .. m + 1 : V(i) = U(i)
  OBVIOUS
<1>4. U(m + 1) = a
  <2>1. ~(m + 1 <= Len(f)) /\ ~(m + 1 <= Len(f) + Size(b, e))
    OBVIOUS
  <2> QED
    BY <2>1 DEF Under
<1>5. V(m + 2) = Follows(a)
  <2>1. ~(m + 2 <= Len(f2)) /\ ~(m + 2 <= Len(f2) + Size(b, e2))
    OBVIOUS
  <2> QED
    BY <2>1 DEF Under
<1>6. Len(f2) + Size(b, e2) = m + 1
  OBVIOUS
<1> HIDE DEF m, U, V
<1>7. \A i \in 1 .. m + 1 : V(i + 1) = Follows(V(i))
  <2> SUFFICES ASSUME NEW i \in 1 .. m + 1 PROVE V(i + 1) = Follows(V(i))
    OBVIOUS
  <2>1. CASE i \in 1 .. m
    <3>1. i \in 1 .. m + 1 /\ i + 1 \in 1 .. m + 1
      BY <1>1, <2>1
    <3> QED
      BY <1>2, <1>3, <2>1, <3>1
  <2>2. CASE i = m + 1
    <3>1. i + 1 = m + 2
      BY <1>1, <2>2
    <3> QED
      BY <1>3, <1>4, <1>5, <2>2, <3>1
  <2> QED
    BY <1>1, <2>1, <2>2
<1>8. V(1) = s
  BY <1>1, <1>2, <1>3
<1> QED
  BY <1>6, <1>7, <1>8 DEF ChainOf, V

LEMMA ChainTransmits ==
  ASSUME NEW f \in Seq(Int), NEW b \in 0 .. TxBufferSize - 1, NEW c, NEW a \in Int, NEW s,
         ChainOf(f, b, b, c, a, s)
  PROVE  ChainOf(Append(f, a), b, b, c, Follows(a), s)
<1>1. Size(b, b) = 0
  BY DEF Size
<1>2. Append(f, a) \in Seq(Int) /\ Len(Append(f, a)) = Len(f) + 1
  OBVIOUS
<1>3. ASSUME NEW i \in 1 .. Len(f) + Size(b, b) + 1
      PROVE  Under(Append(f, a), b, b, c, Follows(a), i) = Under(f, b, b, c, a, i)
  <2>1. CASE i <= Len(f)
    BY <1>1, <1>2, <2>1 DEF Under
  <2>2. CASE i = Len(f) + 1
    <3>1. i <= Len(Append(f, a)) /\ ~(i <= Len(f)) /\ ~(i <= Len(f) + Size(b, b))
          /\ Append(f, a)[i] = a
      BY <1>1, <1>2, <2>2
    <3> QED
      BY <3>1 DEF Under
  <2> QED
    BY <1>1, <2>1, <2>2
<1>4. Size(b, b) \in Nat
      /\ Len(Append(f, a)) + Size(b, b) = Len(f) + Size(b, b) + 1
  BY <1>1, <1>2
<1> QED
  BY <1>2, <1>3, <1>4, ChainGrows

LEMMA ChainQueues ==
  ASSUME NEW f \in Seq(Int), NEW b \in 0 .. TxBufferSize - 1,
         NEW e \in 0 .. TxBufferSize - 1, NEW c \in [0 .. TxBufferSize - 1 -> Int],
         NEW a \in Int, NEW s, Size(b, e) < TxBufferSize - 1, ChainOf(f, b, e, c, a, s)
  PROVE  ChainOf(f, b, Ahead(e, 1), [c EXCEPT ![e] = a], Follows(a), s)
<1> DEFINE e2 == Ahead(e, 1)
           c2 == [c EXCEPT ![e] = a]
           g == Size(b, e)
<1>1. TxBufferSize \in Nat /\ TxBufferSize > 1 /\ 1 \in 0 .. TxBufferSize
      /\ 1 \in 0 .. TxBufferSize - 1
  BY SerialAssumption
<1>2. g \in 0 .. TxBufferSize - 1 /\ Ahead(b, g) = e
  BY SizeOfRing
<1>3. e2 \in 0 .. TxBufferSize - 1
  BY <1>1, AheadIs
<1>4. Size(b, e2) = g + 1
  <2>1. \/ e + 1 < TxBufferSize /\ e2 = e + 1
        \/ e + 1 = TxBufferSize /\ e2 = 0
    <3>1. e + 1 < TxBufferSize => Ahead(e, 1) = e + 1
      BY <1>1, AheadIs
    <3>2. e + 1 >= TxBufferSize => Ahead(e, 1) = e + 1 - TxBufferSize
      BY <1>1, AheadIs
    <3> QED
      BY <1>1, <3>1, <3>2
  <2>2. \/ e >= b /\ g = e - b
        \/ e < b /\ g = TxBufferSize - (b - e)
    BY <1>1 DEF Size
  <2>3. \/ e2 >= b /\ Size(b, e2) = e2 - b
        \/ e2 < b /\ Size(b, e2) = TxBufferSize - (b - e2)
    BY <1>1, <1>3 DEF Size
  <2>4. g < TxBufferSize - 1
    OBVIOUS
  <2>5. g \in Int /\ e2 \in Int /\ e >= 0 /\ b < TxBufferSize /\ b >= 0
    BY <1>1, <1>2, <1>3
  <2> HIDE DEF e2, g
  <2>6. CASE e + 1 < TxBufferSize /\ e2 = e + 1
    <3>1. CASE e >= b
      <4>1. g = e - b
        BY <1>1, <2>2, <3>1
      <4>2. e2 >= b
        BY <2>6, <3>1
      <4>3. Size(b, e2) = e2 - b
        BY <2>3, <2>5, <4>2
      <4> QED
        BY <2>6, <4>1, <4>3
    <3>2. CASE e < b
      <4>1. g = TxBufferSize - (b - e)
        BY <1>1, <2>2, <3>2
      <4>2. e2 < b
        BY <1>1, <2>4, <2>6, <3>2, <4>1
      <4>3. Size(b, e2) = TxBufferSize - (b - e2)
        BY <2>3, <2>5, <4>2
      <4> QED
        BY <1>1, <2>6, <4>1, <4>3
    <3> QED
      BY <3>1, <3>2
  <2>7. CASE e + 1 = TxBufferSize /\ e2 = 0
    BY <1>1, <2>2, <2>3, <2>4, <2>5, <2>7
  <2> QED
    BY <2>1, <2>6, <2>7
<1>5. ASSUME NEW k \in 0 .. TxBufferSize - 1, k <= g
      PROVE  c2[Ahead(b, k)] = IF k = g THEN a ELSE c[Ahead(b, k)]
  <2>1. k \in 0 .. TxBufferSize
    BY <1>1
  <2>2. Ahead(b, k) \in 0 .. TxBufferSize - 1
    BY <2>1, AheadIs
  <2>3. k # g => Ahead(b, k) # e
    BY <1>2, AheadDiffers
  <2> QED
    BY <1>2, <2>2, <2>3
<1> HIDE DEF e2, c2
<1>6. ASSUME NEW i \in 1 .. Len(f) + g + 1
      PROVE  Under(f, b, e2, c2, Follows(a), i) = Under(f, b, e, c, a, i)
  <2>1. CASE i <= Len(f)
    BY <2>1 DEF Under
  <2>2. CASE i > Len(f)
    <3> DEFINE k == i - Len(f) - 1
               l == Len(f)
    <3>7. l \in Nat /\ i \in 1 .. l + g + 1 /\ i > l /\ k = i - l - 1
      BY <1>2, <2>2
    <3> HIDE DEF k, l, g
    <3>8. k \in 0 .. TxBufferSize - 1 /\ k <= g /\ i <= l + (g + 1) /\ ~(i <= l)
      BY <1>1, <1>2, <3>7
    <3>1. k \in 0 .. TxBufferSize - 1 /\ k <= g /\ i <= Len(f) + Size(b, e2) /\ ~(i <= Len(f))
      BY <1>4, <3>8, Zenon DEF l
    <3> USE DEF k, g
    <3>2. Under(f, b, e2, c2, Follows(a), i) = c2[Ahead(b, k)]
      BY <3>1 DEF Under
    <3>3. Under(f, b, e, c, a, i) = IF i <= Len(f) + g THEN c[Ahead(b, k)] ELSE a
      BY <3>1 DEF Under
    <3>6. i = Len(f) + 1 + k /\ Len(f) \in Nat
      BY <1>1, <1>2
    <3> HIDE DEF k, g
    <3>4. (k = g => ~(i <= Len(f) + g)) /\ (k # g => i <= Len(f) + g)
      BY <1>1, <1>2, <3>1, <3>6
    <3>5. c2[Ahead(b, k)] = IF k = g THEN a ELSE c[Ahead(b, k)]
      BY <1>5, <3>1
    <3> QED
      BY <3>2, <3>3, <3>4, <3>5
  <2> DEFINE l == Len(f)
  <2>3. l \in Nat /\ i \in Int
    BY <1>2
  <2> HIDE DEF l, g
  <2>4. i <= l \/ i > l
    BY <2>3
  <2> QED
    BY <2>1, <2>2, <2>4, Zenon DEF l
<1>7. Size(b, e) \in Nat /\ Size(b, e2) \in Nat
      /\ Len(f) + Size(b, e2) = Len(f) + Size(b, e) + 1
  <2> DEFINE l == Len(f)
             z2 == Size(b, e2)
  <2>1. l \in Nat /\ z2 = g + 1 /\ g \in Nat
    BY <1>1, <1>2, <1>4
  <2> HIDE DEF l, g, z2
  <2>2. g \in Nat /\ z2 \in Nat /\ l + z2 = l + g + 1
    BY <2>1
  <2> QED
    BY <2>2, Zenon DEF l, g, z2
<1>8. ChainOf(f, b, e2, c2, Follows(a), s)
  BY <1>6, <1>7, ChainGrows
<1> QED
  BY <1>8 DEF e2, c2

LEMMA ChainSends ==
  ASSUME NEW f \in Seq(Int), f # << >>, NEW b, NEW e, NEW c, NEW a, NEW s,
         Size(b, e) \in Nat, ChainOf(f, b, e, c, a, s)
  PROVE  ChainOf(Tail(f), b, e, c, a, Follows(s))
<1> DEFINE m == Len(f) + Size(b, e)
           U(i) == Under(f, b, e, c, a, i)
           V(i) == Under(Tail(f), b, e, c, a, i)
<1>1. /\ m \in Nat /\ m >= 1 /\ Tail(f) \in Seq(Int)
      /\ Len(Tail(f)) = Len(f) - 1 /\ Len(f) \in Nat \ {0}
      /\ \A i \in 1 .. Len(f) - 1 : Tail(f)[i] = f[i + 1]
  OBVIOUS
<1>2. U(1) = s /\ \A i \in 1 .. m : U(i + 1) = Follows(U(i))
  BY DEF ChainOf
<1>3. ASSUME NEW i \in Nat \ {0} PROVE V(i) = U(i + 1)
  <2>1. CASE i <= Len(f) - 1
    <3>1. i <= Len(Tail(f)) /\ i + 1 <= Len(f) /\ Tail(f)[i] = f[i + 1]
      BY <1>1, <2>1
    <3> QED
      BY <3>1 DEF Under
  <2>2. CASE i > Len(f) - 1
    <3>1. ~(i <= Len(Tail(f))) /\ ~(i + 1 <= Len(f))
      BY <1>1, <2>2
    <3>2. i <= Len(Tail(f)) + Size(b, e) <=> i + 1 <= Len(f) + Size(b, e)
      BY <1>1
    <3>3. i - Len(Tail(f)) - 1 = (i + 1) - Len(f) - 1
      BY <1>1
    <3> QED
      BY <3>1, <3>2, <3>3 DEF Under
  <2> QED
    BY <1>1, <2>1, <2>2
<1>4. Len(Tail(f)) + Size(b, e) = m - 1
  BY <1>1
<1> HIDE DEF m, U, V
<1>5. V(1) = Follows(s)
  BY <1>1, <1>2, <1>3
<1>6. \A i \in 1 .. m - 1 : V(i + 1) = Follows(V(i))
  <2> SUFFICES ASSUME NEW i \in 1 .. m - 1 PROVE V(i + 1) = Follows(V(i))
    OBVIOUS
  <2>1. i \in Nat \ {0} /\ i + 1 \in Nat \ {0} /\ i + 1 \in 1 .. m
    BY <1>1
  <2> QED
    BY <1>2, <1>3, <2>1
<1> QED
  BY <1>4, <1>5, <1>6 DEF ChainOf, V

LEMMA ConcatLen ==
  ASSUME NEW f \in Seq(Int), NEW moving \in Seq(Int)
  PROVE  Len(f \o moving) = Len(f) + Len(moving)
  OBVIOUS

LEMMA ConcatLeft ==
  ASSUME NEW f \in Seq(Int), NEW moving \in Seq(Int), NEW i \in 1 .. Len(f)
  PROVE  i <= Len(f \o moving) /\ (f \o moving)[i] = f[i]
  OBVIOUS

LEMMA ConcatRight ==
  ASSUME NEW f \in Seq(Int), NEW moving \in Seq(Int), NEW j \in 1 .. Len(moving)
  PROVE  (f \o moving)[Len(f) + j] = moving[j]
  OBVIOUS

LEMMA SizeShrinks ==
  ASSUME NEW b \in 0 .. TxBufferSize - 1, NEW e \in 0 .. TxBufferSize - 1,
         NEW n \in 0 .. TxBufferSize, n <= Size(b, e)
  PROVE  Size(Ahead(b, n), e) = Size(b, e) - n
<1>1. TxBufferSize \in Nat
  BY SerialAssumption
<1>2. CASE b + n < TxBufferSize
  <2>1. Ahead(b, n) = b + n
    BY <1>2, AheadIs
  <2> QED
    BY <1>1, <1>2, <2>1 DEF Size
<1>3. CASE b + n >= TxBufferSize
  <2>1. Ahead(b, n) = b + n - TxBufferSize
    BY <1>3, AheadIs
  <2> QED
    BY <1>1, <1>3, <2>1 DEF Size
<1> QED
  BY <1>1, <1>2, <1>3

\* The interrupt moves the first n bytes of the ring: each keeps its place in the
\* order.
LEMMA ChainMoves ==
  ASSUME NEW f \in Seq(Int), NEW b \in 0 .. TxBufferSize - 1,
         NEW e \in 0 .. TxBufferSize - 1, NEW c \in [0 .. TxBufferSize - 1 -> Int],
         NEW a, NEW s, NEW n \in 1 .. Size(b, e), NEW c2, NEW moving \in Seq(Int),
         Len(moving) = n, \A i \in 1 .. n : moving[i] = c[Ahead(b, i - 1)],
         \A p \in 0 .. TxBufferSize - 1 :
            (\A i \in 1 .. n : p # Ahead(b, i - 1)) => c2[p] = c[p],
         ChainOf(f, b, e, c, a, s)
  PROVE  ChainOf(f \o moving, Ahead(b, n), e, c2, a, s)
<1> DEFINE g == Size(b, e)
           m == Len(f) + g
           b2 == Ahead(b, n)
           U(i) == Under(f, b, e, c, a, i)
           V(i) == Under(f \o moving, b2, e, c2, a, i)
<1>10. TxBufferSize \in Nat /\ g \in 0 .. TxBufferSize - 1
  BY SizeOfRing, SerialAssumption
<1>1. /\ TxBufferSize \in Nat /\ g \in 0 .. TxBufferSize - 1 /\ n \in 1 .. g
      /\ n \in 0 .. TxBufferSize - 1 /\ n \in 0 .. TxBufferSize
  BY <1>10
<1>11. Len(f) \in Nat /\ Len(f \o moving) = Len(f) + n
  <2>1. Len(f \o moving) = Len(f) + Len(moving)
    BY ConcatLen
  <2> QED
    BY <2>1
<1>2. b2 \in 0 .. TxBufferSize - 1
  BY <1>1, AheadIs
<1>3. Size(b2, e) = g - n
  BY <1>1, SizeShrinks
<1>4. ASSUME NEW k \in 0 .. TxBufferSize - 1, n + k < g
      PROVE  c2[Ahead(b2, k)] = c[Ahead(b, n + k)]
  <2>5. n + k < TxBufferSize
    BY <1>1, <1>4
  <2>1. Ahead(b2, k) = Ahead(b, n + k)
    BY <1>1, <2>5, AheadTwice
  <2>2. n + k \in 0 .. TxBufferSize - 1 /\ n + k \in 0 .. TxBufferSize
    BY <1>1, <1>4
  <2>3. Ahead(b, n + k) \in 0 .. TxBufferSize - 1
    BY <2>2, AheadIs
  <2>4. \A i \in 1 .. n : Ahead(b, n + k) # Ahead(b, i - 1)
    <3> SUFFICES ASSUME NEW i \in 1 .. n PROVE Ahead(b, n + k) # Ahead(b, i - 1)
      OBVIOUS
    <3>1. i - 1 \in 0 .. TxBufferSize - 1 /\ i - 1 # n + k
      BY <1>1, <1>4, SMTT(40)
    <3> QED
      BY <2>2, <3>1, AheadDiffers
  <2> QED
    BY <2>1, <2>3, <2>4
<1>5. ASSUME NEW i \in 1 .. m + 1 PROVE V(i) = U(i)
  <2>4. i \in Nat /\ i >= 1
    BY <1>1, <1>11
  <2>1. CASE i <= Len(f)
    <3>1. i <= Len(f \o moving) /\ (f \o moving)[i] = f[i]
      <4>1. i \in 1 .. Len(f)
        BY <1>11, <2>1, <2>4
      <4> QED
        BY <4>1, ConcatLeft
    <3> QED
      BY <2>1, <3>1 DEF Under
  <2>2. CASE i > Len(f) /\ i <= Len(f) + n
    <3> DEFINE l == Len(f)
    <3>3. l \in Nat /\ l < i /\ i <= l + n
      BY <1>11, <2>2
    <3> HIDE DEF l, g
    <3>4. i - l \in 1 .. n /\ i <= l + n /\ ~(i <= l) /\ i <= l + g /\ l + (i - l) = i
      BY <1>1, <2>4, <3>3
    <3>1. i - Len(f) \in 1 .. n /\ i <= Len(f \o moving) /\ ~(i <= Len(f))
          /\ i <= Len(f) + Size(b, e)
      BY <1>11, <3>4, Zenon DEF l, g
    <3>2. (f \o moving)[i] = moving[i - Len(f)]
      <4> DEFINE j == i - l
      <4>1. j \in 1 .. Len(moving) /\ l + j = i
        BY <3>4
      <4> HIDE DEF j
      <4>2. (f \o moving)[l + j] = moving[j]
        BY <4>1, ConcatRight DEF l
      <4> QED
        BY <4>1, <4>2, Zenon DEF j, l
    <3> QED
      BY <3>1, <3>2 DEF Under
  <2>3. CASE i > Len(f) + n
    <3> DEFINE k == i - Len(f) - n - 1
    <3> DEFINE l == Len(f)
               l2 == Len(f \o moving)
               g2 == Size(b2, e)
    <3>7. l2 = l + n /\ g2 = g - n /\ l \in Nat /\ i > l + n /\ k = i - l - n - 1
      BY <1>3, <1>11, <2>3
    <3> HIDE DEF k, g, l, l2, g2, m
    <3>8. k \in Nat /\ i - l2 - 1 = k /\ i - l - 1 = n + k /\ ~(i <= l2) /\ ~(i <= l)
      BY <1>1, <2>4, <3>7
    <3>1. k \in Nat /\ i - Len(f \o moving) - 1 = k /\ i - Len(f) - 1 = n + k
          /\ ~(i <= Len(f \o moving)) /\ ~(i <= Len(f))
      BY <3>8, Zenon DEF l, l2
    <3>5. l2 = l + n /\ g2 = g - n /\ l \in Nat /\ i = l + n + 1 + k /\ i = l2 + 1 + k
      BY <1>1, <2>4, <3>7
    <3> HIDE DEF k, g, b2, l, l2, g2, m
    <3>6. /\ n + k < g => i <= l2 + g2
          /\ n + k < g => i <= l + g
          /\ ~(n + k < g) => ~(i <= l2 + g2)
          /\ ~(n + k < g) => ~(i <= l + g)
      BY <1>1, <3>1, <3>5
    <3>2. /\ n + k < g => i <= Len(f \o moving) + Size(b2, e)
          /\ n + k < g => i <= Len(f) + Size(b, e)
          /\ ~(n + k < g) => ~(i <= Len(f \o moving) + Size(b2, e))
          /\ ~(n + k < g) => ~(i <= Len(f) + Size(b, e))
      BY <3>6, Zenon DEF g, l, l2, g2
    <3>3. CASE n + k < g
      <4>1. k \in 0 .. TxBufferSize - 1
        BY <1>1, <3>1, <3>3
      <4>2. V(i) = c2[Ahead(b2, k)]
        BY <3>1, <3>2, <3>3 DEF Under
      <4>3. U(i) = c[Ahead(b, n + k)]
        BY <3>1, <3>2, <3>3 DEF Under
      <4> QED
        BY <1>4, <3>3, <4>1, <4>2, <4>3
    <3>4. CASE ~(n + k < g)
      BY <3>1, <3>2, <3>4 DEF Under
    <3> QED
      BY <3>3, <3>4
  <2> DEFINE l == Len(f)
  <2>5. l \in Nat
    BY <1>11
  <2> HIDE DEF l
  <2>6. i <= l \/ (i > l /\ i <= l + n) \/ i > l + n
    BY <1>1, <2>4, <2>5
  <2> QED
    BY <2>1, <2>2, <2>3, <2>6, Zenon DEF l
<1>6. U(1) = s /\ \A i \in 1 .. m : U(i + 1) = Follows(U(i))
  BY DEF ChainOf
<1>7. Len(f \o moving) + Size(b2, e) = m /\ m \in Nat
  <2> DEFINE l == Len(f)
             l2 == Len(f \o moving)
             g2 == Size(b2, e)
  <2>1. l \in Nat /\ l2 = l + n /\ g2 = g - n
    BY <1>11, <1>3
  <2> HIDE DEF l, l2, g, g2
  <2>2. l2 + g2 = l + g /\ l + g \in Nat
    BY <1>1, <2>1
  <2> QED
    BY <2>2, Zenon DEF l, l2, g, g2
<1> HIDE DEF m, U, V
<1>8. V(1) = s
  BY <1>5, <1>6, <1>7
<1>9. \A i \in 1 .. m : V(i + 1) = Follows(V(i))
  <2> SUFFICES ASSUME NEW i \in 1 .. m PROVE V(i + 1) = Follows(V(i))
    OBVIOUS
  <2>1. i \in 1 .. m + 1 /\ i + 1 \in 1 .. m + 1
    BY <1>7
  <2> QED
    BY <1>5, <1>6, <2>1
<1> QED
  BY <1>7, <1>8, <1>9 DEF ChainOf, V

LEMMA SerialStarts == SerialInit => SerialInv
<1> SUFFICES ASSUME SerialInit PROVE SerialInv
  OBVIOUS
<1>5. << >> \in Seq(Int) /\ Len(<< >>) = 0 /\ 0 \in 0 .. TxBufferSize - 1
      /\ [i \in 0 .. TxBufferSize - 1 |-> -1] \in [0 .. TxBufferSize - 1 -> Int]
  BY SerialAssumption
<1>1. SerialTypes /\ WriteLooked
  <2>1. fifo = << >> /\ cells = [i \in 0 .. TxBufferSize - 1 |-> -1]
        /\ task = "running"
    BY DEF SerialInit, NoByte
  <2>2. WriteLooked
    BY <2>1 DEF WriteLooked
  <2>3. fifo \in Seq(Int) /\ Len(fifo) <= FifoSize
    BY <1>5, <2>1, SerialAssumption
  <2>4. cells \in [0 .. TxBufferSize - 1 -> Int]
    BY <1>5, <2>1
  <2> QED
    <3>1. _begin = 0 /\ _end = 0 /\ room = 0 /\ moved = FALSE /\ accepted = 0 /\ sent = 0
      BY DEF SerialInit
    <3>2. 0 \in 0 .. FifoSize
      BY SerialAssumption
    <3>3. 0 \in Int
      OBVIOUS
    <3>4. 0 \in 0 .. TxBufferSize - 1
      BY <1>5
    <3>5. room \in 0 .. FifoSize /\ moved \in BOOLEAN /\ accepted \in Int /\ sent \in Int
      BY <3>1, <3>2, <3>3, Zenon
    <3> QED
      BY <2>2, <2>3, <2>4, <3>1, <3>4, <3>5, Zenon DEF SerialTypes
<1>2. Size(0, 0) = 0 /\ Len(<< >>) = 0
  BY DEF Size
<1>3. Under(<< >>, 0, 0, cells, 0, 1) = 0
  <2>1. ~(1 <= Len(<< >>)) /\ ~(1 <= Len(<< >>) + Size(0, 0))
    BY <1>2
  <2> QED
    BY <2>1 DEF Under
<1>4. ChainOf(<< >>, 0, 0, cells, 0, 0)
  BY <1>2, <1>3 DEF ChainOf
<1> QED
  BY <1>1, <1>4 DEF SerialInv, Chained, SerialInit

LEMMA TransmitKeeps == SerialInv /\ transmit => SerialInv'
<1> SUFFICES ASSUME SerialInv, transmit PROVE SerialInv'
  OBVIOUS
<1>1. WriteLooked'
  <2>1. task' \in {"arm", "running"}
    BY DEF transmit
  <2> QED
    BY <2>1 DEF WriteLooked
<1>2. CASE fifo' = fifo /\ accepted' = accepted
  BY <1>1, <1>2 DEF SerialInv, SerialTypes, Chained, transmit, ringVars
<1>3. CASE /\ Len(fifo) < FifoSize
           /\ fifo' = Append(fifo, accepted) /\ accepted' = Follows(accepted)
  <2>1. ChainOf(Append(fifo, accepted), _begin, _begin, cells, Follows(accepted), sent)
    BY ChainTransmits DEF SerialInv, SerialTypes, WriteLooked, Chained, transmit
  <2>2. Chained'
    BY <1>3, <2>1 DEF SerialInv, WriteLooked, Chained, transmit, ringVars
  <2>3. Append(fifo, accepted) \in Seq(Int) /\ Len(Append(fifo, accepted)) <= FifoSize
    BY <1>3, SerialAssumption DEF SerialInv, SerialTypes
  <2>4. Follows(accepted) \in Int
    BY SerialAssumption DEF SerialInv, SerialTypes, Follows
  <2>5. SerialTypes'
    BY <1>3, <2>3, <2>4 DEF SerialInv, SerialTypes, transmit, ringVars
  <2> QED
    BY <1>1, <2>2, <2>5 DEF SerialInv
<1> QED
  BY <1>2, <1>3 DEF transmit

LEMMA EnqueueKeeps == SerialInv /\ enqueue => SerialInv'
<1> SUFFICES ASSUME SerialInv, enqueue PROVE SerialInv'
  OBVIOUS
<1>1. SerialTypes
  BY DEF SerialInv
<1>2. TxBufferSize \in Nat /\ 1 \in 0 .. TxBufferSize
  BY SerialAssumption
<1>3. Ahead(_end, 1) \in 0 .. TxBufferSize - 1
  BY <1>1, <1>2, AheadIs DEF SerialTypes
<1>4. [cells EXCEPT ![_end] = accepted] \in [0 .. TxBufferSize - 1 -> Int]
  BY <1>1 DEF SerialTypes
<1>5. Follows(accepted) \in Int
  BY <1>1, SerialAssumption DEF SerialTypes, Follows
<1>6. SerialTypes'
  BY <1>1, <1>3, <1>4, <1>5 DEF SerialTypes, enqueue
<1>7. WriteLooked'
  BY DEF WriteLooked, enqueue
<1>8. Size(_begin, _end) < TxBufferSize - 1
  BY <1>1, <1>2 DEF SerialTypes, enqueue, ringRoom, Size
<1>9. ChainOf(fifo, _begin, Ahead(_end, 1), [cells EXCEPT ![_end] = accepted],
              Follows(accepted), sent)
  BY <1>1, <1>8, ChainQueues DEF SerialInv, SerialTypes, Chained
<1>10. Chained'
  BY <1>9 DEF Chained, enqueue
<1> QED
  BY <1>6, <1>7, <1>10 DEF SerialInv

LEMMA FillKeeps == SerialInv /\ fill => SerialInv'
<1> SUFFICES ASSUME SerialInv, fill PROVE SerialInv'
  OBVIOUS
<1> DEFINE free == FifoSize - Len(fifo)
           n == IF getSize < free THEN getSize ELSE free
           c2 == [p \in DOMAIN cells |->
                   IF \E i \in 1 .. n : p = Ahead(_begin, i - 1) THEN NoByte ELSE cells[p]]
           moving == Ring(n)
<1>1. SerialTypes
  BY DEF SerialInv
<1>2. getSize = Size(_begin, _end) /\ getSize \in 0 .. TxBufferSize - 1
  BY <1>1, SizeOfRing DEF SerialTypes, getSize, Size
<1>3. /\ n \in 1 .. Size(_begin, _end) /\ n \in 0 .. TxBufferSize /\ n \in Nat
      /\ Len(fifo) + n <= FifoSize /\ TxBufferSize \in Nat
  BY <1>1, <1>2, SerialAssumption, SMTT(40) DEF SerialTypes, fill
<1>4. fifo' = fifo \o moving /\ _begin' = Ahead(_begin, n) /\ cells' = c2
  BY DEF fill
<1> HIDE DEF n
<1>5. \A i \in 1 .. n : cells[Ahead(_begin, i - 1)] \in Int
  <2> SUFFICES ASSUME NEW i \in 1 .. n PROVE cells[Ahead(_begin, i - 1)] \in Int
    OBVIOUS
  <2>1. i - 1 \in 0 .. TxBufferSize
    BY <1>3
  <2>2. Ahead(_begin, i - 1) \in 0 .. TxBufferSize - 1
    BY <1>1, <2>1, AheadIs DEF SerialTypes
  <2> QED
    BY <1>1, <2>2 DEF SerialTypes
<1>6. moving \in Seq(Int) /\ Len(moving) = n
      /\ \A i \in 1 .. n : moving[i] = cells[Ahead(_begin, i - 1)]
  <2>1. moving = [i \in 1 .. n |-> cells[Ahead(_begin, i - 1)]]
    BY DEF Ring
  <2> HIDE DEF moving
  <2> QED
    BY <1>3, <1>5, <2>1
<1>7. /\ c2 \in [0 .. TxBufferSize - 1 -> Int]
      /\ \A p \in 0 .. TxBufferSize - 1 :
            (\A i \in 1 .. n : p # Ahead(_begin, i - 1)) => c2[p] = cells[p]
  BY <1>1 DEF SerialTypes, NoByte
<1> HIDE DEF c2, moving
<1>8. Ahead(_begin, n) \in 0 .. TxBufferSize - 1
  BY <1>1, <1>3, AheadIs DEF SerialTypes
<1>9. fifo \o moving \in Seq(Int) /\ Len(fifo \o moving) <= FifoSize
  <2>1. fifo \in Seq(Int) /\ moving \in Seq(Int)
    BY <1>1, <1>6 DEF SerialTypes
  <2>2. Len(fifo \o moving) = Len(fifo) + Len(moving)
    BY <2>1, ConcatLen
  <2>3. fifo \o moving \in Seq(Int)
    BY <2>1
  <2> QED
    BY <1>3, <1>6, <2>2, <2>3
<1>10. SerialTypes'
  BY <1>1, <1>4, <1>7, <1>8, <1>9 DEF SerialTypes, fill
<1>11. WriteLooked'
  <2>1. moved' /\ task' = task
    BY DEF fill
  <2>2. task # "transmit"
    BY <1>1, <1>2 DEF SerialInv, SerialTypes, WriteLooked, fill, Size
  <2> QED
    BY <2>1, <2>2 DEF WriteLooked
<1>12. ChainOf(fifo \o moving, Ahead(_begin, n), _end, c2, accepted, sent)
  BY <1>1, <1>3, <1>6, <1>7, ChainMoves DEF SerialInv, SerialTypes, Chained
<1>13. Chained'
  BY <1>4, <1>12 DEF Chained, fill
<1> QED
  BY <1>10, <1>11, <1>13 DEF SerialInv

LEMMA SendKeeps == SerialInv /\ sendByte => SerialInv'
<1> SUFFICES ASSUME SerialInv, sendByte PROVE SerialInv'
  OBVIOUS
<1>1. SerialTypes
  BY DEF SerialInv
<1>2. Tail(fifo) \in Seq(Int) /\ Len(Tail(fifo)) = Len(fifo) - 1 /\ Len(fifo) \in Nat
  BY <1>1 DEF SerialTypes, sendByte
<1>3. SerialTypes'
  BY <1>1, <1>2, SerialAssumption DEF SerialTypes, sendByte, ringVars, Follows
<1>4. WriteLooked'
  BY <1>1, <1>2, SerialAssumption DEF SerialInv, SerialTypes, WriteLooked, sendByte, ringVars
<1>5. Size(_begin, _end) \in Nat
  <2>1. _begin \in 0 .. TxBufferSize - 1 /\ _end \in 0 .. TxBufferSize - 1
    BY <1>1 DEF SerialTypes
  <2>2. Size(_begin, _end) \in 0 .. TxBufferSize - 1
    BY <2>1, SizeOfRing
  <2> QED
    BY <2>2, SerialAssumption
<1>6. ChainOf(Tail(fifo), _begin, _end, cells, accepted, Follows(sent))
  BY <1>1, <1>5, ChainSends DEF SerialInv, SerialTypes, Chained, sendByte
<1>7. Chained'
  BY <1>6 DEF Chained, sendByte, ringVars
<1> QED
  BY <1>3, <1>4, <1>7 DEF SerialInv

LEMMA SerialStep == SerialInv /\ [SerialNext]_serialVars => SerialInv'
<1> SUFFICES ASSUME SerialInv, [SerialNext]_serialVars PROVE SerialInv'
  OBVIOUS
<1> USE DEF SerialInv, SerialTypes, WriteLooked, Chained
<1>1. CASE UNCHANGED serialVars
  BY <1>1 DEF serialVars
<1>2. CASE lookForRoom
  <2>1. FifoSize - Len(fifo) \in 0 .. FifoSize /\ Len(fifo) + (FifoSize - Len(fifo)) <= FifoSize
    BY SerialAssumption
  <2> QED
    BY <1>2, <2>1 DEF lookForRoom, ringVars
<1>3. CASE lookAtRing
  BY <1>3 DEF lookAtRing, MayTransmit, ringVars
<1>4. CASE arm \/ flush \/ endFlush \/ disarm
  BY <1>4 DEF arm, flush, endFlush, disarm, ringVars
<1> HIDE DEF SerialInv
<1> QED
  BY <1>1, <1>2, <1>3, <1>4, TransmitKeeps, EnqueueKeeps, FillKeeps, SendKeeps
  DEF SerialNext, serialTask, interrupt

\* The bytes given to the port, in the FIFO or in the ring, keep their order.
THEOREM PortKeepsOrder == SerialSpec => []BytesInOrder
  BY SerialStarts, SerialStep, ChainIsOrder, PTL DEF SerialSpec

\* A byte is lost only if the interrupt ran between the two looks of write().
THEOREM PortLosesOnlyInRace == SerialSpec => []LostOnlyInRace
<1>1. SerialInv => LostOnlyInRace
  BY SerialAssumption DEF SerialInv, SerialTypes, WriteLooked, LostOnlyInRace
<1> QED
  BY <1>1, SerialStarts, SerialStep, PTL DEF SerialSpec

(***************************************************************************)
(* ESP8266WebServer.  What is left to send and what has been sent make up  *)
(* the response until a write returns more than is left, which needs bytes *)
(* outstanding from a write that timed out.  Before one does, what has     *)
(* been given to TCP is the beginning of the response, and as long as the  *)
(* peer is there size_sent is how much of it: the units join without a gap.*)
(***************************************************************************)
FirstBytes(bytes, n) == n \in Nat /\ bytes = [i \in 1 .. n |-> i]

WebTypes ==
  /\ response \in Nat /\ size_to_send \in Nat /\ size_sent \in Nat
  /\ unacked \in 0 .. SendBuffer
  /\ pc \in {"idle", "handle", "forever", "send", "close", "overrun"}

\* Whatever stalls, wire is made of bytes of the response.
Counts ==
  /\ wire \in Seq(1 .. response)
  /\ pc = "send" => size_sent + size_to_send = response /\ size_to_send < SizeMod

\* What holds before a write times out.
Joined ==
  ~stalled =>
    /\ pc # "overrun" /\ (open => unacked = 0)
    /\ \E n \in Nat : /\ FirstBytes(wire, n)
                      /\ open /\ pc \in {"send", "close"} => size_sent = n
    /\ pc = "close" /\ open /\ ~refused => size_sent = response

Nothing ==
  pc \in {"idle", "handle", "forever"} =>
    /\ response = 0 /\ size_sent = 0 /\ unacked = 0 /\ wire = << >>
    /\ stalled = FALSE /\ refused = FALSE

WebInv == WebTypes /\ Counts /\ Joined /\ Nothing

LEMMA ElementsOfSeq ==
  ASSUME NEW S, NEW s \in Seq(S) PROVE \A i \in DOMAIN s : s[i] \in S
OBVIOUS

LEMMA NoBytes == FirstBytes(<< >>, 0)
BY DEF FirstBytes

LEMMA SmallStays == ASSUME NEW m \in Nat \ {0}, NEW a \in 0 .. m - 1 PROVE a % m = a
OBVIOUS

\* A unit that is queued where the bytes before it end continues them.
LEMMA UnitContinues ==
  ASSUME NEW bytes, NEW n, FirstBytes(bytes, n), NEW q \in Nat
  PROVE  FirstBytes(bytes \o [i \in 1 .. q |-> n + i], n + q)
<1> DEFINE unit == [i \in 1 .. q |-> n + i]
<1>1. n \in Nat /\ bytes \in Seq(Nat) /\ Len(bytes) = n
  BY DEF FirstBytes
<1>2. unit \in Seq(Nat) /\ Len(unit) = q
  BY <1>1
<1> HIDE DEF unit
<1>3. bytes \o unit \in Seq(Nat) /\ Len(bytes \o unit) = n + q
  BY <1>1, <1>2
<1>4. \A i \in 1 .. n + q : (bytes \o unit)[i] = i
  <2> SUFFICES ASSUME NEW i \in 1 .. n + q PROVE (bytes \o unit)[i] = i
    OBVIOUS
  <2>1. CASE i <= n
    BY <1>1, <1>2, <2>1 DEF FirstBytes
  <2>2. CASE i > n
    <3>1. i - n \in 1 .. q
      BY <1>1, <2>2
    <3>2. (bytes \o unit)[i] = unit[i - n]
      BY <1>1, <1>2, <2>2, SMTT(40)
    <3> QED
      BY <1>1, <3>1, <3>2 DEF unit
  <2>3. i <= n \/ i > n
    BY <1>1
  <2> QED
    BY <2>1, <2>2, <2>3
<1>5. n + q \in Nat
  BY <1>1
<1> DEFINE whole == [i \in 1 .. n + q |-> i]
<1>6. whole \in Seq(Nat) /\ Len(whole) = n + q /\ \A i \in 1 .. n + q : whole[i] = i
  BY <1>5
<1> HIDE DEF whole
<1>7. bytes \o unit = whole
  BY <1>3, <1>4, <1>6, SeqEqual
<1> QED
  BY <1>5, <1>7 DEF FirstBytes, unit, whole

LEMMA UnitStep ==
  ASSUME WebInv, NEW acked \in Nat, writeUnit(acked)
  PROVE  WebInv'
<1> DEFINE unit == Lesser(size_to_send, UnitSize)
           queued == Lesser(SendBuffer - unacked, unit)
           bytes == [i \in 1 .. queued |-> size_sent + i]
<1>1. /\ pc = "send" /\ size_to_send # 0 /\ open
      /\ acked <= unacked + queued /\ wire' = wire \o bytes
      /\ unacked' = (unacked + queued) - acked
      /\ size_to_send' = (size_to_send - acked) % SizeMod /\ size_sent' = size_sent + acked
      /\ \/ stalled' = (stalled \/ unacked' > 0) /\ open' = open
         \/ open' = FALSE /\ stalled' = stalled
      /\ response' = response /\ refused' = refused
  BY Zenon DEF writeUnit, SentPart, Unit
<1>0. pc' = CASE acked = 0 -> "close"
              [] ~(acked = 0) /\ acked > size_to_send -> "overrun"
              [] OTHER -> pc
  BY Zenon DEF writeUnit, Stops
<1>2. /\ response \in Nat /\ size_sent \in Nat /\ size_to_send \in Nat
      /\ unacked \in 0 .. SendBuffer /\ size_sent + size_to_send = response
      /\ size_to_send < SizeMod
  BY <1>1 DEF WebInv, WebTypes, Counts
<1>3. UnitSize \in Nat \ {0} /\ SendBuffer \in Nat \ {0} /\ SizeMod \in Nat \ {0}
  BY WebAssumption
<1>4. unit \in Nat \ {0} /\ unit <= size_to_send
  BY <1>1, <1>2, <1>3 DEF Lesser
<1> HIDE DEF unit
<1>5. /\ queued \in Nat /\ queued <= unit /\ unacked + queued <= SendBuffer
      /\ unacked = 0 => queued # 0
  BY <1>2, <1>3, <1>4 DEF Lesser
<1> HIDE DEF queued
<1>6. /\ pc' \in {"send", "close", "overrun"}
      /\ pc' = "send" => acked <= size_to_send
      /\ pc' = "close" => acked = 0
      /\ pc' = "overrun" => acked > size_to_send
  <2>1. CASE acked = 0
    BY <1>0, <1>1, <1>2, <2>1
  <2>2. CASE acked # 0 /\ acked > size_to_send
    BY <1>0, <1>1, <1>2, <2>2
  <2>3. CASE acked # 0 /\ ~(acked > size_to_send)
    BY <1>0, <1>1, <1>2, <2>3
  <2> QED
    BY <2>1, <2>2, <2>3
<1>7. unacked' \in 0 .. SendBuffer
  BY <1>1, <1>2, <1>3, <1>5
<1>8. size_to_send' \in Nat
  BY <1>1, <1>2, <1>3
<1>9. WebTypes'
  <2>1. size_sent' \in Nat
    BY <1>1, <1>2
  <2> QED
    BY <1>1, <1>2, <1>6, <1>7, <1>8, <2>1 DEF WebTypes
<1>10. Counts'
  <2>1. wire \in Seq(1 .. response)
    BY DEF WebInv, Counts
  <2>2. bytes \in Seq(1 .. response)
    BY <1>2, <1>4, <1>5
  <2>3. wire \o bytes \in Seq(1 .. response)
    BY <2>1, <2>2
  <2>4. ASSUME pc' = "send" PROVE size_to_send' = size_to_send - acked
    <3>1. size_to_send - acked \in 0 .. SizeMod - 1
      BY <1>2, <1>3, <1>6, <2>4
    <3> QED
      BY <1>1, <1>3, <3>1, SmallStays
  <2>5. ASSUME pc' = "send"
        PROVE  size_sent' + size_to_send' = response /\ size_to_send' < SizeMod
    <3>1. size_to_send' = size_to_send - acked /\ size_sent' = size_sent + acked
      BY <1>1, <2>4, <2>5
    <3>2. acked <= size_to_send
      BY <1>6, <2>5
    <3>3. (size_sent + acked) + (size_to_send - acked) = response
      BY <1>2
    <3>4. size_to_send - acked < SizeMod
      BY <1>2, <1>3, <3>2
    <3> QED
      BY <3>1, <3>3, <3>4
  <2> QED
    BY <1>1, <2>3, <2>5 DEF Counts
<1>11. ASSUME ~stalled' PROVE ~stalled
  BY <1>1, <1>11
<1>12. ASSUME ~stalled'
       PROVE  /\ unacked = 0 /\ FirstBytes(wire, size_sent)
              /\ open' => unacked' = 0 /\ acked = queued
  <2>1. unacked = 0 /\ FirstBytes(wire, size_sent)
    BY <1>1, <1>11, <1>12 DEF WebInv, Joined
  <2>2. open' => ~(unacked' > 0)
    BY <1>1, <1>12
  <2>3. open' => unacked' = 0
    BY <1>7, <2>2, <1>3
  <2>4. open' => acked = queued
    BY <1>1, <1>5, <2>1, <2>3
  <2> QED
    BY <2>1, <2>3, <2>4
<1>13. Joined'
  <2> SUFFICES ASSUME ~stalled'
               PROVE  /\ pc' # "overrun" /\ (open' => unacked' = 0)
                      /\ \E n \in Nat : /\ FirstBytes(wire', n)
                                        /\ open' /\ pc' \in {"send", "close"} => size_sent' = n
                      /\ pc' = "close" /\ open' /\ ~refused' => size_sent' = response'
    BY DEF Joined
  <2>1. acked <= size_to_send
    BY <1>1, <1>2, <1>4, <1>5, <1>12
  <2>2. pc' # "overrun"
    BY <1>2, <1>6, <2>1
  <2>3. FirstBytes(wire', size_sent + queued) /\ size_sent + queued \in Nat
    <3>1. size_sent + queued \in Nat
      BY <1>2, <1>5
    <3>2. FirstBytes(wire \o [i \in 1 .. queued |-> size_sent + i], size_sent + queued)
      BY <1>2, <1>5, <1>12, UnitContinues
    <3> QED
      BY <1>1, <3>1, <3>2
  <2>4. open' => size_sent' = size_sent + queued
    BY <1>1, <1>12
  <2>5. open' => pc' # "close"
    BY <1>5, <1>6, <1>12
  <2> QED
    BY <1>12, <2>2, <2>3, <2>4, <2>5
<1>14. Nothing'
  BY <1>6 DEF Nothing
<1> QED
  BY <1>9, <1>10, <1>13, <1>14 DEF WebInv

LEMMA NothingStep ==
  ASSUME WebInv, writeNothing
  PROVE  WebInv'
<1>1. /\ pc = "send" /\ pc' \in {"send", "close"} /\ refused' = (refused \/ open)
      /\ UNCHANGED <<open, response, size_to_send, size_sent, unacked, wire, stalled>>
      /\ pc' = "close"
  BY DEF writeNothing, Stops
<1>2. WebTypes' /\ Counts' /\ Nothing'
  BY <1>1 DEF WebInv, WebTypes, Counts, Nothing
<1>3. open => refused'
  BY <1>1
<1>4. Joined'
  BY <1>1, <1>3 DEF WebInv, Joined
<1> QED
  BY <1>2, <1>4 DEF WebInv

\* A request that is done, one that is read and a restart leave nothing of an answer.
LEMMA EmptyStep ==
  ASSUME pc' \in {"idle", "handle", "forever"}, response' = 0, size_to_send' \in Nat,
         size_sent' = 0, unacked' = 0, wire' = << >>, stalled' = FALSE, refused' = FALSE
  PROVE  WebInv'
<1>1. WebTypes'
  BY WebAssumption DEF WebTypes
<1>2. Counts'
  <2>1. wire' \in Seq(1 .. response')
    OBVIOUS
  <2> QED
    BY <2>1 DEF Counts
<1>3. Joined'
  BY NoBytes DEF Joined
<1>4. Nothing'
  BY DEF Nothing
<1> QED
  BY <1>1, <1>2, <1>3, <1>4 DEF WebInv

LEMMA WebStep == WebInv /\ [WebNext]_webVars => WebInv'
<1> SUFFICES ASSUME WebInv, [WebNext]_webVars PROVE WebInv'
  OBVIOUS
<1>1. CASE peerCloses
  BY <1>1 DEF peerCloses, sendVars, WebInv, WebTypes, Counts, Joined, Nothing
<1>2. CASE allSent
  <2>1. size_sent = response
    BY <1>2 DEF allSent, WebInv, WebTypes, Counts
  <2> QED
    BY <1>2, <2>1 DEF allSent, sendVars, WebInv, WebTypes, Counts, Joined, Nothing
<1>3. CASE closeClient \/ reset
  <2>1. /\ pc' = "idle" /\ response' = 0 /\ size_to_send' = 0 /\ size_sent' = 0
        /\ unacked' = 0 /\ wire' = << >> /\ stalled' = FALSE /\ refused' = FALSE
    BY <1>3 DEF closeClient, reset, forget
  <2> QED
    BY <2>1, EmptyStep
<1>4. ASSUME NEW n \in Lengths, handle(n) PROVE WebInv'
  <2>1. /\ response' = n /\ size_to_send' = n /\ size_sent' = 0 /\ pc' = "send"
        /\ wire' = << >> /\ unacked' = 0 /\ stalled' = FALSE
    BY <1>4 DEF handle, WebInv, Nothing
  <2>2. n \in Nat /\ n < SizeMod
    BY WebAssumption
  <2>3. WebTypes'
    BY <2>1, <2>2, WebAssumption DEF WebTypes
  <2>4. Counts'
    BY <2>1, <2>2 DEF Counts
  <2>5. Joined' /\ Nothing'
    BY <2>1, NoBytes DEF Joined, Nothing
  <2> QED
    BY <2>3, <2>4, <2>5 DEF WebInv
<1>5. ASSUME NEW a \in 0 .. SendBuffer, writeUnit(a) PROVE WebInv'
  BY <1>5, UnitStep, WebAssumption
<1>6. CASE writeNothing
  BY <1>6, NothingStep
<1>7. ASSUME NEW r, pc = "idle", handleClient(r) PROVE WebInv'
  <2>1. pc' \in {"idle", "handle", "forever"} /\ UNCHANGED sendVars
    BY <1>7 DEF handleClient
  <2>2. /\ response' = 0 /\ size_to_send' \in Nat /\ size_sent' = 0 /\ unacked' = 0
        /\ wire' = << >> /\ stalled' = FALSE /\ refused' = FALSE
    BY <1>7, <2>1 DEF sendVars, WebInv, WebTypes, Nothing
  <2> QED
    BY <2>1, <2>2, EmptyStep
<1>8. CASE UNCHANGED webVars
  BY <1>8 DEF webVars, sendVars, WebInv, WebTypes, Counts, Joined, Nothing
<1> QED
  BY <1>1, <1>2, <1>3, <1>4, <1>5, <1>6, <1>7, <1>8 DEF WebNext, serverStep

\* Nothing behind the end of a response is given to TCP before size_to_send falls
\* below zero, and until a write times out each byte is sent once, in its place: for
\* every size of the response, of the units, of the send buffer and of size_t, however
\* writes are acknowledged, refused or cut off by the peer.
THEOREM BytesSentOnce == WebSpec => []ResponseSentOnce
<1>1. WebInit => WebInv
  <2> SUFFICES ASSUME WebInit PROVE WebInv
    OBVIOUS
  <2>1. WebTypes
    BY WebAssumption DEF WebInit, WebTypes
  <2>2. Counts /\ Nothing
    BY DEF WebInit, Counts, Nothing
  <2>3. Joined
    BY NoBytes DEF WebInit, Joined
  <2> QED
    BY <2>1, <2>2, <2>3 DEF WebInv
<1>2. WebInv => ResponseSentOnce
  <2> SUFFICES ASSUME WebInv PROVE ResponseSentOnce
    OBVIOUS
  <2>1. \A i \in DOMAIN wire : wire[i] \in 1 .. response
    <3>1. wire \in Seq(1 .. response)
      BY DEF WebInv, Counts
    <3> QED
      BY <3>1, ElementsOfSeq
  <2>2. ASSUME ~stalled
        PROVE  /\ wire = [i \in 1 .. Len(wire) |-> i] /\ pc # "overrun"
               /\ pc = "close" /\ open /\ ~refused => Len(wire) = response
    <3>1. PICK n \in Nat :
            FirstBytes(wire, n) /\ (open /\ pc = "close" => size_sent = n)
      BY <2>2 DEF WebInv, Joined
    <3>2. Len(wire) = n /\ wire = [i \in 1 .. n |-> i]
      BY <3>1 DEF FirstBytes
    <3>3. pc # "overrun" /\ (pc = "close" /\ open /\ ~refused => size_sent = response)
      BY <2>2 DEF WebInv, Joined
    <3> QED
      BY <3>1, <3>2, <3>3
  <2> QED
    BY <2>1, <2>2 DEF ResponseSentOnce
<1> QED
  BY <1>1, <1>2, WebStep, PTL DEF WebSpec
=============================================================================
