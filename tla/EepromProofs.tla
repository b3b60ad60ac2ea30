---------------------------- MODULE EepromProofs ----------------------------
(***************************************************************************)
(* What the field formats of Settings.ino keep and lose, for every image,  *)
(* position, length and text: a text that leaves room for the zero and the *)
(* checksum reads back, one that fills its field gains the checksum, and   *)
(* a write reaches no byte outside its field while its end fits a char.    *)
(***************************************************************************)
EXTENDS EepromImage, SequenceTheorems, InductionLemmas

\* A field that lies within the image, and whose end fits a char.
IsField(start, len) ==
  start \in Nat /\ len \in Nat /\ len >= 2
    /\ start + len <= EepromSize /\ start + len < 256

\* The characters writeString keeps of a text.
Kept(len, text) == IF Len(text) < len THEN Len(text) ELSE len - 1

\* The loop of writeString over the characters, as a function of addresses.
Placed(start, m, text) == [a \in start .. start + m - 1 |-> text[a - start + 1]]

\* The image after a write that keeps m characters of a text.
Laid(img, start, len, m, text) ==
  [a \in Address |->
    IF a = start + len - 1 THEN Xor(Placed(start, m, text), start .. start + m - 1)
    ELSE IF a \in start .. start + m - 1 THEN text[a - start + 1]
    ELSE IF a \in start + m .. start + len - 1 THEN 0
    ELSE img[a]]

\* writeString when no sum wraps.
LEMMA WriteStringIs ==
  ASSUME NEW img, NEW start, NEW len, IsField(start, len),
         NEW text \in Seq(Byte), text # << >>, start + Len(text) < 256
  PROVE  /\ Kept(len, text) \in 1 .. len - 1
         /\ WriteString(img, start, len, text) =
              Laid(img, start, len, Kept(len, text), text)
<1> DEFINE m == Kept(len, text)
           tEnd == (start + len) % 256
           end == (start + Len(text)) % 256
           cEnd == IF end >= tEnd THEN (tEnd + 255) % 256 ELSE end
<1>1. Len(text) \in Nat /\ Len(text) >= 1 /\ start \in Nat /\ len \in Nat
      /\ len >= 2 /\ start + len < 256
  BY DEF IsField
<1>2. m \in 1 .. len - 1
  BY <1>1 DEF Kept
<1>3. tEnd = start + len /\ end = start + Len(text)
  BY <1>1
<1>4. cEnd = start + m
  BY <1>1, <1>3 DEF Kept
<1> HIDE DEF m, tEnd, end, cEnd
<1>5. WriteString(img, start, len, text) =
        LET char == [a \in start .. cEnd - 1 |-> text[a - start + 1]]
        IN [a \in Address |->
              IF a = start + len - 1 THEN Xor(char, start .. cEnd - 1)
              ELSE IF a \in start .. cEnd - 1 THEN char[a]
              ELSE IF a \in cEnd .. tEnd - 1 THEN 0
              ELSE img[a]]
  BY DEF WriteString, m, tEnd, end, cEnd
<1> DEFINE char == Placed(start, m, text)
<1>6. char = [a \in start .. cEnd - 1 |-> text[a - start + 1]]
  <2>1. start .. cEnd - 1 = start .. start + m - 1
    BY <1>1, <1>2, <1>4
  <2> QED
    BY <2>1, Zenon DEF Placed
<1>7. WriteString(img, start, len, text) =
        [a \in Address |->
          IF a = start + len - 1 THEN Xor(char, start .. cEnd - 1)
          ELSE IF a \in start .. cEnd - 1 THEN char[a]
          ELSE IF a \in cEnd .. tEnd - 1 THEN 0
          ELSE img[a]]
  BY <1>5, <1>6
<1>8. \A a \in start .. start + m - 1 : char[a] = text[a - start + 1]
  BY DEF Placed
<1> HIDE DEF char
<1>9. WriteString(img, start, len, text) =
        [a \in Address |->
          IF a = start + len - 1 THEN Xor(char, start .. start + m - 1)
          ELSE IF a \in start .. start + m - 1 THEN text[a - start + 1]
          ELSE IF a \in start + m .. start + len - 1 THEN 0
          ELSE img[a]]
  <2>1. /\ start .. cEnd - 1 = start .. start + m - 1
        /\ cEnd .. tEnd - 1 = start + m .. start + len - 1
    BY <1>1, <1>2, <1>3, <1>4
  <2>2. WriteString(img, start, len, text) =
          [a \in Address |->
            IF a = start + len - 1 THEN Xor(char, start .. start + m - 1)
            ELSE IF a \in start .. start + m - 1 THEN char[a]
            ELSE IF a \in start + m .. start + len - 1 THEN 0
            ELSE img[a]]
    BY <1>7, <2>1, Zenon
  <2> QED
    BY <1>8, <2>2
<1> QED
  BY <1>2, <1>9 DEF m, char, Laid

\* A write changes no byte outside its own field.
LEMMA WriteStringFrame ==
  ASSUME NEW img, NEW start, NEW len, IsField(start, len),
         NEW text \in Seq(Byte), start + Len(text) < 256,
         NEW a \in Address, a \notin start .. start + len - 1
  PROVE  WriteString(img, start, len, text)[a] = img[a]
<1>1. CASE text = << >>
  BY <1>1 DEF WriteString
<1>2. CASE text # << >>
  <2> DEFINE m == Kept(len, text)
  <2>1. m \in 1 .. len - 1
    BY <1>2, WriteStringIs
  <2>2. a \in Nat /\ start \in Nat /\ len \in Nat /\ len >= 2
    BY EepromAssumption DEF Address, IsField
  <2>3. a # start + len - 1 /\ a \notin start .. start + m - 1
        /\ a \notin start + m .. start + len - 1
    BY <2>1, <2>2
  <2>4. WriteString(img, start, len, text) = Laid(img, start, len, m, text)
    BY <1>2, WriteStringIs
  <2> QED
    BY <2>3, <2>4 DEF Laid
<1> QED
  BY <1>1, <1>2

\* A padding of zeros adds nothing to an XOR.
LEMMA ZeroHasNoBits == BitsOf[0] = {}
<1>1. \A b \in 0 .. 7 : Weight[b] \in {1, 2, 4, 8, 16, 32, 64, 128}
  BY DEF Weight
<1>2. \A w \in {1, 2, 4, 8, 16, 32, 64, 128} : 0 \div w = 0
  OBVIOUS
<1>3. \A b \in 0 .. 7 : (0 \div Weight[b]) % 2 # 1
  BY <1>1, <1>2
<1> QED
  BY <1>3 DEF BitsOf, Byte

\* f is g up to mid and zero from there to last.
Padded(f, g, first, mid, last) ==
  /\ first \in Nat /\ mid \in Nat /\ last \in Nat /\ mid <= last
  /\ \A a \in first .. mid : f[a] = g[a]
  /\ \A a \in mid + 1 .. last : f[a] = 0

LEMMA XorPadding ==
  ASSUME NEW f, NEW g, NEW first, NEW mid, NEW last,
         Padded(f, g, first, mid, last)
  PROVE  Xor(f, first .. last) = Xor(g, first .. mid)
<1> USE DEF Padded
<1>1. ASSUME NEW b \in 0 .. 7
      PROVE  {a \in first .. last : HasBit(f[a], b)} =
             {a \in first .. mid : HasBit(g[a], b)}
  <2>1. \A a \in mid + 1 .. last : ~HasBit(f[a], b)
    BY ZeroHasNoBits DEF HasBit
  <2>2. \A a \in first .. last : a \in first .. mid \/ a \in mid + 1 .. last
    OBVIOUS
  <2>3. \A a \in first .. mid : a \in first .. last
    OBVIOUS
  <2> QED
    BY <2>1, <2>2, <2>3
<1>2. OddBits(f, first .. last) = OddBits(g, first .. mid)
  BY <1>1 DEF OddBits
<1> QED
  BY <1>2 DEF Xor

\* readString stops at the first zero.
LEMMA TextLengthIs ==
  ASSUME NEW img, NEW start \in Nat, NEW len \in Nat, NEW n \in 0 .. len,
         n = len \/ Read(img, start + n) = 0,
         \A i \in 0 .. n - 1 : Read(img, start + i) # 0
  PROVE  TextLength(img, start, len) = n
<1> DEFINE Ends(k) == /\ k = len \/ Read(img, start + k) = 0
                      /\ \A i \in 0 .. k - 1 : Read(img, start + i) # 0
<1>1. \A k \in 0 .. len : Ends(k) => k = n
  <2> SUFFICES ASSUME NEW k \in 0 .. len, Ends(k) PROVE k = n
    OBVIOUS
  <2>1. ~(k < n)
    <3> SUFFICES ASSUME k < n PROVE FALSE
      OBVIOUS
    <3>1. k \in 0 .. n - 1 /\ k # len
      OBVIOUS
    <3> QED
      BY <3>1
  <2>2. ~(n < k)
    <3> SUFFICES ASSUME n < k PROVE FALSE
      OBVIOUS
    <3>1. n \in 0 .. k - 1 /\ n # len
      OBVIOUS
    <3> QED
      BY <3>1
  <2> QED
    BY <2>1, <2>2
<1>2. Ends(n)
  OBVIOUS
<1>3. TextLength(img, start, len) = CHOOSE k \in 0 .. len : Ends(k)
  BY DEF TextLength
<1> HIDE DEF Ends
<1> QED
  BY <1>1, <1>2, <1>3

-----------------------------------------------------------------------------
\* The cells of a field that m characters of a text were written to.
Holds(W, start, len, m, text) ==
  /\ Sound(W, start, len)
  /\ \A i \in 0 .. m - 1 :
       Read(W, start + i) = text[i + 1] /\ Read(W, start + i) # 0
  /\ \A i \in m .. len - 2 : Read(W, start + i) = 0
  /\ Read(W, start + len - 1) =
       Xor(Placed(start, m, text), start .. start + m - 1)

\* What readString of a field finds after writeString, up to the kept length.
LEMMA TextIsBytes == \A text \in Text : text \in Seq(Byte)
<1>1. 1 .. 255 \subseteq Byte
  BY DEF Byte
<1> QED
  BY <1>1, SeqMonotonic DEF Text

LEMMA WrittenCells ==
  ASSUME NEW img \in Image, NEW start, NEW len, IsField(start, len),
         NEW text \in Text, text # << >>, start + Len(text) < 256
  PROVE  /\ Kept(len, text) \in 1 .. len - 1
         /\ Holds(WriteString(img, start, len, text), start, len,
                  Kept(len, text), text)
<1> DEFINE W == WriteString(img, start, len, text)
           m == Kept(len, text)
           char == Placed(start, m, text)
<1> HIDE DEF W, m, char
<1>1. start \in Nat /\ len \in Nat /\ len >= 2 /\ EepromSize \in Nat
      /\ start + len <= EepromSize /\ start + len < 256
  BY EepromAssumption DEF IsField
<1>2. Len(text) \in Nat /\ \A i \in 1 .. Len(text) : text[i] \in 1 .. 255
  <2>1. Len(text) \in Nat
    BY DEF Text
  <2>2. \A i \in 1 .. Len(text) : text[i] \in 1 .. 255
    BY ElementOfSeq DEF Text
  <2> QED
    BY <2>1, <2>2
<1>14. text \in Seq(Byte)
  BY TextIsBytes
<1>0. m \in 1 .. len - 1 /\ W = Laid(img, start, len, m, text)
  BY <1>14, WriteStringIs DEF W, m
<1>3. m \in 1 .. len - 1 /\ m <= Len(text)
  BY <1>0, <1>1, <1>2 DEF m, Kept
<1>15. W = [a \in Address |->
               IF a = start + len - 1 THEN Xor(char, start .. start + m - 1)
               ELSE IF a \in start .. start + m - 1 THEN text[a - start + 1]
               ELSE IF a \in start + m .. start + len - 1 THEN 0
               ELSE img[a]]
  BY <1>0 DEF Laid, char

<1>16. \A i \in 0 .. m - 1 : i \in 0 .. len - 1 /\ i + 1 \in 1 .. Len(text)
  BY <1>1, <1>2, <1>3
<1>17. \A i \in m .. len - 2 : i \in 0 .. len - 1
  BY <1>1, <1>3
<1>4. \A i \in 0 .. len - 1 : start + i \in Address /\ Read(W, start + i) = W[start + i]
  BY <1>1 DEF Address, Read
<1>18. \A a \in Address :
         a # start + len - 1 /\ a \in start .. start + m - 1
           => W[a] = text[a - start + 1]
  BY <1>15
<1>5. \A i \in 0 .. m - 1 : W[start + i] = text[i + 1]
  <2> SUFFICES ASSUME NEW i \in 0 .. m - 1 PROVE W[start + i] = text[i + 1]
    OBVIOUS
  <2>1. /\ start + i \in Address /\ start + i # start + len - 1
        /\ start + i \in start .. start + m - 1 /\ (start + i) - start + 1 = i + 1
    <3>1. i \in Int /\ 0 <= i /\ i <= m - 1 /\ i <= len - 2
      BY <1>1, <1>3
    <3> QED
      BY <1>1, <1>3, <1>4, <3>1
  <2>2. W[start + i] = text[(start + i) - start + 1]
    BY <1>18, <2>1
  <2> QED
    BY <2>1, <2>2
<1>6. \A i \in m .. len - 2 : W[start + i] = 0
  <2> SUFFICES ASSUME NEW i \in m .. len - 2 PROVE W[start + i] = 0
    OBVIOUS
  <2>1. /\ start + i \in Address /\ start + i # start + len - 1
        /\ start + i \notin start .. start + m - 1
        /\ start + i \in start + m .. start + len - 1
    <3>1. i \in 0 .. len - 1
      BY <1>17
    <3>2. start + i \in Address
      BY <1>4, <3>1
    <3>3. i \in Int /\ m <= i /\ i <= len - 2 /\ m \in Int
          /\ start \in Int /\ len \in Int
      BY <1>1, <1>3
    <3>4. /\ start + i # start + len - 1
          /\ start + i \notin start .. start + m - 1
          /\ start + i \in start + m .. start + len - 1
      BY <3>3
    <3> QED
      BY <3>2, <3>4
  <2> QED
    BY <1>15, <2>1
<1>7. W[start + len - 1] = Xor(char, start .. start + m - 1)
  <2>1. start + len - 1 \in Address
    BY <1>1 DEF Address
  <2> QED
    BY <1>15, <2>1
<1>8. Xor(W, start .. start + len - 2) = Xor(char, start .. start + m - 1)
  <2>1. \A a \in start .. start + m - 1 : W[a] = char[a]
    <3> SUFFICES ASSUME NEW a \in start .. start + m - 1 PROVE W[a] = char[a]
      OBVIOUS
    <3>1. a - start \in 0 .. m - 1 /\ start + (a - start) = a
      BY <1>1, <1>3
    <3>2. W[a] = text[a - start + 1]
      BY <1>5, <3>1
    <3> QED
      BY <3>2 DEF char, Placed
  <2>2. \A a \in start + m - 1 + 1 .. start + len - 2 : W[a] = 0
    <3> SUFFICES ASSUME NEW a \in start + m - 1 + 1 .. start + len - 2
                 PROVE  W[a] = 0
      OBVIOUS
    <3>1. a - start \in m .. len - 2 /\ start + (a - start) = a
      BY <1>1, <1>3
    <3> QED
      BY <1>6, <3>1
  <2>3. start + m - 1 \in Nat /\ start + len - 2 \in Nat
        /\ start + m - 1 <= start + len - 2
    BY <1>1, <1>3
  <2> DEFINE mid == start + m - 1
             last == start + len - 2
  <2>4. start \in Nat /\ mid \in Nat /\ last \in Nat /\ mid <= last
    BY <1>1, <2>3
  <2>5. \A a \in start .. mid : W[a] = char[a]
    BY <2>1
  <2>6. \A a \in mid + 1 .. last : W[a] = 0
    BY <2>2
  <2> HIDE DEF mid, last
  <2>7. Padded(W, char, start, mid, last)
    BY <2>4, <2>5, <2>6, Zenon DEF Padded
  <2>8. Xor(W, start .. last) = Xor(char, start .. mid)
    BY <2>7, XorPadding
  <2> QED
    BY <2>8 DEF mid, last
<1>9. Sound(W, start, len)
  <2>1. start + len - 2 < EepromSize
    BY <1>1
  <2>2. Read(W, start + len - 1) = W[start + len - 1]
    BY <1>1 DEF Read, Address
  <2> QED
    BY <1>7, <1>8, <2>1, <2>2 DEF Sound
<1>10. \A i \in 0 .. m - 1 : text[i + 1] # 0
  <2>1. \A i \in 0 .. m - 1 : text[i + 1] \in 1 .. 255
    BY <1>2, <1>16, Zenon
  <2>2. \A c \in 1 .. 255 : c # 0
    OBVIOUS
  <2> QED
    BY <2>1, <2>2, Zenon
<1>11. Read(W, start + len - 1) = W[start + len - 1]
  BY <1>1 DEF Read, Address
<1>12. \A i \in 0 .. m - 1 :
         Read(W, start + i) = text[i + 1] /\ Read(W, start + i) # 0
  BY <1>4, <1>5, <1>10, <1>16
<1>13. \A i \in m .. len - 2 : Read(W, start + i) = 0
  BY <1>4, <1>6, <1>17
<1> QED
  BY <1>3, <1>7, <1>9, <1>11, <1>12, <1>13 DEF W, m, char, Holds

\* readString gives back what writeString was given, when the text leaves room
\* for a zero and the checksum: the promise loadSettings and getWiFiSettings
\* rely on, for every field of the layout and whatever was there before.
THEOREM RoundTrip ==
  ASSUME NEW img \in Image, NEW start, NEW len, IsField(start, len),
         NEW text \in Text, text # << >>, Len(text) <= len - 2
  PROVE  ReadString(WriteString(img, start, len, text), start, len) = text
<1> DEFINE W == WriteString(img, start, len, text)
<1>1. start \in Nat /\ len \in Nat /\ len >= 2 /\ start + len < 256
      /\ Len(text) \in Nat
  BY DEF IsField, Text
<1>2. start + Len(text) < 256 /\ Kept(len, text) = Len(text)
  BY <1>1 DEF Kept
<1>8. Len(text) \in 1 .. len - 1 /\ Holds(W, start, len, Len(text), text)
  BY <1>2, WrittenCells
<1>3. /\ Sound(W, start, len)
      /\ \A i \in 0 .. Len(text) - 1 :
           Read(W, start + i) = text[i + 1] /\ Read(W, start + i) # 0
      /\ Read(W, start + Len(text)) = 0
  BY <1>1, <1>8 DEF Holds
<1> HIDE DEF W
<1>4. TextLength(W, start, len) = Len(text)
  <2>1. Len(text) \in 0 .. len
    BY <1>1
  <2>2. \A i \in 0 .. Len(text) - 1 : Read(W, start + i) # 0
    BY <1>3
  <2>3. Len(text) = len \/ Read(W, start + Len(text)) = 0
    BY <1>3
  <2>4. start \in Nat /\ len \in Nat
    BY <1>1
  <2> QED
    BY <2>1, <2>2, <2>3, <2>4, TextLengthIs, Zenon
<1>5. \A i \in 1 .. Len(text) : Read(W, start + i - 1) = text[i]
  <2> SUFFICES ASSUME NEW i \in 1 .. Len(text)
               PROVE  Read(W, start + i - 1) = text[i]
    OBVIOUS
  <2>1. i - 1 \in 0 .. Len(text) - 1 /\ start + (i - 1) = start + i - 1
        /\ (i - 1) + 1 = i
    BY <1>1
  <2> QED
    BY <1>3, <2>1
<1>6. ReadString(W, start, len) =
        [i \in 1 .. Len(text) |-> Read(W, start + i - 1)]
  BY <1>3, <1>4 DEF ReadString
<1>7. ReadString(W, start, len) = [i \in 1 .. Len(text) |-> text[i]]
  BY <1>5, <1>6
<1> QED
  BY <1>7 DEF W, Text

\* A text that fills its field comes back with the checksum appended, unless
\* that is zero: the integers of five digits and the long URLs grow by one
\* character each time they are saved and loaded.
THEOREM FullFieldGainsChecksum ==
  ASSUME NEW img \in Image, NEW start, NEW len, IsField(start, len),
         NEW text \in Text, Len(text) >= len - 1, start + Len(text) < 256
  PROVE  LET kept == [i \in 1 .. len - 1 |-> text[i]]
             xor == Xor(Placed(start, len - 1, text), start .. start + len - 2)
         IN ReadString(WriteString(img, start, len, text), start, len) =
              IF xor = 0 THEN kept
              ELSE [i \in 1 .. len |-> IF i = len THEN xor ELSE kept[i]]
<1> DEFINE W == WriteString(img, start, len, text)
           kept == [i \in 1 .. len - 1 |-> text[i]]
           xor == Xor(Placed(start, len - 1, text), start .. start + len - 2)
<1>1. start \in Nat /\ len \in Nat /\ len >= 2 /\ start + len < 256
      /\ Len(text) \in Nat
  BY DEF IsField, Text
<1>2. text # << >> /\ Kept(len, text) = len - 1
  BY <1>1 DEF Kept
<1>3. start + (len - 1) - 1 = start + len - 2
  BY <1>1
<1>9. Holds(W, start, len, len - 1, text)
  BY <1>2, WrittenCells
<1>4. /\ Sound(W, start, len)
      /\ \A i \in 0 .. len - 1 - 1 :
           Read(W, start + i) = text[i + 1] /\ Read(W, start + i) # 0
      /\ Read(W, start + len - 1) = xor
  BY <1>1, <1>3, <1>9 DEF Holds
<1> HIDE DEF W, xor
<1>5. \A i \in 1 .. len - 1 : Read(W, start + i - 1) = kept[i]
  <2> SUFFICES ASSUME NEW i \in 1 .. len - 1
               PROVE  Read(W, start + i - 1) = kept[i]
    OBVIOUS
  <2>1. i - 1 \in 0 .. len - 1 - 1 /\ start + (i - 1) = start + i - 1
        /\ (i - 1) + 1 = i
    BY <1>1
  <2> QED
    BY <1>4, <2>1
<1> HIDE DEF kept
<1>6. start + (len - 1) = start + len - 1
  BY <1>1
<1>7. CASE xor = 0
  <2>1. TextLength(W, start, len) = len - 1
    <3>1. len - 1 \in 0 .. len /\ Read(W, start + (len - 1)) = 0
      BY <1>1, <1>4, <1>6, <1>7
    <3>2. \A i \in 0 .. len - 1 - 1 : Read(W, start + i) # 0
      BY <1>4
    <3> QED
      BY <1>1, <3>1, <3>2, TextLengthIs, Zenon
  <2>2. ReadString(W, start, len) =
          [i \in 1 .. len - 1 |-> Read(W, start + i - 1)]
    BY <1>4, <2>1 DEF ReadString
  <2>3. ReadString(W, start, len) = [i \in 1 .. len - 1 |-> kept[i]]
    BY <1>5, <2>2
  <2> QED
    BY <1>7, <2>3 DEF W, xor, kept
<1>8. CASE xor # 0
  <2>1. \A i \in 0 .. len - 1 : Read(W, start + i) # 0
    <3> SUFFICES ASSUME NEW i \in 0 .. len - 1 PROVE Read(W, start + i) # 0
      OBVIOUS
    <3>1. i \in 0 .. len - 1 - 1 \/ i = len - 1
      BY <1>1
    <3> QED
      BY <1>4, <1>6, <1>8, <3>1
  <2>2. TextLength(W, start, len) = len
    <3>1. len \in 0 .. len
      BY <1>1
    <3> QED
      BY <1>1, <2>1, <3>1, TextLengthIs, Zenon
  <2>3. ReadString(W, start, len) = [i \in 1 .. len |-> Read(W, start + i - 1)]
    BY <1>4, <2>2 DEF ReadString
  <2>4. \A i \in 1 .. len :
          Read(W, start + i - 1) = IF i = len THEN xor ELSE kept[i]
    <3> SUFFICES ASSUME NEW i \in 1 .. len
                 PROVE  Read(W, start + i - 1) = IF i = len THEN xor ELSE kept[i]
      OBVIOUS
    <3>1. i = len \/ i \in 1 .. len - 1
      BY <1>1
    <3>2. CASE i = len
      BY <1>4, <3>2
    <3>3. CASE i \in 1 .. len - 1
      BY <1>1, <1>5, <3>3
    <3> QED
      BY <3>1, <3>2, <3>3
  <2>5. ReadString(W, start, len) =
          [i \in 1 .. len |-> IF i = len THEN xor ELSE kept[i]]
    BY <2>3, <2>4
  <2> QED
    BY <1>8, <2>5 DEF W, xor, kept
<1> QED
  BY <1>7, <1>8

\* Whatever follows cPlaceholder[0] in memory, saveSettings stores the same
\* bytes, as long as the next NUL is near enough for the end to fit a char.
THEOREM TailIsNotStored ==
  ASSUME NEW img, NEW start, IsField(start, 2),
         NEW c \in 1 .. 255, NEW tail \in Text, start + 1 + Len(tail) < 256
  PROVE  WriteString(img, start, 2, <<c>> \o tail) =
           WriteString(img, start, 2, <<c>>)
<1> DEFINE long == <<c>> \o tail
           short == <<c>>
<1>1. start \in Nat /\ start + 2 < 256
  BY DEF IsField
<1>2. /\ long \in Seq(Byte) /\ long # << >> /\ Len(long) = 1 + Len(tail)
      /\ long[1] = c /\ Len(tail) \in Nat
  BY DEF Text, Byte
<1>3. short \in Seq(Byte) /\ short # << >> /\ Len(short) = 1 /\ short[1] = c
  BY DEF Byte
<1> HIDE DEF long, short
<1>4. Kept(2, long) = 1 /\ Kept(2, short) = 1
  BY <1>2, <1>3 DEF Kept
<1>5. start + Len(long) < 256 /\ start + Len(short) < 256
  BY <1>1, <1>2, <1>3
<1>6. start + 1 - 1 = start /\ \A a \in start .. start : a = start /\ a - start + 1 = 1
  BY <1>1
<1>7. Placed(start, 1, long) = Placed(start, 1, short)
  BY <1>2, <1>3, <1>6 DEF Placed
<1>8. WriteString(img, start, 2, long) =
        Laid(img, start, 2, 1, long)
  BY <1>2, <1>4, <1>5, WriteStringIs
<1>9. WriteString(img, start, 2, short) =
        Laid(img, start, 2, 1, short)
  BY <1>3, <1>4, <1>5, WriteStringIs
<1>10. \A a \in start .. start + 1 - 1 : long[a - start + 1] = short[a - start + 1]
  BY <1>2, <1>3, <1>6
<1>11. WriteString(img, start, 2, long) = WriteString(img, start, 2, short)
  BY <1>7, <1>8, <1>9, <1>10 DEF Laid
<1> QED
  BY <1>11 DEF long, short

-----------------------------------------------------------------------------
\* An XOR of any bytes is a byte.
LEMMA XorIsByte == ASSUME NEW f, NEW I PROVE Xor(f, I) \in Byte
<1> DEFINE bits == OddBits(f, I)
           w(b) == IF b \in bits THEN Weight[b] ELSE 0
<1>1. /\ w(0) \in {0, 1} /\ w(1) \in {0, 2} /\ w(2) \in {0, 4} /\ w(3) \in {0, 8}
      /\ w(4) \in {0, 16} /\ w(5) \in {0, 32} /\ w(6) \in {0, 64} /\ w(7) \in {0, 128}
  BY DEF Weight
<1>2. Xor(f, I) = w(0) + w(1) + w(2) + w(3) + w(4) + w(5) + w(6) + w(7)
  BY DEF Xor, FromBits
<1> HIDE DEF w
<1>3. w(0) + w(1) + w(2) + w(3) + w(4) + w(5) + w(6) + w(7) \in 0 .. 255
  BY <1>1
<1> QED
  BY <1>2, <1>3 DEF Byte

LEMMA XorSame ==
  ASSUME NEW f, NEW g, NEW I, \A i \in I : f[i] = g[i]
  PROVE  Xor(f, I) = Xor(g, I)
<1>1. ASSUME NEW b \in 0 .. 7
      PROVE  {i \in I : HasBit(f[i], b)} = {i \in I : HasBit(g[i], b)}
  OBVIOUS
<1>2. OddBits(f, I) = OddBits(g, I)
  BY <1>1 DEF OddBits
<1> QED
  BY <1>2 DEF Xor

\* A byte of a field is an address.
LEMMA FieldAddress ==
  ASSUME NEW start, NEW len, IsField(start, len), NEW a \in start .. start + len - 1
  PROVE  a \in Address
<1>1. start \in Nat /\ len \in Nat /\ start + len <= EepromSize /\ EepromSize \in Nat
  BY EepromAssumption DEF IsField
<1> QED
  BY <1>1 DEF Address

\* writeString leaves an image of bytes.
LEMMA WriteStringIsImage ==
  ASSUME NEW img \in Image, NEW start, NEW len, IsField(start, len),
         NEW text \in Seq(Byte), start + Len(text) < 256
  PROVE  WriteString(img, start, len, text) \in Image
<1>1. CASE text = << >>
  BY <1>1 DEF WriteString
<1>2. CASE text # << >>
  <2> DEFINE m == Kept(len, text)
  <2>1. m \in 1 .. len - 1 /\ WriteString(img, start, len, text) = Laid(img, start, len, m, text)
    BY <1>2, WriteStringIs
  <2>2. start \in Nat /\ len \in Nat /\ Len(text) \in Nat
    BY DEF IsField
  <2>3. m <= Len(text)
    BY <2>1, <2>2 DEF Kept
  <2> HIDE DEF m
  <2>4. \A a \in start .. start + m - 1 : a - start + 1 \in 1 .. Len(text)
    BY <2>1, <2>2, <2>3
  <2>5. \A a \in start .. start + m - 1 : text[a - start + 1] \in Byte
    BY <2>4, ElementOfSeq
  <2>6. Xor(Placed(start, m, text), start .. start + m - 1) \in Byte
    BY XorIsByte
  <2>7. 0 \in Byte /\ \A a \in Address : img[a] \in Byte
    BY DEF Byte, Image
  <2>8. ASSUME NEW a \in Address
        PROVE  (IF a = start + len - 1 THEN Xor(Placed(start, m, text), start .. start + m - 1)
                ELSE IF a \in start .. start + m - 1 THEN text[a - start + 1]
                ELSE IF a \in start + m .. start + len - 1 THEN 0
                ELSE img[a]) \in Byte
    BY <2>5, <2>6, <2>7, Zenon
  <2>9. Laid(img, start, len, m, text) \in Image
    BY <2>8 DEF Laid, Image
  <2> QED
    BY <2>1, <2>9
<1> QED
  BY <1>1, <1>2

\* readString finds the end it looks for.
LEMMA TextLengthExists ==
  ASSUME NEW img, NEW start \in Nat, NEW len \in Nat
  PROVE  LET n == TextLength(img, start, len)
         IN  /\ n \in 0 .. len
             /\ n = len \/ Read(img, start + n) = 0
             /\ \A i \in 0 .. n - 1 : Read(img, start + i) # 0
<1> DEFINE T == {n \in 0 .. len : n = len \/ Read(img, start + n) = 0}
<1>1. T \subseteq Nat /\ len \in T
  OBVIOUS
<1>2. PICK n \in T : \A y \in T : n <= y
  BY <1>1, LeastNatural
<1>3. n \in 0 .. len /\ (n = len \/ Read(img, start + n) = 0)
  OBVIOUS
<1>4. ASSUME NEW i \in 0 .. n - 1 PROVE Read(img, start + i) # 0
  <2>1. i \in 0 .. len /\ ~(n <= i)
    BY <1>3
  <2>2. i \notin T
    BY <1>2, <2>1
  <2> QED
    BY <2>1, <2>2
<1>5. TextLength(img, start, len) = n
  BY <1>3, <1>4, TextLengthIs
<1> QED
  BY <1>3, <1>4, <1>5

\* What readString returns: characters without a NUL, no more than the field has.
LEMMA ReadIsText ==
  ASSUME NEW img \in Image, NEW start, NEW len, IsField(start, len)
  PROVE  /\ ReadString(img, start, len) \in Text
         /\ Len(ReadString(img, start, len)) <= len
<1> DEFINE n == TextLength(img, start, len)
<1>1. start \in Nat /\ len \in Nat
  BY DEF IsField
<1>2. /\ n \in 0 .. len
      /\ \A i \in 0 .. n - 1 : Read(img, start + i) # 0
  BY <1>1, TextLengthExists
<1>3. ReadString(img, start, len) = [i \in 1 .. n |-> Read(img, start + i - 1)]
      \/ ReadString(img, start, len) = << >>
  BY DEF ReadString
<1> HIDE DEF n
<1>4. ASSUME NEW i \in 1 .. n PROVE Read(img, start + i - 1) \in 1 .. 255
  <2>1. i - 1 \in 0 .. n - 1 /\ start + (i - 1) = start + i - 1
        /\ start + i - 1 \in start .. start + len - 1
    BY <1>1, <1>2
  <2>2. start + i - 1 \in Address
    BY <2>1, FieldAddress
  <2>3. Read(img, start + i - 1) \in Byte
    BY <2>2 DEF Read, Image
  <2>4. Read(img, start + i - 1) # 0
    BY <1>2, <2>1
  <2> QED
    BY <2>3, <2>4 DEF Byte
<1>5. CASE ReadString(img, start, len) = [i \in 1 .. n |-> Read(img, start + i - 1)]
  <2> DEFINE text == [i \in 1 .. n |-> Read(img, start + i - 1)]
  <2>1. n \in Nat
    BY <1>1, <1>2
  <2>2. text \in Seq(1 .. 255) /\ Len(text) = n
    BY <1>4, <2>1
  <2> QED
    BY <1>1, <1>2, <1>5, <2>2 DEF Text
<1>6. CASE ReadString(img, start, len) = << >>
  BY <1>1, <1>6 DEF Text
<1> QED
  BY <1>3, <1>5, <1>6

\* What readString returns depends on the bytes of the field only.
LEMMA ReadStringLocal ==
  ASSUME NEW img, NEW old, NEW start, NEW len, IsField(start, len),
         \A a \in start .. start + len - 1 : img[a] = old[a]
  PROVE  ReadString(img, start, len) = ReadString(old, start, len)
<1>1. /\ EepromSize \in Nat /\ start \in Nat /\ len \in Nat /\ len >= 2
      /\ start + len <= EepromSize
  BY EepromAssumption DEF IsField
<1>2. ASSUME NEW i \in 0 .. len - 1
      PROVE  Read(img, start + i) = Read(old, start + i)
  <2>1. start + i \in start .. start + len - 1
    BY <1>1
  <2> QED
    BY <2>1 DEF Read
<1>4. TextLength(img, start, len) = TextLength(old, start, len)
  <2> DEFINE n == TextLength(old, start, len)
  <2>1. /\ n \in 0 .. len
        /\ n = len \/ Read(old, start + n) = 0
        /\ \A i \in 0 .. n - 1 : Read(old, start + i) # 0
    BY <1>1, TextLengthExists
  <2> HIDE DEF n
  <2>2. n # len => n \in 0 .. len - 1
    BY <1>1, <2>1
  <2>3. n = len \/ Read(img, start + n) = 0
    BY <1>2, <2>1, <2>2
  <2>4. \A i \in 0 .. n - 1 : Read(img, start + i) # 0
    <3> SUFFICES ASSUME NEW i \in 0 .. n - 1 PROVE Read(img, start + i) # 0
      OBVIOUS
    <3>1. i \in 0 .. len - 1
      BY <1>1, <2>1
    <3> QED
      BY <1>2, <2>1, <3>1
  <2>5. TextLength(img, start, len) = n
    BY <1>1, <2>1, <2>3, <2>4, TextLengthIs
  <2> QED
    BY <2>5 DEF n
<1>6. Sound(img, start, len) = Sound(old, start, len)
  <2>1. start + len - 2 < EepromSize
    BY <1>1
  <2>2. Read(img, start + len - 1) = Read(old, start + len - 1)
    <3>1. len - 1 \in 0 .. len - 1 /\ start + (len - 1) = start + len - 1
      BY <1>1
    <3> QED
      BY <1>2, <3>1
  <2>3. Xor(img, start .. start + len - 2) = Xor(old, start .. start + len - 2)
    <3>1. \A a \in start .. start + len - 2 : a \in start .. start + len - 1
      BY <1>1
    <3>2. \A a \in start .. start + len - 2 : img[a] = old[a]
      BY <3>1
    <3> QED
      BY <3>2, XorSame
  <2> QED
    BY <2>1, <2>2, <2>3 DEF Sound
<1>7. [i \in 1 .. TextLength(old, start, len) |-> Read(img, start + i - 1)] =
      [i \in 1 .. TextLength(old, start, len) |-> Read(old, start + i - 1)]
  <2> DEFINE n == TextLength(old, start, len)
  <2>1. n \in 0 .. len
    BY <1>1, TextLengthExists
  <2> HIDE DEF n
  <2>2. \A i \in 1 .. n : i - 1 \in 0 .. len - 1 /\ start + (i - 1) = start + i - 1
    BY <1>1, <2>1
  <2>3. \A i \in 1 .. n : Read(img, start + i - 1) = Read(old, start + i - 1)
    BY <1>2, <2>2
  <2> QED
    BY <2>3 DEF n
<1> QED
  BY <1>4, <1>6, <1>7 DEF ReadString

\* A text that was read from a field can be written to it again: when it fills the
\* field its last character is the checksum of the others.
LEMMA ReadTextFits ==
  ASSUME NEW old \in Image, NEW img \in Image, NEW start, NEW len,
         IsField(start, len), NEW text, text = ReadString(old, start, len),
         text # << >>, start + Len(text) < 256
  PROVE  ReadString(WriteString(img, start, len, text), start, len) = text
<1> DEFINE n == TextLength(old, start, len)
           last == start + len - 2
           kept == [i \in 1 .. len - 1 |-> text[i]]
           xor == Xor(Placed(start, len - 1, text), start .. last)
<1>1. /\ EepromSize \in Nat /\ start \in Nat /\ len \in Nat /\ len >= 2
      /\ start + len <= EepromSize /\ start + len - 2 < EepromSize
  BY EepromAssumption DEF IsField
<1>2. /\ n \in 0 .. len
      /\ n = len \/ Read(old, start + n) = 0
      /\ \A i \in 0 .. n - 1 : Read(old, start + i) # 0
  BY <1>1, TextLengthExists
<1>3. /\ Sound(old, start, len)
      /\ text = [i \in 1 .. n |-> Read(old, start + i - 1)]
  BY DEF ReadString
<1>4. text \in Text
  BY ReadIsText
<1> HIDE DEF n
<1>5. Len(text) = n /\ n \in Nat
  BY <1>1, <1>2, <1>3
<1>6. CASE n <= len - 2
  BY <1>4, <1>5, <1>6, RoundTrip
<1>7. CASE n > len - 2
  <2>1. n >= len - 1 /\ (n = len - 1 \/ n = len)
    BY <1>1, <1>2, <1>5, <1>7
  <2>2. ASSUME NEW a \in start .. last
        PROVE  Placed(start, len - 1, text)[a] = old[a]
    <3>1. /\ a \in start .. start + (len - 1) - 1 /\ a - start + 1 \in 1 .. n
          /\ start + (a - start + 1) - 1 = a /\ a \in start .. start + len - 1
      BY <1>1, <1>5, <2>1
    <3>2. text[a - start + 1] = Read(old, start + (a - start + 1) - 1)
      BY <1>3, <3>1
    <3>3. a \in Address
      BY <3>1, FieldAddress
    <3> QED
      BY <3>1, <3>2, <3>3 DEF Placed, Read
  <2>3. xor = Xor(old, start .. last)
    BY <2>2, XorSame, ZenonT(40)
  <2>4. xor = Read(old, start + len - 1)
    BY <1>1, <1>3, <2>3 DEF Sound
  <2>5. ReadString(WriteString(img, start, len, text), start, len) =
          IF xor = 0 THEN kept
          ELSE [i \in 1 .. len |-> IF i = len THEN xor ELSE kept[i]]
    <3>1. Len(text) >= len - 1
      BY <1>5, <2>1
    <3> QED
      BY <1>4, <3>1, FullFieldGainsChecksum
  <2> HIDE DEF xor
  <2>6. CASE n = len - 1
    <3>1. Read(old, start + (len - 1)) = 0 /\ start + (len - 1) = start + len - 1
      BY <1>1, <1>2, <2>6
    <3>2. xor = 0
      BY <2>4, <3>1
    <3>3. kept = text
      BY <1>3, <2>6
    <3> QED
      BY <2>5, <3>2, <3>3
  <2>7. CASE n = len
    <3>1. len - 1 \in 0 .. n - 1 /\ start + (len - 1) = start + len - 1
      BY <1>1, <2>7
    <3>2. xor # 0
      BY <1>2, <2>4, <3>1
    <3>3. text = [i \in 1 .. len |-> text[i]]
      BY <1>3, <2>7
    <3>4. text[len] = xor
      BY <1>1, <1>3, <2>4, <2>7
    <3>5. \A i \in 1 .. len : i # len => i \in 1 .. len - 1
      BY <1>1
    <3>6. [i \in 1 .. len |-> IF i = len THEN xor ELSE kept[i]] = [i \in 1 .. len |-> text[i]]
      BY <3>4, <3>5
    <3> QED
      BY <2>5, <3>2, <3>3, <3>6
  <2> QED
    BY <2>1, <2>6, <2>7
<1> QED
  BY <1>1, <1>5, <1>6, <1>7

-----------------------------------------------------------------------------
\* The two bits of a byte that flags are kept in.
LEMMA LowBits ==
  ASSUME NEW byte \in Byte
  PROVE  /\ HasBit(byte, 0) <=> byte % 2 = 1
         /\ HasBit(byte, 1) <=> (byte \div 2) % 2 = 1
<1>1. Weight[0] = 1 /\ Weight[1] = 2 /\ byte \div 1 = byte
  BY DEF Weight, Byte
<1> QED
  BY <1>1 DEF HasBit, BitsOf

\* writeBoolean sets its own bit to the value and leaves the other as it is.
LEMMA WriteBooleanIs ==
  ASSUME NEW img \in Image, NEW a \in Address, NEW bit \in {0, 1},
         NEW value \in BOOLEAN
  PROVE  LET W == WriteBoolean(img, a, bit, value)
         IN  /\ W \in Image
             /\ \A b \in Address \ {a} : W[b] = img[b]
             /\ ReadBoolean(W, a, bit) = value
             /\ ReadBoolean(W, a, 1 - bit) = ReadBoolean(img, a, 1 - bit)
<1> DEFINE W == WriteBoolean(img, a, bit, value)
           old == img[a]
           clear == IF HasBit(old, bit) THEN old - Weight[bit] ELSE old
           new == IF value THEN clear + Weight[bit] ELSE clear
<1>1. old \in Byte /\ Read(img, a) = old
  BY DEF Image, Read
<1>2. W = [img EXCEPT ![a] = new]
  BY <1>1 DEF WriteBoolean
<1>3. /\ HasBit(old, 0) <=> old % 2 = 1
      /\ HasBit(old, 1) <=> (old \div 2) % 2 = 1
      /\ Weight[0] = 1 /\ Weight[1] = 2
  BY <1>1, LowBits DEF Weight
<1>4. /\ new \in Byte
      /\ bit = 0 => (new % 2 = 1 <=> value) /\ (new \div 2) % 2 = (old \div 2) % 2
      /\ bit = 1 => ((new \div 2) % 2 = 1 <=> value) /\ new % 2 = old % 2
  <2> HIDE DEF old
  <2>1. CASE bit = 0
    BY <1>1, <1>3, <2>1 DEF Byte
  <2>2. CASE bit = 1
    BY <1>1, <1>3, <2>2 DEF Byte
  <2> QED
    BY <2>1, <2>2
<1> HIDE DEF new
<1>5. /\ HasBit(new, 0) <=> new % 2 = 1
      /\ HasBit(new, 1) <=> (new \div 2) % 2 = 1
  BY <1>4, LowBits
<1>6. W \in Image /\ W[a] = new /\ \A b \in Address \ {a} : W[b] = img[b]
  BY <1>2, <1>4 DEF Image
<1>7. Read(W, a) = new
  BY <1>6 DEF Read
<1>8. /\ HasBit(new, bit) <=> value
      /\ HasBit(new, 1 - bit) <=> HasBit(old, 1 - bit)
  <2>1. CASE bit = 0
    BY <1>3, <1>4, <1>5, <2>1
  <2>2. CASE bit = 1
    BY <1>3, <1>4, <1>5, <2>2
  <2> QED
    BY <2>1, <2>2
<1>9. ReadBoolean(W, a, bit) = value
  BY <1>7, <1>8 DEF ReadBoolean, HasBit
<1>10. ReadBoolean(W, a, 1 - bit) = ReadBoolean(img, a, 1 - bit)
  BY <1>1, <1>7, <1>8 DEF ReadBoolean, HasBit
<1> QED
  BY <1>6, <1>9, <1>10

-----------------------------------------------------------------------------
\* The numbers of at most four digits.
SmallNumber == 0 .. 9999

LEMMA SmallNumberIs ==
  ASSUME NEW n
  PROVE  n \in SmallNumber <=> n \in Nat /\ n <= 9999
<1>1. ASSUME n \in Nat, n <= 9999 PROVE n \in SmallNumber
  BY <1>1, SMTT(40) DEF SmallNumber
<1>2. ASSUME n \in SmallNumber PROVE n \in Nat /\ n <= 9999
  BY <1>2, SMTT(40) DEF SmallNumber
<1> QED
  BY <1>1, <1>2

\* The value of the first n digits of a text, for at most four of them.
Digit(text, i) == text[i] - 48

Horner(text, n) ==
  CASE n = 0 -> 0
    [] n = 1 -> Digit(text, 1)
    [] n = 2 -> 10 * Digit(text, 1) + Digit(text, 2)
    [] n = 3 -> 10 * (10 * Digit(text, 1) + Digit(text, 2)) + Digit(text, 3)
    [] n = 4 -> 10 * (10 * (10 * Digit(text, 1) + Digit(text, 2)) + Digit(text, 3))
                  + Digit(text, 4)

\* The digits a text begins with are its first m characters.
Leading(text, m) ==
  /\ m \in 0 .. 4 /\ Len(text) \in Nat /\ m <= Len(text)
  /\ \A i \in 1 .. m : text[i] \in 48 .. 57
  /\ m = Len(text) \/ text[m + 1] \notin 48 .. 57

\* toInt of a text that begins with at most four digits.
LEMMA ToIntIs ==
  ASSUME NEW text, NEW m, Leading(text, m)
  PROVE  ToInt(text) = Horner(text, m) /\ ToInt(text) \in SmallNumber
<1> DEFINE isDigit(c) == c \in 48 .. 57
           Ends(n) == /\ \A i \in 1 .. n : isDigit(text[i])
                      /\ n = Len(text) \/ ~isDigit(text[n + 1])
           len == CHOOSE n \in 0 .. Len(text) : Ends(n)
           Value(f) == [n \in 0 .. m |->
                          IF n = 0 THEN 0 ELSE 10 * f[n - 1] + (text[n] - 48)]
           f == CHOOSE g : g = Value(g)
<1>1. m \in 0 .. Len(text) /\ Ends(m) /\ m \in 0 .. 4
  BY DEF Leading
<1>2. \A n \in 0 .. Len(text) : Ends(n) => n = m
  <2> SUFFICES ASSUME NEW n \in 0 .. Len(text), Ends(n) PROVE n = m
    OBVIOUS
  <2>1. Len(text) \in Nat
    BY DEF Leading
  <2>2. ~(n < m)
    <3> SUFFICES ASSUME n < m PROVE FALSE
      OBVIOUS
    <3>1. n + 1 \in 1 .. m /\ n # Len(text)
      BY <1>1, <2>1
    <3> QED
      BY <1>1, <3>1
  <2>3. ~(m < n)
    <3> SUFFICES ASSUME m < n PROVE FALSE
      OBVIOUS
    <3>1. m + 1 \in 1 .. n /\ m # Len(text)
      BY <1>1, <2>1
    <3> QED
      BY <1>1, <3>1
  <2> QED
    BY <1>1, <2>1, <2>2, <2>3
<1>3. len = m
  <2> HIDE DEF Ends
  <2> QED
    BY <1>1, <1>2
<1>4. ToInt(text) = f[m]
  BY <1>3, Zenon DEF ToInt
<1> HIDE DEF len, Ends, isDigit
<1>5. f = Value(f)
  <2> DEFINE g == [n \in 0 .. m |-> Horner(text, n)]
  <2>1. ASSUME NEW n \in 0 .. m
        PROVE  Horner(text, n) = IF n = 0 THEN 0 ELSE 10 * g[n - 1] + (text[n] - 48)
    <3>1. n # 0 => n - 1 \in 0 .. m
      BY <1>1
    <3>2. n \in {0, 1, 2, 3, 4}
      BY <1>1
    <3>3. n # 0 => g[n - 1] = Horner(text, n - 1)
      BY <3>1
    <3>4. n # 0 => Horner(text, n) = 10 * Horner(text, n - 1) + Digit(text, n)
      <4>1. \A i \in 1 .. m : Digit(text, i) \in 0 .. 9
        BY DEF Leading, Digit
      <4> QED
        BY <3>2, <4>1 DEF Horner
    <3>5. n = 0 => Horner(text, n) = 0
      BY DEF Horner
    <3> HIDE DEF g
    <3> QED
      BY <3>3, <3>4, <3>5 DEF Digit
  <2>2. g = Value(g)
    BY <2>1
  <2> HIDE DEF g
  <2> QED
    BY <2>2
<1> HIDE DEF f
<1>6. \A i \in 1 .. m : Digit(text, i) \in 0 .. 9 /\ text[i] - 48 = Digit(text, i)
  BY DEF Leading, Digit
<1>7. f[0] = 0 /\ \A n \in 1 .. m : f[n] = 10 * f[n - 1] + Digit(text, n)
  <2>1. 0 \in 0 .. m /\ \A n \in 1 .. m : n \in 0 .. m /\ n # 0
    BY <1>1
  <2> QED
    BY <1>5, <1>6, <2>1
<1>8. f[m] = Horner(text, m) /\ Horner(text, m) \in SmallNumber
  <2>1. CASE m = 0
    BY <1>7, <2>1 DEF Horner, SmallNumber
  <2>2. CASE m = 1
    <3>1. f[1] = Digit(text, 1) /\ Digit(text, 1) \in 0 .. 9
      BY <1>6, <1>7, <2>2
    <3> QED
      BY <2>2, <3>1 DEF Horner, SmallNumber
  <2>3. CASE m >= 2
    <3>1. f[1] = Digit(text, 1) /\ Digit(text, 1) \in 0 .. 9
      BY <1>1, <1>6, <1>7, <2>3
    <3>2. f[2] = 10 * Digit(text, 1) + Digit(text, 2) /\ Digit(text, 2) \in 0 .. 9
      BY <1>1, <1>6, <1>7, <2>3, <3>1
    <3>3. m >= 3 => /\ f[3] = 10 * f[2] + Digit(text, 3)
                    /\ Digit(text, 3) \in 0 .. 9
      BY <1>1, <1>6, <1>7
    <3>4. m = 4 => /\ f[4] = 10 * f[3] + Digit(text, 4)
                   /\ Digit(text, 4) \in 0 .. 9
      BY <1>1, <1>6, <1>7
    <3>9. m >= 3 => f[3] \in Nat /\ f[3] <= 999
      <4> SUFFICES ASSUME m >= 3 PROVE f[3] \in Nat /\ f[3] <= 999
        OBVIOUS
      <4> DEFINE a == f[1]  b == f[2]  c == f[3]  d == Digit(text, 2)  e == Digit(text, 3)
      <4>1. a \in 0 .. 9 /\ d \in 0 .. 9 /\ e \in 0 .. 9
        BY <3>1, <3>2, <3>3
      <4>2. b = 10 * a + d /\ c = 10 * b + e
        BY <3>1, <3>2, <3>3
      <4> HIDE DEF a, b, c, d, e
      <4>3. b \in Nat /\ b <= 99
        BY <4>1, <4>2
      <4>4. c \in Nat /\ c <= 999
        BY <4>1, <4>2, <4>3
      <4> QED
        BY <4>4 DEF c
    <3>5. m \in {2, 3, 4}
      BY <1>1, <2>3
    <3>6. CASE m = 2
      BY <3>1, <3>2, <3>6 DEF Horner, SmallNumber
    <3>7. CASE m = 3
      <4>1. /\ f[3] = 10 * (10 * Digit(text, 1) + Digit(text, 2)) + Digit(text, 3)
            /\ Digit(text, 3) \in 0 .. 9
        BY <3>2, <3>3, <3>7
      <4>2. Horner(text, m) = f[3]
        BY <3>7, <4>1 DEF Horner
      <4>3. f[3] \in Nat /\ f[3] <= 999
        BY <3>3, <3>7, <3>9
      <4> QED
        BY <3>7, <4>2, <4>3, SmallNumberIs
    <3>8. CASE m = 4
      <4>1. /\ f[4] = 10 * (10 * (10 * Digit(text, 1) + Digit(text, 2)) + Digit(text, 3))
                        + Digit(text, 4)
            /\ Digit(text, 3) \in 0 .. 9 /\ Digit(text, 4) \in 0 .. 9
        BY <3>2, <3>3, <3>4, <3>8
      <4>2. Horner(text, m) = f[4]
        BY <3>8, <4>1 DEF Horner
      <4> DEFINE a == f[3]  b == f[4]  d == Digit(text, 4)
      <4>3. a \in Nat /\ a <= 999
        BY <3>3, <3>8, <3>9
      <4>4. b = 10 * a + d /\ d \in 0 .. 9
        BY <3>4, <3>8
      <4> HIDE DEF a, b, d
      <4>5. b \in Nat /\ b <= 9999
        BY <4>3, <4>4
      <4>6. b \in SmallNumber
        BY <4>5, SmallNumberIs
      <4> QED
        BY <3>8, <4>2, <4>6 DEF b
    <3> QED
      BY <3>5, <3>6, <3>7, <3>8
  <2>4. m = 0 \/ m = 1 \/ m >= 2
    BY <1>1
  <2> QED
    BY <2>1, <2>2, <2>3, <2>4, Zenon
<1> QED
  BY <1>4, <1>8

DigitOf(n, p) == (n \div p) % 10

\* String(n, DEC) of a number below 10000 is its digits, and toInt gives it back.
LEMMA DecimalIs ==
  ASSUME NEW n \in SmallNumber
  PROVE  Decimal(n) \in Text /\ Len(Decimal(n)) \in 1 .. 4 /\ ToInt(Decimal(n)) = n
<1>0. n \in 0 .. 9999
  BY DEF SmallNumber
<1> DEFINE Has(k) == /\ k = 1 \/ n >= Power10[k]
                     /\ k = 6 \/ n < Power10[k + 1]
           digits == CHOOSE k \in 1 .. 6 : Has(k)
           d == IF n < 10 THEN 1 ELSE IF n < 100 THEN 2 ELSE IF n < 1000 THEN 3 ELSE 4
<1>1. /\ Power10[1] = 1 /\ Power10[2] = 10 /\ Power10[3] = 100
      /\ Power10[4] = 1000 /\ Power10[5] = 10000 /\ Power10[6] = 100000
  BY DEF Power10
<1>2. d \in {1, 2, 3, 4} /\ Has(d) /\ \A k \in 1 .. 6 : Has(k) => k = d
  <2>1. d \in {1, 2, 3, 4} /\ Has(d)
    BY <1>0, <1>1
  <2>2. \A k \in {1, 2, 3, 4, 5, 6} : Has(k) => k = d
    BY <1>0, <1>1
  <2>3. \A k \in 1 .. 6 : k \in {1, 2, 3, 4, 5, 6}
    OBVIOUS
  <2> QED
    BY <2>1, <2>2, <2>3
<1>3. digits = d
  <2> HIDE DEF Has, d
  <2> QED
    BY <1>2
<1> DEFINE text == Decimal(n)
           Digits(k) == [i \in 1 .. k |-> 48 + DigitOf(n, Power10[k + 1 - i])]
           DigitAt(i) == DigitOf(n, Power10[d + 1 - i])
<1>4. text = Digits(d)
  <2>1. text = Digits(digits)
    BY DEF Decimal, DigitOf
  <2> HIDE DEF text, Digits, digits, d
  <2> QED
    BY <1>3, <2>1
<1> HIDE DEF digits, Has, d, text
<1>5. text = [i \in 1 .. d |-> 48 + DigitAt(i)]
  BY <1>4
<1> HIDE DEF Digits
<1>6. \A i \in 1 .. d : DigitAt(i) \in 0 .. 9
  <2> SUFFICES ASSUME NEW i \in 1 .. d PROVE DigitAt(i) \in 0 .. 9
    OBVIOUS
  <2>1. d + 1 - i \in {1, 2, 3, 4}
    BY <1>2
  <2>2. Power10[d + 1 - i] \in {1, 10, 100, 1000}
    BY <1>1, <2>1
  <2>3. \A p \in {1, 10, 100, 1000} : DigitOf(n, p) \in 0 .. 9
    BY <1>0 DEF DigitOf
  <2> QED
    BY <2>2, <2>3
<1> HIDE DEF DigitAt
<1>7. /\ \A i \in 1 .. d : Digit(text, i) = DigitAt(i) /\ text[i] \in 48 .. 57
      /\ Len(text) = d /\ text \in Text
  <2>1. \A i \in 1 .. d : 48 + DigitAt(i) \in 48 .. 57 /\ 48 + DigitAt(i) \in 1 .. 255
    BY <1>6
  <2>2. \A i \in 1 .. d : text[i] = 48 + DigitAt(i)
    BY <1>5
  <2>3. \A i \in 1 .. d : Digit(text, i) = DigitAt(i)
    BY <1>6, <2>2 DEF Digit
  <2>4. d \in Nat
    BY <1>2
  <2>5. Len(text) = d /\ text \in Seq(1 .. 255)
    BY <1>5, <2>1, <2>4
  <2> QED
    BY <2>1, <2>2, <2>3, <2>5 DEF Text
<1>8. Leading(text, d)
  BY <1>2, <1>7 DEF Leading
<1>9. ToInt(text) = Horner(text, d)
  BY <1>8, ToIntIs
<1>10. Horner(text, d) = n
  <2>0. \A i \in 1 .. d : Digit(text, i) = DigitOf(n, Power10[d + 1 - i])
    BY <1>7 DEF DigitAt
  <2>5. /\ Horner(text, 1) = Digit(text, 1)
        /\ Horner(text, 2) = 10 * Digit(text, 1) + Digit(text, 2)
        /\ Horner(text, 3) = 10 * (10 * Digit(text, 1) + Digit(text, 2)) + Digit(text, 3)
        /\ Horner(text, 4) =
              10 * (10 * (10 * Digit(text, 1) + Digit(text, 2)) + Digit(text, 3))
                + Digit(text, 4)
    BY DEF Horner
  <2>1. CASE d = 1
    <3>1. Digit(text, 1) = DigitOf(n, 1) /\ n < 10
      BY <1>1, <2>0, <2>1 DEF d
    <3> QED
      BY <1>0, <2>1, <3>1, <2>5 DEF DigitOf
  <2>2. CASE d = 2
    <3>1. /\ Digit(text, 1) = DigitOf(n, 10) /\ Digit(text, 2) = DigitOf(n, 1)
          /\ n < 100
      BY <1>1, <2>0, <2>2 DEF d
    <3>2. 10 * DigitOf(n, 10) + DigitOf(n, 1) = n
      BY <1>0, <3>1 DEF DigitOf
    <3> QED
      BY <2>2, <2>5, <3>1, <3>2, Zenon
  <2>3. CASE d = 3
    <3>1. /\ Digit(text, 1) = DigitOf(n, 100) /\ Digit(text, 2) = DigitOf(n, 10)
          /\ Digit(text, 3) = DigitOf(n, 1) /\ n < 1000
      BY <1>1, <2>0, <2>3 DEF d
    <3>2. 10 * (10 * DigitOf(n, 100) + DigitOf(n, 10)) + DigitOf(n, 1) = n
      BY <1>0, <3>1 DEF DigitOf
    <3> QED
      BY <2>3, <2>5, <3>1, <3>2, Zenon
  <2>4. CASE d = 4
    <3>1. /\ Digit(text, 1) = DigitOf(n, 1000) /\ Digit(text, 2) = DigitOf(n, 100)
          /\ Digit(text, 3) = DigitOf(n, 10) /\ Digit(text, 4) = DigitOf(n, 1)
      BY <1>1, <2>0, <2>4
    <3> DEFINE q == n \div 1000
               k == n % 1000
               a == (k \div 100) % 10
               b == (k \div 10) % 10
               c == k % 10
    <3>2. q \in 0 .. 9 /\ k \in 0 .. 999 /\ n = 1000 * q + k
      BY DEF SmallNumber
    <3>3. DigitOf(n, 1000) = q
      BY <3>2 DEF DigitOf
    <3> HIDE DEF q, k
    <3>4. DigitOf(n, 100) = a /\ DigitOf(n, 10) = b /\ DigitOf(n, 1) = c
      BY <3>2 DEF DigitOf
    <3>5. a \in 0 .. 9 /\ b \in 0 .. 9 /\ c \in 0 .. 9 /\ 10 * (10 * a + b) + c = k
      BY <3>2
    <3> HIDE DEF a, b, c
    <3>6. 10 * (10 * (10 * q + a) + b) + c = n
      BY <3>2, <3>5
    <3>7. /\ Digit(text, 1) = q /\ Digit(text, 2) = a
          /\ Digit(text, 3) = b /\ Digit(text, 4) = c
      BY <3>1, <3>3, <3>4
    <3> QED
      BY <2>4, <2>5, <3>6, <3>7, Zenon
  <2> QED
    BY <1>2, <2>1, <2>2, <2>3, <2>4
<1> QED
  BY <1>2, <1>7, <1>9, <1>10 DEF text

\* An integer field with a byte among its first five that is no digit.
LEMMA ReadIntBounded ==
  ASSUME NEW img \in Image, NEW start, NEW len, IsField(start, len), len >= 5,
         NEW n \in 0 .. 4, img[start + n] \notin 48 .. 57
  PROVE  ToInt(ReadString(img, start, len)) \in SmallNumber
<1> DEFINE text == ReadString(img, start, len)
           size == TextLength(img, start, len)
           T == {k \in 0 .. Len(text) :
                   k = Len(text) \/ text[k + 1] \notin 48 .. 57}
<1>1. text \in Text /\ Len(text) \in Nat /\ start \in Nat /\ len \in Nat
  BY ReadIsText, SMTT(40) DEF IsField, Text
<1>2. PICK m \in T : \A k \in T : m <= k
  <2>1. T \subseteq Nat /\ Len(text) \in T
    BY <1>1
  <2> QED
    BY <2>1, LeastNatural
<1>3. \A i \in 1 .. m : text[i] \in 48 .. 57
  <2> SUFFICES ASSUME NEW i \in 1 .. m PROVE text[i] \in 48 .. 57
    OBVIOUS
  <2>1. i - 1 \in 0 .. Len(text) /\ ~(m <= i - 1) /\ i - 1 + 1 = i
    BY <1>1
  <2>2. i - 1 \notin T
    BY <1>2, <2>1
  <2> QED
    BY <2>1, <2>2
<1>4. m <= 4
  <2>1. CASE n < Len(text)
    <3>1. text[n + 1] = img[start + n]
      <4>1. text = [i \in 1 .. size |-> Read(img, start + i - 1)]
        BY <2>1 DEF ReadString
      <4>2. size \in Nat
        BY <1>1, TextLengthExists
      <4> HIDE DEF size, text
      <4>3. n + 1 \in 1 .. size /\ start + (n + 1) - 1 = start + n
        BY <1>1, <2>1, <4>1, <4>2
      <4>4. text[n + 1] = Read(img, start + n)
        BY <4>1, <4>3
      <4>5. start + n \in start .. start + len - 1
        BY <1>1
      <4> QED
        BY <4>4, <4>5, FieldAddress DEF Read
    <3>2. n \in T
      <4> HIDE DEF text
      <4> QED
        BY <1>1, <2>1, <3>1, SMTT(40)
    <3>3. \A k \in T : m <= k
      BY <1>2
    <3> HIDE DEF T
    <3> QED
      BY <3>2, <3>3
  <2>2. CASE ~(n < Len(text))
    BY <1>1, <2>2
  <2> QED
    BY <2>1, <2>2
<1> HIDE DEF text
<1>5. Leading(text, m)
  BY <1>1, <1>3, <1>4 DEF Leading
<1>6. ToInt(text) \in SmallNumber
  BY <1>5, ToIntIs, Zenon
<1> QED
  BY <1>6 DEF text

\* The zero behind a number of at most four digits is such a byte.
LEMMA WrittenIntBounded ==
  ASSUME NEW img \in Image, NEW start, NEW len, IsField(start, len), len >= 6,
         NEW text \in Text, text # << >>, Len(text) <= 4
  PROVE  WriteString(img, start, len, text)[start + 4] \notin 48 .. 57
<1> DEFINE W == WriteString(img, start, len, text)
<1>1. start \in Nat /\ len \in Nat /\ start + len < 256 /\ Len(text) \in Nat
  BY DEF IsField, Text
<1>2. start + Len(text) < 256 /\ Kept(len, text) <= 4
  BY <1>1 DEF Kept
<1>3. Kept(len, text) \in Nat /\ Holds(W, start, len, Kept(len, text), text)
  BY <1>1, <1>2, WrittenCells
<1>4. Read(W, start + 4) = 0
  <2>1. 4 \in Kept(len, text) .. len - 2
    BY <1>1, <1>2, <1>3
  <2> QED
    BY <1>3, <2>1 DEF Holds
<1>5. start + 4 \in start .. start + len - 1
  BY <1>1
<1>6. W[start + 4] = 0
  BY <1>4, <1>5, FieldAddress DEF Read
<1> QED
  BY <1>6
=============================================================================
