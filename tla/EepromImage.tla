---------------------------- MODULE EepromImage ----------------------------
(***************************************************************************)
(* The field formats of src/src/Settings.ino over the RAM copy of the      *)
(* EEPROM.  An image is a function from addresses to bytes.  A string      *)
(* field is the characters, a padding of zeros, and in its last byte the   *)
(* XOR of the characters; an integer is its decimal digits in such a field *)
(* of six bytes; a boolean is one bit.  Positions are of type char, so the *)
(* sums that are kept in a char wrap at 256.                               *)
(***************************************************************************)
EXTENDS Integers, Sequences, FiniteSets

CONSTANT EepromSize   \* the size given to EEPROM.begin, 200 in setup()

ASSUME EepromAssumption == EepromSize \in 1 .. 256

Byte == 0 .. 255
Address == 0 .. EepromSize - 1
Image == [Address -> Byte]
Text == Seq(1 .. 255)         \* a String holds no NUL

Weight == [b \in 0 .. 7 |->
  CASE b = 0 -> 1 [] b = 1 -> 2 [] b = 2 -> 4 [] b = 3 -> 8
    [] b = 4 -> 16 [] b = 5 -> 32 [] b = 6 -> 64 [] OTHER -> 128]

BitsOf == [byte \in Byte |-> {b \in 0 .. 7 : (byte \div Weight[b]) % 2 = 1}]

HasBit(byte, b) == b \in BitsOf[byte]

FromBits(bits) ==
  LET w(b) == IF b \in bits THEN Weight[b] ELSE 0
  IN w(0) + w(1) + w(2) + w(3) + w(4) + w(5) + w(6) + w(7)

\* The bits set in an odd number of the bytes f[i], i in I: their XOR.
OddBits(f, I) ==
  {b \in 0 .. 7 : Cardinality({i \in I : HasBit(f[i], b)}) % 2 = 1}

Xor(f, I) == FromBits(OddBits(f, I))

-----------------------------------------------------------------------------
\* EEPROM.read: a byte outside the image reads as 0.
Read(img, a) == IF a \in Address THEN img[a] ELSE 0

\* Mutant: a field that is not padded.
WriteStringUnpadded(img, start, len, text) ==
  LET end == start + (IF Len(text) < len THEN Len(text) ELSE len - 1)
      char == [a \in start .. end - 1 |-> text[a - start + 1]]
      new(a) == IF a = start + len - 1 THEN Xor(char, start .. end - 1)
                ELSE IF a \in start .. end - 1 THEN char[a] ELSE img[a]
  IN IF text = << >> THEN img ELSE [a \in Address |-> new(a)]

\* writeString.  The end of the text is computed in a char; an address outside
\* the image is not written.
WriteString(img, start, len, text) ==
  LET tEnd == (start + len) % 256
      end == (start + Len(text)) % 256
      cEnd == IF end >= tEnd THEN (tEnd + 255) % 256 ELSE end
      char == [a \in start .. cEnd - 1 |-> text[a - start + 1]]
      new(a) == IF a = start + len - 1 THEN Xor(char, start .. cEnd - 1)
                ELSE IF a \in start .. cEnd - 1 THEN char[a]
                ELSE IF a \in cEnd .. tEnd - 1 THEN 0
                ELSE img[a]
  IN IF text = << >> THEN img ELSE [a \in Address |-> new(a)]

\* readString.  The text ends at the first zero among all of the bytes, the
\* checksum byte included; a field whose checksum is wrong reads as empty.
\* Bytes outside the image, read as 0, add nothing to the XOR.
TextLength(img, start, len) ==
  CHOOSE n \in 0 .. len :
    /\ n = len \/ Read(img, start + n) = 0
    /\ \A i \in 0 .. n - 1 : Read(img, start + i) # 0

Sound(img, start, len) ==
  LET last == IF start + len - 2 < EepromSize THEN start + len - 2
              ELSE EepromSize - 1
  IN Xor(img, start .. last) = Read(img, start + len - 1)

ReadString(img, start, len) ==
  IF Sound(img, start, len)
  THEN [i \in 1 .. TextLength(img, start, len) |-> Read(img, start + i - 1)]
  ELSE << >>

\* readBoolean and writeBoolean.
ReadBoolean(img, a, bit) == HasBit(Read(img, a), bit)

\* Mutants: a bit that is added without being cleared, and one that is written
\* without the other bits of its byte.
WriteBooleanAdds(img, a, bit, value) ==
  IF a \in Address
  THEN [img EXCEPT ![a] = @ + (IF value THEN Weight[bit] ELSE 0)] ELSE img

WriteBooleanAlone(img, a, bit, value) ==
  IF a \in Address
  THEN [img EXCEPT ![a] = IF value THEN Weight[bit] ELSE 0] ELSE img

WriteBoolean(img, a, bit, value) ==
  LET old == Read(img, a)
      clear == IF HasBit(old, bit) THEN old - Weight[bit] ELSE old
      byte == IF value THEN clear + Weight[bit] ELSE clear
  IN IF a \in Address THEN [img EXCEPT ![a] = byte] ELSE img

-----------------------------------------------------------------------------
\* String(iIn, DEC) of a number below 1000000, as character codes.
Power10 == <<1, 10, 100, 1000, 10000, 100000>>

Decimal(n) ==
  LET digits == CHOOSE k \in 1 .. 6 : /\ k = 1 \/ n >= Power10[k]
                                      /\ k = 6 \/ n < Power10[k + 1]
  IN [i \in 1 .. digits |-> 48 + ((n \div Power10[digits + 1 - i]) % 10)]

\* String.toInt: the value of the leading digits, 0 when there are none.  No
\* stored text starts with a blank or a sign.
ToInt(text) ==
  LET isDigit(c) == c \in 48 .. 57
      len == CHOOSE n \in 0 .. Len(text) :
               /\ \A i \in 1 .. n : isDigit(text[i])
               /\ n = Len(text) \/ ~isDigit(text[n + 1])
      value[n \in 0 .. len] ==
        IF n = 0 THEN 0 ELSE 10 * value[n - 1] + (text[n] - 48)
  IN value[len]

\* The text writeInt stores and the number readInt makes of a field.
Stored(n) == Decimal(IF n > 99999 THEN 99999 ELSE IF n < 0 THEN 0 ELSE n)

ReadInt(img, start) == ToInt(ReadString(img, start, 6))
=============================================================================
