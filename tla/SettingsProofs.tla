--------------------------- MODULE SettingsProofs ---------------------------
(***************************************************************************)
(* That a restart between requests keeps the settings, for all requests,   *)
(* all contents of the flash, all faults and every size of the image the   *)
(* layout fits.  The globals are what loadSettings would read, because     *)
(* every POST to general.html ends with it and nothing else that is        *)
(* written reaches a general field; and what it would read from RAM is     *)
(* what it would read from the flash, because a commit clears _dirty only  *)
(* when the sector holds the image.                                        *)
(*                                                                         *)
(* The second half is about a save.  Under SettingsFit, when no char is    *)
(* zero and every text leaves room for a zero and the checksum, the        *)
(* loadSettings that ends a POST gives back what the form has set, and the *)
(* sector behind its checksums and shared bytes is a store of fields.      *)
(***************************************************************************)
EXTENDS SettingsStore, EepromProofs

-----------------------------------------------------------------------------
\* The layout: where the texts and the flags are, and that no two share a byte,
\* but for the two flags that share one.
Start(f) == TextLayout[f][1]
Width(f) == TextLayout[f][2]

LEMMA LayoutFits ==
  ASSUME NEW f \in DOMAIN TextLayout
  PROVE  /\ f \in Fields /\ f \notin DOMAIN FlagLayout /\ f \notin FlagSettings
         /\ IsField(Start(f), Width(f))
         /\ Start(f) \in Nat /\ Width(f) \in Nat
         /\ Width(f) >= 2 /\ Width(f) <= 40 /\ Start(f) + Width(f) <= 137
         /\ f \in GeneralSettings => Start(f) >= 67
         /\ f \in CharSettings => Width(f) = 2 /\ Start(f) <= 79
         /\ f \in IntSettings => Width(f) = 6
<1>1. EepromSize \in Nat /\ EepromSize >= 137
  BY EepromAssumption, SettingsAssumption
<1>2. /\ Start(f) \in Nat /\ Width(f) \in Nat
      /\ Width(f) >= 2 /\ Width(f) <= 40 /\ Start(f) + Width(f) <= 137
  BY DEF TextLayout, Start, Width
<1>3. f \in Fields /\ f \notin DOMAIN FlagLayout /\ f \notin FlagSettings
  BY DEF TextLayout, FlagLayout, Fields, FlagSettings
<1>4. /\ f \in GeneralSettings => Start(f) >= 67
      /\ f \in CharSettings => Width(f) = 2 /\ Start(f) <= 79
      /\ f \in IntSettings => Width(f) = 6
  BY DEF TextLayout, Start, Width, GeneralSettings, CharSettings, TextSettings,
         FlagSettings, IntSettings
<1>5. IsField(Start(f), Width(f))
  BY <1>1, <1>2 DEF IsField
<1> QED
  BY <1>2, <1>3, <1>4, <1>5

LEMMA TextsApart ==
  ASSUME NEW f \in DOMAIN TextLayout, NEW g \in DOMAIN TextLayout, f # g
  PROVE  Start(f) + Width(f) <= Start(g) \/ Start(g) + Width(g) <= Start(f)
BY DEF TextLayout, Start, Width

LEMMA FlagsApart ==
  ASSUME NEW f \in DOMAIN FlagLayout
  PROVE  /\ f \in Fields /\ f \notin DOMAIN TextLayout
         /\ f \notin CharSettings /\ f \notin IntSettings /\ f \notin TextSettings
         /\ FlagLayout[f][1] \in Address /\ FlagLayout[f][2] \in {0, 1}
         /\ f \in GeneralSettings <=> f \in FlagSettings
         /\ f \in GeneralSettings => FlagLayout[f][1] = 66
         /\ \A g \in DOMAIN TextLayout :
              FlagLayout[f][1] \notin Start(g) .. Start(g) + Width(g) - 1
         /\ \A g \in DOMAIN FlagLayout :
              g # f => \/ FlagLayout[g][1] # FlagLayout[f][1]
                       \/ FlagLayout[g][2] = 1 - FlagLayout[f][2]
<1>1. EepromSize \in Nat /\ EepromSize >= 137
  BY EepromAssumption, SettingsAssumption
<1>2. /\ FlagLayout[f][1] \in {32, 65, 66} /\ FlagLayout[f][2] \in {0, 1}
      /\ f \in GeneralSettings => FlagLayout[f][1] = 66
  BY DEF FlagLayout, GeneralSettings, CharSettings, TextSettings, FlagSettings
<1>3. /\ f \in Fields /\ f \notin DOMAIN TextLayout
      /\ f \notin CharSettings /\ f \notin IntSettings /\ f \notin TextSettings
      /\ f \in GeneralSettings <=> f \in FlagSettings
  BY DEF TextLayout, FlagLayout, Fields, FlagSettings, CharSettings, IntSettings,
         TextSettings, GeneralSettings
<1>4. ASSUME NEW g \in DOMAIN TextLayout, NEW a \in {32, 65, 66}
      PROVE  a \notin Start(g) .. Start(g) + Width(g) - 1
  BY DEF TextLayout, Start, Width
<1>5. ASSUME NEW g \in DOMAIN FlagLayout, g # f
      PROVE  \/ FlagLayout[g][1] # FlagLayout[f][1]
             \/ FlagLayout[g][2] = 1 - FlagLayout[f][2]
  BY <1>5 DEF FlagLayout
<1> QED
  BY <1>1, <1>2, <1>3, <1>4, <1>5 DEF Address

\* The bytes that what a field reads as depends on.
Bytes(f) == IF f \in DOMAIN FlagLayout THEN {FlagLayout[f][1]}
            ELSE Start(f) .. Start(f) + Width(f) - 1

LEMMA ReadFieldLocal ==
  ASSUME NEW f \in Fields, NEW img, NEW old, \A a \in Bytes(f) : img[a] = old[a]
  PROVE  ReadField(img, f) = ReadField(old, f)
<1>1. CASE f \in DOMAIN FlagLayout
  BY <1>1 DEF ReadField, ReadBoolean, Read, Bytes
<1>2. CASE f \in DOMAIN TextLayout
  <2>1. f \notin DOMAIN FlagLayout /\ IsField(Start(f), Width(f))
    BY <1>2, LayoutFits
  <2>2. ReadString(img, Start(f), Width(f)) = ReadString(old, Start(f), Width(f))
    BY <2>1, ReadStringLocal DEF Bytes
  <2> QED
    BY <2>1, <2>2 DEF ReadField, Start, Width
<1> QED
  BY <1>1, <1>2 DEF Fields

\* The bytes of the general settings.
SameGeneral(img, old) == \A a \in Address : a >= 66 => img[a] = old[a]

\* loadSettings depends on nothing else.
LEMMA LoadSame ==
  ASSUME NEW img, NEW old, SameGeneral(img, old)
  PROVE  Load(img) = Load(old)
<1>1. GeneralSettings \subseteq Fields
  BY DEF GeneralSettings, CharSettings, TextSettings, FlagSettings, Fields,
         TextLayout, FlagLayout
<1>2. ASSUME NEW f \in GeneralSettings PROVE ReadField(img, f) = ReadField(old, f)
  <2>1. CASE f \in DOMAIN FlagLayout
    <3>1. Bytes(f) = {66} /\ 66 \in Address
      BY <2>1, FlagsApart DEF Bytes
    <3> QED
      BY <1>1, <3>1, ReadFieldLocal DEF SameGeneral
  <2>2. CASE f \in DOMAIN TextLayout
    <3>1. /\ IsField(Start(f), Width(f)) /\ Start(f) >= 67 /\ Start(f) \in Nat
          /\ Width(f) \in Nat /\ f \notin DOMAIN FlagLayout
      BY <2>2, LayoutFits
    <3>3. Bytes(f) = Start(f) .. Start(f) + Width(f) - 1
      BY <3>1 DEF Bytes
    <3>2. \A a \in Bytes(f) : a \in Address /\ a >= 66
      BY <3>1, <3>3, FieldAddress
    <3> QED
      BY <1>1, <3>2, ReadFieldLocal DEF SameGeneral
  <2> QED
    BY <1>1, <2>1, <2>2 DEF Fields
<1> QED
  BY <1>2 DEF Load

-----------------------------------------------------------------------------
\* What the fields hold: the texts that some image reads as.
Holdable(f) == {ReadField(img, f) : img \in Image}

LEMMA FieldTexts ==
  ASSUME NEW img \in Image, NEW f \in Fields
  PROVE  /\ ReadField(img, f) \in Seq(Byte)
         /\ f \in DOMAIN FlagLayout => ReadField(img, f) \in {<<0>>, <<1>>}
         /\ f \in CharSettings =>
              ReadField(img, f) = << >>
              \/ \E c \in 1 .. 255 : ReadField(img, f) = <<c>>
         /\ f \in DOMAIN TextLayout =>
              /\ ReadField(img, f) \in Text
              /\ Len(ReadField(img, f)) <= Width(f)
<1>1. CASE f \in DOMAIN FlagLayout
  <2>1. f \notin DOMAIN TextLayout /\ f \notin CharSettings
    BY <1>1, FlagsApart
  <2>2. ReadField(img, f) \in {<<0>>, <<1>>}
    BY <1>1 DEF ReadField, Flag
  <2>3. \A n \in {0, 1} : <<n>> \in Seq(Byte)
    BY DEF Byte
  <2> QED
    BY <2>1, <2>2, <2>3
<1>2. CASE f \in DOMAIN TextLayout
  <2> DEFINE text == ReadString(img, Start(f), Width(f))
  <2>1. f \notin DOMAIN FlagLayout /\ IsField(Start(f), Width(f))
        /\ Width(f) \in Nat /\ Width(f) >= 1
    BY <1>2, LayoutFits
  <2>2. text \in Text /\ Len(text) <= Width(f)
    BY <2>1, ReadIsText
  <2>3. ReadField(img, f) = IF f \in CharSettings THEN FirstOf(text) ELSE text
    BY <2>1 DEF ReadField, Start, Width
  <2> HIDE DEF text
  <2>4. CASE f \in CharSettings
    <3>1. CASE text = << >>
      <4>1. ReadField(img, f) = << >>
        BY <2>3, <2>4, <3>1 DEF FirstOf
      <4> QED
        BY <2>1, <4>1 DEF Text
    <3>2. CASE text # << >>
      <4>1. text[1] \in 1 .. 255
        <5>1. text \in Seq(1 .. 255) /\ 1 \in 1 .. Len(text)
          BY <2>2, <3>2 DEF Text
        <5> QED
          BY <5>1, ElementOfSeq
      <4>2. ReadField(img, f) = <<text[1]>>
        BY <2>3, <2>4, <3>2 DEF FirstOf
      <4>3. ReadField(img, f) \in Text /\ Len(ReadField(img, f)) = 1
        BY <4>1, <4>2 DEF Text
      <4> QED
        BY <2>1, <4>1, <4>2, <4>3, TextIsBytes
    <3> QED
      BY <3>1, <3>2
  <2>5. CASE f \notin CharSettings
    BY <2>1, <2>2, <2>3, <2>5, TextIsBytes
  <2> QED
    BY <2>4, <2>5
<1> QED
  BY <1>1, <1>2 DEF Fields

\* What writeField may write for a text that its field can hold.
LEMMA WrittenText ==
  ASSUME SettingsFit, NEW f \in DOMAIN TextLayout, NEW text \in Holdable(f),
         text # << >>, NEW w \in Written(Put(f, text))
  PROVE  /\ w \in Text /\ w # << >> /\ Start(f) + Len(w) < 256
         /\ f \in CharSettings => w[1] = text[1] /\ text = <<w[1]>>
         /\ f \notin CharSettings => w = text
<1>1. /\ Start(f) \in Nat /\ Width(f) \in Nat
      /\ Width(f) >= 2 /\ Width(f) <= 40 /\ Start(f) + Width(f) <= 137
      /\ f \in CharSettings => Start(f) <= 79
      /\ f \in Fields
  BY LayoutFits
<1>2. PICK img \in Image : text = ReadField(img, f)
  BY DEF Holdable
<1>3. text \in Text /\ Len(text) <= Width(f)
  BY <1>1, <1>2, FieldTexts
<1>4. CASE f \notin CharSettings
  <2>1. w = text
    BY <1>4 DEF Written, Put
  <2>2. Start(f) + Len(text) < 256
    <3>1. Len(text) \in Nat
      BY <1>3 DEF Text
    <3> QED
      BY <1>1, <1>3, <3>1
  <2> QED
    BY <1>3, <1>4, <2>1, <2>2
<1>5. CASE f \in CharSettings
  <2>1. PICK tail \in StackTails : w = text \o tail
    BY <1>5 DEF Written, Put
  <2>2. PICK c \in 1 .. 255 : text = <<c>>
    BY <1>1, <1>2, <1>5, FieldTexts
  <2>3. tail \in Seq(1 .. 255) /\ Len(tail) \in Nat /\ Len(tail) < 176
    BY DEF SettingsFit, Text
  <2>4. w \in Seq(1 .. 255) /\ Len(w) = 1 + Len(tail) /\ w[1] = c
    BY <2>1, <2>2, <2>3
  <2>5. Start(f) + Len(w) < 256
    BY <1>1, <1>5, <2>3, <2>4
  <2>6. w # << >> /\ text[1] = c
    BY <2>2, <2>3, <2>4
  <2> QED
    BY <1>5, <2>2, <2>4, <2>5, <2>6 DEF Text
<1> QED
  BY <1>4, <1>5

\* A char setting reads back from whatever text it begins.
LEMMA CharReadsBack ==
  ASSUME NEW img \in Image, NEW f \in CharSettings, NEW w \in Text, w # << >>,
         Start(f) + Len(w) < 256
  PROVE  ReadField(WriteField(img, f, w), f) = <<w[1]>>
<1> DEFINE W == WriteField(img, f, w)
           len == Width(f)
           read == ReadString(W, Start(f), len)
           xor == Xor(Placed(Start(f), len - 1, w), Start(f) .. Start(f) + len - 2)
           kept == [i \in 1 .. len - 1 |-> w[i]]
           full == [i \in 1 .. len |-> IF i = len THEN xor ELSE kept[i]]
<1>1. f \in DOMAIN TextLayout
  BY DEF CharSettings, TextLayout
<1>2. f \notin DOMAIN FlagLayout /\ IsField(Start(f), len)
  BY <1>1, LayoutFits
<1>7. len = 2
  BY <1>1, LayoutFits
<1>3. W = WriteString(img, Start(f), len, w) /\ ReadField(W, f) = FirstOf(read)
  BY <1>2 DEF WriteField, ReadField, Start, Width
<1>4. read = IF xor = 0 THEN kept ELSE full
  <2>1. Len(w) >= len - 1
    <3>1. Len(w) \in Nat /\ Len(w) # 0
      BY DEF Text
    <3> HIDE DEF len
    <3> QED
      BY <1>7, <3>1
  <2>2. ReadString(WriteString(img, Start(f), len, w), Start(f), len) =
          IF xor = 0 THEN kept ELSE full
    BY <1>2, <2>1, FullFieldGainsChecksum
  <2> QED
    BY <1>3, <2>2
<1>5. kept[1] = w[1] /\ kept # << >> /\ full[1] = kept[1] /\ full # << >>
  <2> HIDE DEF len, xor
  <2> QED
    BY <1>7
<1> HIDE DEF xor, kept, full, read, W
<1>6. read # << >> /\ read[1] = w[1]
  BY <1>4, <1>5
<1> QED
  BY <1>3, <1>6 DEF FirstOf, W

\* A write leaves the bytes of the other texts and flags as they are.
LEMMA WriteFieldFrame ==
  ASSUME SettingsFit, NEW img \in Image, NEW f \in Fields, NEW text \in Holdable(f),
         text # << >>, NEW w \in Written(Put(f, text)),
         NEW a \in Address, a \notin Bytes(f)
  PROVE  WriteField(img, f, w)[a] = img[a]
<1>1. CASE f \in DOMAIN FlagLayout
  BY <1>1 DEF WriteField, WriteBoolean, Bytes
<1>2. CASE f \in DOMAIN TextLayout
  <2>1. f \notin DOMAIN FlagLayout /\ IsField(Start(f), Width(f))
    BY <1>2, LayoutFits
  <2>2. w \in Seq(Byte) /\ Start(f) + Len(w) < 256
    BY <1>2, WrittenText, TextIsBytes
  <2>3. a \notin Start(f) .. Start(f) + Width(f) - 1
    BY <2>1 DEF Bytes
  <2>4. WriteString(img, Start(f), Width(f), w)[a] = img[a]
    BY <2>1, <2>2, <2>3, WriteStringFrame
  <2> QED
    BY <2>1, <2>4 DEF WriteField, Start, Width
<1> QED
  BY <1>1, <1>2 DEF Fields

\* A write of a text that its field can hold makes its field read as that text.
LEMMA WriteFieldReadsBack ==
  ASSUME SettingsFit, NEW img \in Image, NEW f \in Fields, NEW text \in Holdable(f),
         text # << >>, NEW w \in Written(Put(f, text))
  PROVE  /\ WriteField(img, f, w) \in Image
         /\ ReadField(WriteField(img, f, w), f) = text
<1> DEFINE W == WriteField(img, f, w)
<1>1. PICK old \in Image : text = ReadField(old, f)
  BY DEF Holdable
<1>2. CASE f \in DOMAIN FlagLayout
  <2>1. /\ f \notin CharSettings
        /\ FlagLayout[f][1] \in Address /\ FlagLayout[f][2] \in {0, 1}
    BY <1>2, FlagsApart
  <2>2. w = text /\ text \in {<<0>>, <<1>>}
    BY <1>1, <1>2, <2>1, FieldTexts DEF Written, Put
  <2> DEFINE value == text = <<1>>
  <2>3. W = WriteBoolean(img, FlagLayout[f][1], FlagLayout[f][2], value)
    BY <1>2, <2>2 DEF WriteField
  <2>4. value \in BOOLEAN /\ text = Flag(value)
    BY <2>2 DEF Flag
  <2> HIDE DEF value, W
  <2>5. W \in Image /\ ReadBoolean(W, FlagLayout[f][1], FlagLayout[f][2]) = value
    BY <2>1, <2>3, <2>4, WriteBooleanIs
  <2> QED
    BY <1>2, <2>4, <2>5 DEF ReadField, W
<1>3. CASE f \in DOMAIN TextLayout
  <2>1. f \notin DOMAIN FlagLayout /\ IsField(Start(f), Width(f))
    BY <1>3, LayoutFits
  <2>2. /\ w \in Text /\ w \in Seq(Byte) /\ w # << >> /\ Start(f) + Len(w) < 256
        /\ f \in CharSettings => w[1] = text[1] /\ text = <<w[1]>>
        /\ f \notin CharSettings => w = text
    BY <1>3, WrittenText, TextIsBytes
  <2>3. W = WriteString(img, Start(f), Width(f), w)
    BY <2>1 DEF WriteField, Start, Width
  <2>4. W \in Image
    BY <2>1, <2>2, <2>3, WriteStringIsImage
  <2> DEFINE read == ReadString(W, Start(f), Width(f))
  <2>5. ReadField(W, f) = IF f \in CharSettings THEN FirstOf(read) ELSE read
    BY <2>1 DEF ReadField, Start, Width
  <2> HIDE DEF W, read
  <2>6. CASE f \notin CharSettings
    <3>1. text = ReadString(old, Start(f), Width(f))
      BY <1>1, <2>1, <2>6 DEF ReadField, Start, Width
    <3>2. read = text
      BY <2>1, <2>2, <2>3, <2>6, <3>1, ReadTextFits DEF read
    <3> QED
      BY <2>4, <2>5, <2>6, <3>2 DEF W
  <2>7. CASE f \in CharSettings
    <3>1. ReadField(W, f) = <<w[1]>>
      BY <2>2, <2>7, CharReadsBack DEF W
    <3> QED
      BY <2>2, <2>4, <2>7, <3>1 DEF W
  <2> QED
    BY <2>6, <2>7
<1> QED
  BY <1>2, <1>3 DEF Fields

\* It leaves what every other field reads as.
LEMMA WriteFieldView ==
  ASSUME SettingsFit, NEW img \in Image, NEW f \in Fields, NEW text \in Holdable(f),
         text # << >>, NEW w \in Written(Put(f, text)), NEW g \in Fields, g # f
  PROVE  ReadField(WriteField(img, f, w), g) = ReadField(img, g)
<1> DEFINE W == WriteField(img, f, w)
<1>1. CASE Bytes(f) \cap Bytes(g) = {}
  <2>1. Bytes(g) \subseteq Address
    <3>1. CASE g \in DOMAIN FlagLayout
      BY <3>1, FlagsApart DEF Bytes
    <3>2. CASE g \in DOMAIN TextLayout
      <4>1. g \notin DOMAIN FlagLayout /\ IsField(Start(g), Width(g))
        BY <3>2, LayoutFits
      <4> QED
        BY <4>1, FieldAddress DEF Bytes
    <3> QED
      BY <3>1, <3>2 DEF Fields
  <2>2. \A a \in Bytes(g) : W[a] = img[a]
    BY <1>1, <2>1, WriteFieldFrame
  <2> QED
    BY <2>2, ReadFieldLocal
<1>2. CASE Bytes(f) \cap Bytes(g) # {}
  <2>1. f \in DOMAIN FlagLayout /\ g \in DOMAIN FlagLayout
    <3>1. ASSUME f \in DOMAIN TextLayout, g \in DOMAIN TextLayout PROVE FALSE
      <4>1. Start(f) + Width(f) <= Start(g) \/ Start(g) + Width(g) <= Start(f)
        BY <3>1, TextsApart
      <4>2. Start(f) \in Nat /\ Width(f) \in Nat /\ f \notin DOMAIN FlagLayout
        BY <3>1, LayoutFits
      <4>3. Start(g) \in Nat /\ Width(g) \in Nat /\ g \notin DOMAIN FlagLayout
        BY <3>1, LayoutFits
      <4> QED
        BY <1>2, <4>1, <4>2, <4>3 DEF Bytes
    <3>2. ASSUME f \in DOMAIN FlagLayout, g \in DOMAIN TextLayout PROVE FALSE
      BY <1>2, <3>2, FlagsApart, LayoutFits DEF Bytes
    <3>3. ASSUME f \in DOMAIN TextLayout, g \in DOMAIN FlagLayout PROVE FALSE
      BY <1>2, <3>3, FlagsApart, LayoutFits DEF Bytes
    <3> QED
      BY <3>1, <3>2, <3>3 DEF Fields
  <2> DEFINE a == FlagLayout[f][1]
             bit == FlagLayout[f][2]
             value == w = <<1>>
  <2>2. FlagLayout[g][1] = a /\ a \in Address /\ bit \in {0, 1}
    BY <1>2, <2>1, FlagsApart DEF Bytes
  <2>3. FlagLayout[g][2] = 1 - bit
    BY <2>1, <2>2, FlagsApart
  <2>4. W = WriteBoolean(img, a, bit, value) /\ value \in BOOLEAN
    BY <2>1 DEF WriteField
  <2> HIDE DEF a, bit, value, W
  <2>5. ReadBoolean(W, a, 1 - bit) = ReadBoolean(img, a, 1 - bit)
    BY <2>2, <2>4, WriteBooleanIs
  <2> QED
    BY <2>1, <2>2, <2>3, <2>5 DEF ReadField, W
<1> QED
  BY <1>1, <1>2

\* The fields can hold a text that leaves room for a zero and the checksum, a
\* flag and a char.
Zeros == [a \in Address |-> 0]

LEMMA ZerosIsImage == Zeros \in Image
BY DEF Zeros, Image, Byte

LEMMA TextIsHeld ==
  ASSUME NEW f \in DOMAIN TextLayout, f \notin CharSettings,
         NEW text \in Text, text # << >>, Len(text) <= Width(f) - 2
  PROVE  text \in Holdable(f)
<1> DEFINE W == WriteString(Zeros, Start(f), Width(f), text)
<1>1. /\ f \notin DOMAIN FlagLayout /\ IsField(Start(f), Width(f))
      /\ Start(f) \in Nat /\ Width(f) \in Nat /\ Start(f) + Width(f) <= 137
      /\ Len(text) \in Nat
  BY LayoutFits DEF Text
<1>2. text \in Seq(Byte) /\ Start(f) + Len(text) < 256
  BY <1>1, TextIsBytes
<1>3. W \in Image
  BY <1>1, <1>2, ZerosIsImage, WriteStringIsImage
<1>4. ReadString(W, Start(f), Width(f)) = text
  BY <1>1, ZerosIsImage, RoundTrip
<1> HIDE DEF W
<1>5. ReadField(W, f) = text
  BY <1>1, <1>4 DEF ReadField, Start, Width
<1> QED
  BY <1>3, <1>5 DEF Holdable

LEMMA FlagIsHeld ==
  ASSUME NEW f \in DOMAIN FlagLayout, NEW value \in BOOLEAN
  PROVE  /\ Flag(value) \in Holdable(f) /\ Flag(value) # << >>
         /\ Flag(value) \in Seq(Byte) /\ Len(Flag(value)) <= 1
<1> DEFINE W == WriteBoolean(Zeros, FlagLayout[f][1], FlagLayout[f][2], value)
<1>1. FlagLayout[f][1] \in Address /\ FlagLayout[f][2] \in {0, 1}
  BY FlagsApart
<1>2. W \in Image /\ ReadBoolean(W, FlagLayout[f][1], FlagLayout[f][2]) = value
  BY <1>1, ZerosIsImage, WriteBooleanIs
<1> HIDE DEF W
<1>3. ReadField(W, f) = Flag(value)
  BY <1>2 DEF ReadField
<1>4. Flag(value) = <<1>> \/ Flag(value) = <<0>>
  BY DEF Flag
<1>5. \A n \in {0, 1} : <<n>> \in Seq(Byte) /\ <<n>> # << >> /\ Len(<<n>>) <= 1
  BY DEF Byte
<1> QED
  BY <1>2, <1>3, <1>4, <1>5 DEF Holdable

LEMMA CharIsHeld ==
  ASSUME NEW f \in CharSettings, NEW c \in 0 .. 255
  PROVE  CharText(c) \in Holdable(f)
<1>1. f \in DOMAIN TextLayout
  BY DEF CharSettings, TextLayout
<1>2. /\ f \notin DOMAIN FlagLayout /\ IsField(Start(f), Width(f))
      /\ Start(f) \in Nat /\ Width(f) \in Nat /\ Start(f) + Width(f) <= 137
  BY <1>1, LayoutFits
<1>5. Width(f) = 2
  BY <1>1, LayoutFits
<1>3. CASE c = 0
  <2>1. Read(Zeros, Start(f) + 0) = 0
    BY DEF Read, Zeros
  <2>2. TextLength(Zeros, Start(f), Width(f)) = 0
    <3>1. 0 \in 0 .. Width(f) /\ \A i \in 0 .. 0 - 1 : Read(Zeros, Start(f) + i) # 0
      BY <1>2
    <3> QED
      BY <1>2, <2>1, <3>1, TextLengthIs, Zenon
  <2>3. ReadString(Zeros, Start(f), Width(f)) = << >>
    BY <2>2 DEF ReadString
  <2>4. ReadField(Zeros, f) = << >>
    BY <1>2, <2>3 DEF ReadField, Start, Width, FirstOf
  <2> QED
    BY <1>3, <2>4, ZerosIsImage DEF Holdable, CharText
<1>4. CASE c # 0
  <2> DEFINE w == <<c>>
             W == WriteField(Zeros, f, w)
  <2>1. c \in 1 .. 255
    BY <1>4
  <2>2. w \in Text /\ w # << >> /\ Len(w) = 1 /\ w[1] = c
    BY <2>1 DEF Text
  <2> HIDE DEF w
  <2>3. Start(f) + Len(w) < 256
    BY <1>2, <1>5, <2>2
  <2>7. w \in Seq(Byte)
    BY <2>2, TextIsBytes
  <2>4. W = WriteString(Zeros, Start(f), Width(f), w)
    BY <1>2 DEF WriteField, Start, Width
  <2>5. W \in Image
    BY <1>2, <2>3, <2>4, <2>7, ZerosIsImage, WriteStringIsImage
  <2>6. ReadField(W, f) = <<c>>
    BY <2>2, <2>3, ZerosIsImage, CharReadsBack
  <2> HIDE DEF W
  <2> QED
    BY <1>4, <2>5, <2>6 DEF Holdable, CharText
<1> QED
  BY <1>3, <1>4

-----------------------------------------------------------------------------
\* What the WiFi forms ask to be written: texts of at most 14 characters that
\* their fields can hold.
WiFiPuts ==
  {put \in [field : WiFiSettings, text : {t \in Seq(Byte) : Len(t) <= 14}] :
     put.text \in Holdable(put.field) /\ put.text # << >>}

LEMMA WiFiArguments ==
  ASSUME NEW args \in Requests PROVE updateWiFiSettings(args) \in Seq(WiFiPuts)
<1>1. ASSUME NEW t \in Text PROVE CharArray15(t) \in Text /\ Len(CharArray15(t)) <= 14
  <2>1. t \in Seq(1 .. 255) /\ Len(t) \in Nat
    BY DEF Text
  <2>2. CASE Len(t) < 14
    <3>1. CharArray15(t) = SubSeq(t, 1, Len(t))
      BY <2>2 DEF CharArray15
    <3>2. \A i \in 1 .. Len(t) : t[i] \in 1 .. 255
      BY <2>1, ElementOfSeq
    <3>3. SubSeq(t, 1, Len(t)) \in Seq(1 .. 255) /\ Len(SubSeq(t, 1, Len(t))) = Len(t)
      BY <2>1, <3>2, SubSeqProperties
    <3> QED
      BY <2>2, <3>1, <3>3 DEF Text
  <2>3. CASE ~(Len(t) < 14)
    <3>1. CharArray15(t) = SubSeq(t, 1, 14)
      BY <2>3 DEF CharArray15
    <3>2. \A i \in 1 .. 14 : t[i] \in 1 .. 255
      <4>1. \A i \in 1 .. 14 : i \in 1 .. Len(t)
        BY <2>1, <2>3
      <4> QED
        BY <2>1, <4>1, ElementOfSeq
    <3>3. SubSeq(t, 1, 14) \in Seq(1 .. 255) /\ Len(SubSeq(t, 1, 14)) = 14
      BY <2>1, <3>2, SubSeqProperties
    <3> QED
      BY <3>1, <3>3 DEF Text
  <2> QED
    BY <2>2, <2>3
<1>2. ASSUME NEW ssid \in {"clientSsid", "apSsid"},
             NEW password \in {"clientPassword", "apPassword"},
             NEW useWiFi \in {"clientUseWiFi", "apUseWiFi"}
      PROVE  putWiFiSettings(args, ssid, password, useWiFi) \in Seq(WiFiPuts)
  <2> DEFINE sent(f) == IF f \in DOMAIN args THEN CharArray15(args[f]) ELSE << >>
             use == useWiFi \in DOMAIN args /\ args[useWiFi] = 1
  <2>1. ASSUME NEW f \in {ssid, password}, sent(f) # << >>
        PROVE  Put(f, sent(f)) \in WiFiPuts
    <3>1. f \in DOMAIN args
      BY <2>1
    <3>2. f \in DOMAIN args \cap TextArguments
      BY <3>1 DEF TextArguments
    <3>3. args[f] \in Text
      BY <3>2, SettingsAssumption
    <3>4. sent(f) \in Text /\ Len(sent(f)) <= 14
      BY <1>1, <3>1, <3>3
    <3> HIDE DEF sent
    <3>5. sent(f) \in Seq(Byte)
      BY <3>4, TextIsBytes
    <3>6. f \in DOMAIN TextLayout /\ f \notin CharSettings /\ Width(f) = 16
      BY DEF TextLayout, CharSettings, Width
    <3>7. sent(f) \in Holdable(f)
      BY <2>1, <3>4, <3>6, TextIsHeld
    <3>8. f \in WiFiSettings
      BY DEF WiFiSettings
    <3> QED
      BY <2>1, <3>4, <3>5, <3>7, <3>8 DEF Put, WiFiPuts
  <2>2. Put(useWiFi, Flag(use)) \in WiFiPuts
    <3>1. useWiFi \in WiFiSettings /\ useWiFi \in DOMAIN FlagLayout
      BY DEF WiFiSettings, FlagLayout
    <3>2. use \in BOOLEAN
      OBVIOUS
    <3> HIDE DEF use
    <3>3. Flag(use) \in Holdable(useWiFi) /\ Flag(use) # << >> /\ Flag(use) \in Seq(Byte)
      BY <3>1, <3>2, FlagIsHeld
    <3>4. Len(Flag(use)) <= 14
      BY <3>1, <3>2, FlagIsHeld
    <3> DEFINE text == Flag(use)
    <3> HIDE DEF text
    <3>5. Put(useWiFi, text) \in WiFiPuts
      BY <3>1, <3>3, <3>4 DEF Put, WiFiPuts, text
    <3> QED
      BY <3>5 DEF text
  <2> HIDE DEF sent, use
  <2>3. CASE sent(ssid) = << >> \/ sent(password) = << >>
    <3>1. putWiFiSettings(args, ssid, password, useWiFi) = << >>
      BY <2>3 DEF putWiFiSettings, sent
    <3> QED
      BY <3>1
  <2>4. CASE sent(ssid) # << >> /\ sent(password) # << >>
    <3>1. putWiFiSettings(args, ssid, password, useWiFi) =
            <<Put(ssid, sent(ssid)), Put(password, sent(password)),
              Put(useWiFi, Flag(use))>>
      BY <2>4 DEF putWiFiSettings, sent, use
    <3>2. /\ Put(ssid, sent(ssid)) \in WiFiPuts
          /\ Put(password, sent(password)) \in WiFiPuts
      BY <2>1, <2>4
    <3> QED
      BY <2>2, <3>1, <3>2
  <2> QED
    BY <2>3, <2>4
<1> QED
  BY <1>2, ConcatProperties DEF updateWiFiSettings

\* Writing one of those reaches no byte of the general settings.
LEMMA WiFiWriteFrame ==
  ASSUME NEW img, NEW put \in WiFiPuts
  PROVE  SameGeneral(WriteField(img, put.field, put.text), img)
<1>1. put.field \in WiFiSettings /\ put.text \in Seq(Byte) /\ Len(put.text) <= 14
      /\ Len(put.text) \in Nat
  BY DEF WiFiPuts
<1>2. EepromSize \in Nat /\ EepromSize >= 137
  BY EepromAssumption, SettingsAssumption
<1>3. CASE put.field \in {"clientUseWiFi", "apUseWiFi"}
  <2>1. put.field \in DOMAIN FlagLayout /\ FlagLayout[put.field][1] \in {32, 65}
    BY <1>3 DEF FlagLayout
  <2>2. ASSUME NEW byte \in {32, 65}, NEW bit, NEW value, NEW a \in Address, a >= 66
        PROVE  WriteBoolean(img, byte, bit, value)[a] = img[a]
    <3>1. a # byte
      BY <2>2
    <3> QED
      BY <3>1 DEF WriteBoolean
  <2> QED
    BY <2>1, <2>2 DEF WriteField, SameGeneral
<1>4. CASE put.field \notin {"clientUseWiFi", "apUseWiFi"}
  <2>1. put.field \in {"clientSsid", "clientPassword", "apSsid", "apPassword"}
    BY <1>1, <1>4 DEF WiFiSettings
  <2>2. /\ put.field \notin DOMAIN FlagLayout
        /\ TextLayout[put.field][1] \in {0, 16, 33, 49}
        /\ TextLayout[put.field][2] = 16
    BY <2>1 DEF FlagLayout, TextLayout
  <2>3. ASSUME NEW start \in {0, 16, 33, 49}
        PROVE  SameGeneral(WriteString(img, start, 16, put.text), img)
    <3>1. IsField(start, 16) /\ start + Len(put.text) < 256
      BY <1>1, <1>2 DEF IsField
    <3>2. ASSUME NEW a \in Address, a >= 66
          PROVE  WriteString(img, start, 16, put.text)[a] = img[a]
      <4>1. a \notin start .. start + 16 - 1
        BY <1>2, <3>2 DEF Address
      <4> QED
        BY <1>1, <3>1, <4>1, WriteStringFrame
    <3> QED
      BY <3>2 DEF SameGeneral
  <2> QED
    BY <2>2, <2>3 DEF WriteField
<1> QED
  BY <1>3, <1>4

\* _dirty is clear only when the sector holds what is in RAM.
CleanIsDurable == ~dirty => flash = data

\* The inductive invariant.
IInv ==
  /\ serving \in {"none", "general", "wifi"}
  /\ serving = "none" => todo = << >>
  /\ serving = "wifi" => todo \in Seq(WiFiPuts)
  /\ CleanIsDurable
  /\ SettingsAreStored

LEMMA WriteStep == ASSUME IInv, writeField PROVE IInv'
<1> DEFINE put == Head(todo)
<1>1. /\ serving' = serving /\ settings' = settings
      /\ todo # << >> /\ todo' = Tail(todo)
  BY DEF writeField
<1>2. CleanIsDurable'
  <2>1. CASE put.text = << >>
    BY <2>1 DEF writeField, IInv, CleanIsDurable
  <2>2. CASE put.text # << >>
    BY <2>2 DEF writeField, CommitDone, CommitFails, CleanIsDurable
  <2> QED
    BY <2>1, <2>2
<1>3. CASE serving = "general"
  BY <1>1, <1>2, <1>3 DEF IInv, SettingsAreStored
<1>4. CASE serving = "wifi"
  <2>1. todo \in Seq(WiFiPuts)
    BY <1>4 DEF IInv
  <2>2. put \in WiFiPuts /\ todo' \in Seq(WiFiPuts)
    BY <1>1, <2>1, HeadTailProperties
  <2>3. SameGeneral(data', data)
    <3>1. CASE put.text = << >>
      BY <3>1 DEF writeField, SameGeneral
    <3>2. CASE put.text # << >>
      <4>1. put.field \notin CharSettings
        BY <2>2 DEF WiFiPuts, WiFiSettings, CharSettings
      <4>2. data' = WriteField(data, put.field, put.text)
        BY <3>2, <4>1 DEF writeField, Written
      <4> QED
        BY <2>2, <4>2, WiFiWriteFrame
    <3> QED
      BY <3>1, <3>2
  <2>4. Load(data') = Load(data)
    BY <2>3, LoadSame
  <2>5. settings = Load(data)
    BY <1>4 DEF IInv, SettingsAreStored
  <2> QED
    BY <1>1, <1>2, <1>4, <2>2, <2>4, <2>5 DEF IInv, SettingsAreStored
<1> QED
  BY <1>1, <1>3, <1>4 DEF IInv

\* The globals are what loadSettings would read, and what is clean in RAM is in
\* the sector.
THEOREM StoredSettings == Spec => []IInv
<1>1. Init => IInv
  BY DEF Init, IInv, CleanIsDurable, SettingsAreStored
<1>2. IInv /\ [Next]_vars => IInv'
  <2> SUFFICES ASSUME IInv, [Next]_vars PROVE IInv'
    OBVIOUS
  <2>1. ASSUME NEW args \in Requests, postGeneral(args) PROVE IInv'
    BY <2>1 DEF postGeneral, IInv, CleanIsDurable, SettingsAreStored
  <2>2. ASSUME NEW args \in Requests, postWiFi(args) PROVE IInv'
    BY <2>2, WiFiArguments DEF postWiFi, IInv, CleanIsDurable, SettingsAreStored
  <2>3. CASE writeField
    BY <2>3, WriteStep
  <2>4. CASE respond
    BY <2>4 DEF respond, IInv, CleanIsDurable, SettingsAreStored
  <2>5. CASE getGeneral
    BY <2>5 DEF getGeneral, IInv, CleanIsDurable, SettingsAreStored
  <2>6. CASE restart
    BY <2>6 DEF restart, PowerUp, IInv, CleanIsDurable, SettingsAreStored
  <2>7. CASE cutOff
    BY <2>7 DEF cutOff, PowerUp, IInv, CleanIsDurable, SettingsAreStored
  <2>8. CASE UNCHANGED vars
    BY <2>8 DEF vars, IInv, CleanIsDurable, SettingsAreStored
  <2> QED
    BY <2>1, <2>2, <2>3, <2>4, <2>5, <2>6, <2>7, <2>8 DEF Next
<1> QED
  BY <1>1, <1>2, PTL DEF Spec

\* No request but a POST to general.html comes between the globals and the
\* fields they were loaded from: the writes of the WiFi forms in particular.
THEOREM GlobalsAreStored == Spec => []SettingsAreStored
BY StoredSettings, PTL DEF IInv

\* A restart between requests keeps every setting, unless a commit failed.
THEOREM RestartKeeps == Spec => []RestartKeepsSettings
<1>1. IInv => RestartKeepsSettings
  BY DEF IInv, CleanIsDurable, SettingsAreStored, RestartKeepsSettings
<1> QED
  BY <1>1, StoredSettings, PTL

-----------------------------------------------------------------------------
\* The values of the general settings that the fields can hold.
SettingValues(f) ==
  CASE f \in FlagSettings      -> BOOLEAN
    [] f \in CharSettings      -> 0 .. 255
    [] f \in TextSettings      -> Holdable(f)
    [] f = "iPulseMultiFactor" -> 0 .. 999
    [] OTHER                   -> SmallNumber

SettingsHeld(s) ==
  s = [f \in GeneralSettings |-> s[f]]
    /\ \A f \in GeneralSettings : s[f] \in SettingValues(f)

\* Each setting is of one kind.
LEMMA Kinds ==
  ASSUME NEW f \in GeneralSettings
  PROVE  /\ f \in Fields
         /\ f \in FlagSettings \/ f \in CharSettings \/ f \in TextSettings
            \/ f \in IntSettings
         /\ f \in FlagSettings =>
              /\ f \in DOMAIN FlagLayout
              /\ f \notin CharSettings /\ f \notin TextSettings
              /\ f \notin IntSettings /\ f # "iPulseMultiFactor"
         /\ f \notin FlagSettings => f \in DOMAIN TextLayout
         /\ f \in CharSettings =>
              /\ f \notin FlagSettings /\ f \notin TextSettings
              /\ f \notin IntSettings /\ f # "iPulseMultiFactor"
         /\ f \in TextSettings =>
              /\ f \notin FlagSettings /\ f \notin CharSettings
              /\ f \notin IntSettings /\ f # "iPulseMultiFactor"
         /\ f \in IntSettings =>
              /\ f \notin FlagSettings /\ f \notin CharSettings
              /\ f \notin TextSettings
<1>1. f \in {"bPowerMonEnabled", "bPulseLight", "cPulseFreq", "cLimit", "cLimitHigh",
             "cLimitDebounce", "sPushURL", "sPushArg", "iPulseMultiFactor", "iPushFreq"}
  BY DEF GeneralSettings, CharSettings, TextSettings, FlagSettings
<1> QED
  BY <1>1 DEF CharSettings, TextSettings, FlagSettings, IntSettings, Fields,
              TextLayout, FlagLayout

\* The number saveSettings stores for an integer setting.
Number(s, f) == IF f = "iPulseMultiFactor" THEN s[f] * 10 ELSE s[f]

IntValues(f) == IF f = "iPulseMultiFactor" THEN 0 .. 999 ELSE SmallNumber

\* The operators on settings, one kind at a time.
LEMMA SettingTextIs ==
  ASSUME NEW s, NEW f \in GeneralSettings
  PROVE  /\ f \in FlagSettings => SettingText(s, f) = Flag(s[f])
         /\ f \in CharSettings => SettingText(s, f) = CharText(s[f])
         /\ f \in TextSettings => SettingText(s, f) = s[f]
         /\ f \in IntSettings  => SettingText(s, f) = Stored(Number(s, f))
<1>1. CASE f \in FlagSettings
  BY <1>1, Kinds DEF SettingText
<1>2. CASE f \in CharSettings
  BY <1>2, Kinds DEF SettingText
<1>3. CASE f \in TextSettings
  BY <1>3, Kinds DEF SettingText
<1>4. CASE f \in IntSettings
  <2>1. /\ f \notin FlagSettings /\ f \notin CharSettings
        /\ f \notin TextSettings
    BY <1>4, Kinds
  <2>2. CASE f = "iPulseMultiFactor"
    BY <1>4, <2>1, <2>2 DEF SettingText, Number
  <2>3. CASE f # "iPulseMultiFactor"
    BY <1>4, <2>1, <2>3 DEF SettingText, Number
  <2> QED
    BY <2>2, <2>3
<1> QED
  BY <1>1, <1>2, <1>3, <1>4, Kinds

LEMMA SettingValuesAre ==
  ASSUME NEW f \in GeneralSettings
  PROVE  /\ f \in FlagSettings => SettingValues(f) = BOOLEAN
         /\ f \in CharSettings => SettingValues(f) = 0 .. 255
         /\ f \in TextSettings => SettingValues(f) = Holdable(f)
         /\ f \in IntSettings  => SettingValues(f) = IntValues(f)
<1>1. CASE f \in FlagSettings
  BY <1>1, Kinds DEF SettingValues
<1>2. CASE f \in CharSettings
  BY <1>2, Kinds DEF SettingValues
<1>3. CASE f \in TextSettings
  BY <1>3, Kinds DEF SettingValues
<1>4. CASE f \in IntSettings
  <2>1. /\ f \notin FlagSettings /\ f \notin CharSettings
        /\ f \notin TextSettings
    BY <1>4, Kinds
  <2>2. CASE f = "iPulseMultiFactor"
    BY <1>4, <2>1, <2>2 DEF SettingValues, IntValues
  <2>3. CASE f # "iPulseMultiFactor"
    BY <1>4, <2>1, <2>3 DEF SettingValues, IntValues
  <2> QED
    BY <2>2, <2>3
<1> QED
  BY <1>1, <1>2, <1>3, <1>4, Kinds

LEMMA LoadIs ==
  ASSUME NEW img, NEW f \in GeneralSettings
  PROVE  /\ f \in FlagSettings => Load(img)[f] = (ReadField(img, f) = <<1>>)
         /\ f \in CharSettings => Load(img)[f] = FirstChar(ReadField(img, f))
         /\ f \in TextSettings => Load(img)[f] = ReadField(img, f)
         /\ f \in IntSettings  =>
              Load(img)[f] = IF f = "iPulseMultiFactor"
                             THEN ToInt(ReadField(img, f)) \div 10
                             ELSE ToInt(ReadField(img, f))
<1> DEFINE text == ReadField(img, f)
<1>1. Load(img)[f] =
        CASE f \in FlagSettings         -> text = <<1>>
          [] f \in CharSettings         -> FirstChar(text)
          [] f \in TextSettings         -> text
          [] f = "iPulseMultiFactor"    -> ToInt(text) \div 10
          [] OTHER                      -> ToInt(text)
  BY DEF Load
<1> HIDE DEF text
<1>2. CASE f \in FlagSettings
  <2>1. /\ f \notin CharSettings /\ f \notin TextSettings
        /\ f \notin IntSettings /\ f # "iPulseMultiFactor"
    BY <1>2, Kinds
  <2> QED
    BY <1>1, <1>2, <2>1 DEF text
<1>3. CASE f \in CharSettings
  BY <1>1, <1>3, Kinds DEF text
<1>4. CASE f \in TextSettings
  BY <1>1, <1>4, Kinds DEF text
<1>5. CASE f \in IntSettings
  <2>1. /\ f \notin FlagSettings /\ f \notin CharSettings
        /\ f \notin TextSettings
    BY <1>5, Kinds
  <2>2. CASE f = "iPulseMultiFactor"
    BY <1>1, <1>5, <2>1, <2>2 DEF text
  <2>3. CASE f # "iPulseMultiFactor"
    BY <1>1, <1>5, <2>1, <2>3 DEF text
  <2> QED
    BY <2>2, <2>3
<1> QED
  BY <1>2, <1>3, <1>4, <1>5, Kinds

LEMMA StoredNumber ==
  ASSUME NEW n \in SmallNumber
  PROVE  /\ Stored(n) \in Text /\ Stored(n) # << >> /\ Len(Stored(n)) <= 4
         /\ ToInt(Stored(n)) = n
<1>1. Stored(n) = Decimal(n)
  BY DEF Stored, SmallNumber
<1>2. Decimal(n) \in Text /\ Len(Decimal(n)) \in 1 .. 4 /\ ToInt(Decimal(n)) = n
  BY DecimalIs
<1>3. Len(Decimal(n)) <= 4
  <2>1. ASSUME NEW k \in 1 .. 4 PROVE k <= 4
    OBVIOUS
  <2> QED
    BY <1>2, <2>1, Zenon
<1>4. Decimal(n) # << >>
  <2>1. Len(<< >>) \notin 1 .. 4
    OBVIOUS
  <2> QED
    BY <1>2, <2>1
<1> QED
  BY <1>1, <1>2, <1>3, <1>4

LEMMA NumberIsSmall ==
  ASSUME NEW s, SettingsHeld(s), NEW f \in IntSettings
  PROVE  /\ f \in GeneralSettings /\ Number(s, f) \in SmallNumber
         /\ SettingText(s, f) = Stored(Number(s, f))
         /\ f = "iPulseMultiFactor" => s[f] \in 0 .. 999
<1>1. f \in GeneralSettings
  BY DEF IntSettings, GeneralSettings
<1>2. s[f] \in IntValues(f)
  BY <1>1, SettingValuesAre DEF SettingsHeld
<1>3. SettingText(s, f) = Stored(Number(s, f))
  BY <1>1, SettingTextIs
<1>4. CASE f = "iPulseMultiFactor"
  <2>1. s[f] \in 0 .. 999
    BY <1>2, <1>4 DEF IntValues
  <2>2. s[f] * 10 \in SmallNumber
    <3> DEFINE v == s[f]
    <3>1. v \in 0 .. 999
      BY <2>1
    <3> HIDE DEF v
    <3>2. v * 10 \in Nat /\ v * 10 <= 9999
      BY <3>1
    <3> DEFINE w == v * 10
    <3>3. w \in Nat /\ w <= 9999
      BY <3>2
    <3> HIDE DEF w
    <3>4. w \in SmallNumber
      BY <3>3, SmallNumberIs
    <3> QED
      BY <3>4 DEF v, w
  <2> QED
    BY <1>1, <1>3, <1>4, <2>1, <2>2 DEF Number
<1>5. CASE f # "iPulseMultiFactor"
  BY <1>1, <1>2, <1>3, <1>5 DEF IntValues, Number
<1> QED
  BY <1>4, <1>5

\* What saveSettings writes of such settings, its fields can hold.
LEMMA SettingTextHeld ==
  ASSUME NEW s, SettingsHeld(s), NEW f \in GeneralSettings
  PROVE  /\ SettingText(s, f) \in Holdable(f)
         /\ f \in FlagSettings \/ f \in IntSettings => SettingText(s, f) # << >>
         /\ f \in IntSettings => Len(SettingText(s, f)) <= 4
<1>1. s[f] \in SettingValues(f)
  BY DEF SettingsHeld
<1>2. CASE f \in FlagSettings
  <2>1. f \in DOMAIN FlagLayout /\ f \notin IntSettings
    BY <1>2, Kinds
  <2>2. s[f] \in BOOLEAN
    BY <1>1, <1>2, SettingValuesAre
  <2>3. SettingText(s, f) = Flag(s[f])
    BY <1>2, SettingTextIs
  <2>4. Flag(s[f]) \in Holdable(f) /\ Flag(s[f]) # << >>
    BY <2>1, <2>2, FlagIsHeld
  <2> QED
    BY <2>1, <2>3, <2>4
<1>3. CASE f \in CharSettings
  <2>1. f \notin FlagSettings /\ f \notin IntSettings
    BY <1>3, Kinds
  <2>2. s[f] \in 0 .. 255
    BY <1>1, <1>3, SettingValuesAre
  <2>3. SettingText(s, f) = CharText(s[f])
    BY <1>3, SettingTextIs
  <2> QED
    BY <1>3, <2>1, <2>2, <2>3, CharIsHeld
<1>4. CASE f \in TextSettings
  <2>1. f \notin FlagSettings /\ f \notin IntSettings
    BY <1>4, Kinds
  <2>2. s[f] \in Holdable(f)
    BY <1>1, <1>4, SettingValuesAre
  <2>3. SettingText(s, f) = s[f]
    BY <1>4, SettingTextIs
  <2> QED
    BY <2>1, <2>2, <2>3
<1>5. CASE f \in IntSettings
  <2>1. f \in DOMAIN TextLayout /\ f \notin CharSettings
    BY <1>5, Kinds
  <2>2. SettingText(s, f) = Stored(Number(s, f)) /\ Number(s, f) \in SmallNumber
    BY <1>5, NumberIsSmall
  <2> DEFINE text == Stored(Number(s, f))
  <2>3. text \in Text /\ text # << >> /\ Len(text) <= 4
    BY <2>2, StoredNumber
  <2>4. Width(f) = 6
    BY <1>5, <2>1, LayoutFits
  <2> HIDE DEF text
  <2>5. text \in Holdable(f)
    <3>1. Len(text) <= Width(f) - 2
      BY <2>3, <2>4
    <3> QED
      BY <2>1, <2>3, <3>1, TextIsHeld
  <2> QED
    BY <2>2, <2>3, <2>5 DEF text
<1> QED
  BY <1>2, <1>3, <1>4, <1>5, Kinds

\* What loadSettings makes of an image whose integers have four digits.
LEMMA LoadIsHeld ==
  ASSUME NEW img \in Image, \A f \in IntSettings : FourDigits(img, f)
  PROVE  /\ SettingsHeld(Load(img))
         /\ \A f \in CharSettings \cup TextSettings :
              SettingText(Load(img), f) = ReadField(img, f)
<1> DEFINE s == Load(img)
<1>1. s = [f \in GeneralSettings |-> s[f]]
  BY DEF Load
<1>2. ASSUME NEW f \in GeneralSettings PROVE ReadField(img, f) \in Holdable(f)
  BY DEF Holdable
<1> HIDE DEF s
<1>3. ASSUME NEW f \in CharSettings
      PROVE  s[f] \in 0 .. 255 /\ SettingText(s, f) = ReadField(img, f)
  <2>1. f \in GeneralSettings
    BY DEF GeneralSettings
  <2>2. s[f] = FirstChar(ReadField(img, f))
    BY <2>1, LoadIs DEF s
  <2>3. SettingText(s, f) = CharText(s[f])
    BY <2>1, SettingTextIs
  <2>4. f \in Fields
    BY <2>1, Kinds
  <2>5. ReadField(img, f) = << >> \/ \E c \in 1 .. 255 : ReadField(img, f) = <<c>>
    BY <2>4, FieldTexts
  <2>6. CASE ReadField(img, f) = << >>
    <3>1. s[f] = 0
      BY <2>2, <2>6 DEF FirstChar
    <3> QED
      BY <2>3, <2>6, <3>1 DEF CharText
  <2>7. CASE \E c \in 1 .. 255 : ReadField(img, f) = <<c>>
    <3>1. PICK c \in 1 .. 255 : ReadField(img, f) = <<c>>
      BY <2>7
    <3>2. s[f] = c
      <4>1. ReadField(img, f) # << >> /\ ReadField(img, f)[1] = c
        BY <3>1
      <4> QED
        BY <2>2, <4>1 DEF FirstChar
    <3> QED
      BY <2>3, <3>1, <3>2 DEF CharText
  <2> QED
    BY <2>5, <2>6, <2>7
<1>4. ASSUME NEW f \in TextSettings
      PROVE  s[f] \in Holdable(f) /\ SettingText(s, f) = ReadField(img, f)
  <2>1. f \in GeneralSettings
    BY DEF GeneralSettings
  <2>2. s[f] = ReadField(img, f)
    BY <2>1, LoadIs DEF s
  <2>3. SettingText(s, f) = s[f]
    BY <2>1, SettingTextIs
  <2> QED
    BY <1>2, <2>1, <2>2, <2>3
<1>5. ASSUME NEW f \in IntSettings PROVE s[f] \in IntValues(f)
  <2>1. f \in GeneralSettings
    BY DEF IntSettings, GeneralSettings
  <2>2. f \in DOMAIN TextLayout /\ f \notin CharSettings
    BY <2>1, Kinds
  <2>3. f \notin DOMAIN FlagLayout /\ IsField(Start(f), Width(f)) /\ Width(f) >= 5
    BY <2>2, LayoutFits
  <2> DEFINE n == ToInt(ReadField(img, f))
  <2>4. n \in SmallNumber
    <3>1. ReadField(img, f) = ReadString(img, Start(f), Width(f))
      BY <2>2, <2>3 DEF ReadField, Start, Width
    <3>2. PICK i \in 0 .. 4 : img[Start(f) + i] \notin 48 .. 57
      BY DEF FourDigits, Start
    <3> QED
      BY <2>3, <3>1, <3>2, ReadIntBounded
  <2>5. s[f] = IF f = "iPulseMultiFactor" THEN n \div 10 ELSE n
    BY <2>1, LoadIs DEF s
  <2> HIDE DEF n
  <2>6. n \div 10 \in 0 .. 999
    BY <2>4, SMTT(40) DEF SmallNumber
  <2> QED
    BY <2>4, <2>5, <2>6 DEF IntValues
<1>6. ASSUME NEW f \in GeneralSettings PROVE s[f] \in SettingValues(f)
  <2>1. CASE f \in FlagSettings
    <3>1. s[f] = (ReadField(img, f) = <<1>>)
      BY <2>1, LoadIs DEF s
    <3>2. s[f] \in BOOLEAN
      BY <3>1, Zenon
    <3> QED
      BY <2>1, <3>2, SettingValuesAre, Zenon
  <2>2. CASE f \in CharSettings
    BY <1>3, <2>2, SettingValuesAre
  <2>3. CASE f \in TextSettings
    BY <1>4, <2>3, SettingValuesAre
  <2>4. CASE f \in IntSettings
    BY <1>5, <2>4, SettingValuesAre
  <2> QED
    BY <2>1, <2>2, <2>3, <2>4, Kinds
<1> QED
  BY <1>1, <1>3, <1>4, <1>6 DEF SettingsHeld, s

\* loadSettings gives back the settings that every field reads as.
LEMMA SavedLoads ==
  ASSUME NEW img \in Image, NEW s, SettingsHeld(s),
         \A f \in GeneralSettings : ReadField(img, f) = SettingText(s, f)
  PROVE  Load(img) = s
<1>1. s = [f \in GeneralSettings |-> s[f]]
  BY DEF SettingsHeld
<1>2. ASSUME NEW f \in GeneralSettings PROVE Load(img)[f] = s[f]
  <2> DEFINE text == ReadField(img, f)
  <2>1. s[f] \in SettingValues(f)
    BY DEF SettingsHeld
  <2>2. text = SettingText(s, f)
    OBVIOUS
  <2>3. CASE f \in FlagSettings
    <3>1. s[f] \in BOOLEAN
      BY <2>1, <2>3, SettingValuesAre
    <3>2. text = Flag(s[f])
      BY <2>2, <2>3, SettingTextIs
    <3>3. Load(img)[f] = (text = <<1>>)
      BY <2>3, LoadIs
    <3> HIDE DEF text
    <3>4. <<0>> # <<1>>
      OBVIOUS
    <3>5. (text = <<1>>) = s[f]
      BY <3>1, <3>2, <3>4 DEF Flag
    <3> QED
      BY <3>3, <3>5
  <2>4. CASE f \in CharSettings
    <3>1. s[f] \in 0 .. 255
      BY <2>1, <2>4, SettingValuesAre
    <3>2. text = CharText(s[f])
      BY <2>2, <2>4, SettingTextIs
    <3>3. Load(img)[f] = FirstChar(text)
      BY <2>4, LoadIs
    <3> HIDE DEF text
    <3>4. FirstChar(text) = s[f]
      BY <3>1, <3>2 DEF FirstChar, CharText
    <3> QED
      BY <3>3, <3>4
  <2>5. CASE f \in TextSettings
    BY <2>2, <2>5, SettingTextIs, LoadIs
  <2>6. CASE f \in IntSettings
    <3>1. /\ text = Stored(Number(s, f)) /\ Number(s, f) \in SmallNumber
          /\ f = "iPulseMultiFactor" => s[f] \in 0 .. 999
      BY <2>2, <2>6, NumberIsSmall
    <3>2. ToInt(text) = Number(s, f)
      BY <3>1, StoredNumber
    <3>3. Load(img)[f] = IF f = "iPulseMultiFactor" THEN ToInt(text) \div 10
                         ELSE ToInt(text)
      BY <2>6, LoadIs
    <3> HIDE DEF text
    <3>4. CASE f = "iPulseMultiFactor"
      <4>1. Load(img)[f] = (s[f] * 10) \div 10
        BY <3>2, <3>3, <3>4 DEF Number
      <4>2. \A n \in 0 .. 999 : (n * 10) \div 10 = n
        OBVIOUS
      <4> QED
        BY <3>1, <3>4, <4>1, <4>2
    <3>5. CASE f # "iPulseMultiFactor"
      BY <3>2, <3>3, <3>5 DEF Number
    <3> QED
      BY <3>4, <3>5
  <2> QED
    BY <2>3, <2>4, <2>5, <2>6, Kinds
<1>3. Load(img) = [f \in GeneralSettings |-> Load(img)[f]]
  BY DEF Load
<1> QED
  BY <1>1, <1>2, <1>3

-----------------------------------------------------------------------------
LEMMA NonEmptyText ==
  ASSUME NEW t \in Text, NEW n \in Nat, Len(t) \in 1 .. n
  PROVE  t # << >> /\ Len(t) <= n
<1>1. Len(<< >>) \notin 1 .. n
  OBVIOUS
<1>2. t # << >>
  BY <1>1
<1>3. \A k \in 1 .. n : k <= n
  OBVIOUS
<1> QED
  BY <1>2, <1>3, Zenon

\* updateGeneralSettings keeps the settings within their fields, and leaves no
\* setting empty that was not.
LEMMA UpdatedSetting ==
  ASSUME SettingsFit, NEW s, SettingsHeld(s), NEW args \in Requests,
         NEW f \in GeneralSettings
  PROVE  LET new == updateGeneralSettings(s, args)
         IN /\ new[f] \in SettingValues(f)
            /\ SettingText(new, f) = << >> => SettingText(s, f) = << >>
<1> DEFINE new == updateGeneralSettings(s, args)
<1>1. FormFits(args)
  BY DEF SettingsFit
<1>2. s[f] \in SettingValues(f)
  BY DEF SettingsHeld
<1>3. CASE f \in FlagSettings
  <2>1. new[f] = IF f \notin DOMAIN args THEN FALSE ELSE args[f] = 1
    <3>1. CASE f \notin DOMAIN args
      BY <1>3, <3>1 DEF updateGeneralSettings
    <3>2. CASE f \in DOMAIN args
      <4>1. f \notin CharSettings /\ f # "sPushURL" /\ f # "sPushArg"
            /\ f # "iPulseMultiFactor"
        BY <1>3, Kinds DEF TextSettings
      <4> QED
        BY <1>3, <3>2, <4>1 DEF updateGeneralSettings
    <3> QED
      BY <3>1, <3>2
  <2>2. new[f] \in BOOLEAN
    BY <2>1
  <2> HIDE DEF new
  <2>3. SettingText(new, f) # << >>
    <3>1. SettingText(new, f) = Flag(new[f])
      BY <1>3, SettingTextIs
    <3>2. f \in DOMAIN FlagLayout
      BY <1>3, Kinds
    <3> QED
      BY <2>2, <3>1, <3>2, FlagIsHeld
  <2> QED
    BY <1>3, <2>2, <2>3, SettingValuesAre DEF new
<1>4. CASE f \notin FlagSettings /\ f \notin DOMAIN args
  <2>1. new[f] = s[f]
    BY <1>4 DEF updateGeneralSettings
  <2> HIDE DEF new
  <2>2. SettingText(new, f) = SettingText(s, f)
    BY <2>1 DEF SettingText
  <2> QED
    BY <1>2, <2>1, <2>2 DEF new
<1>5. CASE f \in CharSettings /\ f \in DOMAIN args
  <2>1. f \notin FlagSettings /\ f # "sPushURL" /\ f # "sPushArg"
        /\ f # "iPulseMultiFactor"
    BY <1>5, Kinds DEF TextSettings
  <2>2. new[f] = Within(args[f], 0, 255)
    BY <1>5, <2>1 DEF updateGeneralSettings
  <2>3. args[f] \in Nat \ {0}
    BY <1>1, <1>5 DEF FormFits
  <2> HIDE DEF new
  <2>4. new[f] \in 0 .. 255 /\ new[f] # 0
    BY <2>2, <2>3 DEF Within
  <2>5. SettingText(new, f) = <<new[f]>>
    BY <1>5, <2>4, SettingTextIs DEF CharText
  <2> QED
    BY <1>5, <2>4, <2>5, SettingValuesAre DEF new
<1>6. CASE f \in TextSettings /\ f \in DOMAIN args
  <2>1. f \notin FlagSettings /\ f \notin CharSettings /\ f \in DOMAIN TextLayout
        /\ f # "iPulseMultiFactor"
    BY <1>6, Kinds
  <2>2. new[f] \in Text /\ new[f] # << >> /\ Len(new[f]) <= Width(f) - 2
    <3>1. CASE f = "sPushURL"
      <4> DEFINE url == escape_parameter(args.sPushURL)
      <4>1. new[f] = url
        BY <1>6, <2>1, <3>1 DEF updateGeneralSettings
      <4>2. url \in Text /\ Len(url) \in 1 .. 38
        BY <1>1, <1>6, <3>1 DEF FormFits
      <4> HIDE DEF new, url
      <4>3. Width(f) - 2 = 38
        BY <3>1 DEF Width, TextLayout
      <4>4. url # << >> /\ Len(url) <= 38
        BY <4>2, NonEmptyText
      <4> QED
        BY <4>1, <4>2, <4>3, <4>4
    <3>2. CASE f = "sPushArg"
      <4>1. new[f] = args.sPushArg
        BY <1>6, <2>1, <3>2 DEF updateGeneralSettings
      <4>2. f \in DOMAIN args \cap TextArguments
        BY <1>6 DEF TextArguments
      <4>3. args.sPushArg \in Text /\ Len(args.sPushArg) \in 1 .. 8
        BY <1>1, <3>2, <4>2, SettingsAssumption DEF FormFits
      <4> HIDE DEF new
      <4>4. Width(f) - 2 = 8
        BY <3>2 DEF Width, TextLayout
      <4>5. args.sPushArg # << >> /\ Len(args.sPushArg) <= 8
        BY <4>3, NonEmptyText
      <4> QED
        BY <4>1, <4>3, <4>4, <4>5
    <3> QED
      BY <1>6, <3>1, <3>2 DEF TextSettings
  <2> HIDE DEF new
  <2>3. new[f] \in Holdable(f)
    BY <2>1, <2>2, TextIsHeld
  <2>4. SettingText(new, f) = new[f]
    BY <1>6, SettingTextIs
  <2> QED
    BY <1>6, <2>2, <2>3, <2>4, SettingValuesAre DEF new
<1>7. CASE f \in IntSettings /\ f \in DOMAIN args
  <2>1. f \notin FlagSettings /\ f \notin CharSettings /\ f \notin TextSettings
    BY <1>7, Kinds
  <2>2. new[f] \in IntValues(f)
    <3>1. CASE f = "iPulseMultiFactor"
      <4>1. new[f] = IF args[f] <= 0 THEN 1 ELSE args[f]
        BY <1>7, <2>1, <3>1 DEF updateGeneralSettings
      <4>2. args[f] \in Int /\ args[f] <= 999
        BY <1>1, <1>7, <3>1 DEF FormFits
      <4> QED
        BY <3>1, <4>1, <4>2 DEF IntValues
    <3>2. CASE f = "iPushFreq"
      <4>1. new[f] = Within(args[f], 5, 1000)
        BY <1>7, <2>1, <3>2 DEF updateGeneralSettings, TextSettings
      <4>2. args[f] \in Int
        BY <1>1, <1>7, <3>2 DEF FormFits
      <4> DEFINE arg == args[f]  v == new[f]
      <4> HIDE DEF new, arg, v
      <4>5. v = Within(arg, 5, 1000) /\ arg \in Int
        BY <4>1, <4>2 DEF arg, v
      <4>6. v \in Nat /\ v <= 9999
        BY <4>5 DEF Within
      <4>3. new[f] \in SmallNumber
        BY <4>6, SmallNumberIs DEF v
      <4>4. f # "iPulseMultiFactor"
        BY <3>2
      <4> QED
        BY <4>3, <4>4 DEF IntValues
    <3> QED
      BY <1>7, <3>1, <3>2 DEF IntSettings
  <2> HIDE DEF new
  <2>3. SettingText(new, f) # << >>
    <3>1. Number(new, f) \in SmallNumber
      <4>1. CASE f = "iPulseMultiFactor"
        <5>1. new[f] \in 0 .. 999
          BY <2>2, <4>1 DEF IntValues
        <5>2. \A n \in 0 .. 999 : n * 10 \in SmallNumber
          BY DEF SmallNumber
        <5>3. new[f] * 10 \in SmallNumber
          BY <5>1, <5>2
        <5> QED
          BY <4>1, <5>3 DEF Number
      <4>2. CASE f # "iPulseMultiFactor"
        BY <2>2, <4>2 DEF IntValues, Number
      <4> QED
        BY <4>1, <4>2
    <3>2. SettingText(new, f) = Stored(Number(new, f))
      BY <1>7, SettingTextIs
    <3> QED
      BY <3>1, <3>2, StoredNumber
  <2> QED
    BY <1>7, <2>2, <2>3, SettingValuesAre DEF new
<1> QED
  BY <1>3, <1>4, <1>5, <1>6, <1>7, Kinds

LEMMA UpdateHeld ==
  ASSUME SettingsFit, NEW s, SettingsHeld(s), NEW args \in Requests
  PROVE  SettingsHeld(updateGeneralSettings(s, args))
<1> DEFINE new == updateGeneralSettings(s, args)
<1>1. \A f \in GeneralSettings : new[f] \in SettingValues(f)
  BY UpdatedSetting
<1>2. new = [f \in GeneralSettings |-> new[f]]
  BY DEF updateGeneralSettings
<1> HIDE DEF new
<1> QED
  BY <1>1, <1>2 DEF SettingsHeld, new

-----------------------------------------------------------------------------
\* Integer fields keep four digits, whatever is written and however much of the
\* sector is programmed.
LEMMA WriteKeepsFourDigits ==
  ASSUME SettingsFit, NEW img \in Image, NEW f \in Fields, NEW text \in Holdable(f),
         text # << >>, f \in IntSettings => Len(text) <= 4,
         NEW w \in Written(Put(f, text)), NEW g \in IntSettings, FourDigits(img, g)
  PROVE  FourDigits(WriteField(img, f, w), g)
<1>1. g \in DOMAIN TextLayout /\ g \notin CharSettings
  BY DEF IntSettings, TextLayout, CharSettings
<1>2. /\ g \notin DOMAIN FlagLayout /\ IsField(Start(g), Width(g))
      /\ Start(g) \in Nat /\ Width(g) \in Nat
  BY <1>1, LayoutFits
<1>3. Width(g) = 6
  BY <1>1, LayoutFits
<1>4. CASE f = g
  <2>1. w = text /\ w \in Text
    BY <1>1, <1>4, WrittenText
  <2>2. WriteField(img, f, w) = WriteString(img, Start(g), Width(g), w)
    BY <1>2, <1>4 DEF WriteField, Start, Width
  <2>3. Width(g) >= 6
    BY <1>3
  <2>4. WriteString(img, Start(g), Width(g), w)[Start(g) + 4] \notin 48 .. 57
    BY <1>2, <1>4, <2>1, <2>3, WrittenIntBounded
  <2> QED
    BY <2>2, <2>4 DEF FourDigits, Start
<1>5. CASE f # g
  <2>1. PICK n \in 0 .. 4 : img[Start(g) + n] \notin 48 .. 57
    BY DEF FourDigits, Start
  <2> DEFINE a == Start(g) + n
  <2>2. a \in Start(g) .. Start(g) + Width(g) - 1
    BY <1>2, <1>3
  <2>3. a \in Address
    BY <1>2, <2>2, FieldAddress
  <2> HIDE DEF a
  <2>4. a \notin Bytes(f)
    <3>1. CASE f \in DOMAIN FlagLayout
      BY <1>1, <2>2, <3>1, FlagsApart DEF Bytes
    <3>2. CASE f \in DOMAIN TextLayout
      <4>1. f \notin DOMAIN FlagLayout /\ Start(f) \in Nat /\ Width(f) \in Nat
        BY <3>2, LayoutFits
      <4>2. Start(f) + Width(f) <= Start(g) \/ Start(g) + Width(g) <= Start(f)
        BY <1>1, <1>5, <3>2, TextsApart
      <4>3. a \notin Start(f) .. Start(f) + Width(f) - 1
        BY <1>2, <2>2, <4>1, <4>2
      <4> QED
        BY <4>1, <4>3 DEF Bytes
    <3> QED
      BY <3>1, <3>2 DEF Fields
  <2>5. WriteField(img, f, w)[a] = img[a]
    BY <2>3, <2>4, WriteFieldFrame
  <2> QED
    BY <2>1, <2>5 DEF FourDigits, Start, a
<1> QED
  BY <1>4, <1>5

LEMMA ProgrammedIs ==
  ASSUME NEW img \in Image, NEW k
  PROVE  /\ Programmed(img, k) \in Image
         /\ \A g \in IntSettings : FourDigits(img, g) => FourDigits(Programmed(img, k), g)
<1>1. \A a \in Address : Programmed(img, k)[a] = img[a] \/ Programmed(img, k)[a] = 255
  BY DEF Programmed
<1>2. Programmed(img, k) \in Image
  <2>1. \A a \in Address : Programmed(img, k)[a] \in Byte
    BY <1>1 DEF Image, Byte
  <2>2. Programmed(img, k) = [a \in Address |-> Programmed(img, k)[a]]
    BY DEF Programmed
  <2> QED
    BY <2>1, <2>2 DEF Image
<1>3. ASSUME NEW g \in IntSettings, FourDigits(img, g)
      PROVE  FourDigits(Programmed(img, k), g)
  <2>1. g \in DOMAIN TextLayout
    BY DEF IntSettings, TextLayout
  <2>2. IsField(Start(g), Width(g)) /\ Start(g) \in Nat
    BY <2>1, LayoutFits
  <2>3. Width(g) = 6
    BY <2>1, LayoutFits
  <2>4. PICK n \in 0 .. 4 : img[Start(g) + n] \notin 48 .. 57
    BY <1>3 DEF FourDigits, Start
  <2>5. Start(g) + n \in Address
    <3>1. Start(g) + n \in Start(g) .. Start(g) + Width(g) - 1
      BY <2>2, <2>3
    <3> QED
      BY <2>2, <3>1, FieldAddress
  <2>6. Programmed(img, k)[Start(g) + n] \notin 48 .. 57
    BY <1>1, <2>4, <2>5
  <2> QED
    BY <2>6 DEF FourDigits, Start
<1> QED
  BY <1>2, <1>3

-----------------------------------------------------------------------------
\* The writes that a request asks for: texts that their fields can hold, and
\* numbers of at most four digits.
GoodPuts ==
  {put \in [field : Fields, text : Seq(Byte)] :
     /\ put.text \in Holdable(put.field)
     /\ put.field \in IntSettings => Len(put.text) <= 4}

LEMMA WiFiPutsAreGood ==
  ASSUME NEW put \in WiFiPuts
  PROVE  put \in GoodPuts /\ put.text # << >> /\ put.field \notin GeneralSettings
<1>1. /\ put \in [field : WiFiSettings, text : Seq(Byte)]
      /\ put.field \in WiFiSettings
      /\ put.text \in Holdable(put.field) /\ put.text # << >>
  BY DEF WiFiPuts
<1>2. \A f \in WiFiSettings : f \in Fields /\ f \notin GeneralSettings
                              /\ f \notin IntSettings
  BY DEF WiFiSettings, Fields, TextLayout, FlagLayout, GeneralSettings,
         CharSettings, TextSettings, FlagSettings, IntSettings
<1> QED
  BY <1>1, <1>2 DEF GoodPuts

\* saveSettings writes each setting, as the text it is stored as.
LEMMA SavesSettings ==
  ASSUME NEW s, SettingsHeld(s)
  PROVE  /\ saveSettings(s) \in Seq(GoodPuts)
         /\ \A put \in Range(saveSettings(s)) :
              put.field \in GeneralSettings /\ put.text = SettingText(s, put.field)
         /\ \A f \in GeneralSettings :
              \E put \in Range(saveSettings(s)) : put.field = f
<1>1. /\ SaveOrder \in Seq(GeneralSettings) /\ Len(SaveOrder) = 10
      /\ \A f \in GeneralSettings : \E i \in 1 .. 10 : SaveOrder[i] = f
  BY DEF SaveOrder, GeneralSettings, CharSettings, TextSettings, FlagSettings
<1> DEFINE put(f) == Put(f, SettingText(s, f))
<1>2. ASSUME NEW f \in GeneralSettings
      PROVE  put(f) \in GoodPuts /\ put(f).field = f /\ put(f).text = SettingText(s, f)
  <2>1. SettingText(s, f) \in Holdable(f)
        /\ (f \in IntSettings => Len(SettingText(s, f)) <= 4)
    BY SettingTextHeld
  <2>2. f \in Fields
    BY Kinds
  <2>3. SettingText(s, f) \in Seq(Byte)
    BY <2>1, <2>2, FieldTexts DEF Holdable
  <2> QED
    BY <2>1, <2>2, <2>3 DEF GoodPuts, Put
<1>3. saveSettings(s) = [i \in 1 .. 10 |-> put(SaveOrder[i])]
  BY <1>1 DEF saveSettings
<1>4. \A i \in 1 .. 10 : SaveOrder[i] \in GeneralSettings
  BY <1>1, ElementOfSeq
<1> HIDE DEF put
<1>5. saveSettings(s) \in Seq(GoodPuts)
  BY <1>2, <1>3, <1>4
<1>6. Range(saveSettings(s)) = {put(SaveOrder[i]) : i \in 1 .. 10}
  BY <1>3 DEF Range
<1> QED
  BY <1>1, <1>2, <1>4, <1>5, <1>6

\* The first of the writes to make, and the rest.
LEMMA HeadAndRest ==
  ASSUME NEW S, NEW puts \in Seq(S), puts # << >>
  PROVE  /\ Head(puts) \in S /\ Tail(puts) \in Seq(S)
         /\ Range(puts) = {Head(puts)} \cup Range(Tail(puts))
<1>1. Head(puts) \in S /\ Tail(puts) \in Seq(S)
  BY HeadTailProperties
<1>2. puts = <<Head(puts)>> \o Tail(puts) /\ <<Head(puts)>> \in Seq(S)
  BY <1>1, SMTT(40)
<1>3. Range(<<Head(puts)>>) = {Head(puts)}
  BY DEF Range
<1>4. Range(<<Head(puts)>> \o Tail(puts)) = Range(<<Head(puts)>>) \cup Range(Tail(puts))
  BY <1>1, <1>2, RangeConcatenation
<1>5. Range(puts) = Range(<<Head(puts)>> \o Tail(puts))
  BY <1>2, Zenon
<1> QED
  BY <1>1, <1>3, <1>4, <1>5

-----------------------------------------------------------------------------
\* A text is empty only if its field reads as nothing already.
NothingIsErased ==
  \A put \in Range(todo) : put.text = << >> =>
    /\ serving = "general" /\ put.field \in GeneralSettings
    /\ ReadField(data, put.field) = << >>

\* While a POST to general.html is served, every setting is still to be written
\* or has been.
SaveIsUnderWay ==
  serving = "general" =>
    /\ \A put \in Range(todo) : put.field \in GeneralSettings =>
         put.text = SettingText(settings, put.field)
    /\ \A f \in GeneralSettings :
         \/ \E put \in Range(todo) : put.field = f
         \/ ReadField(data, f) = SettingText(settings, f)

\* What a write needs of the images, the settings and the writes to come.
ImagesFit ==
  /\ data \in Image /\ flash \in Image
  /\ \A f \in IntSettings : FourDigits(data, f) /\ FourDigits(flash, f)

SaveInv ==
  /\ dirty \in BOOLEAN /\ faults \in 0 .. MaxFaults
  /\ ImagesFit
  /\ SettingsHeld(settings)
  /\ todo \in Seq(GoodPuts)
  /\ NothingIsErased
  /\ SaveIsUnderWay

LEMMA NoPuts == << >> \in Seq(GoodPuts) /\ Range(<< >>) = {}
BY DEF Range

\* The images after a write and its commit, and that only its own field reads
\* differently.
LEMMA WriteIsPut ==
  ASSUME SettingsFit, SaveInv, writeField
  PROVE  /\ ImagesFit' /\ dirty' \in BOOLEAN /\ faults' \in 0 .. MaxFaults
         /\ Head(todo) \in GoodPuts /\ todo' \in Seq(GoodPuts)
         /\ Range(todo) = {Head(todo)} \cup Range(todo')
         /\ ReadField(data', Head(todo).field) = Head(todo).text
         /\ \A g \in Fields : g # Head(todo).field =>
              ReadField(data', g) = ReadField(data, g)
<1> DEFINE put == Head(todo)
           f == put.field
<1>1. todo # << >> /\ todo' = Tail(todo)
  BY DEF writeField
<1>2. /\ put \in GoodPuts /\ todo' \in Seq(GoodPuts)
      /\ Range(todo) = {put} \cup Range(todo')
  BY <1>1, HeadAndRest DEF SaveInv
<1>3. /\ f \in Fields /\ put.text \in Holdable(f)
      /\ f \in IntSettings => Len(put.text) <= 4
  BY <1>2 DEF GoodPuts
<1>4. /\ data \in Image /\ flash \in Image /\ dirty \in BOOLEAN
      /\ faults \in 0 .. MaxFaults /\ MaxFaults \in Nat
      /\ \A g \in IntSettings : FourDigits(data, g) /\ FourDigits(flash, g)
  BY SettingsAssumption DEF SaveInv, ImagesFit
<1>5. CASE put.text = << >>
  <2>1. data' = data /\ dirty' = dirty /\ flash' = flash /\ faults' = faults
    BY <1>5 DEF writeField
  <2>2. ImagesFit' /\ dirty' \in BOOLEAN /\ faults' \in 0 .. MaxFaults
    BY <1>4, <2>1 DEF ImagesFit, FourDigits
  <2>3. ReadField(data, f) = << >>
    BY <1>2, <1>5 DEF SaveInv, NothingIsErased
  <2> QED
    BY <1>2, <1>5, <2>1, <2>2, <2>3
<1>6. CASE put.text # << >>
  <2>1. PICK text \in Written(put) : data' = WriteField(data, f, text)
    BY <1>6 DEF writeField
  <2>2. CommitDone \/ CommitFails
    BY <1>6 DEF writeField
  <2>3. text \in Written(Put(f, put.text))
    BY <2>1 DEF Written, Put
  <2> HIDE DEF f
  <2>4. data' \in Image /\ ReadField(data', f) = put.text
    BY <1>3, <1>4, <1>6, <2>1, <2>3, WriteFieldReadsBack
  <2>5. \A g \in Fields : g # f => ReadField(data', g) = ReadField(data, g)
    BY <1>3, <1>4, <1>6, <2>1, <2>3, WriteFieldView
  <2>6. \A g \in IntSettings : FourDigits(data', g)
    BY <1>3, <1>4, <1>6, <2>1, <2>3, WriteKeepsFourDigits
  <2>7. dirty' \in BOOLEAN /\ faults' \in 0 .. MaxFaults
    <3>1. dirty' = FALSE \/ dirty' = TRUE
      BY <2>2 DEF CommitDone, CommitFails
    <3>2. faults' = faults \/ (faults < MaxFaults /\ faults' = faults + 1)
      BY <2>2 DEF CommitDone, CommitFails
    <3>3. faults' \in 0 .. MaxFaults
      BY <1>4, <3>2
    <3> QED
      BY <3>1, <3>3
  <2>8. flash' \in Image /\ \A g \in IntSettings : FourDigits(flash', g)
    <3>1. flash' = data' \/ flash' = flash \/ \E k \in CutPoints : flash' = Programmed(data', k)
      BY <2>2 DEF CommitDone, CommitFails
    <3>2. ASSUME NEW k \in CutPoints, flash' = Programmed(data', k)
          PROVE  flash' \in Image /\ \A g \in IntSettings : FourDigits(flash', g)
      BY <2>4, <2>6, <3>2, ProgrammedIs
    <3> QED
      BY <1>4, <2>4, <2>6, <3>1, <3>2
  <2>9. ImagesFit'
    BY <2>4, <2>6, <2>8 DEF ImagesFit
  <2> QED
    BY <1>2, <2>4, <2>5, <2>7, <2>9 DEF f
<1> QED
  BY <1>5, <1>6

LEMMA SaveWriteStep == ASSUME SettingsFit, SaveInv, writeField PROVE SaveInv'
<1> DEFINE put == Head(todo)
<1>1. /\ ImagesFit' /\ dirty' \in BOOLEAN /\ faults' \in 0 .. MaxFaults
      /\ put \in GoodPuts /\ todo' \in Seq(GoodPuts)
      /\ Range(todo) = {put} \cup Range(todo')
      /\ ReadField(data', put.field) = put.text
      /\ \A g \in Fields : g # put.field => ReadField(data', g) = ReadField(data, g)
  BY WriteIsPut
<1>2. settings' = settings /\ serving' = serving
  BY DEF writeField
<1>3. GeneralSettings \subseteq Fields
  BY Kinds
<1> HIDE DEF put
<1>4. NothingIsErased'
  <2> SUFFICES ASSUME NEW later \in Range(todo'), later.text = << >>
               PROVE  /\ serving = "general" /\ later.field \in GeneralSettings
                      /\ ReadField(data', later.field) = << >>
    BY <1>2 DEF NothingIsErased
  <2>1. later \in Range(todo)
    BY <1>1
  <2>2. /\ serving = "general" /\ later.field \in GeneralSettings
        /\ ReadField(data, later.field) = << >>
    BY <2>1 DEF SaveInv, NothingIsErased
  <2>3. CASE later.field # put.field
    BY <1>1, <1>3, <2>2, <2>3
  <2>4. CASE later.field = put.field
    <3>1. put \in Range(todo)
      BY <1>1
    <3>2. put.text = later.text
      BY <2>1, <2>2, <2>4, <3>1 DEF SaveInv, SaveIsUnderWay
    <3> QED
      BY <1>1, <2>2, <2>4, <3>2
  <2> QED
    BY <2>3, <2>4
<1>5. SaveIsUnderWay'
  <2> SUFFICES ASSUME serving = "general"
               PROVE  /\ \A p \in Range(todo') : p.field \in GeneralSettings =>
                           p.text = SettingText(settings, p.field)
                      /\ \A f \in GeneralSettings :
                           \/ \E p \in Range(todo') : p.field = f
                           \/ ReadField(data', f) = SettingText(settings, f)
    BY <1>2 DEF SaveIsUnderWay, SettingText
  <2>1. \A p \in Range(todo) : p.field \in GeneralSettings =>
          p.text = SettingText(settings, p.field)
    BY DEF SaveInv, SaveIsUnderWay
  <2>2. ASSUME NEW f \in GeneralSettings, ~ \E p \in Range(todo') : p.field = f
        PROVE  ReadField(data', f) = SettingText(settings, f)
    <3>1. CASE f = put.field
      BY <1>1, <2>1, <3>1
    <3>2. CASE f # put.field
      <4>1. ~ \E p \in Range(todo) : p.field = f
        BY <1>1, <2>2, <3>2
      <4>2. ReadField(data, f) = SettingText(settings, f)
        BY <4>1 DEF SaveInv, SaveIsUnderWay
      <4> QED
        BY <1>1, <1>3, <3>2, <4>2
    <3> QED
      BY <3>1, <3>2
  <2> QED
    BY <1>1, <2>1, <2>2
<1> QED
  BY <1>1, <1>2, <1>4, <1>5 DEF SaveInv

\* The images after a power loss, which nothing is left to write to.
LEMMA PowerUpStep ==
  ASSUME SaveInv, PowerUp, flash' \in Image, faults' \in 0 .. MaxFaults,
         \A f \in IntSettings : FourDigits(flash', f)
  PROVE  SaveInv'
<1>1. /\ data' = flash' /\ dirty' = FALSE /\ settings' = Load(flash')
      /\ serving' = "none" /\ todo' = << >>
  BY DEF PowerUp
<1>2. SettingsHeld(settings')
  BY <1>1, LoadIsHeld
<1>3. ImagesFit'
  BY <1>1 DEF ImagesFit
<1>4. todo' \in Seq(GoodPuts) /\ NothingIsErased' /\ SaveIsUnderWay'
  BY <1>1, NoPuts DEF NothingIsErased, SaveIsUnderWay
<1> QED
  BY <1>1, <1>2, <1>3, <1>4 DEF SaveInv

\* The writes that a POST asks for.
LEMMA RequestStep ==
  ASSUME SettingsFit, IInv, SaveInv, NEW args \in Requests,
         postGeneral(args) \/ postWiFi(args)
  PROVE  SaveInv'
<1> DEFINE wifi == updateWiFiSettings(args)
           new == updateGeneralSettings(settings, args)
<1>1. wifi \in Seq(WiFiPuts)
  BY WiFiArguments
<1>2. \A put \in WiFiPuts :
        put \in GoodPuts /\ put.text # << >> /\ put.field \notin GeneralSettings
  BY WiFiPutsAreGood
<1>3. wifi \in Seq(GoodPuts)
  BY <1>1, <1>2, SeqMonotonic
<1>4. Range(wifi) \subseteq WiFiPuts
  BY <1>1, RangeOfSeq
<1>5. data' = data /\ flash' = flash /\ dirty' = dirty /\ faults' = faults
      /\ serving = "none"
  BY DEF postGeneral, postWiFi
<1>6. dirty' \in BOOLEAN /\ faults' \in 0 .. MaxFaults /\ ImagesFit'
  BY <1>5 DEF SaveInv, ImagesFit, FourDigits
<1>7. CASE postWiFi(args)
  <2>1. todo' = wifi /\ serving' = "wifi" /\ settings' = settings
    BY <1>7 DEF postWiFi
  <2>2. NothingIsErased' /\ SaveIsUnderWay'
    BY <1>2, <1>4, <2>1 DEF NothingIsErased, SaveIsUnderWay
  <2>3. SettingsHeld(settings')
    BY <2>1 DEF SaveInv
  <2> QED
    BY <1>3, <1>6, <2>1, <2>2, <2>3 DEF SaveInv
<1>8. CASE postGeneral(args)
  <2>1. /\ settings' = new /\ serving' = "general"
        /\ todo' = wifi \o saveSettings(settings')
    BY <1>8 DEF postGeneral
  <2>2. SettingsHeld(settings')
    BY <2>1, UpdateHeld DEF SaveInv
  <2>3. /\ saveSettings(settings') \in Seq(GoodPuts)
        /\ \A put \in Range(saveSettings(settings')) :
             put.field \in GeneralSettings /\ put.text = SettingText(settings', put.field)
        /\ \A f \in GeneralSettings :
             \E put \in Range(saveSettings(settings')) : put.field = f
    BY <2>2, SavesSettings
  <2>4. todo' \in Seq(GoodPuts)
        /\ Range(todo') = Range(wifi) \cup Range(saveSettings(settings'))
    BY <1>3, <2>1, <2>3, ConcatProperties, RangeConcatenation
  <2>5. ASSUME NEW f \in GeneralSettings, SettingText(settings', f) = << >>
        PROVE  ReadField(data, f) = << >>
    <3>1. SettingText(settings, f) = << >> /\ settings = Load(data)
      BY <1>5, <2>1, <2>5, UpdatedSetting DEF SaveInv, IInv, SettingsAreStored
    <3>2. f \in CharSettings \/ f \in TextSettings
      BY <2>2, <2>5, SettingTextHeld, Kinds
    <3>3. SettingText(Load(data), f) = ReadField(data, f)
      BY <3>2, LoadIsHeld DEF SaveInv, ImagesFit
    <3> QED
      BY <3>1, <3>3
  <2> HIDE DEF wifi, new
  <2>6. NothingIsErased'
    <3> SUFFICES ASSUME NEW put \in Range(todo'), put.text = << >>
                 PROVE  put.field \in GeneralSettings /\ ReadField(data', put.field) = << >>
      BY <2>1 DEF NothingIsErased
    <3>1. put \in Range(saveSettings(settings'))
      BY <1>2, <1>4, <2>4
    <3> QED
      BY <1>5, <2>3, <2>5, <3>1
  <2>7. SaveIsUnderWay'
    <3>1. ASSUME NEW put \in Range(todo'), put.field \in GeneralSettings
          PROVE  put.text = SettingText(settings', put.field)
      BY <1>2, <1>4, <2>3, <2>4, <3>1
    <3>2. ASSUME NEW f \in GeneralSettings PROVE \E put \in Range(todo') : put.field = f
      BY <2>3, <2>4
    <3> QED
      BY <3>1, <3>2 DEF SaveIsUnderWay
  <2> QED
    BY <1>6, <2>2, <2>4, <2>6, <2>7 DEF SaveInv
<1> QED
  BY <1>7, <1>8

LEMMA SaveInit == ASSUME SettingsFit, Init PROVE SaveInv
<1>1. /\ flash \in FactoryFlash /\ data = flash /\ dirty = FALSE
      /\ settings = Load(flash) /\ serving = "none" /\ todo = << >> /\ faults = 0
  BY DEF Init
<1>2. flash \in Image /\ \A f \in IntSettings : FourDigits(flash, f)
  BY <1>1 DEF SettingsFit
<1>3. SettingsHeld(settings)
  BY <1>1, <1>2, LoadIsHeld
<1>4. ImagesFit
  BY <1>1, <1>2 DEF ImagesFit
<1>5. todo \in Seq(GoodPuts) /\ NothingIsErased /\ SaveIsUnderWay
  BY <1>1, NoPuts DEF NothingIsErased, SaveIsUnderWay
<1>6. faults \in 0 .. MaxFaults
  BY <1>1, SettingsAssumption
<1> QED
  BY <1>1, <1>3, <1>4, <1>5, <1>6 DEF SaveInv

LEMMA SaveStep == ASSUME SettingsFit, IInv, SaveInv, [Next]_vars PROVE SaveInv'
<1>1. ASSUME NEW args \in Requests, postGeneral(args) \/ postWiFi(args) PROVE SaveInv'
  BY <1>1, RequestStep
<1>2. CASE writeField
  BY <1>2, SaveWriteStep
<1>3. CASE respond \/ getGeneral
  <2>1. /\ data' = data /\ flash' = flash /\ dirty' = dirty /\ faults' = faults
        /\ todo' = todo /\ serving' = "none" /\ todo = << >>
        /\ settings' = settings \/ settings' = Load(data)
    BY <1>3 DEF respond, getGeneral, IInv
  <2>2. ImagesFit'
    BY <2>1 DEF SaveInv, ImagesFit, FourDigits
  <2>3. SettingsHeld(settings')
    BY <2>1, LoadIsHeld DEF SaveInv, ImagesFit
  <2>4. todo' \in Seq(GoodPuts) /\ NothingIsErased' /\ SaveIsUnderWay'
    BY <2>1, NoPuts DEF NothingIsErased, SaveIsUnderWay
  <2> QED
    BY <2>1, <2>2, <2>3, <2>4 DEF SaveInv
<1>4. CASE restart
  <2>1. PowerUp /\ flash' = flash /\ faults' = faults
    BY <1>4 DEF restart
  <2>2. flash' \in Image /\ faults' \in 0 .. MaxFaults
        /\ \A f \in IntSettings : FourDigits(flash', f)
    BY <2>1 DEF SaveInv, ImagesFit, FourDigits
  <2> QED
    BY <2>1, <2>2, PowerUpStep
<1>5. CASE cutOff
  <2> DEFINE put == Head(todo)
  <2>1. /\ PowerUp /\ todo # << >> /\ put.text # << >>
        /\ faults < MaxFaults /\ faults' = faults + 1
    BY <1>5 DEF cutOff
  <2>2. PICK text \in Written(put), k \in CutPoints :
          flash' = Programmed(WriteField(data, put.field, text), k)
    BY <1>5 DEF cutOff
  <2>3. put \in GoodPuts
    BY <2>1, HeadAndRest DEF SaveInv
  <2>4. /\ put.field \in Fields /\ put.text \in Holdable(put.field)
        /\ put.field \in IntSettings => Len(put.text) <= 4
    BY <2>3 DEF GoodPuts
  <2>5. text \in Written(Put(put.field, put.text))
    BY <2>2 DEF Written, Put
  <2>6. data \in Image /\ \A f \in IntSettings : FourDigits(data, f)
    BY DEF SaveInv, ImagesFit
  <2> DEFINE W == WriteField(data, put.field, text)
  <2>7. W \in Image
    BY <2>1, <2>4, <2>5, <2>6, WriteFieldReadsBack
  <2>8. \A f \in IntSettings : FourDigits(W, f)
    BY <2>1, <2>4, <2>5, <2>6, WriteKeepsFourDigits
  <2> HIDE DEF W
  <2>9. flash' \in Image /\ \A f \in IntSettings : FourDigits(flash', f)
    <3>1. flash' = Programmed(W, k)
      BY <2>2 DEF W
    <3> QED
      BY <2>7, <2>8, <3>1, ProgrammedIs
  <2>10. faults' \in 0 .. MaxFaults
    BY <2>1, SettingsAssumption DEF SaveInv
  <2> QED
    BY <2>1, <2>9, <2>10, PowerUpStep
<1>6. CASE UNCHANGED vars
  BY <1>6 DEF vars, SaveInv, ImagesFit, FourDigits, NothingIsErased, SaveIsUnderWay,
              SettingText, SettingsHeld
<1> QED
  BY <1>1, <1>2, <1>3, <1>4, <1>5, <1>6 DEF Next

\* While the requests fit their fields: what SaveInv says of a save under way.
THEOREM SavesFit == ASSUME SettingsFit PROVE Spec => []SaveInv
<1>1. Init => SaveInv
  BY SaveInit
<1>2. IInv /\ SaveInv /\ [Next]_vars => SaveInv'
  BY SaveStep
<1> QED
  BY <1>1, <1>2, StoredSettings, PTL DEF Spec

\* The variables have their types.
THEOREM TypeCorrect == ASSUME SettingsFit PROVE Spec => []TypeOK
<1>1. IInv /\ SaveInv => TypeOK
  <2> SUFFICES ASSUME IInv, SaveInv PROVE TypeOK
    OBVIOUS
  <2>1. DOMAIN settings = GeneralSettings
    BY DEF SaveInv, SettingsHeld
  <2>2. todo \in Seq([field : Fields, text : Seq(Byte)])
    <3>1. GoodPuts \subseteq [field : Fields, text : Seq(Byte)]
      BY DEF GoodPuts
    <3> QED
      BY <3>1, SeqMonotonic DEF SaveInv
  <2>3. serving \in {"none", "general", "wifi"}
    BY DEF IInv
  <2> QED
    BY <2>1, <2>2, <2>3 DEF SaveInv, ImagesFit, TypeOK
<1> QED
  BY <1>1, StoredSettings, SavesFit, PTL

\* The loadSettings at the end of a POST gives back every setting just as
\* updateGeneralSettings left it: each has been written, and reads back.
THEOREM SaveLoadsBack == ASSUME SettingsFit PROVE Spec => SavedIsLoaded
<1>1. IInv /\ SaveInv /\ [Next]_vars => [respond => UNCHANGED settings]_vars
  <2> SUFFICES ASSUME IInv, SaveInv, respond PROVE settings' = settings
    OBVIOUS
  <2>1. todo = << >> /\ settings' = IF serving = "general" THEN Load(data) ELSE settings
    BY DEF respond
  <2>2. CASE serving = "general"
    <3>1. \A f \in GeneralSettings : ReadField(data, f) = SettingText(settings, f)
      BY <2>1, <2>2, NoPuts DEF SaveInv, SaveIsUnderWay
    <3>2. Load(data) = settings
      BY <3>1, SavedLoads DEF SaveInv, ImagesFit
    <3> QED
      BY <2>1, <2>2, <3>2
  <2>3. CASE serving # "general"
    BY <2>1, <2>3
  <2> QED
    BY <2>2, <2>3
<1> QED
  BY <1>1, StoredSettings, SavesFit, PTL DEF Spec, SavedIsLoaded

-----------------------------------------------------------------------------
\* The fields are a FieldStore.
LEMMA ViewIs ==
  ASSUME NEW img \in Image
  PROVE  /\ View(img) \in Store!Views
         /\ \A f \in Fields : View(img)[f] = ReadField(img, f)
<1>1. \A f \in Fields : ReadField(img, f) \in Seq(Byte)
  BY FieldTexts
<1> QED
  BY <1>1 DEF View, Store!Views

LEMMA PutsAreTyped == ASSUME NEW puts \in Seq(GoodPuts) PROVE puts \in Seq(Store!Puts)
<1>1. GoodPuts \subseteq Store!Puts
  BY DEF GoodPuts, Store!Puts
<1> QED
  BY <1>1, SeqMonotonic

LEMMA WriteRefines == ASSUME SettingsFit, IInv, SaveInv, writeField PROVE Store!Put
<1> DEFINE put == Head(todo)
<1>1. todo # << >> /\ todo' = Tail(todo)
  BY DEF writeField
<1>2. /\ ImagesFit' /\ dirty' \in BOOLEAN /\ put \in GoodPuts
      /\ ReadField(data', put.field) = put.text
      /\ \A g \in Fields : g # put.field => ReadField(data', g) = ReadField(data, g)
  BY WriteIsPut
<1>3. data \in Image /\ data' \in Image /\ flash' \in Image
  BY <1>2 DEF SaveInv, ImagesFit
<1>4. View(data') = [View(data) EXCEPT ![put.field] = put.text]
  <2> HIDE DEF put
  <2>1. \A f \in Fields : View(data')[f] = IF f = put.field THEN put.text ELSE View(data)[f]
    BY <1>2, <1>3, ViewIs
  <2>2. View(data) \in [Fields -> Seq(Byte)] /\ View(data') \in [Fields -> Seq(Byte)]
    BY <1>3, ViewIs DEF Store!Views
  <2> QED
    BY <2>1, <2>2
<1>5. \/ View(flash') = View(data') /\ (~dirty') = TRUE
      \/ View(flash') \in Store!Views /\ (~dirty') = FALSE
  <2>1. CleanIsDurable'
    BY WriteStep DEF IInv
  <2>2. CASE dirty'
    BY <1>3, <2>2, ViewIs
  <2>3. CASE ~dirty'
    <3>1. flash' = data'
      BY <2>1, <2>3 DEF CleanIsDurable
    <3> QED
      BY <2>3, <3>1
  <2> QED
    BY <2>2, <2>3
<1> QED
  BY <1>1, <1>4, <1>5 DEF Store!Put

\* Each step of the store is a step of FieldStore, or changes nothing it sees.
LEMMA StepRefines ==
  ASSUME SettingsFit, IInv, SaveInv, SaveInv', [Next]_vars
  PROVE  [Store!StoreNext]_(Store!storeVars)
<1>1. data \in Image /\ flash \in Image /\ data' \in Image /\ flash' \in Image
  BY DEF SaveInv, ImagesFit
<1>2. ASSUME NEW args \in Requests, postGeneral(args) \/ postWiFi(args)
      PROVE  Store!Request
  <2>1. /\ data' = data /\ flash' = flash /\ dirty' = dirty /\ todo = << >>
    BY <1>2 DEF postGeneral, postWiFi, IInv
  <2>2. todo' \in Seq(Store!Puts)
    BY PutsAreTyped DEF SaveInv
  <2> QED
    BY <2>1, <2>2 DEF Store!Request
<1>3. CASE writeField
  BY <1>3, WriteRefines DEF Store!StoreNext
<1>4. CASE respond \/ getGeneral
  BY <1>4 DEF respond, getGeneral, Store!storeVars
<1>5. CASE restart
  BY <1>5 DEF restart, PowerUp, Store!Restart, Store!StoreNext
<1>6. CASE cutOff
  <2>1. todo # << >> /\ PowerUp
    BY <1>6 DEF cutOff
  <2>2. View(flash') \in Store!Views
    BY <1>1, ViewIs
  <2>3. Store!CutOff
    BY <2>1, <2>2 DEF PowerUp, Store!CutOff
  <2> QED
    BY <2>3 DEF Store!StoreNext
<1>7. CASE UNCHANGED vars
  BY <1>7 DEF vars, Store!storeVars
<1> QED
  BY <1>2, <1>3, <1>4, <1>5, <1>6, <1>7 DEF Next, Store!StoreNext

\* The bytes, the checksums, the flags that share a byte, the order of the
\* writes and the commits behind them come to a store of fields: each write
\* changes its own field, to the text written, and no other.
THEOREM FieldsAreStored == ASSUME SettingsFit PROVE Spec => ImplementsFieldStore
<1>1. Init /\ SaveInv => Store!StoreInit
  <2> SUFFICES ASSUME Init, SaveInv PROVE Store!StoreInit
    OBVIOUS
  <2>1. data \in Image /\ data = flash /\ dirty = FALSE /\ todo = << >>
    BY DEF Init, SaveInv, ImagesFit
  <2>2. View(data) \in Store!Views
    BY <2>1, ViewIs
  <2> QED
    BY <2>1, <2>2 DEF Store!StoreInit
<1>2. IInv /\ SaveInv /\ SaveInv' /\ [Next]_vars => [Store!StoreNext]_(Store!storeVars)
  BY StepRefines
<1> QED
  BY <1>1, <1>2, StoredSettings, SavesFit, PTL DEF Spec, ImplementsFieldStore, Store!StoreSpec
=============================================================================
