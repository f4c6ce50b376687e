---------------------------- MODULE SbusLinkProofs ----------------------------
(***************************************************************************)
(* What holds of the link from the radio to the wheels for every setting   *)
(* of the timeouts and periods and everything the transmitter may send,    *)
(* and of the decoding for every frame of 176 bits.                        *)
(***************************************************************************)
EXTENDS SbusLink, SequenceTheorems, TLAPS

-----------------------------------------------------------------------------
(* The frame: bytes into channels. *)

\* The number that the n bits of w from bit i on stand for.
Part(w, i, n) ==
  (IF n > 0 THEN w[i] ELSE 0) + (IF n > 1 THEN 2 * w[i + 1] ELSE 0)
  + (IF n > 2 THEN 4 * w[i + 2] ELSE 0) + (IF n > 3 THEN 8 * w[i + 3] ELSE 0)
  + (IF n > 4 THEN 16 * w[i + 4] ELSE 0) + (IF n > 5 THEN 32 * w[i + 5] ELSE 0)
  + (IF n > 6 THEN 64 * w[i + 6] ELSE 0) + (IF n > 7 THEN 128 * w[i + 7] ELSE 0)
  + (IF n > 8 THEN 256 * w[i + 8] ELSE 0) + (IF n > 9 THEN 512 * w[i + 9] ELSE 0)

\* What decode_sbus_frame makes of the bytes a channel lies in, if it starts at bit b.
Shifted(first, second, third, b) ==
  ((first \div 2^b) + second * 2^(8 - b) + (IF b > 5 THEN third * 2^(16 - b) ELSE 0)) % 2048

\* The two or three bytes a channel lies in hold it from bit b of the first on: each is cut
\* where the channel begins and where it ends.
LEMMA Decoded ==
  ASSUME NEW w \in [0..23 -> {0, 1}], NEW b \in 0..7
  PROVE  Shifted(ByteAt(w, 0), ByteAt(w, 8), ByteAt(w, 16), b) = ElevenAt(w, b)
<1>a. /\ w[0] \in {0, 1} /\ w[1] \in {0, 1} /\ w[2] \in {0, 1} /\ w[3] \in {0, 1}
      /\ w[4] \in {0, 1} /\ w[5] \in {0, 1} /\ w[6] \in {0, 1} /\ w[7] \in {0, 1}
  OBVIOUS
<1>b. /\ w[8] \in {0, 1} /\ w[9] \in {0, 1} /\ w[10] \in {0, 1} /\ w[11] \in {0, 1}
      /\ w[12] \in {0, 1} /\ w[13] \in {0, 1} /\ w[14] \in {0, 1} /\ w[15] \in {0, 1}
  OBVIOUS
<1>c. /\ w[16] \in {0, 1} /\ w[17] \in {0, 1} /\ w[18] \in {0, 1} /\ w[19] \in {0, 1}
      /\ w[20] \in {0, 1} /\ w[21] \in {0, 1} /\ w[22] \in {0, 1} /\ w[23] \in {0, 1}
  OBVIOUS
<1>1. CASE b = 0
  <2>1. 2^0 = 1 /\ 2^(8 - 0) = 256
    OBVIOUS
  <2>2. Part(w, 0, 0) \in 0..0 /\ Part(w, 0, 8) \in 0..255
    BY <1>a DEF Part
  <2>3. Part(w, 8, 3) \in 0..7 /\ Part(w, 11, 5) \in Nat
    BY <1>b DEF Part
  <2>4. ByteAt(w, 0) = Part(w, 0, 0) + Part(w, 0, 8)
    BY <1>a DEF Part, ByteAt
  <2>5. ByteAt(w, 8) = Part(w, 8, 3) + 8 * Part(w, 11, 5)
    BY <1>b DEF Part, ByteAt
  <2>6. ElevenAt(w, 0) = Part(w, 0, 8) + 256 * Part(w, 8, 3)
    BY <1>a, <1>b DEF Part, ByteAt, ElevenAt
  <2>7. Shifted(ByteAt(w, 0), ByteAt(w, 8), ByteAt(w, 16), 0)
          = ((ByteAt(w, 0) \div 1) + ByteAt(w, 8) * 256 + 0) % 2048
    BY <2>1 DEF Shifted
  <2>8. QED
    BY <1>1, <2>2, <2>3, <2>4, <2>5, <2>6, <2>7, SMTT(30)
<1>2. CASE b = 1
  <2>1. 2^1 = 2 /\ 2^(8 - 1) = 128
    OBVIOUS
  <2>2. Part(w, 0, 1) \in 0..1 /\ Part(w, 1, 7) \in 0..127
    BY <1>a DEF Part
  <2>3. Part(w, 8, 4) \in 0..15 /\ Part(w, 12, 4) \in Nat
    BY <1>b DEF Part
  <2>4. ByteAt(w, 0) = Part(w, 0, 1) + 2 * Part(w, 1, 7)
    BY <1>a DEF Part, ByteAt
  <2>5. ByteAt(w, 8) = Part(w, 8, 4) + 16 * Part(w, 12, 4)
    BY <1>b DEF Part, ByteAt
  <2>6. ElevenAt(w, 1) = Part(w, 1, 7) + 128 * Part(w, 8, 4)
    BY <1>a, <1>b DEF Part, ByteAt, ElevenAt
  <2>7. Shifted(ByteAt(w, 0), ByteAt(w, 8), ByteAt(w, 16), 1)
          = ((ByteAt(w, 0) \div 2) + ByteAt(w, 8) * 128 + 0) % 2048
    BY <2>1 DEF Shifted
  <2>8. QED
    BY <1>2, <2>2, <2>3, <2>4, <2>5, <2>6, <2>7, SMTT(30)
<1>3. CASE b = 2
  <2>1. 2^2 = 4 /\ 2^(8 - 2) = 64
    OBVIOUS
  <2>2. Part(w, 0, 2) \in 0..3 /\ Part(w, 2, 6) \in 0..63
    BY <1>a DEF Part
  <2>3. Part(w, 8, 5) \in 0..31 /\ Part(w, 13, 3) \in Nat
    BY <1>b DEF Part
  <2>4. ByteAt(w, 0) = Part(w, 0, 2) + 4 * Part(w, 2, 6)
    BY <1>a DEF Part, ByteAt
  <2>5. ByteAt(w, 8) = Part(w, 8, 5) + 32 * Part(w, 13, 3)
    BY <1>b DEF Part, ByteAt
  <2>6. ElevenAt(w, 2) = Part(w, 2, 6) + 64 * Part(w, 8, 5)
    BY <1>a, <1>b DEF Part, ByteAt, ElevenAt
  <2>7. Shifted(ByteAt(w, 0), ByteAt(w, 8), ByteAt(w, 16), 2)
          = ((ByteAt(w, 0) \div 4) + ByteAt(w, 8) * 64 + 0) % 2048
    BY <2>1 DEF Shifted
  <2>8. QED
    BY <1>3, <2>2, <2>3, <2>4, <2>5, <2>6, <2>7, SMTT(30)
<1>4. CASE b = 3
  <2>1. 2^3 = 8 /\ 2^(8 - 3) = 32
    OBVIOUS
  <2>2. Part(w, 0, 3) \in 0..7 /\ Part(w, 3, 5) \in 0..31
    BY <1>a DEF Part
  <2>3. Part(w, 8, 6) \in 0..63 /\ Part(w, 14, 2) \in Nat
    BY <1>b DEF Part
  <2>4. ByteAt(w, 0) = Part(w, 0, 3) + 8 * Part(w, 3, 5)
    BY <1>a DEF Part, ByteAt
  <2>5. ByteAt(w, 8) = Part(w, 8, 6) + 64 * Part(w, 14, 2)
    BY <1>b DEF Part, ByteAt
  <2>6. ElevenAt(w, 3) = Part(w, 3, 5) + 32 * Part(w, 8, 6)
    BY <1>a, <1>b DEF Part, ByteAt, ElevenAt
  <2>7. Shifted(ByteAt(w, 0), ByteAt(w, 8), ByteAt(w, 16), 3)
          = ((ByteAt(w, 0) \div 8) + ByteAt(w, 8) * 32 + 0) % 2048
    BY <2>1 DEF Shifted
  <2>8. QED
    BY <1>4, <2>2, <2>3, <2>4, <2>5, <2>6, <2>7, SMTT(30)
<1>5. CASE b = 4
  <2>1. 2^4 = 16 /\ 2^(8 - 4) = 16
    OBVIOUS
  <2>2. Part(w, 0, 4) \in 0..15 /\ Part(w, 4, 4) \in 0..15
    BY <1>a DEF Part
  <2>3. Part(w, 8, 7) \in 0..127 /\ Part(w, 15, 1) \in Nat
    BY <1>b DEF Part
  <2>4. ByteAt(w, 0) = Part(w, 0, 4) + 16 * Part(w, 4, 4)
    BY <1>a DEF Part, ByteAt
  <2>5. ByteAt(w, 8) = Part(w, 8, 7) + 128 * Part(w, 15, 1)
    BY <1>b DEF Part, ByteAt
  <2>6. ElevenAt(w, 4) = Part(w, 4, 4) + 16 * Part(w, 8, 7)
    BY <1>a, <1>b DEF Part, ByteAt, ElevenAt
  <2>7. Shifted(ByteAt(w, 0), ByteAt(w, 8), ByteAt(w, 16), 4)
          = ((ByteAt(w, 0) \div 16) + ByteAt(w, 8) * 16 + 0) % 2048
    BY <2>1 DEF Shifted
  <2>8. QED
    BY <1>5, <2>2, <2>3, <2>4, <2>5, <2>6, <2>7, SMTT(30)
<1>6. CASE b = 5
  <2>1. 2^5 = 32 /\ 2^(8 - 5) = 8
    OBVIOUS
  <2>2. Part(w, 0, 5) \in 0..31 /\ Part(w, 5, 3) \in 0..7
    BY <1>a DEF Part
  <2>3. Part(w, 8, 8) \in 0..255 /\ Part(w, 16, 0) \in Nat
    BY <1>b DEF Part
  <2>4. ByteAt(w, 0) = Part(w, 0, 5) + 32 * Part(w, 5, 3)
    BY <1>a DEF Part, ByteAt
  <2>5. ByteAt(w, 8) = Part(w, 8, 8) + 256 * Part(w, 16, 0)
    BY <1>b DEF Part, ByteAt
  <2>6. ElevenAt(w, 5) = Part(w, 5, 3) + 8 * Part(w, 8, 8)
    BY <1>a, <1>b DEF Part, ByteAt, ElevenAt
  <2>7. Shifted(ByteAt(w, 0), ByteAt(w, 8), ByteAt(w, 16), 5)
          = ((ByteAt(w, 0) \div 32) + ByteAt(w, 8) * 8 + 0) % 2048
    BY <2>1 DEF Shifted
  <2>8. QED
    BY <1>6, <2>2, <2>3, <2>4, <2>5, <2>6, <2>7, SMTT(30)
<1>7. CASE b = 6
  <2>1. 2^6 = 64 /\ 2^(8 - 6) = 4 /\ 2^(16 - 6) = 1024
    OBVIOUS
  <2>2. Part(w, 0, 6) \in 0..63 /\ Part(w, 6, 2) \in 0..3
    BY <1>a DEF Part
  <2>3. Part(w, 8, 9) \in 0..511 /\ Part(w, 17, 7) \in Nat
    <3>1. Part(w, 8, 9) \in 0..511
      BY <1>b, <1>c DEF Part
    <3>2. Part(w, 17, 7) \in Nat
      BY <1>c DEF Part
    <3>3. QED
      BY <3>1, <3>2
  <2>4. ByteAt(w, 0) = Part(w, 0, 6) + 64 * Part(w, 6, 2)
    BY <1>a DEF Part, ByteAt
  <2>5. /\ ByteAt(w, 8) + 256 * ByteAt(w, 16) = Part(w, 8, 9) + 512 * Part(w, 17, 7)
        /\ ByteAt(w, 8) \in Nat /\ ByteAt(w, 16) \in Nat
    <3>1. ByteAt(w, 8) + 256 * ByteAt(w, 16) = Part(w, 8, 9) + 512 * Part(w, 17, 7)
      BY <1>b, <1>c DEF Part, ByteAt
    <3>2. ByteAt(w, 8) \in Nat /\ ByteAt(w, 16) \in Nat
      BY <1>b, <1>c DEF ByteAt
    <3>3. QED
      BY <3>1, <3>2
  <2>6. ElevenAt(w, 6) = Part(w, 6, 2) + 4 * Part(w, 8, 9)
    BY <1>a, <1>b, <1>c DEF Part, ByteAt, ElevenAt
  <2>7. Shifted(ByteAt(w, 0), ByteAt(w, 8), ByteAt(w, 16), 6)
          = ((ByteAt(w, 0) \div 64) + (Part(w, 8, 9) + 512 * Part(w, 17, 7)) * 4) % 2048
    <3>1. ByteAt(w, 8) * 4 + ByteAt(w, 16) * 1024 = (Part(w, 8, 9) + 512 * Part(w, 17, 7)) * 4
      BY <2>3, <2>5
    <3>2. ByteAt(w, 0) \div 64 \in Int
      BY <1>a DEF ByteAt
    <3>3. \A x, y, z \in Int : x + y + z = x + (y + z)
      OBVIOUS
    <3>4. Shifted(ByteAt(w, 0), ByteAt(w, 8), ByteAt(w, 16), 6)
            = ((ByteAt(w, 0) \div 64) + ByteAt(w, 8) * 4 + ByteAt(w, 16) * 1024) % 2048
      BY <2>1 DEF Shifted
    <3>5. QED
      BY <2>5, <3>1, <3>2, <3>3, <3>4
  <2>8. QED
    BY <1>7, <2>2, <2>3, <2>4, <2>6, <2>7, SMTT(30)
<1>8. CASE b = 7
  <2>1. 2^7 = 128 /\ 2^(8 - 7) = 2 /\ 2^(16 - 7) = 512
    OBVIOUS
  <2>2. Part(w, 0, 7) \in 0..127 /\ Part(w, 7, 1) \in 0..1
    BY <1>a DEF Part
  <2>3. Part(w, 8, 10) \in 0..1023 /\ Part(w, 18, 6) \in Nat
    <3>1. Part(w, 8, 10) \in 0..1023
      BY <1>b, <1>c DEF Part
    <3>2. Part(w, 18, 6) \in Nat
      BY <1>c DEF Part
    <3>3. QED
      BY <3>1, <3>2
  <2>4. ByteAt(w, 0) = Part(w, 0, 7) + 128 * Part(w, 7, 1)
    BY <1>a DEF Part, ByteAt
  <2>5. /\ ByteAt(w, 8) + 256 * ByteAt(w, 16) = Part(w, 8, 10) + 1024 * Part(w, 18, 6)
        /\ ByteAt(w, 8) \in Nat /\ ByteAt(w, 16) \in Nat
    <3>1. ByteAt(w, 8) + 256 * ByteAt(w, 16) = Part(w, 8, 10) + 1024 * Part(w, 18, 6)
      BY <1>b, <1>c DEF Part, ByteAt
    <3>2. ByteAt(w, 8) \in Nat /\ ByteAt(w, 16) \in Nat
      BY <1>b, <1>c DEF ByteAt
    <3>3. QED
      BY <3>1, <3>2
  <2>6. ElevenAt(w, 7) = Part(w, 7, 1) + 2 * Part(w, 8, 10)
    BY <1>a, <1>b, <1>c DEF Part, ByteAt, ElevenAt
  <2>7. Shifted(ByteAt(w, 0), ByteAt(w, 8), ByteAt(w, 16), 7)
          = ((ByteAt(w, 0) \div 128) + (Part(w, 8, 10) + 1024 * Part(w, 18, 6)) * 2) % 2048
    <3>1. ByteAt(w, 8) * 2 + ByteAt(w, 16) * 512 = (Part(w, 8, 10) + 1024 * Part(w, 18, 6)) * 2
      BY <2>3, <2>5
    <3>2. ByteAt(w, 0) \div 128 \in Int
      BY <1>a DEF ByteAt
    <3>3. \A x, y, z \in Int : x + y + z = x + (y + z)
      OBVIOUS
    <3>4. Shifted(ByteAt(w, 0), ByteAt(w, 8), ByteAt(w, 16), 7)
            = ((ByteAt(w, 0) \div 128) + ByteAt(w, 8) * 2 + ByteAt(w, 16) * 512) % 2048
      BY <2>1 DEF Shifted
    <3>5. QED
      BY <2>5, <3>1, <3>2, <3>3, <3>4
  <2>8. QED
    BY <1>8, <2>2, <2>3, <2>4, <2>6, <2>7, SMTT(30)
<1>9. QED
  BY <1>1, <1>2, <1>3, <1>4, <1>5, <1>6, <1>7, <1>8

\* Where the table of places says a channel starts is where its bits start.
LEMMA PlaceFits ==
  ASSUME NEW c \in Channels, NEW byte, NEW bit,
         byte = Places[((c - 1) % 8) + 1][1] + 11 * ((c - 1) \div 8),
         bit = Places[((c - 1) % 8) + 1][2]
  PROVE  /\ byte \in 0..20 /\ bit \in 0..7 /\ 8 * byte + bit = 11 * (c - 1)
         /\ bit > 5 => byte \in 0..19
<1>1. PICK q \in 0..1, r \in 0..7 : c - 1 = 8 * q + r /\ (c - 1) \div 8 = q /\ (c - 1) % 8 = r
  <2>1. /\ (c - 1) \div 8 \in 0..1 /\ (c - 1) % 8 \in 0..7
        /\ c - 1 = 8 * ((c - 1) \div 8) + ((c - 1) % 8)
    BY DEF Channels
  <2>2. QED
    BY <2>1
<1>2. \A p \in 1..8 : /\ Places[p][1] \in 0..9 /\ Places[p][2] \in 0..7
                      /\ 8 * Places[p][1] + Places[p][2] = 11 * (p - 1)
                      /\ Places[p][2] > 5 => Places[p][1] \in 0..8
  BY DEF Places
<1>3. /\ Places[r + 1][1] \in 0..9 /\ Places[r + 1][2] \in 0..7
      /\ 8 * Places[r + 1][1] + Places[r + 1][2] = 11 * ((r + 1) - 1)
      /\ Places[r + 1][2] > 5 => Places[r + 1][1] \in 0..8
  BY <1>2
<1>4. byte = Places[r + 1][1] + 11 * q /\ bit = Places[r + 1][2]
  BY <1>1
<1>5. PICK start \in 0..9, first \in 0..7 :
        /\ start = Places[r + 1][1] /\ first = Places[r + 1][2]
        /\ 8 * start + first = 11 * r /\ (first > 5 => start \in 0..8)
  BY <1>3
<1>6. byte = start + 11 * q /\ bit = first
  BY <1>4, <1>5
<1>7. byte \in 0..20 /\ bit \in 0..7 /\ (bit > 5 => byte \in 0..19)
  BY <1>5, <1>6
<1>8. 8 * byte + bit = 11 * (c - 1)
  BY <1>1, <1>5, <1>6 DEF Channels
<1>9. QED
  BY <1>7, <1>8

\* Three bytes of a frame by themselves; the last byte may be past its end.
Window(bits, n) == [k \in 0..23 |-> IF n + k <= 175 THEN bits[n + k] ELSE 0]

\* A byte of the frame is a byte of the window.
LEMMA ByteInWindow ==
  ASSUME NEW bits, NEW n \in 0..160, NEW k \in 0..16, n + k <= 168
  PROVE  ByteAt(bits, n + k) = ByteAt(Window(bits, n), k)
<1>1. \A j \in 0..7 : Window(bits, n)[k + j] = bits[n + (k + j)]
  BY DEF Window
<1>2. \A j \in 0..7 : n + (k + j) = n + k + j
  OBVIOUS
<1>3. /\ Window(bits, n)[k + 1] = bits[n + k + 1] /\ Window(bits, n)[k + 2] = bits[n + k + 2]
      /\ Window(bits, n)[k + 3] = bits[n + k + 3] /\ Window(bits, n)[k + 4] = bits[n + k + 4]
      /\ Window(bits, n)[k + 5] = bits[n + k + 5] /\ Window(bits, n)[k + 6] = bits[n + k + 6]
      /\ Window(bits, n)[k + 7] = bits[n + k + 7]
  BY <1>1, <1>2
<1>4. Window(bits, n)[k] = bits[n + k]
  BY DEF Window
<1>5. QED
  BY <1>3, <1>4 DEF ByteAt

\* Eleven bits of the frame are eleven bits of the window.
LEMMA ElevenInWindow ==
  ASSUME NEW bits, NEW n \in 0..160, NEW b \in 0..7, n + b <= 165
  PROVE  ElevenAt(bits, n + b) = ElevenAt(Window(bits, n), b)
<1>1. /\ Window(bits, n)[b + 8] = bits[n + b + 8]
      /\ Window(bits, n)[b + 9] = bits[n + b + 9]
      /\ Window(bits, n)[b + 10] = bits[n + b + 10]
  BY DEF Window
<1>2. ByteAt(bits, n + b) = ByteAt(Window(bits, n), b)
  BY ByteInWindow
<1>3. QED
  BY <1>1, <1>2 DEF ElevenAt

\* Every channel of every frame is made of its eleven bits in their order, none lost and
\* none taken from a neighbour (the shifts and masks of decode_sbus_frame).
THEOREM FrameDecoded ==
  \A bits \in Frames, c \in Channels :
    ChannelOf(BytesOf(bits), c) = ElevenAt(bits, 11 * (c - 1))
<1> TAKE bits \in Frames, c \in Channels
<1> DEFINE place == Places[((c - 1) % 8) + 1]
           byte == place[1] + 11 * ((c - 1) \div 8)
           bit == place[2]
           bytes == BytesOf(bits)
           w == Window(bits, 8 * byte)
<1>1. /\ byte \in 0..20 /\ bit \in 0..7 /\ 8 * byte + bit = 11 * (c - 1)
      /\ bit > 5 => byte \in 0..19
  BY PlaceFits
<1>2. ChannelOf(bytes, c) = Shifted(bytes[byte], bytes[byte + 1], bytes[byte + 2], bit)
  BY DEF ChannelOf, Shifted
<1> HIDE DEF byte, bit
<1>3. \A i \in 0..21 : bytes[i] = ByteAt(bits, 8 * i)
  BY DEF BytesOf
<1>4. bytes[byte] = ByteAt(w, 0) /\ bytes[byte + 1] = ByteAt(w, 8)
  <2>1. /\ bytes[byte] = ByteAt(bits, 8 * byte + 0)
        /\ bytes[byte + 1] = ByteAt(bits, 8 * byte + 8)
    BY <1>1, <1>3
  <2>2. 8 * byte \in 0..160
    BY <1>1
  <2>3. QED
    BY <2>1, <2>2, ByteInWindow
<1>5. bit > 5 => bytes[byte + 2] = ByteAt(w, 16)
  <2> SUFFICES ASSUME bit > 5 PROVE bytes[byte + 2] = ByteAt(w, 16)
    OBVIOUS
  <2>1. bytes[byte + 2] = ByteAt(bits, 8 * byte + 16)
    BY <1>1, <1>3
  <2>2. 8 * byte \in 0..152
    BY <1>1
  <2>3. QED
    BY <2>1, <2>2, ByteInWindow
<1>6. ElevenAt(bits, 11 * (c - 1)) = ElevenAt(w, bit)
  <2>1. 8 * byte \in 0..160 /\ 8 * byte + bit <= 165
    BY <1>1 DEF Channels
  <2>2. ElevenAt(bits, 8 * byte + bit) = ElevenAt(w, bit)
    BY <1>1, <2>1, ElevenInWindow
  <2>3. QED
    BY <1>1, <2>2
<1>7. Shifted(ByteAt(w, 0), ByteAt(w, 8), ByteAt(w, 16), bit) = ElevenAt(w, bit)
  <2>1. w \in [0..23 -> {0, 1}]
    BY <1>1 DEF Frames, Window
  <2>2. QED
    BY <1>1, <2>1, Decoded
<1>8. Shifted(bytes[byte], bytes[byte + 1], bytes[byte + 2], bit)
        = Shifted(ByteAt(w, 0), ByteAt(w, 8), ByteAt(w, 16), bit)
  <2>1. CASE bit > 5
    BY <1>4, <1>5, <2>1
  <2>2. CASE ~(bit > 5)
    BY <1>4, <2>2 DEF Shifted
  <2>3. QED
    BY <2>1, <2>2
<1>9. QED
  BY <1>2, <1>6, <1>7, <1>8

-----------------------------------------------------------------------------
\* Every timeout is a number of units.
LEMMA Timeouts ==
  /\ JointTimeout \in Nat /\ LinkTimeout \in Nat
  /\ WatchdogPeriod \in Nat /\ WatchdogPeriod # 0
  /\ StopBound = LinkTimeout + WatchdogPeriod /\ StopBound \in Nat
<1>1. JointTimeout \in 0..LinkTimeout /\ LinkTimeout \in Nat /\ WatchdogPeriod \in Nat \ {0}
  BY SbusLinkAssumption
<1>2. QED
  BY <1>1 DEF StopBound

\* The safe state asks for nothing.
LEMMA SafeIsStill == DemandOf(SafeMessage) = NoDemand
BY DEF DemandOf, SafeMessage, Still, NoDemand

\* To stand still is one of the demands a message may make.
LEMMA StillIsDemand == NoDemand \in Demands
<1>1. Still("ARM", "DISARMED", 0, 0) \in Messages
  BY DEF Messages
<1>2. DemandOf(Still("ARM", "DISARMED", 0, 0)) = NoDemand
  BY DEF DemandOf, Still, NoDemand
<1>3. QED
  BY <1>1, <1>2 DEF Demands

-----------------------------------------------------------------------------
\* While the publisher knows the link is lost, the last message is the safe state.
THEOREM LossEndsInSafeState == LinkSpec => []SafeStateIsOut
<1>1. LinkInit => SafeStateIsOut
  BY DEF LinkInit, SafeStateIsOut
<1>2. SafeStateIsOut /\ [LinkNext]_linkVars => SafeStateIsOut'
  <2> SUFFICES ASSUME SafeStateIsOut, [LinkNext]_linkVars PROVE SafeStateIsOut'
    OBVIOUS
  <2> USE DEF publisherVars
  <2>1. CASE UNCHANGED <<safeActive, sent, light, axis>>
    BY <2>1 DEF SafeStateIsOut, SafeMessage
  <2>2. CASE UNCHANGED linkVars
    BY <2>1, <2>2 DEF linkVars
  <2>3. ASSUME PublishSafeState, UNCHANGED <<light, axis>> PROVE SafeStateIsOut'
    BY <2>3 DEF PublishSafeState, Quiet, SafeStateIsOut, SafeMessage
  <2>4. CASE ReadNothing
    BY <2>1, <2>3, <2>4 DEF ReadNothing, Quiet
  <2>5. CASE ReadFailsafe
    BY <2>3, <2>5 DEF ReadFailsafe
  <2>6. ASSUME NEW ch \in Sticks, ReadGoodFrame(ch) PROVE SafeStateIsOut'
    BY <2>6 DEF ReadGoodFrame, SafeStateIsOut
  <2>7. CASE ReadFails \/ Reopened \/ (\E i \in DOMAIN intake : OnSbusLatches(i))
             \/ WatchdogLooks \/ WatchdogZeroes \/ UnitPasses
    BY <2>1, <2>7 DEF ReadFails, Reopened, Quiet, OnSbusLatches, WatchdogLooks,
       WatchdogZeroes, UnitPasses
  <2>8. QED
    BY <2>2, <2>4, <2>5, <2>6, <2>7 DEF LinkNext
<1>3. QED
  BY <1>1, <1>2, PTL DEF LinkSpec

-----------------------------------------------------------------------------
(* The lost link stops the wheels, if a message is handled as a whole      *)
(* before or after a watchdog tick.                                        *)

Ages ==
  /\ frameAge \in Nat
  /\ jointAge \in Nat /\ jointAge <= JointTimeout + 1
  /\ linkAge \in Nat /\ linkAge <= LinkTimeout
  /\ watchdogAge \in Nat /\ watchdogAge <= WatchdogPeriod

\* What the joint-state publisher still shows is as old as the last good frame.
JointAgesWithFrame ==
  joint # NoDemand => jointAge >= frameAge \/ jointAge = JointTimeout + 1

\* A message under way that asks for motion is of this unit, and the watchdog waits.
IntakeFresh ==
  /\ intake \in Seq(Demands)
  /\ frameAge # 0 => intake \in Seq({NoDemand})
  /\ intake # <<>> => ~linkWatchdog /\ ~zeroing

\* A demand stands only as long as the watchdog has not had its turn on a lost link.
DemandAgesWithLink ==
  /\ linkWatchdog => demand = NoDemand
  /\ demand # NoDemand =>
       /\ intake # <<>> \/ linkAge >= frameAge \/ linkAge = LinkTimeout
       /\ zeroing => frameAge <= LinkTimeout + WatchdogPeriod
       /\ ~zeroing => frameAge <= LinkTimeout + watchdogAge

LinkInv == Ages /\ JointAgesWithFrame /\ IntakeFresh /\ DemandAgesWithLink

\* At the start nothing is demanded, and everything is as old as it can be.
LEMMA LinkInvInit == LinkInit => LinkInv
<1> SUFFICES ASSUME LinkInit PROVE LinkInv
  OBVIOUS
<1>1. Ages
  BY Timeouts DEF LinkInit, Ages
<1>2. IntakeFresh
  BY DEF LinkInit, IntakeFresh
<1>3. JointAgesWithFrame /\ DemandAgesWithLink
  BY DEF LinkInit, JointAgesWithFrame, DemandAgesWithLink
<1>4. QED
  BY <1>1, <1>2, <1>3 DEF LinkInv

\* A message that reaches the coordinator, and one that does not.
LEMMA DeliverKeeps ==
  ASSUME LinkInv, ~Overlap, NEW m, DemandOf(m) \in Demands, Deliver(m),
         frameAge' = 0 \/ (frameAge' = frameAge /\ DemandOf(m) = NoDemand)
  PROVE  LinkInv'
<1> USE DEF LinkInv
<1>a. UNCHANGED <<demand, watchdogAge, zeroing>> /\ frameAge' \in Nat
  BY DEF Deliver, watchdogVars, Ages
<1>b. frameAge' = 0 \/ frameAge' = frameAge
  OBVIOUS
<1>1. JointAgesWithFrame' /\ jointAge' \in Nat /\ jointAge' <= JointTimeout + 1
  <2>1. CASE joint' = DemandOf(m) /\ jointAge' = 0
    BY <1>a, <2>1, Timeouts DEF JointAgesWithFrame
  <2>2. CASE UNCHANGED jointVars
    BY <1>a, <1>b, <2>2, Timeouts DEF JointAgesWithFrame, Ages, jointVars
  <2>3. QED
    BY <2>1, <2>2 DEF Deliver
<1>2. CASE /\ ~zeroing /\ intake' = Append(intake, DemandOf(m))
           /\ linkAge' = 0 /\ linkWatchdog' = FALSE
  <2>1. Ages'
    BY <1>1, <1>2, <1>a, Timeouts DEF Ages
  <2>2. intake' \in Seq(Demands) /\ intake' # <<>>
    BY <1>2, <1>a DEF IntakeFresh
  <2>3. frameAge' # 0 => intake' \in Seq({NoDemand})
    BY <1>2 DEF IntakeFresh
  <2>4. IntakeFresh'
    BY <1>2, <1>a, <2>2, <2>3 DEF IntakeFresh
  <2>5. DemandAgesWithLink'
    BY <1>2, <1>a, <1>b, <2>2, Timeouts DEF DemandAgesWithLink, Ages
  <2>6. QED
    BY <1>1, <2>1, <2>4, <2>5
<1>3. CASE UNCHANGED <<intake, linkAge, linkWatchdog>>
  <2>1. Ages'
    BY <1>1, <1>3, <1>a DEF Ages
  <2>2. IntakeFresh'
    BY <1>3, <1>a, <1>b DEF IntakeFresh
  <2>3. DemandAgesWithLink'
    BY <1>3, <1>a, <1>b, Timeouts DEF DemandAgesWithLink, Ages
  <2>4. QED
    BY <1>1, <2>1, <2>2, <2>3
<1>4. QED
  BY <1>2, <1>3 DEF Deliver

\* One message taken out of those under way leaves the others.
LEMMA RestOfIntake ==
  ASSUME NEW S, intake \in Seq(S), NEW i \in DOMAIN intake
  PROVE  /\ intake[i] \in S
         /\ SubSeq(intake, 1, i - 1) \o SubSeq(intake, i + 1, Len(intake)) \in Seq(S)
<1>1. Len(intake) \in Nat /\ DOMAIN intake = 1..Len(intake) /\ i \in 1..Len(intake)
  OBVIOUS
<1>2. intake[i] \in S
  BY <1>1
<1>3. SubSeq(intake, 1, i - 1) \in Seq(S)
  BY <1>1, SubSeqProperties
<1>4. SubSeq(intake, i + 1, Len(intake)) \in Seq(S)
  BY <1>1, SubSeqProperties
<1>5. QED
  BY <1>2, <1>3, <1>4

\* ... and one fewer of them.
LEMMA RestIsShorter ==
  ASSUME NEW S, intake \in Seq(S), NEW i \in DOMAIN intake
  PROVE  Len(SubSeq(intake, 1, i - 1) \o SubSeq(intake, i + 1, Len(intake))) <= Len(intake)
<1>1. Len(intake) \in Nat /\ DOMAIN intake = 1..Len(intake) /\ i \in 1..Len(intake)
  OBVIOUS
<1>2. SubSeq(intake, 1, i - 1) \in Seq(S) /\ Len(SubSeq(intake, 1, i - 1)) = i - 1
  BY <1>1, SubSeqProperties
<1>3. /\ SubSeq(intake, i + 1, Len(intake)) \in Seq(S)
      /\ Len(SubSeq(intake, i + 1, Len(intake))) = Len(intake) - i
  BY <1>1, SubSeqProperties
<1>4. QED
  BY <1>1, <1>2, <1>3, ConcatProperties

\* Every step keeps the ages of frame, message and demand in order.
LEMMA LinkInvNext == ~Overlap /\ LinkInv /\ [LinkNext]_linkVars => LinkInv'
<1> SUFFICES ASSUME ~Overlap, LinkInv, [LinkNext]_linkVars PROVE LinkInv'
  OBVIOUS
<1> USE DEF publisherVars, jointVars, intakeVars, watchdogVars, LinkInv
<1>1. CASE UNCHANGED <<frameAge, jointVars, intakeVars, watchdogVars>>
  <2>1. Ages' /\ JointAgesWithFrame'
    BY <1>1 DEF Ages, JointAgesWithFrame
  <2>2. IntakeFresh' /\ DemandAgesWithLink'
    BY <1>1 DEF IntakeFresh, DemandAgesWithLink
  <2>3. QED
    BY <2>1, <2>2
<1>2. CASE UNCHANGED linkVars
  BY <1>1, <1>2 DEF linkVars
<1>3. ASSUME PublishSafeState, UNCHANGED frameAge PROVE LinkInv'
  <2>1. CASE Deliver(SafeMessage)
    <3>1. DemandOf(SafeMessage) \in Demands
      BY SafeIsStill, StillIsDemand
    <3>2. QED
      BY <1>3, <2>1, <3>1, SafeIsStill, DeliverKeeps
  <2>2. CASE Quiet
    BY <1>1, <1>3, <2>2 DEF Quiet
  <2>3. QED
    BY <1>3, <2>1, <2>2 DEF PublishSafeState
<1>4. CASE ReadNothing
  <2>1. CASE PublishSafeState
    BY <1>3, <1>4, <2>1 DEF ReadNothing
  <2>2. CASE Quiet
    BY <1>1, <1>4, <2>2 DEF ReadNothing, Quiet
  <2>3. QED
    BY <1>4, <2>1, <2>2 DEF ReadNothing
<1>5. CASE ReadFailsafe
  BY <1>3, <1>5 DEF ReadFailsafe
<1>6. ASSUME NEW ch \in Sticks, ReadGoodFrame(ch) PROVE LinkInv'
  <2>1. DemandOf(Interpret(ch)) \in Demands
    BY DEF Messages, Demands
  <2>2. frameAge' = 0 /\ Deliver(Interpret(ch))
    BY <1>6 DEF ReadGoodFrame
  <2>3. QED
    BY <2>1, <2>2, DeliverKeeps
<1>7. CASE ReadFails \/ Reopened
  BY <1>1, <1>7 DEF ReadFails, Reopened, Quiet
<1>8. ASSUME NEW i \in DOMAIN intake, OnSbusLatches(i) PROVE LinkInv'
  <2>1. UNCHANGED <<frameAge, jointVars, linkAge, linkWatchdog, watchdogVars>>
    BY <1>8 DEF OnSbusLatches
  <2>2. intake' \in Seq(Demands) /\ (frameAge # 0 => intake' \in Seq({NoDemand}))
    BY <1>8, RestOfIntake DEF OnSbusLatches, IntakeFresh
  <2>3. intake # <<>>
    BY DEF IntakeFresh
  <2>4. demand' # NoDemand => frameAge = 0
    BY <1>8, RestOfIntake DEF OnSbusLatches, IntakeFresh
  <2>5. Ages' /\ JointAgesWithFrame'
    BY <2>1 DEF Ages, JointAgesWithFrame
  <2>6. IntakeFresh'
    BY <2>1, <2>2, <2>3 DEF IntakeFresh
  <2>7. DemandAgesWithLink'
    BY <2>1, <2>3, <2>4, Timeouts DEF DemandAgesWithLink, IntakeFresh, Ages
  <2>8. QED
    BY <2>5, <2>6, <2>7
<1>9. CASE WatchdogLooks
  <2>1. /\ UNCHANGED <<frameAge, jointVars, intakeVars>>
        /\ intake = <<>> /\ watchdogAge = WatchdogPeriod /\ watchdogAge' = 0
    BY <1>9 DEF WatchdogLooks
  <2>2. Ages' /\ JointAgesWithFrame'
    BY <2>1, Timeouts DEF Ages, JointAgesWithFrame
  <2>3. IntakeFresh'
    BY <2>1 DEF IntakeFresh
  <2>4. ASSUME demand # NoDemand
        PROVE  /\ zeroing' => frameAge <= LinkTimeout + WatchdogPeriod
               /\ ~zeroing' => frameAge <= LinkTimeout
    <3>1. ~linkWatchdog /\ frameAge <= LinkTimeout + WatchdogPeriod
      BY <2>1, <2>4 DEF DemandAgesWithLink
    <3>2. zeroing' <=> linkAge >= LinkTimeout
      BY <1>9, <3>1 DEF WatchdogLooks
    <3>3. CASE linkAge >= LinkTimeout
      BY <3>1, <3>2, <3>3
    <3>4. CASE ~(linkAge >= LinkTimeout)
      <4>1. linkAge < LinkTimeout /\ linkAge # LinkTimeout
        BY <3>4, Timeouts DEF Ages
      <4>2. linkAge >= frameAge
        BY <2>1, <2>4, <4>1 DEF DemandAgesWithLink
      <4>3. QED
        BY <3>2, <3>4, <4>1, <4>2, Timeouts DEF Ages
    <3>5. QED
      BY <3>3, <3>4
  <2>5. DemandAgesWithLink'
    BY <2>1, <2>4, Timeouts DEF DemandAgesWithLink, Ages
  <2>6. QED
    BY <2>2, <2>3, <2>5
<1>10. CASE WatchdogZeroes
  <2>1. /\ UNCHANGED <<frameAge, jointVars, intake, linkAge, watchdogAge>>
        /\ zeroing /\ intake = <<>> /\ demand' = NoDemand
    BY <1>10 DEF WatchdogZeroes, IntakeFresh
  <2>2. Ages' /\ JointAgesWithFrame'
    BY <2>1 DEF Ages, JointAgesWithFrame
  <2>3. IntakeFresh' /\ DemandAgesWithLink'
    BY <2>1 DEF IntakeFresh, DemandAgesWithLink
  <2>4. QED
    BY <2>2, <2>3
<1>11. CASE UnitPasses
  <2>1. /\ intake = <<>> /\ ~zeroing
        /\ UNCHANGED <<joint, intake, demand, linkWatchdog, zeroing>>
    BY <1>11 DEF UnitPasses
  <2>2. /\ frameAge' \in Nat /\ frameAge' <= frameAge + 1
        /\ watchdogAge' = watchdogAge + 1 /\ watchdogAge' <= WatchdogPeriod
    BY <1>11, Timeouts DEF UnitPasses, Older, Ages
  <2>3. /\ linkAge' \in Nat /\ linkAge' <= LinkTimeout
        /\ linkAge' = linkAge + 1 \/ linkAge' = LinkTimeout
    BY <1>11, Timeouts DEF UnitPasses, Older, Ages
  <2>4. /\ jointAge' \in Nat /\ jointAge' <= JointTimeout + 1
        /\ jointAge' = jointAge + 1 \/ jointAge' = JointTimeout + 1
    BY <1>11, Timeouts DEF UnitPasses, Older, Ages
  <2>5. Ages'
    BY <2>2, <2>3, <2>4 DEF Ages
  <2>6. JointAgesWithFrame'
    BY <2>1, <2>2, <2>4, Timeouts DEF JointAgesWithFrame, Ages
  <2>7. IntakeFresh'
    BY <2>1 DEF IntakeFresh
  <2>8. DemandAgesWithLink'
    BY <2>1, <2>2, <2>3, Timeouts DEF DemandAgesWithLink, Ages
  <2>9. QED
    BY <2>5, <2>6, <2>7, <2>8
<1>12. QED
  BY <1>2, <1>4, <1>5, <1>6, <1>7, <1>8, <1>9, <1>10, <1>11 DEF LinkNext

\* No demand outlives the two watchdogs, whatever is lost between the radio and the
\* wheels, as long as no message is handled in the middle of a watchdog tick.
THEOREM LostLinkStops == ~Overlap => (LinkSpec => []LostLinkStopsWheels)
<1> SUFFICES ASSUME ~Overlap PROVE LinkSpec => []LostLinkStopsWheels
  OBVIOUS
<1>1. LinkInv => LostLinkStopsWheels
  <2> SUFFICES ASSUME LinkInv PROVE LostLinkStopsWheels
    OBVIOUS
  <2>1. frameAge > JointTimeout => JointDemand = NoDemand
    BY Timeouts DEF LinkInv, Ages, JointAgesWithFrame, JointDemand
  <2>2. demand # NoDemand => frameAge <= StopBound
    BY Timeouts DEF LinkInv, Ages, DemandAgesWithLink
  <2>3. frameAge \in Nat /\ StopBound \in Nat
    BY Timeouts DEF LinkInv, Ages
  <2>4. QED
    BY <2>1, <2>2, <2>3 DEF LostLinkStopsWheels
<1>2. LinkInv /\ [LinkNext]_linkVars => LinkInv'
  BY LinkInvNext
<1>3. QED
  BY <1>1, <1>2, LinkInvInit, PTL DEF LinkSpec

-----------------------------------------------------------------------------
(* The types, with messages handled in the middle of a watchdog tick or    *)
(* not.                                                                    *)

\* The periods and ages the types are made of.
LEMMA Periods ==
  /\ FrameTimeout \in Nat /\ SafePeriod \in Nat /\ MaxIntake \in Nat
  /\ JointTimeout \in Nat /\ LinkTimeout \in Nat /\ WatchdogPeriod \in Nat /\ StopBound \in Nat
<1>1. /\ SafePeriod \in 0..FrameTimeout /\ FrameTimeout \in 0..JointTimeout
      /\ MaxIntake \in Nat \ {0}
  BY SbusLinkAssumption
<1>2. QED
  BY <1>1, Timeouts

\* Whatever the switches say, the safe state is a message.
LEMMA SafeIsMessage ==
  ASSUME light \in {0, 1}, axis \in {0, 1} PROVE SafeMessage \in Messages
BY DEF SafeMessage, Messages

\* What a good frame stands for is a message with its two switches.
LEMMA InterpretIs ==
  ASSUME NEW ch \in Sticks
  PROVE  /\ Interpret(ch) \in Messages
         /\ Interpret(ch).light_state \in {0, 1} /\ Interpret(ch).camera_axis \in {0, 1}
<1>1. Interpret(ch) \in Messages
  BY DEF Messages
<1>2. ud2(ch[13]) \in {0, 1} /\ ud2(ch[14]) \in {0, 1}
  BY DEF ud2
<1>3. Interpret(ch).light_state = ud2(ch[13]) /\ Interpret(ch).camera_axis = ud2(ch[14])
  BY DEF Interpret, Still
<1>4. QED
  BY <1>1, <1>2, <1>3

\* The part of the types that a message on its way can disturb.
Delivered ==
  /\ joint \in Demands /\ jointAge \in 0..(JointTimeout + 1)
  /\ intake \in Seq(Demands) /\ Len(intake) <= MaxIntake
  /\ demand \in Demands
  /\ linkAge \in 0..LinkTimeout
  /\ linkWatchdog \in BOOLEAN /\ watchdogAge \in 0..WatchdogPeriod /\ zeroing \in BOOLEAN
  /\ zeroing => ~linkWatchdog

\* A message that is delivered leaves demands of messages, and no more than are handled.
LEMMA DeliverTyped ==
  ASSUME LinkTypeOK, NEW m \in Messages, Deliver(m)
  PROVE  Delivered'
<1>1. DemandOf(m) \in Demands
  BY DEF Demands
<1>2. joint' \in Demands /\ jointAge' \in 0..(JointTimeout + 1)
  BY <1>1, Periods DEF Deliver, LinkTypeOK, jointVars
<1>3. /\ intake' \in Seq(Demands) /\ Len(intake') <= MaxIntake
      /\ linkAge' \in 0..LinkTimeout /\ linkWatchdog' \in BOOLEAN
      /\ zeroing => ~linkWatchdog'
  <2>1. CASE /\ Len(intake) < MaxIntake /\ intake' = Append(intake, DemandOf(m))
             /\ linkAge' = 0 /\ linkWatchdog' = FALSE
    <3>1. intake' \in Seq(Demands) /\ Len(intake') = Len(intake) + 1
      BY <1>1, <2>1, AppendProperties DEF LinkTypeOK
    <3>2. Len(intake) \in Nat
      BY LenProperties DEF LinkTypeOK
    <3>3. Len(intake') <= MaxIntake /\ linkAge' \in 0..LinkTimeout
      BY <2>1, <3>1, <3>2, Periods
    <3>4. linkWatchdog' = FALSE
      BY <2>1
    <3>5. QED
      BY <3>1, <3>3, <3>4
  <2>2. CASE UNCHANGED <<intake, linkAge, linkWatchdog>>
    BY <2>2 DEF LinkTypeOK
  <2>3. QED
    BY <2>1, <2>2 DEF Deliver
<1>4. UNCHANGED <<demand, watchdogAge, zeroing>>
  BY DEF Deliver, watchdogVars
<1>5. QED
  BY <1>2, <1>3, <1>4 DEF Delivered, LinkTypeOK

\* Nothing is delivered, and everything keeps its type.
LEMMA QuietTyped ==
  ASSUME LinkTypeOK, Quiet PROVE Delivered' /\ sent' = sent
BY DEF LinkTypeOK, Quiet, Delivered, jointVars, intakeVars, watchdogVars

\* Nothing is polled at the start, and everything has its type.
LEMMA LinkTypeInit == LinkInit => LinkTypeOK
<1> SUFFICES ASSUME LinkInit PROVE LinkTypeOK
  OBVIOUS
<1>1. Still("ARM", "DISARMED", 0, 0) \in Messages
  BY DEF Messages
<1>2. <<>> \in Seq(Demands) /\ Len(<<>>) = 0
  OBVIOUS
<1>3. /\ frameAge \in 0..(StopBound + 1) /\ safeAge \in 0..SafePeriod
      /\ jointAge \in 0..(JointTimeout + 1) /\ linkAge \in 0..LinkTimeout
      /\ watchdogAge \in 0..WatchdogPeriod /\ Len(intake) <= MaxIntake
  BY <1>2, Periods DEF LinkInit
<1>4. /\ port = "open" /\ polled = FALSE /\ safeActive = FALSE
      /\ linkWatchdog = FALSE /\ zeroing = FALSE
  BY DEF LinkInit
<1>5. /\ light \in {0, 1} /\ axis \in {0, 1} /\ sent \in Messages
      /\ joint \in Demands /\ intake \in Seq(Demands) /\ demand \in Demands
  BY <1>1, <1>2, StillIsDemand DEF LinkInit
<1>6. QED
  BY <1>3, <1>4, <1>5 DEF LinkTypeOK

\* Every step keeps the types.
LEMMA LinkTypeNext == LinkTypeOK /\ [LinkNext]_linkVars => LinkTypeOK'
<1> SUFFICES ASSUME LinkTypeOK, [LinkNext]_linkVars PROVE LinkTypeOK'
  OBVIOUS
<1>1. ASSUME /\ port' \in {"open", "closed", "reopening"} /\ polled' \in BOOLEAN
             /\ frameAge' \in 0..(StopBound + 1) /\ safeActive' \in BOOLEAN
             /\ safeAge' \in 0..SafePeriod /\ light' \in {0, 1} /\ axis' \in {0, 1},
             sent' \in Messages, Delivered'
      PROVE  LinkTypeOK'
  BY <1>1 DEF LinkTypeOK, Delivered
<1>2. ASSUME PublishSafeState
      PROVE  /\ safeActive' \in BOOLEAN /\ safeAge' \in 0..SafePeriod
             /\ sent' \in Messages /\ Delivered'
  <2>1. CASE safeAge' = 0 /\ sent' = SafeMessage /\ Deliver(SafeMessage)
    <3>1. SafeMessage \in Messages
      BY SafeIsMessage DEF LinkTypeOK
    <3>2. QED
      BY <1>2, <2>1, <3>1, DeliverTyped, Periods DEF PublishSafeState
  <2>2. CASE UNCHANGED safeAge /\ Quiet
    BY <1>2, <2>2, QuietTyped DEF PublishSafeState, LinkTypeOK
  <2>3. QED
    BY <1>2, <2>1, <2>2 DEF PublishSafeState
<1>3. CASE UNCHANGED linkVars
  BY <1>3 DEF linkVars, publisherVars, jointVars, intakeVars, watchdogVars, LinkTypeOK
<1>4. CASE ReadNothing
  <2>1. CASE frameAge > FrameTimeout
    BY <1>1, <1>2, <1>4, <2>1 DEF ReadNothing, LinkTypeOK
  <2>2. CASE ~(frameAge > FrameTimeout)
    BY <1>1, <1>4, <2>2, QuietTyped DEF ReadNothing, LinkTypeOK
  <2>3. QED
    BY <2>1, <2>2
<1>5. CASE ReadFailsafe
  BY <1>1, <1>2, <1>5 DEF ReadFailsafe, LinkTypeOK
<1>6. ASSUME NEW ch \in Sticks, ReadGoodFrame(ch) PROVE LinkTypeOK'
  <2>1. sent' \in Messages /\ light' \in {0, 1} /\ axis' \in {0, 1}
    BY <1>6, InterpretIs DEF ReadGoodFrame
  <2>2. Delivered'
    BY <1>6, InterpretIs, DeliverTyped DEF ReadGoodFrame
  <2>3. frameAge' \in 0..(StopBound + 1) /\ safeAge' \in 0..SafePeriod
    BY <1>6, Periods DEF ReadGoodFrame, LinkTypeOK
  <2>4. port' = port /\ polled' = TRUE /\ safeActive' = FALSE
    BY <1>6 DEF ReadGoodFrame
  <2>5. QED
    BY <1>1, <2>1, <2>2, <2>3, <2>4 DEF LinkTypeOK
<1>7. CASE ReadFails \/ Reopened
  BY <1>1, <1>7, QuietTyped DEF ReadFails, Reopened, LinkTypeOK
<1>8. ASSUME NEW i \in DOMAIN intake, OnSbusLatches(i) PROVE LinkTypeOK'
  <2>1. demand' \in Demands /\ intake' \in Seq(Demands)
    BY <1>8, RestOfIntake DEF OnSbusLatches, LinkTypeOK
  <2>2. Len(intake') <= MaxIntake
    BY <1>8, RestIsShorter, Periods DEF OnSbusLatches, LinkTypeOK
  <2>3. QED
    BY <1>8, <2>1, <2>2 DEF OnSbusLatches, LinkTypeOK, publisherVars, jointVars, watchdogVars
<1>9. CASE WatchdogLooks
  <2>1. /\ UNCHANGED <<publisherVars, sent, jointVars, intakeVars>>
        /\ watchdogAge' = 0 /\ zeroing' = (~linkWatchdog /\ linkAge >= LinkTimeout)
    BY <1>9 DEF WatchdogLooks
  <2>2. watchdogAge' \in 0..WatchdogPeriod
    BY <2>1, Periods
  <2>3. zeroing' \in BOOLEAN /\ (zeroing' => ~linkWatchdog)
    BY <2>1, Zenon
  <2>4. QED
    BY <2>1, <2>2, <2>3 DEF LinkTypeOK, publisherVars, jointVars, intakeVars
<1>10. CASE WatchdogZeroes
  <2>1. /\ UNCHANGED <<publisherVars, sent, jointVars, intake, linkAge, watchdogAge>>
        /\ demand' = NoDemand /\ linkWatchdog' = TRUE /\ zeroing' = FALSE
    BY <1>10 DEF WatchdogZeroes
  <2>2. QED
    BY <2>1, StillIsDemand DEF LinkTypeOK, publisherVars, jointVars
<1>11. CASE UnitPasses
  <2>1. ASSUME NEW age, NEW most \in Nat, age \in 0..most PROVE Older(age, most) \in 0..most
    BY <2>1 DEF Older
  <2>2. /\ frameAge' \in 0..(StopBound + 1) /\ safeAge' \in 0..SafePeriod
        /\ jointAge' \in 0..(JointTimeout + 1) /\ linkAge' \in 0..LinkTimeout
    <3>1. StopBound + 1 \in Nat /\ JointTimeout + 1 \in Nat
      BY Periods
    <3>2. QED
      BY <1>11, <2>1, <3>1, Periods DEF UnitPasses, LinkTypeOK
  <2>3. watchdogAge' \in 0..WatchdogPeriod
    BY <1>11, Periods DEF UnitPasses, LinkTypeOK
  <2>4. QED
    BY <1>11, <2>2, <2>3 DEF UnitPasses, LinkTypeOK
<1>12. QED
  BY <1>3, <1>4, <1>5, <1>6, <1>7, <1>8, <1>9, <1>10, <1>11 DEF LinkNext

\* The whole chain has its types: no age passes its bound, no more messages are handled
\* than threads allow, what is latched is a demand of some message, and the watchdog never
\* acts twice on one lost link.
THEOREM LinkTypeCorrect == LinkSpec => []LinkTypeOK
BY LinkTypeInit, LinkTypeNext, PTL DEF LinkSpec
=============================================================================
