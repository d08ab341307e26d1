----------------------------- MODULE LinkProofs -----------------------------
(***************************************************************************)
(* Proofs that NesDbg and the machine stay in step: the types of all that    *)
(* goes between them, and InStep.                                           *)
(*                                                                         *)
(* While the program runs, what the interpreter has of the packet under way *)
(* together with what is on the wire is one packet that NesDbg has sent, and *)
(* the answer that is still to come, with the bytes that wait already, is   *)
(* no longer than what the call on top of the stack waits for (Agrees).     *)
(* Where it starts the program knows nothing of the machine: a predecessor  *)
(* may have died inside a packet.  The echo of Init is then data or the     *)
(* rest of a header, and either what comes back begins unlike the echo or   *)
(* the machine is between two packets when the last byte is taken           *)
(* (Verifying): the echo that passes proves the machine ready.              *)
(*                                                                         *)
(* First come the packets (each is as long as it says, and its fields are   *)
(* bytes), then the interpreter byte by byte, Agrees and Verifying over a   *)
(* byte, the calls of the stack, and one lemma per kind of action.          *)
(***************************************************************************)
EXTENDS NesDbgProofs, SequenceTheorems

Bytes  == 0 .. Base - 1
Ushorts == {n \in Nat : n < Base * Base}

-----------------------------------------------------------------------------
(* The packets.                                                             *)

\* Bytes as many as they say themselves.
IsPacket(p) ==
    /\ p \in Seq(Bytes) /\ p # <<>> /\ Len(p) = SizeInBytes(p)
    /\ p[1] = 0 => Len(p) >= 3
    /\ p[1] \in {1, 2, 9, 10} => Len(p) >= 5

\* Packets that nobody waits for, and those with n bytes of answer.
Told(p)     == IsPacket(p) /\ ReturnBytesExpected(p) = 0
Asked(p, n) == IsPacket(p) /\ ReturnBytesExpected(p) = n

LEMMA ByteRange == Bytes = 0 .. 255 /\ Base = 256
  BY CommAssumption DEF Bytes

LEMMA TwoBytes == \A x, y \in Bytes : x + Base * y \in Ushorts /\ x + Base * y \in Nat
<1>1. ASSUME NEW x \in 0 .. 255, NEW y \in 0 .. 255
      PROVE  x + 256 * y \in Nat /\ x + 256 * y < 256 * 256
  BY SMT
<1> QED
  BY <1>1, ByteRange, SMT DEF Ushorts

LEMMA ByteOf == \A s \in Seq(Bytes) : Len(s) \in Nat /\ \A i \in 1 .. Len(s) : s[i] \in Bytes
  OBVIOUS

LEMMA WordBytes ==
    ASSUME NEW n \in Ushorts
    PROVE  /\ Word(n) = <<n % 256, n \div 256>> /\ n % 256 \in Bytes /\ n \div 256 \in Bytes
           /\ (n % 256) + 256 * (n \div 256) = n
           /\ Word(n) \in Seq(Bytes) /\ Len(Word(n)) = 2 /\ Word(n)[1] + 256 * Word(n)[2] = n
<1>1. n \in Int /\ 0 <= n /\ n < 256 * 256
  BY ByteRange DEF Ushorts
<1>2. n = 256 * (n \div 256) + (n % 256) /\ n % 256 \in 0 .. 255 /\ n \div 256 \in Int
  BY <1>1
<1>3. n \div 256 \in 0 .. 255
  BY <1>1, <1>2
<1> QED
  <2> DEFINE x == n % 256
             y == n \div 256
  <2>1. Word(n) = <<x, y>>
    BY ByteRange DEF Word
  <2>2. x \in Bytes /\ y \in Bytes /\ x + 256 * y = n
    BY <1>2, <1>3, ByteRange
  <2> HIDE DEF x, y
  <2>3. <<x, y>> \in Seq(Bytes) /\ Len(<<x, y>>) = 2 /\ <<x, y>>[1] = x /\ <<x, y>>[2] = y
    BY <2>2
  <2> QED
    BY <2>1, <2>2, <2>3 DEF x, y

LEMMA Appended ==
    \A s \in Seq(Bytes) : \A b \in Bytes :
       Append(s, b) \in Seq(Bytes) /\ Len(Append(s, b)) = Len(s) + 1
  OBVIOUS

LEMMA Joined ==
    ASSUME NEW s \in Seq(Bytes), NEW t \in Seq(Bytes)
    PROVE  /\ s \o t \in Seq(Bytes) /\ Len(s \o t) = Len(s) + Len(t)
           /\ \A i \in 1 .. Len(s) + Len(t) :
                 (s \o t)[i] = IF i <= Len(s) THEN s[i] ELSE t[i - Len(s)]
  OBVIOUS

LEMMA NotEmpty ==
    \A s \in Seq(Bytes) : Len(s) >= 1 => s # <<>>
  OBVIOUS

\* An opcode and a word, with another word, with data.
LEMMA Head3 ==
    ASSUME NEW op \in Bytes, NEW a \in Ushorts
    PROVE  LET h == <<op>> \o Word(a)
           IN  h \in Seq(Bytes) /\ Len(h) = 3 /\ h[1] = op /\ h[2] + 256 * h[3] = a
<1>1. <<op>> \in Seq(Bytes) /\ Len(<<op>>) = 1 /\ <<op>>[1] = op
  OBVIOUS
<1> DEFINE v == Word(a)
<1>2. v \in Seq(Bytes) /\ Len(v) = 2 /\ v[1] + 256 * v[2] = a
  BY WordBytes
<1> HIDE DEF v
<1> DEFINE h == <<op>> \o v
<1> HIDE DEF h
<1>3. /\ h \in Seq(Bytes) /\ Len(h) = Len(<<op>>) + Len(v)
      /\ \A i \in 1 .. Len(<<op>>) + Len(v) :
            h[i] = IF i <= Len(<<op>>) THEN <<op>>[i] ELSE v[i - Len(<<op>>)]
  BY <1>1, <1>2, Joined DEF h
<1>4. h \in Seq(Bytes) /\ Len(h) = 3 /\ h[1] = op /\ h[2] + 256 * h[3] = a
  BY <1>1, <1>2, <1>3
<1> QED
  BY <1>4 DEF h, v

LEMMA Head5 ==
    ASSUME NEW op \in Bytes, NEW a \in Ushorts, NEW n \in Ushorts
    PROVE  LET h == <<op>> \o Word(a) \o Word(n)
           IN  /\ h \in Seq(Bytes) /\ Len(h) = 5 /\ h[1] = op
               /\ h[2] + 256 * h[3] = a /\ h[4] + 256 * h[5] = n
<1> DEFINE s == <<op>> \o Word(a)
           w == Word(n)
<1>1. s \in Seq(Bytes) /\ Len(s) = 3 /\ s[1] = op /\ s[2] + 256 * s[3] = a
  BY Head3
<1>2. w \in Seq(Bytes) /\ Len(w) = 2 /\ w[1] + 256 * w[2] = n
  BY WordBytes
<1> HIDE DEF s, w
<1> DEFINE h == s \o w
<1> HIDE DEF h
<1>3. /\ h \in Seq(Bytes) /\ Len(h) = Len(s) + Len(w)
      /\ \A i \in 1 .. Len(s) + Len(w) :
            h[i] = IF i <= Len(s) THEN s[i] ELSE w[i - Len(s)]
  BY <1>1, <1>2, Joined DEF h
<1>4. /\ h \in Seq(Bytes) /\ Len(h) = 5
      /\ h[1] = s[1] /\ h[2] = s[2] /\ h[3] = s[3] /\ h[4] = w[1] /\ h[5] = w[2]
  BY <1>1, <1>2, <1>3
<1> QED
  BY <1>1, <1>2, <1>4 DEF h, s, w

LEMMA WithData ==
    ASSUME NEW h \in Seq(Bytes), h # <<>>, NEW data \in Seq(Bytes)
    PROVE  LET p == h \o data
           IN  /\ p \in Seq(Bytes) /\ p # <<>> /\ Len(p) = Len(h) + Len(data)
               /\ \A i \in 1 .. Len(h) : p[i] = h[i]
               /\ \A i \in 1 .. Len(data) : p[Len(h) + i] = data[i]
  OBVIOUS

\* What the lengths are by their opcode, which is a number.
LEMMA Sizes ==
    ASSUME NEW p
    PROVE  /\ p[1] = 0 => SizeInBytes(p) = 3 + EchoCount(p) /\ ReturnBytesExpected(p) = EchoCount(p)
           /\ p[1] \in {1, 9} => SizeInBytes(p) = 5 /\ ReturnBytesExpected(p) = NumBytes(p)
           /\ p[1] \in {2, 10} => SizeInBytes(p) = 5 + NumBytes(p) /\ ReturnBytesExpected(p) = 0
           /\ p[1] = 5 => SizeInBytes(p) = 2 /\ ReturnBytesExpected(p) = 1
           /\ p[1] = 6 => SizeInBytes(p) = 3 /\ ReturnBytesExpected(p) = 0
           /\ p[1] \in {7, 8} => SizeInBytes(p) = 1 /\ ReturnBytesExpected(p) = 1
           /\ p[1] = 12 => SizeInBytes(p) = 6 /\ ReturnBytesExpected(p) = 0
           /\ p[1] \notin {0, 1, 2, 5, 6, 7, 8, 9, 10, 12}
                 => SizeInBytes(p) = 1 /\ ReturnBytesExpected(p) = 0
  BY DEF SizeInBytes, ReturnBytesExpected, Opcode, MemRdOpCodes,
         DbgPacketOpCodeEcho, DbgPacketOpCodeCpuMemRd, DbgPacketOpCodeCpuMemWr,
         DbgPacketOpCodeDbgHlt, DbgPacketOpCodeDbgRun, DbgPacketOpCodeCpuRegRd,
         DbgPacketOpCodeCpuRegWr, DbgPacketOpCodeQueryHlt, DbgPacketOpCodeQueryErrCode,
         DbgPacketOpCodePpuMemRd, DbgPacketOpCodePpuMemWr, DbgPacketOpCodePpuDisable,
         DbgPacketOpCodeCartSetCfg

LEMMA EchoAsked ==
    ASSUME NEW data \in Seq(Bytes), Len(data) \in Ushorts
    PROVE  Asked(EchoPacket(data), Len(data))
<1> DEFINE h == <<DbgPacketOpCodeEcho>> \o Word(Len(data))
           p == h \o data
<1>0. DbgPacketOpCodeEcho = 0 /\ DbgPacketOpCodeEcho \in Bytes
  BY ByteRange DEF DbgPacketOpCodeEcho
<1>1. /\ h \in Seq(Bytes) /\ Len(h) = 3 /\ h[1] = DbgPacketOpCodeEcho
      /\ h[2] + 256 * h[3] = Len(data)
  <2> DEFINE n == Len(data)
             op == DbgPacketOpCodeEcho
             g == <<op>> \o Word(n)
  <2>1. op \in Bytes /\ n \in Ushorts
    BY <1>0
  <2> HIDE DEF n, op
  <2>2. g \in Seq(Bytes) /\ Len(g) = 3 /\ g[1] = op /\ g[2] + 256 * g[3] = n
    BY <2>1, Head3, ZenonT(30)
  <2> QED
    BY <2>2 DEF n, op
<1> HIDE DEF h
<1>2. h # <<>>
  <2>1. h \in Seq(Bytes) /\ Len(h) >= 1
    BY <1>1
  <2> QED
    BY <2>1, NotEmpty
<1> HIDE DEF p
<1>3. /\ p \in Seq(Bytes) /\ p # <<>> /\ Len(p) = Len(h) + Len(data)
      /\ \A i \in 1 .. Len(h) : p[i] = h[i]
  BY <1>1, <1>2, WithData DEF p
<1>4. p[1] = 0 /\ p[2] = h[2] /\ p[3] = h[3]
  BY <1>0, <1>1, <1>3
<1>5. EchoCount(p) = Len(data)
  BY <1>1, <1>4, ByteRange DEF EchoCount
<1>6. Asked(p, Len(data))
  BY <1>1, <1>3, <1>4, <1>5, Sizes DEF Asked, IsPacket
<1> QED
  BY <1>6 DEF p, h, EchoPacket

LEMMA ReadAsked ==
    ASSUME NEW a \in Ushorts, NEW n \in Ushorts
    PROVE  Asked(CpuMemRdPacket(a, n), n) /\ Asked(PpuMemRdPacket(a, n), n)
<1>1. ASSUME NEW op \in Bytes, op \in {1, 9} PROVE Asked(<<op>> \o Word(a) \o Word(n), n)
  <2> DEFINE p == <<op>> \o Word(a) \o Word(n)
  <2>1. /\ p \in Seq(Bytes) /\ Len(p) = 5 /\ p[1] = op
        /\ p[2] + 256 * p[3] = a /\ p[4] + 256 * p[5] = n
    BY Head5
  <2> HIDE DEF p
  <2>2. p # <<>> /\ NumBytes(p) = n
    <3>1. p \in Seq(Bytes) /\ Len(p) >= 1
      BY <2>1
    <3>2. p # <<>>
      BY <3>1, NotEmpty
    <3> QED
      BY <2>1, <3>2, ByteRange DEF NumBytes
  <2>3. SizeInBytes(p) = 5 /\ ReturnBytesExpected(p) = NumBytes(p)
    BY <2>1, <1>1, Sizes
  <2>4. Asked(p, n)
    BY <2>1, <2>2, <2>3 DEF Asked, IsPacket
  <2> QED
    BY <2>4 DEF p
<1> QED
  BY <1>1, ByteRange DEF CpuMemRdPacket, PpuMemRdPacket, DbgPacketOpCodeCpuMemRd, DbgPacketOpCodePpuMemRd

LEMMA WriteTold ==
    ASSUME NEW a \in Ushorts, NEW data \in Seq(Bytes), Len(data) \in Ushorts
    PROVE  Told(CpuMemWrPacket(a, data)) /\ Told(PpuMemWrPacket(a, data))
<1>1. ASSUME NEW op \in Bytes, op \in {2, 10}
      PROVE  Told(<<op>> \o Word(a) \o Word(Len(data)) \o data)
  <2> DEFINE h == <<op>> \o Word(a) \o Word(Len(data))
             p == h \o data
  <2>1. /\ h \in Seq(Bytes) /\ Len(h) = 5 /\ h[1] = op
        /\ h[2] + 256 * h[3] = a /\ h[4] + 256 * h[5] = Len(data)
    BY Head5
  <2> HIDE DEF h
  <2>2. h # <<>>
    <3>1. h \in Seq(Bytes) /\ Len(h) >= 1
      BY <2>1
    <3> QED
      BY <3>1, NotEmpty
  <2> HIDE DEF p
  <2>3. /\ p \in Seq(Bytes) /\ p # <<>> /\ Len(p) = Len(h) + Len(data)
        /\ \A i \in 1 .. Len(h) : p[i] = h[i]
    BY <2>1, <2>2, WithData DEF p
  <2>4. p[1] = op /\ p[4] = h[4] /\ p[5] = h[5]
    BY <2>1, <2>3
  <2>5. NumBytes(p) = Len(data)
    BY <2>1, <2>4, ByteRange DEF NumBytes
  <2>6. SizeInBytes(p) = 5 + NumBytes(p) /\ ReturnBytesExpected(p) = 0
    BY <2>4, <1>1, Sizes
  <2>7. Told(p)
    BY <2>1, <2>3, <2>5, <2>6 DEF Told, IsPacket
  <2> QED
    BY <2>7 DEF p, h
<1> QED
  BY <1>1, ByteRange DEF CpuMemWrPacket, PpuMemWrPacket, DbgPacketOpCodeCpuMemWr, DbgPacketOpCodePpuMemWr

LEMMA ShortPackets ==
    /\ Told(DbgHltPacket) /\ Told(DbgRunPacket) /\ Told(PpuDisablePacket)
    /\ Asked(QueryHltPacket, 1) /\ Asked(QueryErrCodePacket, 1)
    /\ \A r, v \in Bytes : Asked(CpuRegRdPacket(r), 1) /\ Told(CpuRegWrPacket(r, v))
<1>1. ASSUME NEW op \in {3, 4, 11}
      PROVE  Told(<<op>>)
  <2>1. <<op>> \in Seq(Bytes) /\ <<op>> # <<>> /\ Len(<<op>>) = 1 /\ <<op>>[1] = op
    BY ByteRange
  <2> QED
    BY <2>1, Sizes DEF Told, IsPacket
<1>2. ASSUME NEW op \in {7, 8}
      PROVE  Asked(<<op>>, 1)
  <2>1. <<op>> \in Seq(Bytes) /\ <<op>> # <<>> /\ Len(<<op>>) = 1 /\ <<op>>[1] = op
    BY ByteRange
  <2> QED
    BY <2>1, Sizes DEF Asked, IsPacket
<1>3. ASSUME NEW r \in Bytes, NEW v \in Bytes
      PROVE  Asked(<<5, r>>, 1) /\ Told(<<6, r, v>>)
  <2>1. <<5, r>> \in Seq(Bytes) /\ <<5, r>> # <<>> /\ Len(<<5, r>>) = 2 /\ <<5, r>>[1] = 5
    BY ByteRange
  <2>2. /\ <<6, r, v>> \in Seq(Bytes) /\ <<6, r, v>> # <<>> /\ Len(<<6, r, v>>) = 3
        /\ <<6, r, v>>[1] = 6
    BY ByteRange
  <2> QED
    BY <2>1, <2>2, Sizes DEF Asked, Told, IsPacket
<1> QED
  BY <1>1, <1>2, <1>3
     DEF DbgHltPacket, DbgRunPacket, PpuDisablePacket, QueryHltPacket, QueryErrCodePacket,
         CpuRegRdPacket, CpuRegWrPacket,
         DbgPacketOpCodeDbgHlt, DbgPacketOpCodeDbgRun, DbgPacketOpCodeCpuRegRd,
         DbgPacketOpCodeCpuRegWr, DbgPacketOpCodeQueryHlt, DbgPacketOpCodeQueryErrCode,
         DbgPacketOpCodePpuDisable

LEMMA CfgTold ==
    ASSUME NEW d \in Seq(Bytes), Len(d) >= 9
    PROVE  Told(CartSetCfgPacket(d))
<1> DEFINE s == SubSeq(d, 5, 9)
           p == << 12 >> \o s
<1>1. s \in Seq(Bytes) /\ Len(s) = 5
  OBVIOUS
<1>2. << 12 >> \in Seq(Bytes) /\ << 12 >> # <<>> /\ Len(<< 12 >>) = 1 /\ << 12 >>[1] = 12
  BY ByteRange
<1> HIDE DEF s
<1> HIDE DEF p
<1>3. p \in Seq(Bytes) /\ p # <<>> /\ Len(p) = 6 /\ p[1] = 12
  <2> DEFINE h == << 12 >>
  <2> HIDE DEF h
  <2>1. /\ p \in Seq(Bytes) /\ p # <<>> /\ Len(p) = Len(h) + Len(s)
        /\ \A i \in 1 .. Len(h) : p[i] = h[i]
    BY <1>1, <1>2, WithData DEF p, h
  <2> QED
    BY <1>1, <1>2, <2>1 DEF h
<1>4. Told(p)
  BY <1>3, Sizes DEF Told, IsPacket
<1> QED
  BY <1>4 DEF p, s, CartSetCfgPacket, DbgPacketOpCodeCartSetCfg

LEMMA ExpectedIsNat ==
    ASSUME NEW p, IsPacket(p)
    PROVE  ReturnBytesExpected(p) \in Nat
<1>1. p \in Seq(Bytes) /\ Len(p) \in Nat
  BY DEF IsPacket
<1>2. \A i \in 1 .. Len(p) : p[i] \in Bytes
  BY <1>1, ByteOf
<1>3. CASE p[1] = 0
  <2>1. p[2] \in Bytes /\ p[3] \in Bytes
    BY <1>1, <1>2, <1>3 DEF IsPacket
  <2>2. ReturnBytesExpected(p) = p[2] + Base * p[3]
    BY <1>3, Sizes DEF EchoCount
  <2> QED
    BY <2>1, <2>2, TwoBytes
<1>4. CASE p[1] \in {1, 9}
  <2>1. p[4] \in Bytes /\ p[5] \in Bytes
    BY <1>1, <1>2, <1>4 DEF IsPacket
  <2>2. ReturnBytesExpected(p) = p[4] + Base * p[5]
    BY <1>4, Sizes DEF NumBytes
  <2> QED
    BY <2>1, <2>2, TwoBytes
<1>5. CASE p[1] \notin {0, 1, 9}
  BY <1>5, Sizes
<1> QED
  BY <1>3, <1>4, <1>5

-----------------------------------------------------------------------------
(* What the program makes packets of.                                       *)

LEMMA LuaNumbers ==
    ASSUME NEW n \in Int
    PROVE  Ushort(n) \in Ushorts /\ Byte(n) \in Bytes
  BY ByteRange DEF Ushort, Byte, Ushorts

LEMMA LuaTable ==
    ASSUME NEW n \in Ushorts, NEW t, Table(t)
    PROVE  TableBytes(n, t) \in Seq(Bytes) /\ Len(TableBytes(n, t)) = n
<1> DEFINE e(i) == IF i \in DOMAIN t THEN Byte(t[i]) ELSE 0
<1>1. \A i \in 1 .. n : e(i) \in Bytes
  BY LuaNumbers, ByteRange DEF Table
<1>2. TableBytes(n, t) = [i \in 1 .. n |-> e(i)]
  BY DEF TableBytes
<1> HIDE DEF e
<1>3. n \in Nat
  BY ByteRange DEF Ushorts
<1> QED
  BY <1>1, <1>2, <1>3

\* A text completed with what the heap holds is a packet, or stands for none.
LEMMA TypedPacket ==
    ASSUME NEW text \in Texts, NEW heap \in Heap
    PROVE  LET p == CreateObjFromString(text, heap)
           IN  p = NoPacket \/ IsPacket(p)
<1> DEFINE b == TypedBytes(text)
           raw(i) == IF i <= Len(b) THEN b[i] ELSE heap
           ushort(i) == raw(i) + Base * raw(i + 1)
           data(i, n) == [k \in 1 .. n |-> raw(i + k - 1)]
           p == CreateObjFromString(text, heap)
<1>0. SUFFICES ASSUME IsHex(text) PROVE p = NoPacket \/ IsPacket(p)
  BY DEF CreateObjFromString
<1>1. \A i \in Nat \ {0} : raw(i) \in Bytes
  <2>1. b \in Seq(Bytes)
    BY <1>0, NesDbgAssumption DEF Bytes
  <2>2. heap \in Bytes
    BY CommAssumption DEF Bytes
  <2> HIDE DEF b
  <2> QED
    BY <2>1, <2>2
<1>2. p \in { NoPacket, EchoPacket(data(4, ushort(2))), CpuMemRdPacket(ushort(2), ushort(4)),
              CpuMemWrPacket(ushort(2), data(6, ushort(4))) }
  BY DEF CreateObjFromString
<1> HIDE DEF p, b
<1>3. ushort(2) \in Ushorts /\ ushort(4) \in Ushorts
  <2>1. raw(2) \in Bytes /\ raw(2 + 1) \in Bytes /\ raw(4) \in Bytes /\ raw(4 + 1) \in Bytes
    BY <1>1
  <2> HIDE DEF raw
  <2> QED
    BY <2>1, TwoBytes
<1> HIDE DEF raw
<1>4. ASSUME NEW i \in {4, 6}, NEW n \in Ushorts
      PROVE  data(i, n) \in Seq(Bytes) /\ Len(data(i, n)) = n
  <2>1. n \in Nat
    BY ByteRange DEF Ushorts
  <2>2. \A k \in 1 .. n : raw(i + k - 1) \in Bytes
    BY <1>1, <2>1
  <2> QED
    BY <2>1, <2>2
<1> HIDE DEF ushort, data
<1>5. IsPacket(EchoPacket(data(4, ushort(2))))
  BY <1>3, <1>4, EchoAsked DEF Asked
<1>6. IsPacket(CpuMemRdPacket(ushort(2), ushort(4)))
  BY <1>3, ReadAsked DEF Asked
<1>7. IsPacket(CpuMemWrPacket(ushort(2), data(6, ushort(4))))
  BY <1>3, <1>4, WriteTold DEF Told
<1> QED
  BY <1>2, <1>5, <1>6, <1>7

\* A file in memory, whatever is beyond its end.
LEMMA RomData ==
    ASSUME NEW f, f.rom \in DOMAIN Roms, f.heap \in Bytes
    PROVE  Data(f) \in Seq(Bytes) /\ Len(Data(f)) = RomSize
<1> DEFINE r == Roms[f.rom]
           e(k) == IF k <= Len(r) THEN r[k] ELSE f.heap
<1>1. r \in Seq(Bytes)
  BY NesDbgAssumption, SMT DEF Bytes
<1>2. RomSize \in Nat
  BY NesDbgAssumption, SMT DEF RomSize
<1> HIDE DEF r
<1>3. \A k \in 1 .. RomSize : e(k) \in Bytes
  BY <1>1, <1>2
<1> HIDE DEF e
<1>4. [k \in 1 .. RomSize |-> e(k)] \in Seq(Bytes) /\ Len([k \in 1 .. RomSize |-> e(k)]) = RomSize
  BY <1>2, <1>3
<1> QED
  BY <1>4 DEF Data, e, r

\* The memory that the banks are for, and a block of it.
LEMMA Banks ==
    /\ PrgBank \in Nat /\ ChrBank \in Nat /\ Block \in Nat /\ 0 < Block /\ Block < Base * Base
    /\ 32768 + 2 * PrgBank <= Base * Base /\ ChrBank <= Base * Base
  BY NesDbgAssumption, ByteRange, SMT

LEMMA BlockFits ==
    ASSUME NEW n \in Nat, NEW b \in Nat, 0 < b, NEW k \in 1 .. n \div b
    PROVE  b * (k - 1) \in Nat /\ b * (k - 1) + b <= n
<1> DEFINE q == n \div b
<1>1. q \in Int /\ b * q <= n
  BY SMT
<1>2. b * k <= b * q
  BY <1>1, SMT
<1>3. b * (k - 1) = b * k - b /\ b * (k - 1) \in Nat
  BY <1>1, SMT
<1> QED
  BY <1>1, <1>2, <1>3, SMT

LEMMA SliceOf ==
    ASSUME NEW d \in Seq(Bytes), NEW o \in Nat, NEW n \in Nat, o + n <= Len(d)
    PROVE  Slice(d, o, n) \in Seq(Bytes) /\ Len(Slice(d, o, n)) = n
  BY DEF Slice

ToldPackets == {p \in Seq(Bytes) : Told(p)}

\* A ROM that passes the checks is sent in packets, and none has an answer.
LEMMA RomToldPackets ==
    ASSUME NEW d \in Seq(Bytes), Len(d) = RomSize, ~(d[5] > 2 \/ d[6] > 1)
    PROVE  RomPackets(d) \in Seq(ToldPackets)
<1> DEFINE prg(k) == CpuMemWrPacket(32768 + Block * (k - 1),
                                 Slice(d, 16 + Block * (k - 1), Block))
           chr(k) == PpuMemWrPacket(Block * (k - 1),
                                 Slice(d, 16 + Prg(d) + Block * (k - 1), Block))
           s1 == <<DbgHltPacket, PpuDisablePacket, CartSetCfgPacket(d)>>
           s2 == [k \in 1 .. Prg(d) \div Block |-> prg(k)]
           s3 == [k \in 1 .. Chr(d) \div Block |-> chr(k)]
           s4 == << CpuRegWrPacket(CpuRegPcl, d[16 + Prg(d) - 4 + 1]),
                    CpuRegWrPacket(CpuRegPch, d[16 + Prg(d) - 3 + 1]),
                    DbgRunPacket >>
<1>1. Len(d) = 16 + 2 * PrgBank + ChrBank /\ Len(d) \in Nat /\ Len(d) >= 16
  BY Banks DEF RomSize
<1>2. Prg(d) \in Nat /\ Prg(d) <= 2 * PrgBank /\ Chr(d) \in Nat /\ Chr(d) <= ChrBank
  <2>1. d[5] \in Bytes /\ d[6] \in Bytes
    BY <1>1, ByteOf
  <2>2. d[5] \in 0 .. 255 /\ d[6] \in 0 .. 255 /\ ~(d[5] > 2) /\ ~(d[6] > 1)
    BY <2>1, ByteRange
  <2> DEFINE x == d[5]
             y == d[6]
  <2> HIDE DEF x, y
  <2>3. x \in 0 .. 255 /\ y \in 0 .. 255 /\ ~(x > 2) /\ ~(y > 1)
    BY <2>2 DEF x, y
  <2>4. x \in {0, 1, 2} /\ y \in {0, 1}
    BY <2>3, SMT
  <2>5. Prg(d) = x * PrgBank /\ Chr(d) = y * ChrBank
    BY DEF x, y, Prg, Chr
  <2> QED
    BY <2>4, <2>5, Banks
<1>3. s1 \in Seq(ToldPackets)
  <2>1. Told(CartSetCfgPacket(d)) /\ Told(DbgHltPacket) /\ Told(PpuDisablePacket)
    BY <1>1, CfgTold, ShortPackets
  <2> QED
    BY <2>1 DEF ToldPackets, Told, IsPacket
<1>4. s2 \in Seq(ToldPackets)
  <2>1. ASSUME NEW k \in 1 .. Prg(d) \div Block
        PROVE  prg(k) \in ToldPackets
    <3> DEFINE o == Block * (k - 1)
    <3>0. Prg(d) \in Nat /\ Block \in Nat /\ 0 < Block
      BY <1>2, Banks
    <3>1. o \in Nat /\ o + Block <= Prg(d)
      BY <3>0, BlockFits
    <3> HIDE DEF o
    <3>2. 16 + o \in Nat /\ 16 + o + Block <= Len(d)
      BY <1>1, <1>2, <3>1, Banks
    <3>3. Slice(d, 16 + o, Block) \in Seq(Bytes) /\ Len(Slice(d, 16 + o, Block)) = Block
      BY <3>2, Banks, SliceOf
    <3>4. 32768 + o \in Ushorts /\ Block \in Ushorts
      BY <1>2, <3>1, Banks, ByteRange, SMT DEF Ushorts
    <3>5. Told(CpuMemWrPacket(32768 + o, Slice(d, 16 + o, Block)))
      BY <3>3, <3>4, WriteTold, SMT
    <3> QED
      BY <3>5, SMT DEF ToldPackets, Told, IsPacket, o
  <2>2. Prg(d) \div Block \in Nat
    <3>1. \A m, b \in Nat : 0 < b => m \div b \in Nat
      BY SMT
    <3>2. Prg(d) \in Nat /\ Block \in Nat /\ 0 < Block
      BY <1>2, Banks
    <3> QED
      BY <3>1, <3>2
  <2> HIDE DEF prg
  <2> QED
    BY <2>1, <2>2
<1>5. s3 \in Seq(ToldPackets)
  <2>1. ASSUME NEW k \in 1 .. Chr(d) \div Block
        PROVE  chr(k) \in ToldPackets
    <3> DEFINE o == Block * (k - 1)
    <3>0. Chr(d) \in Nat /\ Block \in Nat /\ 0 < Block
      BY <1>2, Banks
    <3>1. o \in Nat /\ o + Block <= Chr(d)
      BY <3>0, BlockFits
    <3> HIDE DEF o
    <3>2. 16 + Prg(d) + o \in Nat /\ 16 + Prg(d) + o + Block <= Len(d)
      <4> DEFINE P == Prg(d)
                 C == Chr(d)
                 L == Len(d)
      <4>1. /\ PrgBank \in Nat /\ ChrBank \in Nat /\ Block \in Nat /\ P \in Nat
            /\ C \in Nat /\ o \in Nat /\ L \in Nat /\ P <= 2 * PrgBank /\ C <= ChrBank
            /\ o + Block <= C /\ L = 16 + 2 * PrgBank + ChrBank
        BY <1>1, <1>2, <3>1, Banks
      <4> HIDE DEF P, C, L
      <4>2. 16 + P + o \in Nat /\ 16 + P + o + Block <= L
        BY <4>1, SMT
      <4> QED
        BY <4>2 DEF P, L
    <3>3. /\ Slice(d, 16 + Prg(d) + o, Block) \in Seq(Bytes)
          /\ Len(Slice(d, 16 + Prg(d) + o, Block)) = Block
      BY <3>2, Banks, SliceOf
    <3>4. o \in Ushorts /\ Block \in Ushorts
      BY <1>2, <3>1, Banks, ByteRange, SMT DEF Ushorts
    <3>5. Told(PpuMemWrPacket(o, Slice(d, 16 + Prg(d) + o, Block)))
      BY <3>3, <3>4, WriteTold, SMT
    <3> QED
      BY <3>5, SMT DEF ToldPackets, Told, IsPacket, o
  <2>2. Chr(d) \div Block \in Nat
    <3>1. \A m, b \in Nat : 0 < b => m \div b \in Nat
      BY SMT
    <3>2. Chr(d) \in Nat /\ Block \in Nat /\ 0 < Block
      BY <1>2, Banks
    <3> QED
      BY <3>1, <3>2
  <2> HIDE DEF chr
  <2> QED
    BY <2>1, <2>2
<1>6. s4 \in Seq(ToldPackets)
  <2> DEFINE u == d[16 + Prg(d) - 4 + 1]
             v == d[16 + Prg(d) - 3 + 1]
  <2>1. u \in Bytes /\ v \in Bytes
    <3>1. 16 + Prg(d) - 4 + 1 \in 1 .. Len(d) /\ 16 + Prg(d) - 3 + 1 \in 1 .. Len(d)
      <4>1. PrgBank \in Nat /\ ChrBank \in Nat /\ Prg(d) \in Nat /\ Prg(d) <= 2 * PrgBank
        BY <1>2, Banks
      <4> HIDE DEF Prg
      <4> QED
        BY <4>1, <1>1, SMT
    <3> QED
      BY <3>1, ByteOf
  <2>2. CpuRegPcl \in Bytes /\ CpuRegPch \in Bytes
    BY ByteRange DEF CpuRegPcl, CpuRegPch
  <2> HIDE DEF u, v
  <2>3. Told(CpuRegWrPacket(CpuRegPcl, u)) /\ Told(CpuRegWrPacket(CpuRegPch, v)) /\ Told(DbgRunPacket)
    BY <2>1, <2>2, ShortPackets
  <2>4. << CpuRegWrPacket(CpuRegPcl, u), CpuRegWrPacket(CpuRegPch, v), DbgRunPacket >>
          \in Seq(ToldPackets)
    BY <2>3 DEF ToldPackets, Told, IsPacket
  <2> QED
    BY <2>4 DEF u, v
<1>7. RomPackets(d) = s1 \o s2 \o s3 \o s4
  BY DEF RomPackets
<1> HIDE DEF s1, s2, s3, s4
<1> QED
  BY <1>3, <1>4, <1>5, <1>6, <1>7

-----------------------------------------------------------------------------
(* The machine: its types, and what it does with a byte.                    *)
InPackets == {"echo", "cpu_rd", "ppu_rd", "cpu_wr", "ppu_wr", "reg_rd", "reg_wr", "cfg"}
Memories  == [Cells -> Bytes]
Machines  ==
    [in : InPackets \cup {OPCODE, DISABLED}, head : Seq(Bytes), addr : Nat, left : Nat,
     err : Bytes, cpu : Memories, ppu : Memories, regs : [Registers -> Bytes],
     cfg : {c \in Seq(Bytes) : Len(c) = 5}]

\* Where in a packet it can be: in its head, or before the last of its data.
Shape(n) ==
    /\ n.in \in {OPCODE, DISABLED} => n.head = <<>> /\ n.left = 0
    /\ n.in \in {"cpu_rd", "ppu_rd", "reg_rd"} => n.left = 0
    /\ n.in = "cfg" => n.left > 0
    /\ n.left > 0 => n.head = <<>>
    /\ n.in \in InPackets /\ n.left = 0 => Len(n.head) < HeadLen(n.in)

NesOK(n) == n \in Machines /\ Shape(n)

IsBetween(n) == n.in = OPCODE /\ n.head = <<>> /\ n.left = 0

LEMMA CellOK == \A a \in Nat : Cell(a) \in Cells
<1>1. MemSize \in Nat /\ MemSize > 0
  BY CommAssumption
<1> QED
  BY <1>1, SMT DEF Cell, Cells

LEMMA FetchOK ==
    ASSUME NEW mem \in Memories, NEW a \in Nat, NEW n \in Nat
    PROVE  Fetch(mem, a, n) \in Seq(Bytes) /\ Len(Fetch(mem, a, n)) = n
<1> DEFINE e(i) == mem[Cell((a + i - 1) % (Base * Base))]
<1>1. ASSUME NEW i \in 1 .. n
      PROVE  e(i) \in Bytes
  <2>1. a + i - 1 \in Nat
    OBVIOUS
  <2>2. (a + i - 1) % (Base * Base) \in Nat
    BY <2>1, ByteRange, SMT
  <2>3. Cell((a + i - 1) % (Base * Base)) \in Cells
    BY <2>2, CellOK
  <2> QED
    BY <2>3 DEF Memories
<1> HIDE DEF e
<1>2. [i \in 1 .. n |-> e(i)] \in Seq(Bytes) /\ Len([i \in 1 .. n |-> e(i)]) = n
  BY <1>1
<1> QED
  BY <1>2 DEF Fetch, e

LEMMA BetweenOK ==
    ASSUME NEW n \in Machines
    PROVE  NesOK(Between(n)) /\ IsBetween(Between(n))
<1> DEFINE m == [n EXCEPT !.in = OPCODE, !.head = <<>>, !.addr = 0, !.left = 0]
<1>1. <<>> \in Seq(Bytes)
  OBVIOUS
<1>2. m \in Machines /\ m.in = OPCODE /\ m.head = <<>> /\ m.left = 0
  BY <1>1 DEF Machines
<1>3. Between(n) = m
  BY DEF Between
<1> HIDE DEF m
<1> QED
  BY <1>2, <1>3 DEF NesOK, Shape, IsBetween, OPCODE, DISABLED, InPackets

\* After a byte of data.
LEMMA UsedOK ==
    ASSUME NEW n \in Machines, n.in \in InPackets \ {"cpu_rd", "ppu_rd", "reg_rd"},
           n.left > 0, n.head = <<>>
    PROVE  /\ NesOK(Used(n))
           /\ n.left = 1 => IsBetween(Used(n))
           /\ n.left # 1 => Used(n).in = n.in /\ Used(n).left = n.left - 1 /\ Used(n).head = <<>>
<1>1. CASE n.left = 1
  BY <1>1, BetweenOK DEF Used
<1>2. CASE n.left # 1
  <2> DEFINE m == [n EXCEPT !.left = @ - 1]
  <2>1. n.left \in Nat /\ n.left - 1 \in Nat /\ n.left - 1 > 0
    BY <1>2 DEF Machines
  <2>2. m \in Machines /\ m.in = n.in /\ m.left = n.left - 1 /\ m.head = <<>>
    BY <2>1 DEF Machines
  <2>3. Used(n) = m
    BY <1>2 DEF Used
  <2> HIDE DEF m
  <2> QED
    BY <1>2, <2>1, <2>2, <2>3 DEF NesOK, Shape, InPackets, OPCODE, DISABLED
<1> QED
  BY <1>1, <1>2

\* Between two packets, and while a program runs.
LEMMA AtOpcode ==
    ASSUME NesOK(nes), nes.in = OPCODE, NEW b \in Bytes
    PROVE  /\ NesOK(After(b)) /\ After(b).head = <<>> /\ Reply(b) \in Seq(Bytes)
           /\ b \in {0, 1, 2, 5, 6, 9, 10} =>
                 After(b).in = PacketOf[b] /\ After(b).left = 0 /\ Reply(b) = <<>>
           /\ b = 12 => After(b).in = "cfg" /\ After(b).left = 5 /\ Reply(b) = <<>>
           /\ b = 4 => After(b).in = DISABLED /\ After(b).left = 0 /\ Reply(b) = <<>>
           /\ b \notin {0, 1, 2, 4, 5, 6, 9, 10, 12} => IsBetween(After(b))
           /\ b \in {7, 8} => Len(Reply(b)) = 1
           /\ b = 7 => Reply(b) = << 1 >>
           /\ b \notin {7, 8} => Reply(b) = <<>>
<1> USE DEF OP_ECHO, OP_CPU_MEM_RD, OP_CPU_MEM_WR, OP_CPU_REG_RD, OP_CPU_REG_WR,
            OP_PPU_MEM_RD, OP_PPU_MEM_WR, OP_CART_SET_CFG, OP_DBG_RUN, OP_DBG_BRK,
            OP_QUERY_DBG_BRK, OP_QUERY_ERR_CODE
<1>1. DOMAIN PacketOf = {0, 1, 2, 5, 6, 9, 10}
  BY DEF PacketOf
<1>2. nes \in Machines /\ nes.head = <<>> /\ nes.left = 0
  BY DEF NesOK, Shape
<1>3. After(b) = AfterOpcode(b)
  BY DEF After, Running, OPCODE, DISABLED, InHead, LastOfHead
<1>4. \A c \in DOMAIN PacketOf : PacketOf[c] \in InPackets \ {"cfg"}
  BY DEF PacketOf, InPackets
<1>5. /\ Reply(b) \in Seq(Bytes)
      /\ b \in {7, 8} => Len(Reply(b)) = 1
      /\ b = 7 => Reply(b) = << 1 >>
      /\ b \notin {7, 8} => Reply(b) = <<>>
  <2>1. nes.err \in Bytes /\ 1 \in Bytes
    BY <1>2, ByteRange DEF Machines
  <2>2. /\ b = 7 => Reply(b) = << 1 >>
        /\ b = 8 => Reply(b) = <<nes.err>>
        /\ b \notin {7, 8} => Reply(b) = <<>>
    BY DEF Reply, Running, OPCODE, DISABLED, InHead, LastOfHead, Reads
  <2>3. /\ \A e \in Bytes : <<e>> \in Seq(Bytes) /\ Len(<<e>>) = 1
        /\ <<>> \in Seq(Bytes)
    OBVIOUS
  <2>4. CASE b \in {7, 8}
    <3>1. Reply(b) = << 1 >> \/ Reply(b) = <<nes.err>>
      BY <2>2, <2>4
    <3>2. Reply(b) \in Seq(Bytes) /\ Len(Reply(b)) = 1
      BY <2>1, <2>3, <3>1
    <3> QED
      BY <2>2, <2>4, <3>2
  <2>5. CASE b \notin {7, 8}
    BY <2>2, <2>3, <2>5
  <2> QED
    BY <2>4, <2>5
<1>6. CASE b \in DOMAIN PacketOf
  <2> DEFINE m == [nes EXCEPT !.in = PacketOf[b]]
  <2>1. m \in Machines /\ m.in = PacketOf[b] /\ m.head = <<>> /\ m.left = 0
    BY <1>2, <1>4, <1>6 DEF Machines
  <2>2. AfterOpcode(b) = m
    BY <1>1, <1>6 DEF AfterOpcode
  <2> HIDE DEF m
  <2>3. HeadLen(m.in) > 0 /\ Len(m.head) = 0
    BY <2>1 DEF HeadLen
  <2>4. NesOK(m)
    BY <2>1, <2>3, <1>4, <1>6 DEF NesOK, Shape, InPackets, OPCODE, DISABLED
  <2>5. /\ NesOK(After(b)) /\ After(b).head = <<>> /\ After(b).left = 0
        /\ After(b).in = PacketOf[b]
    BY <1>3, <2>1, <2>2, <2>4
  <2> QED
    BY <1>1, <1>5, <1>6, <2>5
<1>7. CASE b = 12
  <2> DEFINE m == [nes EXCEPT !.in = "cfg", !.left = 5]
  <2>1. m \in Machines /\ m.in = "cfg" /\ m.head = <<>> /\ m.left = 5
    BY <1>2 DEF Machines, InPackets
  <2>2. AfterOpcode(b) = m
    BY <1>7, <1>1 DEF AfterOpcode
  <2> HIDE DEF m
  <2>3. NesOK(m)
    BY <2>1 DEF NesOK, Shape, InPackets, OPCODE, DISABLED
  <2>4. /\ NesOK(After(b)) /\ After(b).head = <<>> /\ After(b).left = 5
        /\ After(b).in = "cfg"
    BY <1>3, <2>1, <2>2, <2>3
  <2> QED
    BY <1>5, <1>7, <2>4
<1>8. CASE b = 4
  <2> DEFINE m == [nes EXCEPT !.in = DISABLED]
  <2>1. m \in Machines /\ m.in = DISABLED /\ m.head = <<>> /\ m.left = 0
    BY <1>2 DEF Machines
  <2>2. AfterOpcode(b) = m
    BY <1>8, <1>1 DEF AfterOpcode
  <2> HIDE DEF m
  <2>3. NesOK(m)
    BY <2>1 DEF NesOK, Shape, InPackets, OPCODE, DISABLED
  <2>4. /\ NesOK(After(b)) /\ After(b).head = <<>> /\ After(b).left = 0
        /\ After(b).in = DISABLED
    BY <1>3, <2>1, <2>2, <2>3
  <2> QED
    BY <1>5, <1>8, <2>4
<1>9. CASE b \notin {0, 1, 2, 4, 5, 6, 9, 10, 12}
  <2> DEFINE m == [nes EXCEPT !.err = 2]
  <2>0. 2 \in Bytes
    BY ByteRange
  <2>1. m \in Machines /\ m.in = OPCODE /\ m.head = <<>> /\ m.left = 0
    BY <1>2, <2>0 DEF Machines
  <2>2. AfterOpcode(b) \in {nes, m}
    BY <1>9, <1>1 DEF AfterOpcode
  <2> HIDE DEF m
  <2>3. NesOK(m) /\ IsBetween(m) /\ IsBetween(nes)
    BY <1>2, <2>1 DEF NesOK, Shape, IsBetween, InPackets, OPCODE, DISABLED
  <2>4. NesOK(After(b)) /\ IsBetween(After(b))
    BY <1>3, <2>2, <2>3
  <2>5. After(b).head = <<>>
    BY <2>4 DEF IsBetween
  <2> QED
    BY <1>5, <1>9, <2>4, <2>5
<1> QED
  BY <1>1, <1>6, <1>7, <1>8, <1>9

LEMMA AtRun ==
    ASSUME NesOK(nes), nes.in = DISABLED, NEW b \in Bytes
    PROVE  /\ NesOK(After(b)) /\ Reply(b) \in Seq(Bytes)
           /\ After(b) = nes \/ (b = 3 /\ IsBetween(After(b)))
           /\ b # 3 => After(b) = nes
           /\ Reply(b) = IF b = 7 THEN << 0 >> ELSE <<>>
<1>1. nes \in Machines /\ nes.head = <<>> /\ nes.left = 0
  BY DEF NesOK, Shape
<1> DEFINE m == [nes EXCEPT !.in = OPCODE]
<1>2. m \in Machines /\ m.in = OPCODE /\ m.head = <<>> /\ m.left = 0
  BY <1>1 DEF Machines
<1>3. After(b) = IF b = 3 THEN m ELSE nes
  BY DEF After, Running, OP_DBG_BRK, OPCODE, DISABLED, InHead, LastOfHead
<1> HIDE DEF m
<1>4. NesOK(m) /\ IsBetween(m)
  BY <1>2 DEF NesOK, Shape, IsBetween, InPackets, OPCODE, DISABLED
<1>5. Reply(b) = IF b = 7 THEN << 0 >> ELSE <<>>
  BY DEF Reply, Running, OP_QUERY_DBG_BRK, OP_QUERY_ERR_CODE, OPCODE, DISABLED, Reads, InHead,
         LastOfHead
<1>6. << 0 >> \in Seq(Bytes) /\ <<>> \in Seq(Bytes)
  BY ByteRange
<1>7. NesOK(After(b)) /\ (After(b) = nes \/ (b = 3 /\ IsBetween(After(b))))
  <2>1. CASE b = 3
    BY <1>3, <1>4, <2>1
  <2>2. CASE b # 3
    <3>1. After(b) = nes
      BY <1>3, <2>2
    <3> QED
      BY <3>1, Zenon
  <2> QED
    BY <2>1, <2>2
<1>8. b # 3 => After(b) = nes
  BY <1>3
<1> QED
  BY <1>5, <1>6, <1>7, <1>8

\* In the head of a packet, and at its last byte.
LEMMA AtHead ==
    ASSUME NesOK(nes), nes.in \in InPackets, nes.left = 0, NEW b \in Bytes,
           Len(nes.head) # HeadLen(nes.in) - 1
    PROVE  /\ NesOK(After(b)) /\ Reply(b) = <<>>
           /\ After(b).in = nes.in /\ After(b).left = 0 /\ After(b).head = Append(nes.head, b)
           /\ After(b).cpu = nes.cpu /\ After(b).ppu = nes.ppu
<1> DEFINE m == [nes EXCEPT !.head = Append(@, b)]
<1>1. nes \in Machines /\ nes.head \in Seq(Bytes)
  BY DEF NesOK, Machines
<1>2. nes.in \notin {OPCODE, DISABLED} /\ nes.in # "cfg"
  BY DEF InPackets, OPCODE, DISABLED, NesOK, Shape
<1>3. InHead /\ ~LastOfHead
  BY <1>2 DEF InHead, LastOfHead
<1>4. After(b) = m
  BY <1>2, <1>3 DEF After, Running
<1>5. Reply(b) = <<>>
  <2>1. nes.in = "reg_rd" => LastOfHead
    <3>1. HeadLen("reg_rd") = 1
      BY DEF HeadLen, Reads, Writes
    <3>2. Len(nes.head) \in Nat
      BY <1>1
    <3> QED
      BY <1>3, <3>1, <3>2 DEF LastOfHead, NesOK, Shape, InPackets
  <2> QED
    BY <1>2, <1>3, <2>1 DEF Reply, Running
<1>6. m \in Machines /\ m.in = nes.in /\ m.left = 0 /\ m.head = Append(nes.head, b)
      /\ m.cpu = nes.cpu /\ m.ppu = nes.ppu
  <2>1. Append(nes.head, b) \in Seq(Bytes)
    BY <1>1
  <2> QED
    BY <1>1, <2>1 DEF Machines
<1> HIDE DEF m
<1>7. Len(m.head) < HeadLen(m.in)
  <2>1. Len(nes.head) \in Nat /\ Len(m.head) = Len(nes.head) + 1 /\ HeadLen(nes.in) \in Nat
    BY <1>1, <1>6 DEF HeadLen
  <2>2. Len(nes.head) < HeadLen(nes.in)
    BY DEF NesOK, Shape
  <2> QED
    BY <1>6, <2>1, <2>2
<1>8. NesOK(m)
  BY <1>2, <1>6, <1>7 DEF NesOK, Shape
<1> QED
  BY <1>4, <1>5, <1>6, <1>8

LEMMA HeadLens ==
    /\ HeadLen("echo") = 2 /\ HeadLen("reg_rd") = 1 /\ HeadLen("reg_wr") = 1
    /\ HeadLen("cpu_rd") = 4 /\ HeadLen("ppu_rd") = 4
    /\ HeadLen("cpu_wr") = 4 /\ HeadLen("ppu_wr") = 4
  BY DEF HeadLen, Reads, Writes

LEMMA AtHeadEnd ==
    ASSUME NesOK(nes), nes.in \in InPackets, nes.left = 0, NEW b \in Bytes,
           Len(nes.head) = HeadLen(nes.in) - 1
    PROVE  /\ NesOK(After(b)) /\ Reply(b) \in Seq(Bytes)
           /\ nes.in = "echo" => Count(nes.head, b) = nes.head[1] + Base * b
           /\ nes.in \in Reads \cup Writes => Count(nes.head, b) = nes.head[3] + Base * b
           /\ nes.in \in {"echo"} \cup Writes => Reply(b) = <<>> /\
                 IF Count(nes.head, b) > 0
                 THEN /\ After(b).in = nes.in /\ After(b).head = <<>>
                      /\ After(b).left = Count(nes.head, b)
                 ELSE IsBetween(After(b))
           /\ nes.in \in Reads => /\ IsBetween(After(b))
                 /\ Reply(b) = Fetch(IF nes.in = "cpu_rd" THEN nes.cpu ELSE nes.ppu,
                                     nes.head[1] + Base * nes.head[2], Count(nes.head, b))
           /\ nes.in = "reg_wr" => /\ After(b).in = nes.in /\ After(b).head = <<>>
                                   /\ After(b).left = 1 /\ Reply(b) = <<>>
           /\ nes.in = "reg_rd" => IsBetween(After(b)) /\ Len(Reply(b)) = 1
<1> DEFINE count == Count(nes.head, b)
           data(addr, n) == [nes EXCEPT !.head = <<>>, !.addr = addr, !.left = n]
<1>1. nes \in Machines /\ nes.head \in Seq(Bytes)
  BY DEF NesOK, Machines
<1>2. nes.in \notin {OPCODE, DISABLED} /\ nes.in # "cfg"
  BY DEF InPackets, OPCODE, DISABLED, NesOK, Shape
<1>3. InHead /\ LastOfHead
  BY <1>2 DEF InHead, LastOfHead
<1>4. After(b) = AfterHead(b)
  BY <1>2, <1>3 DEF After, Running
<1>5. ASSUME NEW a \in Nat, NEW n \in Nat, n > 0, nes.in \in {"echo", "reg_wr"} \cup Writes
      PROVE  /\ NesOK(data(a, n)) /\ data(a, n).in = nes.in /\ data(a, n).head = <<>>
             /\ data(a, n).left = n
  <2> DEFINE m == data(a, n)
  <2>1. <<>> \in Seq(Bytes)
    OBVIOUS
  <2>2. m \in Machines /\ m.in = nes.in /\ m.left = n /\ m.head = <<>>
    BY <1>1, <2>1 DEF Machines
  <2> HIDE DEF m
  <2>3. NesOK(m)
    BY <1>2, <1>5, <2>2 DEF NesOK, Shape, Writes
  <2> QED
    BY <2>2, <2>3 DEF m
<1>6. NesOK(Between(nes)) /\ IsBetween(Between(nes))
  BY <1>1, BetweenOK
<1>7. \A i \in 1 .. Len(nes.head) : nes.head[i] \in Bytes
  BY <1>1, ByteOf
<1> HIDE DEF data
<1>8. CASE nes.in = "echo"
  <2>1. Len(nes.head) = 1
    BY <1>8, HeadLens
  <2>2. count = nes.head[1] + Base * b /\ nes.head[1] \in Bytes
    BY <1>7, <2>1 DEF Count
  <2>3. count \in Nat
    BY <2>2, TwoBytes
  <2>4. After(b) = IF count > 0 THEN data(0, count) ELSE Between(nes)
    BY <1>4, <1>8 DEF AfterHead, data, Writes
  <2>5. Reply(b) = <<>>
    BY <1>3, <1>8 DEF Reply, Running, OPCODE, DISABLED, Reads
  <2>6. /\ count > 0 => /\ NesOK(After(b)) /\ After(b).in = nes.in /\ After(b).head = <<>>
                        /\ After(b).left = count
        /\ ~(count > 0) => NesOK(After(b)) /\ IsBetween(After(b))
    BY <1>5, <1>6, <1>8, <2>3, <2>4
  <2> HIDE DEF count
  <2> QED
    BY <1>8, <2>2, <2>5, <2>6 DEF Reads, Writes, count
<1>9. CASE nes.in \in Writes
  <2>1. Len(nes.head) = 3
    BY <1>9, HeadLens DEF Writes
  <2>2. /\ count = nes.head[3] + Base * b
        /\ nes.head[1] \in Bytes /\ nes.head[2] \in Bytes /\ nes.head[3] \in Bytes
    BY <1>7, <2>1 DEF Count
  <2>3. count \in Nat /\ nes.head[1] + Base * nes.head[2] \in Nat
    BY <2>2, TwoBytes
  <2>4. After(b) = IF count > 0 THEN data(nes.head[1] + Base * nes.head[2], count) ELSE Between(nes)
    BY <1>4, <1>9 DEF AfterHead, data, Writes
  <2>5. Reply(b) = <<>>
    BY <1>3, <1>9 DEF Reply, Running, OPCODE, DISABLED, Reads, Writes
  <2>6. /\ count > 0 => /\ NesOK(After(b)) /\ After(b).in = nes.in /\ After(b).head = <<>>
                        /\ After(b).left = count
        /\ ~(count > 0) => NesOK(After(b)) /\ IsBetween(After(b))
    BY <1>5, <1>6, <1>9, <2>3, <2>4
  <2> HIDE DEF count
  <2> QED
    BY <1>9, <2>2, <2>5, <2>6 DEF Reads, Writes, count
<1>10. CASE nes.in \in Reads
  <2>1. Len(nes.head) = 3
    BY <1>10, HeadLens DEF Reads
  <2>2. /\ count = nes.head[3] + Base * b
        /\ nes.head[1] \in Bytes /\ nes.head[2] \in Bytes /\ nes.head[3] \in Bytes
    BY <1>7, <2>1 DEF Count
  <2> DEFINE mem == IF nes.in = "cpu_rd" THEN nes.cpu ELSE nes.ppu
             a   == nes.head[1] + Base * nes.head[2]
  <2>3. count \in Nat /\ a \in Nat /\ mem \in Memories
    BY <1>1, <2>2, TwoBytes DEF Machines
  <2>4. After(b) = Between(nes)
    BY <1>4, <1>10 DEF AfterHead, Reads, Writes
  <2>5. Reply(b) = Fetch(mem, a, count)
    BY <1>3, <1>10 DEF Reply, Running, OPCODE, DISABLED, Reads
  <2> HIDE DEF mem, a, count
  <2>6. Reply(b) \in Seq(Bytes)
    BY <2>3, <2>5, FetchOK
  <2> QED
    BY <1>6, <1>10, <2>2, <2>4, <2>5, <2>6 DEF Reads, Writes, count, mem, a
<1>11. CASE nes.in = "reg_wr"
  <2>1. After(b) = data(b, 1)
    BY <1>4, <1>11 DEF AfterHead, data, Writes
  <2>2. Reply(b) = <<>>
    BY <1>3, <1>11 DEF Reply, Running, OPCODE, DISABLED, Reads
  <2>3. b \in Nat
    BY ByteRange
  <2>4. NesOK(After(b)) /\ After(b).in = nes.in /\ After(b).head = <<>> /\ After(b).left = 1
    BY <1>5, <1>11, <2>1, <2>3
  <2> QED
    BY <1>11, <2>2, <2>4 DEF Reads, Writes
<1>12. CASE nes.in = "reg_rd"
  <2>1. After(b) = Between(nes)
    BY <1>4, <1>12 DEF AfterHead, Reads, Writes
  <2> DEFINE r == IF b % 16 \in Registers THEN nes.regs[b % 16] ELSE 0
  <2>2. Reply(b) = <<r>>
    BY <1>12 DEF Reply, Running, OPCODE, DISABLED, Reads
  <2>3. r \in Bytes
    BY <1>1, ByteRange DEF Machines
  <2> HIDE DEF r
  <2>4. Reply(b) \in Seq(Bytes) /\ Len(Reply(b)) = 1
    BY <2>2, <2>3
  <2> QED
    BY <1>6, <1>12, <2>1, <2>4 DEF Reads, Writes
<1> QED
  BY <1>2, <1>8, <1>9, <1>10, <1>11, <1>12 DEF InPackets, Reads, Writes

\* A byte of data.
LEMMA AtData ==
    ASSUME NesOK(nes), nes.left > 0, NEW b \in Bytes
    PROVE  /\ NesOK(After(b)) /\ Reply(b) = IF nes.in = "echo" THEN <<b>> ELSE <<>>
           /\ nes.left = 1 => IsBetween(After(b))
           /\ nes.left # 1 => /\ After(b).in = nes.in /\ After(b).left = nes.left - 1
                              /\ After(b).head = <<>>
<1>1. nes \in Machines /\ nes.head = <<>>
  BY DEF NesOK, Shape
<1>2. /\ nes.in \notin {OPCODE, DISABLED, "cpu_rd", "ppu_rd", "reg_rd"}
      /\ nes.in \in InPackets \ {"cpu_rd", "ppu_rd", "reg_rd"}
  BY <1>1 DEF NesOK, Shape, Machines
<1>3. ~InHead /\ ~LastOfHead
  BY DEF InHead, LastOfHead
<1>4. After(b) = AfterData(b)
  BY <1>2, <1>3 DEF After, Running
<1>5. Reply(b) = IF nes.in = "echo" THEN <<b>> ELSE <<>>
  BY <1>2, <1>3 DEF Reply, Running, Reads
<1> DEFINE Alike(n) == n \in Machines /\ n.in = nes.in /\ n.left = nes.left /\ n.head = <<>>
<1>6. ASSUME NEW n, Alike(n)
      PROVE  /\ NesOK(Used(n))
             /\ nes.left = 1 => IsBetween(Used(n))
             /\ nes.left # 1 => /\ Used(n).in = nes.in /\ Used(n).left = nes.left - 1
                                /\ Used(n).head = <<>>
  <2>1. n \in Machines /\ n.in = nes.in /\ n.left = nes.left /\ n.head = <<>>
    BY <1>6
  <2>2. n.in \in InPackets \ {"cpu_rd", "ppu_rd", "reg_rd"} /\ n.left > 0
    BY <1>2, <2>1
  <2> QED
    BY <2>1, <2>2, UsedOK
<1>7. PICK n : Alike(n) /\ AfterData(b) = Used(n)
  <2> DEFINE moved == [nes EXCEPT !.addr = (@ + 1) % (Base * Base)]
             reg   == nes.addr % 16
             n1 == [moved EXCEPT !.cpu[Cell(nes.addr)] = b]
             n2 == [moved EXCEPT !.ppu[Cell(nes.addr)] = b]
             n3 == [nes EXCEPT !.cfg = Append(Tail(@), b)]
             n4 == [nes EXCEPT !.regs[reg] = b]
  <2>1. AfterData(b) \in {Used(nes), Used(n1), Used(n2), Used(n3), Used(n4)}
    BY DEF AfterData
  <2>2. Alike(nes)
    BY <1>1
  <2>3. Alike(moved)
    <3>1. (nes.addr + 1) % (Base * Base) \in Nat
      BY <1>1, ByteRange, SMT DEF Machines
    <3> QED
      BY <1>1, <3>1 DEF Machines
  <2>4. Alike(n1) /\ Alike(n2)
    <3> HIDE DEF moved
    <3>1. [moved.cpu EXCEPT ![Cell(nes.addr)] = b] \in Memories
      BY <2>3 DEF Machines, Memories
    <3>2. [moved.ppu EXCEPT ![Cell(nes.addr)] = b] \in Memories
      BY <2>3 DEF Machines, Memories
    <3> QED
      BY <2>3, <3>1, <3>2 DEF Machines
  <2>5. Alike(n3)
    <3>1. nes.cfg \in Seq(Bytes) /\ Len(nes.cfg) = 5
      BY <1>1 DEF Machines
    <3> DEFINE t == Tail(nes.cfg)
    <3>2. t \in Seq(Bytes) /\ Len(t) = 4
      <4>1. nes.cfg # <<>>
        BY <3>1
      <4> QED
        BY <3>1, <4>1
    <3> HIDE DEF t
    <3>3. Append(t, b) \in Seq(Bytes) /\ Len(Append(t, b)) = Len(t) + 1
      BY <3>2, Appended
    <3>4. Append(t, b) \in Seq(Bytes) /\ Len(Append(t, b)) = 5
      BY <3>2, <3>3
    <3> QED
      BY <1>1, <3>4 DEF Machines, t
  <2>6. Alike(n4)
    <3>1. [nes.regs EXCEPT ![reg] = b] \in [Registers -> Bytes]
      BY <1>1 DEF Machines
    <3> QED
      BY <1>1, <3>1 DEF Machines
  <2> HIDE DEF n1, n2, n3, n4, Alike
  <2> QED
    BY <2>1, <2>2, <2>4, <2>5, <2>6
<1> QED
  BY <1>4, <1>5, <1>6, <1>7

-----------------------------------------------------------------------------
(* In step: the wire holds the rest of the packet that the machine is in.   *)
OpOf == [echo |-> 0, cpu_rd |-> 1, cpu_wr |-> 2, reg_rd |-> 5, reg_wr |-> 6,
         ppu_rd |-> 9, ppu_wr |-> 10]

\* The packet whose head the machine has taken in part.
Full(n, w) == <<OpOf[n.in]>> \o n.head \o w

\* The machine n, with w to come and o bytes answered of a that are waited for.
Agrees(n, w, o, a) ==
    \/ w = <<>> /\ n.in \in {OPCODE, DISABLED} /\ o <= a
    \/ n.in = OPCODE /\ IsPacket(w) /\ o + ReturnBytesExpected(w) <= a
    \/ n.in = DISABLED /\ IsPacket(w) /\ Len(w) = 1 /\ o + ReturnBytesExpected(w) <= a
    \/ /\ n.in \in InPackets /\ n.left = 0
       /\ IsPacket(Full(n, w)) /\ o + ReturnBytesExpected(Full(n, w)) <= a
    \/ n.left > 0 /\ Len(w) = n.left /\ o + (IF n.in = "echo" THEN n.left ELSE 0) <= a

LEMMA NoBytes == \A s \in Seq(Bytes) : Len(s) = 0 => s = <<>>
  BY EmptySeq

LEMMA Assoc == \A s, t, u \in Seq(Bytes) : (s \o t) \o u = s \o (t \o u)
  BY ConcatAssociative

\* A sequence and its first byte.
LEMMA FirstByte ==
    ASSUME NEW w \in Seq(Bytes), w # <<>>
    PROVE  /\ Head(w) \in Bytes /\ Head(w) = w[1] /\ Tail(w) \in Seq(Bytes)
           /\ Len(w) \in Nat /\ Len(w) >= 1 /\ Len(Tail(w)) = Len(w) - 1
           /\ (Len(w) = 1 => Tail(w) = <<>>)
           /\ <<Head(w)>> \o Tail(w) = w
<1>1. Head(w) \in Bytes /\ Head(w) = w[1] /\ Tail(w) \in Seq(Bytes)
      /\ Len(w) \in Nat /\ Len(w) >= 1 /\ Len(Tail(w)) = Len(w) - 1
  OBVIOUS
<1>2. ASSUME Len(w) = 1 PROVE Tail(w) = <<>>
  <2> DEFINE t == Tail(w)
  <2>1. t \in Seq(Bytes) /\ Len(t) = 0
    BY <1>1, <1>2
  <2> HIDE DEF t
  <2>2. t = <<>>
    BY <2>1, NoBytes
  <2> QED
    BY <2>2 DEF t
<1>3. <<Head(w)>> \o Tail(w) = w
  <2> DEFINE h == <<Head(w)>>
             t == Tail(w)
             u == h \o t
  <2>1. h \in Seq(Bytes) /\ Len(h) = 1 /\ h[1] = w[1]
    BY <1>1
  <2>2. t \in Seq(Bytes) /\ Len(t) = Len(w) - 1 /\ \A i \in 1 .. Len(w) - 1 : t[i] = w[i + 1]
    OBVIOUS
  <2> HIDE DEF h, t
  <2> HIDE DEF u
  <2>3. /\ u \in Seq(Bytes) /\ Len(u) = Len(h) + Len(t)
        /\ \A i \in 1 .. Len(h) + Len(t) : u[i] = IF i <= Len(h) THEN h[i] ELSE t[i - Len(h)]
    BY <2>1, <2>2, Joined DEF u
  <2>4. Len(u) = Len(w) /\ \A i \in 1 .. Len(u) : u[i] = w[i]
    BY <1>1, <2>1, <2>2, <2>3
  <2> QED
    BY <2>3, <2>4, SeqEqual DEF u, h, t
<1> QED
  BY <1>1, <1>2, <1>3

LEMMA AppendTail ==
    ASSUME NEW op \in Bytes, NEW h \in Seq(Bytes), NEW w \in Seq(Bytes), w # <<>>
    PROVE  <<op>> \o Append(h, Head(w)) \o Tail(w) = <<op>> \o h \o w
<1> DEFINE f == <<op>>
           e == <<Head(w)>>
           t == Tail(w)
<1>1. f \in Seq(Bytes) /\ e \in Seq(Bytes) /\ t \in Seq(Bytes) /\ e \o t = w
  BY FirstByte
<1>2. Append(h, Head(w)) = h \o e
  BY FirstByte, AppendIsConcat
<1> HIDE DEF f, e, t
<1>3. (f \o (h \o e)) \o t = f \o ((h \o e) \o t)
  <2> DEFINE g == h \o e
  <2>1. g \in Seq(Bytes)
    BY <1>1, Joined
  <2> HIDE DEF g
  <2>2. f \in Seq(Bytes) /\ g \in Seq(Bytes) /\ t \in Seq(Bytes)
    BY <1>1, <2>1
  <2>3. (f \o g) \o t = f \o (g \o t)
    BY <2>2, Assoc
  <2> QED
    BY <2>3 DEF g
<1>4. (h \o e) \o t = h \o w
  <2>1. h \in Seq(Bytes) /\ e \in Seq(Bytes) /\ t \in Seq(Bytes)
    BY <1>1
  <2>2. (h \o e) \o t = h \o (e \o t)
    BY <2>1, Assoc
  <2> QED
    BY <1>1, <2>2
<1>5. f \o (h \o w) = (f \o h) \o w
  <2>1. f \in Seq(Bytes) /\ h \in Seq(Bytes) /\ w \in Seq(Bytes)
    BY <1>1
  <2> QED
    BY <2>1, Assoc
<1> QED
  BY <1>2, <1>3, <1>4, <1>5 DEF f, t

\* Where the head and the next byte are in the whole packet.
LEMMA InFull ==
    ASSUME NEW op \in Bytes, NEW h \in Seq(Bytes), NEW w \in Seq(Bytes), w # <<>>
    PROVE  LET p == <<op>> \o h \o w
           IN  /\ Len(p) = 1 + Len(h) + Len(w) /\ p[1] = op
               /\ \A i \in 1 .. Len(h) : p[i + 1] = h[i]
               /\ p[Len(h) + 2] = Head(w)
<1> DEFINE f == <<op>>
           s == f \o h
           p == s \o w
<1>1. f \in Seq(Bytes) /\ Len(f) = 1 /\ f[1] = op
  OBVIOUS
<1> HIDE DEF f
<1>2. s \in Seq(Bytes) /\ Len(s) = 1 + Len(h) /\ s[1] = op /\ \A i \in 1 .. Len(h) : s[i + 1] = h[i]
  <2> HIDE DEF s
  <2>1. /\ s \in Seq(Bytes) /\ Len(s) = Len(f) + Len(h)
        /\ \A i \in 1 .. Len(f) + Len(h) : s[i] = IF i <= Len(f) THEN f[i] ELSE h[i - Len(f)]
    BY <1>1, Joined DEF s
  <2>2. Len(h) \in Nat
    OBVIOUS
  <2>3. s \in Seq(Bytes) /\ Len(s) = 1 + Len(h) /\ s[1] = op
    BY <1>1, <2>1, <2>2
  <2>4. ASSUME NEW i \in 1 .. Len(h) PROVE s[i + 1] = h[i]
    <3>1. i + 1 \in 1 .. Len(f) + Len(h) /\ ~(i + 1 <= Len(f)) /\ i + 1 - Len(f) = i
      BY <1>1, <2>2
    <3> QED
      BY <2>1, <3>1
  <2> QED
    BY <2>3, <2>4
<1> HIDE DEF s
<1>3. Len(p) = 1 + Len(h) + Len(w) /\ p[1] = op /\ (\A i \in 1 .. Len(h) : p[i + 1] = h[i])
      /\ p[Len(h) + 2] = Head(w)
  <2> HIDE DEF p
  <2>1. /\ p \in Seq(Bytes) /\ Len(p) = Len(s) + Len(w)
        /\ \A i \in 1 .. Len(s) + Len(w) : p[i] = IF i <= Len(s) THEN s[i] ELSE w[i - Len(s)]
    BY <1>2, Joined DEF p
  <2>2. Len(h) \in Nat /\ Len(w) \in Nat /\ Len(w) >= 1 /\ Head(w) = w[1]
    BY FirstByte
  <2>3. Len(p) = 1 + Len(h) + Len(w) /\ p[1] = op
    BY <1>2, <2>1, <2>2
  <2>4. ASSUME NEW i \in 1 .. Len(h) PROVE p[i + 1] = h[i]
    <3>1. i + 1 \in 1 .. Len(s) + Len(w) /\ i + 1 <= Len(s)
      BY <1>2, <2>2
    <3> QED
      BY <1>2, <2>1, <3>1
  <2>5. p[Len(h) + 2] = Head(w)
    <3>1. Len(h) + 2 \in 1 .. Len(s) + Len(w) /\ ~(Len(h) + 2 <= Len(s)) /\ Len(h) + 2 - Len(s) = 1
      BY <1>2, <2>2
    <3> QED
      BY <2>1, <2>2, <3>1
  <2> QED
    BY <2>3, <2>4, <2>5
<1> QED
  BY <1>3 DEF p, s, f

LEMMA OpOfPackets ==
    /\ \A b \in {0, 1, 2, 5, 6, 9, 10} : PacketOf[b] \in InPackets \ {"cfg"} /\ OpOf[PacketOf[b]] = b
    /\ \A p \in InPackets \ {"cfg"} : OpOf[p] \in Bytes
  BY ByteRange DEF PacketOf, OpOf, InPackets, OP_ECHO, OP_CPU_MEM_RD, OP_CPU_MEM_WR, OP_CPU_REG_RD,
            OP_CPU_REG_WR, OP_PPU_MEM_RD, OP_PPU_MEM_WR

LEMMA StepAtOpcode ==
    ASSUME NesOK(nes), nes.in = OPCODE, NEW w, IsPacket(w), NEW o \in Nat, NEW a \in Nat,
           o + ReturnBytesExpected(w) <= a
    PROVE  Agrees(After(Head(w)), Tail(w), o + Len(Reply(Head(w))), a)
<1> DEFINE b == Head(w)
           m == After(b)
           t == Tail(w)
           r == Reply(b)
<1>1. w \in Seq(Bytes) /\ w # <<>> /\ Len(w) = SizeInBytes(w)
  BY DEF IsPacket
<1>2. /\ b \in Bytes /\ b = w[1] /\ t \in Seq(Bytes) /\ Len(t) = Len(w) - 1 /\ Len(w) \in Nat
      /\ (Len(w) = 1 => t = <<>>) /\ <<b>> \o t = w
  BY <1>1, FirstByte
<1>3. /\ NesOK(m) /\ m.head = <<>> /\ r \in Seq(Bytes)
      /\ b \in {0, 1, 2, 5, 6, 9, 10} => m.in = PacketOf[b] /\ m.left = 0 /\ r = <<>>
      /\ b = 12 => m.in = "cfg" /\ m.left = 5 /\ r = <<>>
      /\ b = 4 => m.in = DISABLED /\ m.left = 0 /\ r = <<>>
      /\ b \notin {0, 1, 2, 4, 5, 6, 9, 10, 12} => IsBetween(m)
      /\ b \in {7, 8} => Len(r) = 1
      /\ b \notin {7, 8} => r = <<>>
  BY <1>2, AtOpcode
<1>4. ReturnBytesExpected(w) \in Nat
  BY ExpectedIsNat
<1>5. Len(<<>>) = 0
  OBVIOUS
<1> HIDE DEF m, r
<1>6. CASE b \in {0, 1, 2, 5, 6, 9, 10}
  <2>1. m.in \in InPackets /\ OpOf[m.in] = b
    BY <1>3, <1>6, OpOfPackets
  <2>2. Full(m, t) = <<b>> \o <<>> \o t
    BY <1>3, <2>1 DEF Full
  <2>3. <<b>> \o <<>> = <<b>>
    <3>1. <<b>> \in Seq(Bytes)
      BY <1>2
    <3> QED
      BY <3>1, ConcatEmptySeq
  <2>4. Full(m, t) = w
    BY <1>2, <2>2, <2>3
  <2>5. o + Len(r) = o
    BY <1>3, <1>5, <1>6
  <2> QED
    BY <1>3, <1>6, <2>1, <2>4, <2>5 DEF Agrees, m, r
<1>7. CASE b = 12
  <2>1. SizeInBytes(w) = 6 /\ ReturnBytesExpected(w) = 0
    BY <1>2, <1>7, Sizes
  <2>2. Len(t) = 5
    BY <1>1, <1>2, <2>1
  <2>3. m.in = "cfg" /\ m.left = 5 /\ o + Len(r) = o /\ o <= a
    BY <1>3, <1>5, <1>7, <2>1
  <2> HIDE DEF t
  <2>4. m.left > 0 /\ Len(t) = m.left /\ o + Len(r) + (IF m.in = "echo" THEN m.left ELSE 0) <= a
    BY <2>2, <2>3
  <2> QED
    BY <2>4 DEF Agrees, m, r, t
<1>8. CASE b \notin {0, 1, 2, 5, 6, 9, 10, 12}
  <2>1. SizeInBytes(w) = 1 /\ ReturnBytesExpected(w) = IF b \in {7, 8} THEN 1 ELSE 0
    BY <1>2, <1>8, Sizes
  <2>2. t = <<>>
    BY <1>1, <1>2, <2>1
  <2>3. m.in \in {OPCODE, DISABLED}
    BY <1>3, <1>8 DEF IsBetween
  <2>4. Len(r) = IF b \in {7, 8} THEN 1 ELSE 0
    BY <1>3, <1>5
  <2>5. o + Len(r) <= a
    BY <2>1, <2>4
  <2> HIDE DEF t
  <2> QED
    BY <2>2, <2>3, <2>5 DEF Agrees, m, r, t
<1> QED
  BY <1>6, <1>7, <1>8

LEMMA StepAtRun ==
    ASSUME NesOK(nes), nes.in = DISABLED, NEW w, IsPacket(w), Len(w) = 1,
           NEW o \in Nat, NEW a \in Nat, o + ReturnBytesExpected(w) <= a
    PROVE  Agrees(After(Head(w)), Tail(w), o + Len(Reply(Head(w))), a)
<1> DEFINE b == Head(w)
           m == After(b)
           r == Reply(b)
<1>1. w \in Seq(Bytes) /\ w # <<>>
  BY DEF IsPacket
<1>2. b \in Bytes /\ b = w[1] /\ Tail(w) = <<>>
  BY <1>1, FirstByte
<1>3. /\ m = nes \/ IsBetween(m)
      /\ r = IF b = 7 THEN << 0 >> ELSE <<>>
  BY <1>2, AtRun
<1>4. m.in \in {OPCODE, DISABLED}
  BY <1>3 DEF IsBetween
<1>5. ReturnBytesExpected(w) \in Nat /\ (b = 7 => ReturnBytesExpected(w) = 1)
  BY <1>2, ExpectedIsNat, Sizes
<1>6. Len(r) = IF b = 7 THEN 1 ELSE 0
  BY <1>3
<1> HIDE DEF m, r
<1>7. o + Len(r) <= a
  BY <1>5, <1>6
<1> QED
  BY <1>2, <1>4, <1>7 DEF Agrees, m, r

\* The opcode of a packet, by where the machine is in it.
LEMMA OpOfIn ==
    /\ OpOf["echo"] = 0 /\ OpOf["cpu_rd"] = 1 /\ OpOf["cpu_wr"] = 2 /\ OpOf["reg_rd"] = 5
    /\ OpOf["reg_wr"] = 6 /\ OpOf["ppu_rd"] = 9 /\ OpOf["ppu_wr"] = 10
  BY DEF OpOf

LEMMA StepInHead ==
    ASSUME NesOK(nes), nes.in \in InPackets, nes.left = 0, NEW w \in Seq(Bytes), w # <<>>,
           IsPacket(Full(nes, w)), NEW o \in Nat, NEW a \in Nat,
           o + ReturnBytesExpected(Full(nes, w)) <= a
    PROVE  Agrees(After(Head(w)), Tail(w), o + Len(Reply(Head(w))), a)
<1> DEFINE b == Head(w)
           m == After(b)
           t == Tail(w)
           r == Reply(b)
           h == nes.head
           op == OpOf[nes.in]
           p == Full(nes, w)
           x == ReturnBytesExpected(p)
<1>1. /\ b \in Bytes /\ t \in Seq(Bytes) /\ Len(t) = Len(w) - 1 /\ Len(w) \in Nat
      /\ (Len(w) = 1 => t = <<>>)
  BY FirstByte
<1>2. nes.in \in InPackets \ {"cfg"} /\ op \in Bytes
  BY OpOfPackets DEF NesOK, Shape
<1>3. h \in Seq(Bytes) /\ Len(h) \in Nat
  BY DEF NesOK, Machines
<1>4. x \in Nat /\ o + x <= a
  BY ExpectedIsNat
<1>5. p = <<op>> \o h \o w
  BY DEF Full
<1>6. Len(<<>>) = 0
  OBVIOUS
<1>7. CASE Len(h) # HeadLen(nes.in) - 1
  <2>1. m.in = nes.in /\ m.left = 0 /\ m.head = Append(h, b) /\ r = <<>>
    BY <1>1, <1>7, AtHead
  <2> HIDE DEF m, t, r
  <2>2. Full(m, t) = <<op>> \o Append(h, b) \o t
    BY <2>1 DEF Full
  <2>3. Full(m, t) = p
    BY <1>2, <1>3, <1>5, <2>2, AppendTail DEF t
  <2>4. m.in \in InPackets /\ m.left = 0 /\ IsPacket(Full(m, t)) /\ o + Len(r) = o
    BY <1>6, <2>1, <2>3
  <2>5. o + Len(r) + ReturnBytesExpected(Full(m, t)) <= a
    BY <1>4, <2>3, <2>4
  <2> QED
    BY <2>4, <2>5 DEF Agrees, m, t, r
<1>8. CASE Len(h) = HeadLen(nes.in) - 1
  <2> DEFINE c == Count(h, b)
  <2>1. /\ NesOK(m) /\ r \in Seq(Bytes)
        /\ nes.in = "echo" => c = h[1] + Base * b
        /\ nes.in \in Reads \cup Writes => c = h[3] + Base * b
        /\ nes.in \in {"echo"} \cup Writes => r = <<>> /\
                 IF c > 0 THEN m.in = nes.in /\ m.head = <<>> /\ m.left = c
                 ELSE IsBetween(m)
        /\ nes.in \in Reads => /\ IsBetween(m)
                 /\ r = Fetch(IF nes.in = "cpu_rd" THEN nes.cpu ELSE nes.ppu,
                              h[1] + Base * h[2], c)
        /\ nes.in = "reg_wr" => m.in = nes.in /\ m.head = <<>> /\ m.left = 1 /\ r = <<>>
        /\ nes.in = "reg_rd" => IsBetween(m) /\ Len(r) = 1
    BY <1>1, <1>8, AtHeadEnd
  <2>2. /\ Len(p) = 1 + Len(h) + Len(w) /\ p[1] = op
        /\ (\A i \in 1 .. Len(h) : p[i + 1] = h[i]) /\ p[Len(h) + 2] = b
    <3> DEFINE q == <<op>> \o h \o w
    <3> HIDE DEF op, h
    <3>1. /\ Len(q) = 1 + Len(h) + Len(w) /\ q[1] = op
          /\ (\A i \in 1 .. Len(h) : q[i + 1] = h[i]) /\ q[Len(h) + 2] = Head(w)
      BY <1>2, <1>3, InFull
    <3> HIDE DEF q
    <3>2. p = q
      BY <1>5 DEF q, op, h
    <3> QED
      BY <3>1, <3>2
  <2>3. Len(p) = SizeInBytes(p)
    BY DEF IsPacket
  <2>11. SizeInBytes(p) = 1 + Len(h) + Len(w) /\ Len(w) \in Nat
    BY <1>1, <2>2, <2>3
  <2>4. \A i \in 1 .. Len(h) : h[i] \in Bytes
    BY <1>3, ByteOf
  <2> HIDE DEF m, t, r, c, h, op, p, b
  \* The wire holds the data alone, and then what follows is as told.
  <2>5. ASSUME c \in Nat, Len(t) = c, r = <<>>,
               IF c > 0 THEN m.in = nes.in /\ m.head = <<>> /\ m.left = c ELSE IsBetween(m),
               nes.in = "echo" => x = c
        PROVE  Agrees(m, t, o + Len(r), a)
    <3>1. o + Len(r) = o /\ o <= a
      BY <1>4, <1>6, <2>5
    <3>2. CASE c > 0
      <4>1. m.left > 0 /\ Len(t) = m.left /\ o + Len(r) + (IF m.in = "echo" THEN m.left ELSE 0) <= a
        BY <1>4, <2>5, <3>1, <3>2
      <4> QED
        BY <4>1 DEF Agrees
    <3>3. CASE ~(c > 0)
      <4>1. t = <<>>
        BY <1>1, <2>5, <3>3, NoBytes
      <4> QED
        BY <2>5, <3>1, <3>3, <4>1 DEF Agrees, IsBetween
    <3> QED
      BY <3>2, <3>3
  <2>6. CASE nes.in = "echo"
    <3>1. Len(h) = 1 /\ op = 0
      BY <1>8, <2>6, HeadLens, OpOfIn DEF op
    <3>2. p[2] = h[1] /\ p[3] = b /\ h[1] \in Bytes
      BY <2>2, <2>4, <3>1
    <3>3. EchoCount(p) = c /\ c \in Nat
      BY <1>1, <2>1, <2>6, <3>2, TwoBytes DEF EchoCount
    <3>4. SizeInBytes(p) = 3 + c /\ x = c
      BY <2>2, <3>1, <3>3, Sizes
    <3>5. Len(t) = c
      BY <1>1, <2>11, <3>1, <3>3, <3>4
    <3>6. Agrees(m, t, o + Len(r), a)
      BY <2>1, <2>5, <2>6, <3>3, <3>4, <3>5
    <3> QED
      BY <3>6 DEF m, t, r, b
  <2>7. CASE nes.in \in Writes
    <3>1. Len(h) = 3 /\ op \in {2, 10}
      BY <1>8, <2>7, HeadLens, OpOfIn DEF op, Writes
    <3>2. p[4] = h[3] /\ p[5] = b /\ h[3] \in Bytes
      BY <2>2, <2>4, <3>1
    <3>3. NumBytes(p) = c /\ c \in Nat
      BY <1>1, <2>1, <2>7, <3>2, TwoBytes DEF NumBytes
    <3>4. SizeInBytes(p) = 5 + c
      BY <2>2, <3>1, <3>3, Sizes
    <3>5. Len(t) = c
      BY <1>1, <2>11, <3>1, <3>3, <3>4
    <3>6. Agrees(m, t, o + Len(r), a)
      BY <2>1, <2>5, <2>7, <3>3, <3>5 DEF Writes
    <3> QED
      BY <3>6 DEF m, t, r, b
  <2>8. CASE nes.in \in Reads
    <3>1. Len(h) = 3 /\ op \in {1, 9}
      BY <1>8, <2>8, HeadLens, OpOfIn DEF op, Reads
    <3>2. /\ p[4] = h[3] /\ p[5] = b
          /\ h[1] \in Bytes /\ h[2] \in Bytes /\ h[3] \in Bytes
      BY <2>2, <2>4, <3>1
    <3>3. NumBytes(p) = c /\ c \in Nat /\ h[1] + Base * h[2] \in Nat
      BY <1>1, <2>1, <2>8, <3>2, TwoBytes DEF NumBytes
    <3>4. SizeInBytes(p) = 5 /\ x = c
      BY <2>2, <3>1, <3>3, Sizes
    <3>5. t = <<>>
      <4>1. Len(t) = 0
        BY <1>1, <2>11, <3>1, <3>4
      <4> QED
        BY <1>1, <4>1, NoBytes
    <3>6. Len(r) = c
      <4>1. (IF nes.in = "cpu_rd" THEN nes.cpu ELSE nes.ppu) \in Memories
        BY DEF NesOK, Machines
      <4> QED
        BY <2>1, <2>8, <3>3, <4>1, FetchOK
    <3>7. m.in \in {OPCODE, DISABLED} /\ o + Len(r) <= a
      BY <1>4, <2>1, <2>8, <3>4, <3>6 DEF IsBetween
    <3> QED
      BY <3>5, <3>7 DEF Agrees, m, t, r, b
  <2>9. CASE nes.in = "reg_wr"
    <3>1. Len(h) = 0 /\ op = 6
      BY <1>8, <2>9, HeadLens, OpOfIn DEF op
    <3>2. SizeInBytes(p) = 3
      BY <2>2, <3>1, Sizes
    <3>3. Len(t) = 1
      BY <1>1, <2>11, <3>1, <3>2
    <3>4. m.in = "reg_wr" /\ m.left = 1 /\ o + Len(r) = o /\ o <= a
      BY <1>4, <1>6, <2>1, <2>9
    <3>5. m.left > 0 /\ Len(t) = m.left /\ o + Len(r) + (IF m.in = "echo" THEN m.left ELSE 0) <= a
      BY <3>2, <3>3, <3>4
    <3> QED
      BY <3>5 DEF Agrees, m, t, r, b
  <2>10. CASE nes.in = "reg_rd"
    <3>1. Len(h) = 0 /\ op = 5
      BY <1>8, <2>10, HeadLens, OpOfIn DEF op
    <3>2. SizeInBytes(p) = 2 /\ x = 1
      BY <2>2, <3>1, Sizes
    <3>3. t = <<>>
      <4>1. Len(t) = 0
        BY <1>1, <2>11, <3>1, <3>2
      <4> QED
        BY <1>1, <4>1, NoBytes
    <3>4. m.in \in {OPCODE, DISABLED} /\ o + Len(r) <= a
      BY <1>4, <2>1, <2>10, <3>2 DEF IsBetween
    <3> QED
      BY <3>3, <3>4 DEF Agrees, m, t, r, b
  <2> QED
    BY <1>2, <2>6, <2>7, <2>8, <2>9, <2>10 DEF InPackets, Reads, Writes
<1> QED
  BY <1>7, <1>8

LEMMA StepInData ==
    ASSUME NesOK(nes), nes.left > 0, NEW w \in Seq(Bytes), w # <<>>, Len(w) = nes.left,
           NEW o \in Nat, NEW a \in Nat, o + (IF nes.in = "echo" THEN nes.left ELSE 0) <= a
    PROVE  Agrees(After(Head(w)), Tail(w), o + Len(Reply(Head(w))), a)
<1> DEFINE b == Head(w)
           m == After(b)
           t == Tail(w)
           r == Reply(b)
<1>1. /\ b \in Bytes /\ t \in Seq(Bytes) /\ Len(t) = Len(w) - 1 /\ Len(w) \in Nat
      /\ (Len(w) = 1 => t = <<>>)
  BY FirstByte
<1>2. /\ NesOK(m) /\ r = IF nes.in = "echo" THEN <<b>> ELSE <<>>
      /\ nes.left = 1 => IsBetween(m)
      /\ nes.left # 1 => m.in = nes.in /\ m.left = nes.left - 1 /\ m.head = <<>>
  BY <1>1, AtData
<1>3. Len(r) = IF nes.in = "echo" THEN 1 ELSE 0
  BY <1>2
<1> HIDE DEF m, t, r, b
<1>4. CASE nes.left = 1
  <2>1. t = <<>> /\ m.in \in {OPCODE, DISABLED}
    BY <1>1, <1>2, <1>4 DEF IsBetween
  <2>2. o + Len(r) <= a
    BY <1>3, <1>4
  <2> QED
    BY <2>1, <2>2 DEF Agrees, m, t, r, b
<1>5. CASE nes.left # 1
  <2>1. m.left > 0 /\ Len(t) = m.left
    BY <1>1, <1>2, <1>5
  <2>2. o + Len(r) + (IF m.in = "echo" THEN m.left ELSE 0) <= a
    BY <1>1, <1>2, <1>3, <1>5
  <2> QED
    BY <2>1, <2>2 DEF Agrees, m, t, r, b
<1> QED
  BY <1>4, <1>5

\* A byte leaves the wire.
LEMMA AgreesStep ==
    ASSUME NesOK(nes), NEW w \in Seq(Bytes), w # <<>>, NEW o \in Nat, NEW a \in Nat,
           Agrees(nes, w, o, a)
    PROVE  Agrees(After(Head(w)), Tail(w), o + Len(Reply(Head(w))), a)
<1>1. CASE nes.in = OPCODE /\ IsPacket(w) /\ o + ReturnBytesExpected(w) <= a
  BY <1>1, StepAtOpcode
<1>2. CASE nes.in = DISABLED /\ IsPacket(w) /\ Len(w) = 1 /\ o + ReturnBytesExpected(w) <= a
  BY <1>2, StepAtRun
<1>3. CASE /\ nes.in \in InPackets /\ nes.left = 0
           /\ IsPacket(Full(nes, w)) /\ o + ReturnBytesExpected(Full(nes, w)) <= a
  BY <1>3, StepInHead
<1>4. CASE nes.left > 0 /\ Len(w) = nes.left /\ o + (IF nes.in = "echo" THEN nes.left ELSE 0) <= a
  BY <1>4, StepInData
<1> QED
  BY <1>1, <1>2, <1>3, <1>4 DEF Agrees

-----------------------------------------------------------------------------
(* Before the program and the machine are in step: the echo that verifies   *)
(* the connection, taken by a machine that may be anywhere in a packet of a *)
(* program that has died.  o is what it answers.                            *)
Greeting == <<0, 4, 0, 78, 69, 83, 0>>
Rest(k)  == SubSeq(Greeting, k + 1, 7)

\* The machine n is in the echo, k bytes of it taken.
Echoing(n, k, o) ==
    \/ k = 0 /\ n.in = OPCODE /\ o = <<>>
    \/ k = 1 /\ n.in = "echo" /\ n.left = 0 /\ n.head = <<>> /\ o = <<>>
    \/ k = 2 /\ n.in = "echo" /\ n.left = 0 /\ n.head = << 4 >> /\ o = <<>>
    \/ k \in 3 .. 6 /\ n.in = "echo" /\ n.left = 7 - k /\ o = SubSeq(pInitString, 1, k - 3)
    \/ k = 7 /\ n.in = OPCODE /\ o = pInitString

\* It has answered something else.
Refuted(o) == (Len(o) >= 1 /\ o[1] # 78) \/ (Len(o) >= 2 /\ o[2] # 69)

\* What a machine in a read of memory n.in would answer first.
ReadsFirst(n, w) ==
    LET full == n.head \o w
    IN  Fetch(IF n.in = "cpu_rd" THEN n.cpu ELSE n.ppu, full[1] + Base * full[2], 2)

\* Or it is where it never answers the whole of it, and has answered a byte at most.
Astray(n, k, o) ==
    /\ o = <<>> \/ (o = << 78 >> /\ k > 0)
    /\ \/ n.in = OPCODE /\ k > 0
       \/ n.in = DISABLED
       \/ n.in \in Writes \cup {"reg_wr", "cfg"}
       \/ n.in = "echo" /\ \/ k = 3 /\ n.left = 0 /\ n.head = <<>>
                           \/ k = 4 /\ n.left = 0 /\ n.head = << 78 >>
                           \/ k = 5 /\ n.left > 0
                           \/ k = 7
       \/ /\ o = <<>>
          /\ \/ n.in = "reg_rd" /\ k = 0
             \/ n.in = "echo" /\ \/ k = 0
                                 \/ k = 1 /\ (n.left > 0 \/ n.head = << 0 >>)
                                 \/ k = 2 /\ n.left > 0
             \/ n.in \in Reads /\ k <= Len(n.head) /\ ReadsFirst(n, Rest(k)) # <<78, 69>>

Verifying(n, k, o) == Echoing(n, k, o) \/ Refuted(o) \/ Astray(n, k, o)

LEMMA GreetingIs ==
    /\ Greeting = EchoPacket(pInitString)
    /\ Greeting \in Seq(Bytes) /\ Len(Greeting) = 7
    /\ Greeting[1] = 0 /\ Greeting[2] = 4 /\ Greeting[3] = 0 /\ Greeting[4] = 78
    /\ Greeting[5] = 69 /\ Greeting[6] = 83 /\ Greeting[7] = 0
<1>1. 4 % Base = 4 /\ 4 \div Base = 0 /\ Len(pInitString) = 4
  BY ByteRange DEF pInitString
<1>2. Word(Len(pInitString)) = <<4, 0>>
  BY <1>1 DEF Word
<1>3. EchoPacket(pInitString) = << 0 >> \o <<4, 0>> \o <<78, 69, 83, 0>>
  BY <1>2 DEF EchoPacket, DbgPacketOpCodeEcho, pInitString
<1>4. /\ Greeting \in Seq(Bytes) /\ Len(Greeting) = 7
      /\ Greeting[1] = 0 /\ Greeting[2] = 4 /\ Greeting[3] = 0 /\ Greeting[4] = 78
      /\ Greeting[5] = 69 /\ Greeting[6] = 83 /\ Greeting[7] = 0
  BY ByteRange DEF Greeting
<1> DEFINE a == << 0 >>
           b == <<4, 0>>
           c == <<78, 69, 83, 0>>
           u == a \o b
           v == u \o c
<1>5. a \in Seq(Bytes) /\ Len(a) = 1 /\ a[1] = 0
  BY ByteRange
<1>6. b \in Seq(Bytes) /\ Len(b) = 2 /\ b[1] = 4 /\ b[2] = 0
  BY ByteRange
<1>7. c \in Seq(Bytes) /\ Len(c) = 4 /\ c[1] = 78 /\ c[2] = 69 /\ c[3] = 83 /\ c[4] = 0
  BY ByteRange
<1> HIDE DEF a, b, c
<1> HIDE DEF u
<1>8. /\ u \in Seq(Bytes) /\ Len(u) = Len(a) + Len(b)
      /\ \A i \in 1 .. Len(a) + Len(b) : u[i] = IF i <= Len(a) THEN a[i] ELSE b[i - Len(a)]
  BY <1>5, <1>6, Joined DEF u
<1>9. u \in Seq(Bytes) /\ Len(u) = 3 /\ u[1] = 0 /\ u[2] = 4 /\ u[3] = 0
  BY <1>5, <1>6, <1>8
<1> HIDE DEF v
<1>10. /\ v \in Seq(Bytes) /\ Len(v) = Len(u) + Len(c)
       /\ \A i \in 1 .. Len(u) + Len(c) : v[i] = IF i <= Len(u) THEN u[i] ELSE c[i - Len(u)]
  BY <1>7, <1>9, Joined DEF v
<1>11. v \in Seq(Bytes) /\ Len(v) = 7
  BY <1>7, <1>9, <1>10
<1>12. ASSUME NEW i \in 1 .. 7 PROVE v[i] = Greeting[i]
  <2>1. v[i] = IF i <= 3 THEN u[i] ELSE c[i - 3]
    BY <1>7, <1>9, <1>10
  <2>2. i \in {1, 2, 3, 4, 5, 6, 7}
    OBVIOUS
  <2> QED
    BY <1>4, <1>7, <1>9, <2>1, <2>2
<1>13. v = Greeting
  BY <1>4, <1>11, <1>12, SeqEqual
<1> QED
  BY <1>3, <1>4, <1>13 DEF v, u, a, b, c

LEMMA RestIs ==
    /\ Rest(0) = Greeting /\ Rest(7) = <<>>
    /\ \A k \in 0 .. 6 : /\ Rest(k) \in Seq(Bytes) /\ Rest(k) # <<>>
                         /\ Head(Rest(k)) = Greeting[k + 1] /\ Tail(Rest(k)) = Rest(k + 1)
<1> DEFINE g == Greeting
<1>1. g \in Seq(Bytes) /\ Len(g) = 7
  BY GreetingIs
<1> HIDE DEF g
<1>2. SubSeq(g, 0 + 1, 7) = g
  <2>1. SubSeq(g, 1, Len(g)) = g
    BY <1>1
  <2> QED
    BY <1>1, <2>1
<1>3. SubSeq(g, 7 + 1, 7) = <<>>
  BY <1>1
<1>4. ASSUME NEW k \in 0 .. 6
      PROVE  LET s == SubSeq(g, k + 1, 7)
             IN  /\ s \in Seq(Bytes) /\ s # <<>> /\ Head(s) = g[k + 1]
                 /\ Tail(s) = SubSeq(g, k + 1 + 1, 7)
  <2> DEFINE m == k + 1
  <2>1. m \in 1 .. Len(g) /\ Len(g) \in m .. Len(g) /\ Len(g) \in Int /\ m \in Int
    BY <1>1
  <2> HIDE DEF m
  <2>2. Head(SubSeq(g, m, Len(g))) = g[m] /\ Tail(SubSeq(g, m, Len(g))) = SubSeq(g, m + 1, Len(g))
    BY <1>1, <2>1, HeadTailOfSubSeq
  <2>3. \A i \in m .. Len(g) : g[i] \in Bytes
    <3>1. ASSUME NEW i \in m .. Len(g) PROVE g[i] \in Bytes
      <4>1. i \in 1 .. Len(g)
        BY <1>1, <2>1
      <4> QED
        BY <1>1, <4>1, ByteOf
    <3> QED
      BY <3>1
  <2> DEFINE s == SubSeq(g, m, Len(g))
  <2>4. s \in Seq(Bytes) /\ Len(s) = IF m <= Len(g) THEN Len(g) - m + 1 ELSE 0
    BY <2>1, <2>3, SubSeqProperties
  <2> HIDE DEF s
  <2>5. Len(s) >= 1
    BY <2>1, <2>4
  <2>6. s # <<>>
    BY <2>4, <2>5, NotEmpty
  <2> QED
    BY <1>1, <2>2, <2>4, <2>6 DEF s, m
<1> QED
  BY <1>2, <1>3, <1>4 DEF Rest, g

LEMMA RefutedStays ==
    ASSUME NEW o \in Seq(Bytes), NEW r \in Seq(Bytes), Refuted(o)
    PROVE  Refuted(o \o r)
<1> DEFINE u == o \o r
<1> HIDE DEF u
<1>1. /\ Len(u) = Len(o) + Len(r)
      /\ \A i \in 1 .. Len(o) + Len(r) : u[i] = IF i <= Len(o) THEN o[i] ELSE r[i - Len(o)]
  BY Joined DEF u
<1>2. Len(o) \in Nat /\ Len(r) \in Nat
  OBVIOUS
<1>3. Refuted(u)
  BY <1>1, <1>2 DEF Refuted
<1> QED
  BY <1>3 DEF u

LEMMA NoReply == \A o \in Seq(Bytes) : o \o <<>> = o /\ <<>> \o o = o
  BY ConcatEmptySeq

\* The echo goes through, byte by byte.
LEMMA EchoingStep ==
    ASSUME NesOK(nes), NEW k \in 0 .. 6, NEW o, Echoing(nes, k, o)
    PROVE  Echoing(After(Greeting[k + 1]), k + 1, o \o Reply(Greeting[k + 1]))
<1> DEFINE b == Greeting[k + 1]
           m == After(b)
           r == Reply(b)
<1>0. b \in Bytes
  <2>1. k + 1 \in 1 .. Len(Greeting)
    BY GreetingIs
  <2> QED
    BY <2>1, GreetingIs, ByteOf
<1>1. <<>> \o <<>> = <<>> /\ <<>> \in Seq(Bytes) /\ Len(<<>>) = 0
  OBVIOUS
<1>2. CASE k = 0 /\ nes.in = OPCODE /\ o = <<>>
  <2>1. b = 0
    BY <1>2, GreetingIs
  <2>2. m.in = PacketOf[0] /\ m.left = 0 /\ r = <<>> /\ m.head = <<>>
    BY <1>0, <1>2, <2>1, AtOpcode
  <2>3. PacketOf[0] = "echo"
    BY DEF PacketOf, OP_ECHO, OP_CPU_MEM_RD, OP_CPU_MEM_WR, OP_CPU_REG_RD,
           OP_CPU_REG_WR, OP_PPU_MEM_RD, OP_PPU_MEM_WR
  <2> HIDE DEF m, r, b
  <2>4. Echoing(m, k + 1, o \o r)
    BY <1>1, <1>2, <2>2, <2>3 DEF Echoing
  <2> QED
    BY <2>4 DEF m, r, b
<1>3. CASE k = 1 /\ nes.in = "echo" /\ nes.left = 0 /\ nes.head = <<>> /\ o = <<>>
  <2>1. b = 4
    BY <1>3, GreetingIs
  <2>2. nes.in \in InPackets /\ Len(nes.head) # HeadLen(nes.in) - 1
    BY <1>1, <1>3, HeadLens DEF InPackets
  <2>3. m.in = nes.in /\ m.left = 0 /\ m.head = Append(nes.head, b) /\ r = <<>>
    BY <1>0, <1>3, <2>2, AtHead
  <2>4. Append(<<>>, 4) = << 4 >>
    OBVIOUS
  <2> HIDE DEF m, r, b
  <2>5. Echoing(m, k + 1, o \o r)
    BY <1>1, <1>3, <2>1, <2>3, <2>4 DEF Echoing
  <2> QED
    BY <2>5 DEF m, r, b
<1>4. CASE k = 2 /\ nes.in = "echo" /\ nes.left = 0 /\ nes.head = << 4 >> /\ o = <<>>
  <2>1. b = 0
    BY <1>4, GreetingIs
  <2>2. Len(<< 4 >>) = 1 /\ << 4 >>[1] = 4
    OBVIOUS
  <2>3. nes.in \in InPackets /\ Len(nes.head) = HeadLen(nes.in) - 1
    BY <1>4, <2>2, HeadLens DEF InPackets
  <2>4. /\ Count(nes.head, b) = nes.head[1] + Base * b
        /\ r = <<>>
        /\ IF Count(nes.head, b) > 0 THEN m.in = nes.in /\ m.left = Count(nes.head, b)
           ELSE IsBetween(m)
    BY <1>0, <1>4, <2>3, AtHeadEnd
  <2>5. Count(nes.head, b) = 4
    BY <1>4, <2>1, <2>2, <2>4, ByteRange
  <2>6. SubSeq(pInitString, 1, 0) = <<>>
    BY SubSeqEmpty
  <2> HIDE DEF m, r, b
  <2>7. m.in = "echo" /\ m.left = 4 /\ o \o r = <<>>
    BY <1>1, <1>4, <2>4, <2>5
  <2>8. Echoing(m, k + 1, o \o r)
    BY <1>4, <2>6, <2>7 DEF Echoing
  <2> QED
    BY <2>8 DEF m, r, b
<1>5. CASE k \in 3 .. 6 /\ nes.in = "echo" /\ nes.left = 7 - k /\ o = SubSeq(pInitString, 1, k - 3)
  <2>1. /\ pInitString \in Seq(Bytes) /\ Len(pInitString) = 4
        /\ pInitString[1] = 78 /\ pInitString[2] = 69 /\ pInitString[3] = 83 /\ pInitString[4] = 0
    BY ByteRange DEF pInitString
  <2> DEFINE n == k - 2
  <2>2. n \in 1 .. 4 /\ k \in {3, 4, 5, 6} /\ n \in 1 .. Len(pInitString) /\ n - 1 = k - 3
    BY <1>5, <2>1
  <2>3. b = pInitString[n]
    BY <2>1, <2>2, GreetingIs
  <2> HIDE DEF n
  <2>4. SubSeq(pInitString, 1, n) = SubSeq(pInitString, 1, n - 1) \o <<pInitString[n]>>
    <3>1. 1 \in 1 .. Len(pInitString) /\ n \in 1 .. Len(pInitString)
      BY <2>1, <2>2
    <3> QED
      BY <2>1, <3>1, SubSeqRecursiveSecond
  <2>5. nes.left > 0
    BY <1>5
  <2>6. /\ r = IF nes.in = "echo" THEN <<b>> ELSE <<>>
        /\ nes.left = 1 => IsBetween(m)
        /\ nes.left # 1 => m.in = nes.in /\ m.left = nes.left - 1
    BY <1>0, <2>5, AtData
  <2>7. o \o r = SubSeq(pInitString, 1, n)
    BY <1>5, <2>2, <2>3, <2>4, <2>6
  <2> HIDE DEF m, r, b
  <2>8. CASE k = 6
    <3>1. SubSeq(pInitString, 1, n) = pInitString
      <4>1. n = Len(pInitString)
        BY <2>1, <2>8 DEF n
      <4> QED
        BY <2>1, <4>1, SubSeqFull
    <3>2. m.in = OPCODE
      BY <1>5, <2>6, <2>8 DEF IsBetween
    <3>3. Echoing(m, k + 1, o \o r)
      BY <2>7, <2>8, <3>1, <3>2 DEF Echoing
    <3> QED
      BY <3>3 DEF m, r, b
  <2>9. CASE k # 6
    <3>1. k + 1 \in 3 .. 6 /\ n = k + 1 - 3
      BY <1>5, <2>9 DEF n
    <3>2. m.in = "echo" /\ m.left = 7 - (k + 1)
      BY <1>5, <2>6, <2>9
    <3>3. Echoing(m, k + 1, o \o r)
      BY <2>7, <3>1, <3>2 DEF Echoing
    <3> QED
      BY <3>3 DEF m, r, b
  <2> QED
    BY <2>8, <2>9
<1>6. k # 7
  OBVIOUS
<1> QED
  BY <1>2, <1>3, <1>4, <1>5, <1>6 DEF Echoing

LEMMA GreetingByte ==
    ASSUME NEW k \in 0 .. 6
    PROVE  /\ Greeting[k + 1] \in Bytes
           /\ k = 0 => Greeting[k + 1] = 0
           /\ k = 1 => Greeting[k + 1] = 4
           /\ k = 2 => Greeting[k + 1] = 0
           /\ k = 3 => Greeting[k + 1] = 78
           /\ k = 4 => Greeting[k + 1] = 69
           /\ k = 5 => Greeting[k + 1] = 83
           /\ k = 6 => Greeting[k + 1] = 0
<1>1. Greeting[k + 1] \in Bytes
  <2>1. k + 1 \in 1 .. Len(Greeting)
    BY GreetingIs
  <2> QED
    BY <2>1, GreetingIs, ByteOf
<1> DEFINE g == Greeting
<1>2. /\ g[1] = 0 /\ g[2] = 4 /\ g[3] = 0 /\ g[4] = 78 /\ g[5] = 69 /\ g[6] = 83 /\ g[7] = 0
  BY GreetingIs
<1> HIDE DEF g
<1>3. /\ (k = 0 => g[k + 1] = 0) /\ (k = 1 => g[k + 1] = 4) /\ (k = 2 => g[k + 1] = 0)
      /\ (k = 3 => g[k + 1] = 78) /\ (k = 4 => g[k + 1] = 69) /\ (k = 5 => g[k + 1] = 83)
      /\ (k = 6 => g[k + 1] = 0)
  BY <1>2
<1> QED
  BY <1>1, <1>3 DEF g

LEMMA Short == \A o \in {<<>>, << 78 >>} : o \in Seq(Bytes)
<1>1. 78 \in Bytes
  BY ByteRange
<1>2. <<>> \in Seq(Bytes) /\ \A x \in Bytes : <<x>> \in Seq(Bytes)
  OBVIOUS
<1> QED
  BY <1>1, <1>2

LEMMA OneByte == \A s \in Seq(Bytes) : Len(s) = 1 => s[1] \in Bytes /\ s = <<s[1]>>
<1> SUFFICES ASSUME NEW s \in Seq(Bytes), Len(s) = 1
             PROVE  s[1] \in Bytes /\ s = <<s[1]>>
  OBVIOUS
<1> DEFINE t == <<s[1]>>
<1>1. s[1] \in Bytes
  BY ByteOf
<1>2. t \in Seq(Bytes) /\ Len(t) = 1 /\ t[1] = s[1]
  BY <1>1
<1> HIDE DEF t
<1>3. s = t
  BY <1>2, SeqEqual
<1> QED
  BY <1>1, <1>3 DEF t

LEMMA OneWrong ==
    /\ \A x \in Bytes : x # 78 => Refuted(<<x>>)
    /\ \A o \in {<<>>, << 78 >>} : \A x \in Bytes \ {69, 78} : Refuted(o \o <<x>>)
<1>1. ASSUME NEW x \in Bytes, x # 78 PROVE Refuted(<<x>>)
  <2>1. Len(<<x>>) = 1 /\ <<x>>[1] = x
    OBVIOUS
  <2> QED
    BY <1>1, <2>1 DEF Refuted
<1>2. \A o \in {<<>>, << 78 >>} : \A x \in Bytes \ {69, 78} : Refuted(o \o <<x>>)
  <2> TAKE o \in {<<>>, << 78 >>}
  <2> TAKE x \in Bytes \ {69, 78}
  <2>1. CASE o = <<>>
    <3>1. <<x>> \in Seq(Bytes)
      OBVIOUS
    <3>2. o \o <<x>> = <<x>>
      BY <2>1, <3>1, NoReply
    <3> QED
      BY <1>1, <3>2
  <2>2. CASE o = << 78 >>
    <3> DEFINE e == <<x>>
               u == o \o e
    <3>1. e \in Seq(Bytes) /\ Len(e) = 1 /\ e[1] = x
      OBVIOUS
    <3>2. o \in Seq(Bytes) /\ Len(o) = 1
      BY <2>2, ByteRange
    <3> HIDE DEF e
    <3> HIDE DEF u
    <3>3. /\ Len(u) = Len(o) + Len(e)
          /\ \A i \in 1 .. Len(o) + Len(e) : u[i] = IF i <= Len(o) THEN o[i] ELSE e[i - Len(o)]
      BY <3>1, <3>2, Joined DEF u
    <3>4. Len(u) = 2 /\ u[2] = x
      BY <3>1, <3>2, <3>3
    <3>5. Refuted(u)
      BY <3>4 DEF Refuted
    <3> QED
      BY <3>5 DEF u, e
  <2> QED
    BY <2>1, <2>2
<1> QED
  BY <1>1, <1>2

\* A write and a configuration are taken in silence, up to the next opcode.
LEMMA SilentStep ==
    ASSUME NesOK(nes), nes.in \in Writes \cup {"reg_wr", "cfg"}, NEW b \in Bytes
    PROVE  Reply(b) = <<>> /\ (After(b).in = nes.in \/ After(b).in = OPCODE)
<1>1. nes.in \in InPackets /\ nes.in # "echo" /\ nes.left \in Nat /\ nes.in \notin Reads
  BY DEF InPackets, Writes, Reads, NesOK, Machines
<1>2. CASE nes.left > 0
  BY <1>1, <1>2, AtData DEF IsBetween
<1>3. CASE nes.left = 0
  <2>1. nes.in # "cfg"
    BY <1>3 DEF NesOK, Shape
  <2>2. CASE Len(nes.head) # HeadLen(nes.in) - 1
    BY <1>1, <1>3, <2>2, AtHead
  <2>3. CASE Len(nes.head) = HeadLen(nes.in) - 1
    <3>1. CASE nes.in \in Writes
      <4>1. /\ Reply(b) = <<>>
            /\ IF Count(nes.head, b) > 0 THEN After(b).in = nes.in ELSE IsBetween(After(b))
        BY <1>1, <1>3, <2>3, <3>1, AtHeadEnd
      <4> QED
        BY <4>1 DEF IsBetween
    <3>2. CASE nes.in = "reg_wr"
      BY <1>1, <1>3, <2>3, <3>2, AtHeadEnd
    <3> QED
      BY <2>1, <3>1, <3>2
  <2> QED
    BY <2>2, <2>3
<1> QED
  BY <1>1, <1>2, <1>3

\* Between two packets, of which the rest is no more than the start of another.
LEMMA AstrayOpcode ==
    ASSUME NesOK(nes), nes.in = OPCODE, NEW k \in 1 .. 6, NEW o \in {<<>>, << 78 >>}
    PROVE  Astray(After(Greeting[k + 1]), k + 1, o \o Reply(Greeting[k + 1]))
<1> DEFINE b == Greeting[k + 1]
           m == After(b)
           r == Reply(b)
<1>1. /\ b \in Bytes /\ k \in 0 .. 6
      /\ (k = 1 => b = 4) /\ (k = 2 => b = 0) /\ (k = 3 => b = 78) /\ (k = 4 => b = 69)
      /\ (k = 5 => b = 83) /\ (k = 6 => b = 0)
  BY GreetingByte
<1>2. k \in {1, 2, 3, 4, 5, 6}
  OBVIOUS
<1>3. b \in {0, 4, 69, 78, 83}
  BY <1>1, <1>2
<1>4. /\ m.head = <<>> /\ r = <<>>
      /\ b = 0 => m.in = PacketOf[0] /\ m.left = 0
      /\ b = 4 => m.in = DISABLED
      /\ b \in {69, 78, 83} => m.in = OPCODE
  <2> HIDE DEF b
  <2>1. /\ m.head = <<>>
        /\ b = 0 => m.in = PacketOf[b] /\ m.left = 0
        /\ b = 4 => m.in = DISABLED
        /\ b \notin {0, 1, 2, 4, 5, 6, 9, 10, 12} => IsBetween(m)
        /\ b \notin {7, 8} => r = <<>>
    BY <1>1, AtOpcode
  <2> HIDE DEF m, r
  <2>2. b \notin {7, 8} /\ (b \in {69, 78, 83} => b \notin {0, 1, 2, 4, 5, 6, 9, 10, 12})
    BY <1>3
  <2>3. b \in {69, 78, 83} => m.in = OPCODE
    BY <2>1, <2>2 DEF IsBetween
  <2> QED
    BY <2>1, <2>2, <2>3
<1>5. PacketOf[0] = "echo"
  BY DEF PacketOf, OP_ECHO, OP_CPU_MEM_RD, OP_CPU_MEM_WR, OP_CPU_REG_RD,
         OP_CPU_REG_WR, OP_PPU_MEM_RD, OP_PPU_MEM_WR
<1>6. o \o r = o
  <2>1. o \in Seq(Bytes)
    BY Short
  <2> QED
    BY <1>4, <2>1, NoReply
<1> HIDE DEF m, r, b
<1>7. Astray(m, k + 1, o)
  <2>1. CASE k \in {2, 6}
    <3>1. m.in = "echo" /\ m.left = 0
      BY <1>1, <1>4, <1>5, <2>1
    <3> QED
      BY <1>4, <2>1, <3>1 DEF Astray
  <2>2. CASE k \in {1, 3, 4, 5}
    <3>1. m.in \in {OPCODE, DISABLED} /\ k + 1 > 0
      BY <1>1, <1>4, <2>2
    <3> QED
      BY <3>1 DEF Astray
  <2> QED
    BY <1>2, <2>1, <2>2
<1> QED
  BY <1>6, <1>7 DEF m, r, b

LEMMA AstrayRun ==
    ASSUME NesOK(nes), nes.in = DISABLED, NEW k \in 0 .. 6, NEW o \in {<<>>, << 78 >>}
    PROVE  Astray(After(Greeting[k + 1]), k + 1, o \o Reply(Greeting[k + 1]))
<1> DEFINE b == Greeting[k + 1]
           m == After(b)
           r == Reply(b)
<1>1. b \in Bytes /\ b \notin {3, 7}
  <2>1. k \in {0, 1, 2, 3, 4, 5, 6}
    OBVIOUS
  <2> QED
    BY <2>1, GreetingByte
<1>2. m = nes /\ r = <<>>
  BY <1>1, AtRun
<1>3. o \o r = o
  <2>1. o \in Seq(Bytes)
    BY Short
  <2> QED
    BY <1>2, <2>1, NoReply
<1> HIDE DEF m, r, b
<1>4. k + 1 > 0
  OBVIOUS
<1>5. Astray(m, k + 1, o)
  BY <1>2, <1>4 DEF Astray
<1> QED
  BY <1>3, <1>5 DEF m, r, b

LEMMA AstraySilent ==
    ASSUME NesOK(nes), nes.in \in Writes \cup {"reg_wr", "cfg"}, NEW k \in 0 .. 6,
           NEW o \in {<<>>, << 78 >>}
    PROVE  Astray(After(Greeting[k + 1]), k + 1, o \o Reply(Greeting[k + 1]))
<1> DEFINE b == Greeting[k + 1]
           m == After(b)
           r == Reply(b)
<1>1. b \in Bytes
  BY GreetingByte
<1>2. r = <<>> /\ (m.in = nes.in \/ m.in = OPCODE)
  BY <1>1, SilentStep
<1>3. o \o r = o
  <2>1. o \in Seq(Bytes)
    BY Short
  <2> QED
    BY <1>2, <2>1, NoReply
<1> HIDE DEF m, r, b
<1>4. k + 1 > 0
  OBVIOUS
<1>5. Astray(m, k + 1, o)
  BY <1>2, <1>4 DEF Astray
<1> QED
  BY <1>3, <1>5 DEF m, r, b

\* Data of an echo that is not the program's.
LEMMA AstrayData ==
    ASSUME NesOK(nes), nes.in = "echo", nes.left > 0, NEW k \in {0, 1, 2, 5},
           NEW o \in {<<>>, << 78 >>}
    PROVE  Refuted(o \o Reply(Greeting[k + 1]))
<1> DEFINE b == Greeting[k + 1]
<1>1. b \in Bytes \ {69, 78}
  BY GreetingByte
<1>2. Reply(b) = <<b>>
  BY <1>1, AtData
<1> HIDE DEF b
<1>3. Refuted(o \o Reply(b))
  BY <1>1, <1>2, OneWrong
<1> QED
  BY <1>3 DEF b

\* An echo of another program, or one that the rest of this one seemed to start.
LEMMA AstrayEcho ==
    ASSUME NesOK(nes), nes.in = "echo", nes.left = 0, NEW k \in 0 .. 6, NEW o \in {<<>>, << 78 >>},
           \/ k = 0 \/ (k = 1 /\ nes.head = << 0 >>)
           \/ (k = 3 /\ nes.head = <<>>) \/ (k = 4 /\ nes.head = << 78 >>),
           k < 3 => o = <<>>
    PROVE  Astray(After(Greeting[k + 1]), k + 1, o \o Reply(Greeting[k + 1]))
<1> DEFINE b == Greeting[k + 1]
           m == After(b)
           r == Reply(b)
           h == nes.head
<1>1. /\ b \in Bytes /\ (k = 0 => b = 0) /\ (k = 1 => b = 4) /\ (k = 3 => b = 78) /\ (k = 4 => b = 69)
  BY GreetingByte
<1>2. /\ nes.in \in InPackets /\ HeadLen(nes.in) = 2 /\ h \in Seq(Bytes) /\ Len(h) \in Nat
      /\ Len(h) < 2
  BY HeadLens DEF InPackets, NesOK, Machines, Shape
<1>3. \A x \in {0, 78} : Len(<<x>>) = 1 /\ <<x>>[1] = x /\ Append(<<>>, x) = <<x>>
  OBVIOUS
<1>4. Len(<<>>) = 0 /\ k + 1 > 0
  OBVIOUS
<1>5. ASSUME r = <<>> PROVE o \o r = o
  <2>1. o \in Seq(Bytes)
    BY Short
  <2> QED
    BY <1>5, <2>1, NoReply
\* Its count is still to come.
<1>6. CASE Len(h) = 0
  <2>1. h = <<>>
    BY <1>2, <1>6, NoBytes
  <2>2. k \in {0, 3}
    <3>1. Len(<< 0 >>) # 0 /\ Len(<< 78 >>) # 0
      BY <1>3
    <3> QED
      BY <1>6, <3>1
  <2>3. m.in = nes.in /\ m.left = 0 /\ m.head = Append(h, b) /\ r = <<>>
    BY <1>1, <1>2, <1>6, AtHead
  <2>4. m.head = <<b>> /\ (k = 0 => b = 0 /\ o = <<>>) /\ (k = 3 => b = 78)
    BY <1>1, <1>3, <2>1, <2>2, <2>3
  <2> HIDE DEF m, r, b
  <2>5. CASE k = 0
    BY <1>5, <2>3, <2>4, <2>5 DEF Astray, m, r, b
  <2>6. CASE k = 3
    BY <1>5, <2>3, <2>4, <2>6 DEF Astray, m, r, b
  <2> QED
    BY <2>2, <2>5, <2>6
\* This byte makes its count.
<1>7. CASE Len(h) = 1
  <2> DEFINE c == Count(h, b)
  <2>1. /\ c = h[1] + Base * b /\ r = <<>>
        /\ IF c > 0 THEN m.in = nes.in /\ m.left = c ELSE IsBetween(m)
    BY <1>1, <1>2, <1>7, AtHeadEnd
  <2>2. h[1] \in Bytes
    BY <1>2, <1>7, ByteOf
  <2>3. k \in {0, 1, 4}
    <3>1. Len(<<>>) # 1
      OBVIOUS
    <3> QED
      BY <1>7, <3>1
  <2>4. c \in Nat /\ (k = 1 => c > 0) /\ (k = 4 => c > 0)
    <3>1. k = 1 => h[1] = 0 /\ b = 4
      BY <1>1, <1>3
    <3>2. k = 4 => h[1] = 78 /\ b = 69
      BY <1>1, <1>3
    <3>3. c \in Nat
      BY <1>1, <2>1, <2>2, TwoBytes
    <3> DEFINE x == h[1]
    <3>4. c = x + Base * b
      BY <2>1
    <3> HIDE DEF c, x, b
    <3>5. x = 0 /\ b = 4 => c > 0
      BY <3>4, ByteRange
    <3>6. x = 78 /\ b = 69 => c > 0
      BY <3>4, ByteRange
    <3> QED
      BY <3>1, <3>2, <3>3, <3>5, <3>6 DEF x
  <2> HIDE DEF m, r, b, c
  <2>5. CASE c > 0
    <3>1. m.in = "echo" /\ m.left > 0
      BY <2>1, <2>5
    <3>2. Astray(m, k + 1, o)
      BY <2>3, <3>1 DEF Astray
    <3> QED
      BY <1>5, <2>1, <3>2 DEF m, r, b
  <2>6. CASE ~(c > 0)
    <3>1. m.in = OPCODE
      BY <2>1, <2>6 DEF IsBetween
    <3>2. Astray(m, k + 1, o)
      BY <1>4, <3>1 DEF Astray
    <3> QED
      BY <1>5, <2>1, <3>2 DEF m, r, b
  <2> QED
    BY <2>5, <2>6
<1>8. Len(h) = 0 \/ Len(h) = 1
  <2> DEFINE n == Len(h)
  <2>1. n \in Nat /\ n < 2
    BY <1>2
  <2> HIDE DEF n
  <2>2. n = 0 \/ n = 1
    BY <2>1
  <2> QED
    BY <2>2 DEF n
<1> QED
  BY <1>6, <1>7, <1>8

\* A register that happens to hold the first byte.
LEMMA AstrayRegister ==
    ASSUME NesOK(nes), nes.in = "reg_rd"
    PROVE  Verifying(After(Greeting[0 + 1]), 0 + 1, <<>> \o Reply(Greeting[0 + 1]))
<1> DEFINE b == Greeting[0 + 1]
           m == After(b)
           r == Reply(b)
<1>1. b \in Bytes
  BY GreetingByte
<1>2. nes.in \in InPackets /\ nes.left = 0 /\ Len(nes.head) = HeadLen(nes.in) - 1
  <2>1. nes.head \in Seq(Bytes) /\ Len(nes.head) \in Nat
    BY DEF NesOK, Machines
  <2> QED
    BY <2>1, HeadLens DEF NesOK, Shape, InPackets
<1>3. m.in = OPCODE /\ r \in Seq(Bytes) /\ Len(r) = 1
  BY <1>1, <1>2, AtHeadEnd DEF IsBetween
<1>4. r[1] \in Bytes /\ r = <<r[1]>> /\ <<>> \o r = r
  BY <1>3, OneByte, NoReply
<1> HIDE DEF m, r, b
<1>5. CASE r[1] = 78
  BY <1>3, <1>4, <1>5 DEF Verifying, Astray, m, r, b
<1>6. CASE r[1] # 78
  BY <1>4, <1>6, OneWrong DEF Verifying, m, r, b
<1> QED
  BY <1>5, <1>6

\* A byte moves from the wire to the head.
LEMMA HeadAndWire ==
    ASSUME NEW h \in Seq(Bytes), NEW w \in Seq(Bytes), w # <<>>
    PROVE  Append(h, Head(w)) \o Tail(w) = h \o w
<1> DEFINE e == <<Head(w)>>
           t == Tail(w)
<1>1. e \in Seq(Bytes) /\ t \in Seq(Bytes) /\ e \o t = w
  BY FirstByte
<1>2. Append(h, Head(w)) = h \o e
  BY FirstByte, AppendIsConcat
<1> HIDE DEF e, t
<1>3. (h \o e) \o t = h \o (e \o t)
  BY <1>1, Assoc
<1> QED
  BY <1>1, <1>2, <1>3 DEF t

LEMMA FetchPrefix ==
    ASSUME NEW mem \in Memories, NEW a \in Nat, NEW c \in Nat, NEW i \in 1 .. 2, i <= c
    PROVE  Fetch(mem, a, c)[i] = Fetch(mem, a, 2)[i]
<1> DEFINE e(j) == mem[Cell((a + j - 1) % (Base * Base))]
<1>1. Fetch(mem, a, c) = [j \in 1 .. c |-> e(j)] /\ Fetch(mem, a, 2) = [j \in 1 .. 2 |-> e(j)]
  BY DEF Fetch
<1>2. i \in 1 .. c
  OBVIOUS
<1> HIDE DEF e
<1> QED
  BY <1>1, <1>2

LEMMA AstrayRead ==
    ASSUME NesOK(nes), nes.in \in Reads, NEW k \in 0 .. 6, k <= Len(nes.head),
           ReadsFirst(nes, Rest(k)) # <<78, 69>>
    PROVE  Verifying(After(Greeting[k + 1]), k + 1, <<>> \o Reply(Greeting[k + 1]))
<1> DEFINE b == Greeting[k + 1]
           m == After(b)
           r == Reply(b)
           h == nes.head
           w == Rest(k)
           t == Rest(k + 1)
           mem == IF nes.in = "cpu_rd" THEN nes.cpu ELSE nes.ppu
<1>1. b \in Bytes
  BY GreetingByte
<1>2. w \in Seq(Bytes) /\ w # <<>> /\ Head(w) = b /\ Tail(w) = t
  BY RestIs
<1>3. /\ nes.in \in InPackets /\ nes.left = 0 /\ h \in Seq(Bytes) /\ Len(h) \in Nat
      /\ HeadLen(nes.in) = 4 /\ mem \in Memories
  BY HeadLens DEF InPackets, Reads, NesOK, Machines, Shape
<1>4. <<>> \o r = r /\ r \in Seq(Bytes) /\ NesOK(m)
  <2>1. r \in Seq(Bytes) /\ NesOK(m)
    <3>1. CASE Len(h) # HeadLen(nes.in) - 1
      <4>1. <<>> \in Seq(Bytes)
        OBVIOUS
      <4>2. r = <<>> /\ NesOK(m)
        BY <1>1, <1>3, <3>1, AtHead
      <4> QED
        BY <4>1, <4>2
    <3>2. CASE Len(h) = HeadLen(nes.in) - 1
      BY <1>1, <1>3, <3>2, AtHeadEnd
    <3> QED
      BY <3>1, <3>2
  <2> QED
    BY <2>1, NoReply
<1>5. CASE Len(h) # 3
  <2>1. /\ m.in = nes.in /\ m.left = 0 /\ m.head = Append(h, b) /\ r = <<>>
        /\ m.cpu = nes.cpu /\ m.ppu = nes.ppu
    <3>1. Len(h) # HeadLen(nes.in) - 1
      BY <1>3, <1>5
    <3> QED
      BY <1>1, <1>3, <3>1, AtHead
  <2>2. m.head \o t = h \o w
    <3>1. Append(h, Head(w)) \o Tail(w) = h \o w
      <4> HIDE DEF h, w
      <4> QED
        BY <1>2, <1>3, HeadAndWire
    <3> HIDE DEF m, b, h, w, t
    <3> QED
      BY <1>2, <2>1, <3>1
  <2>3. Len(m.head) = Len(h) + 1
    BY <1>1, <1>3, <2>1
  <2> HIDE DEF m, r, b, w, t
  <2>4. ReadsFirst(m, t) = ReadsFirst(nes, w)
    BY <2>1, <2>2 DEF ReadsFirst
  <2>5. ReadsFirst(m, Rest(k + 1)) # <<78, 69>> /\ k + 1 <= Len(m.head)
    BY <1>3, <2>3, <2>4 DEF w, t
  <2>6. Astray(m, k + 1, <<>>)
    BY <2>1, <2>5 DEF Astray
  <2> QED
    BY <1>4, <2>1, <2>6 DEF Verifying, m, r, b
<1>6. CASE Len(h) = 3
  <2> DEFINE c == Count(h, b)
             a == h[1] + Base * h[2]
             f == Fetch(mem, a, 2)
  <2>1. IsBetween(m) /\ c = h[3] + Base * b /\ r = Fetch(mem, a, c)
    BY <1>1, <1>3, <1>6, AtHeadEnd
  <2>2. h[1] \in Bytes /\ h[2] \in Bytes /\ h[3] \in Bytes
    BY <1>3, <1>6, ByteOf
  <2>3. c \in Nat /\ a \in Nat
    BY <1>1, <2>1, <2>2, TwoBytes
  <2>4. ReadsFirst(nes, w) = f
    <3> DEFINE u == h \o w
    <3>1. u[1] = h[1] /\ u[2] = h[2]
      <4> HIDE DEF u, h, w
      <4>1. \A i \in 1 .. Len(h) + Len(w) : u[i] = IF i <= Len(h) THEN h[i] ELSE w[i - Len(h)]
        BY <1>2, <1>3, Joined DEF u
      <4>2. Len(w) \in Nat
        BY <1>2
      <4> QED
        BY <1>6, <4>1, <4>2
    <3> QED
      BY <3>1 DEF ReadsFirst
  <2>5. f # <<78, 69>>
    BY <2>4
  <2>6. f \in Seq(Bytes) /\ Len(f) = 2 /\ Len(r) = c
    <3> HIDE DEF mem, a, c, r
    <3>1. Len(Fetch(mem, a, c)) = c
      BY <1>3, <2>3, FetchOK
    <3>2. 2 \in Nat
      OBVIOUS
    <3>3. Fetch(mem, a, 2) \in Seq(Bytes) /\ Len(Fetch(mem, a, 2)) = 2
      BY <1>3, <2>3, <3>2, FetchOK
    <3> QED
      BY <2>1, <3>1, <3>3
  <2>7. f[1] # 78 \/ f[2] # 69
    <3> DEFINE e == <<78, 69>>
    <3>1. e \in Seq(Bytes) /\ Len(e) = 2 /\ e[1] = 78 /\ e[2] = 69
      BY ByteRange
    <3> HIDE DEF e, f
    <3>2. SUFFICES ASSUME f[1] = 78, f[2] = 69 PROVE f = e
      BY <2>5 DEF e
    <3>3. Len(e) = Len(f) /\ \A i \in 1 .. Len(f) : f[i] = e[i]
      <4>1. \A i \in 1 .. 2 : i = 1 \/ i = 2
        OBVIOUS
      <4> QED
        BY <2>6, <3>1, <3>2, <4>1
    <3> QED
      BY <2>6, <3>1, <3>3, SeqEqual
  <2>8. (c >= 1 => r[1] = f[1]) /\ (c >= 2 => r[2] = f[2])
    BY <1>3, <2>1, <2>3, FetchPrefix
  <2>9. m.in = OPCODE
    BY <2>1 DEF IsBetween
  <2> HIDE DEF m, r, b, c, f
  <2>10. CASE c = 0
    <3>1. r = <<>>
      BY <1>4, <2>6, <2>10, NoBytes
    <3>2. Astray(m, k + 1, <<>>)
      BY <2>9 DEF Astray
    <3> QED
      BY <1>4, <3>1, <3>2 DEF Verifying, m, r, b
  <2>11. CASE c = 1
    <3>1. r[1] \in Bytes /\ r = <<r[1]>>
      BY <1>4, <2>6, <2>11, OneByte
    <3>2. CASE r[1] = 78
      <4>1. Astray(m, k + 1, << 78 >>)
        BY <2>9 DEF Astray
      <4> QED
        BY <1>4, <3>1, <3>2, <4>1 DEF Verifying, m, r, b
    <3>3. CASE r[1] # 78
      <4>1. Refuted(r)
        BY <3>1, <3>3, OneWrong
      <4> QED
        BY <1>4, <4>1 DEF Verifying, m, r, b
    <3> QED
      BY <3>2, <3>3
  <2>12. CASE c >= 2
    <3>1. Refuted(r)
      BY <2>6, <2>7, <2>8, <2>12 DEF Refuted
    <3> QED
      BY <1>4, <3>1 DEF Verifying, m, r, b
  <2> QED
    BY <2>3, <2>10, <2>11, <2>12
<1> QED
  BY <1>5, <1>6

\* A byte of the echo is taken.
LEMMA VerifyStep ==
    ASSUME NesOK(nes), NEW k \in 0 .. 6, NEW o \in Seq(Bytes), Verifying(nes, k, o),
           Reply(Greeting[k + 1]) \in Seq(Bytes)
    PROVE  Verifying(After(Greeting[k + 1]), k + 1, o \o Reply(Greeting[k + 1]))
<1> DEFINE m == After(Greeting[k + 1])
           u == o \o Reply(Greeting[k + 1])
<1>1. CASE Echoing(nes, k, o)
  BY <1>1, EchoingStep DEF Verifying
<1>2. CASE Refuted(o)
  <2>1. Refuted(u)
    BY <1>2, RefutedStays
  <2> QED
    BY <2>1 DEF Verifying
<1>3. CASE Astray(nes, k, o)
  <2>1. o \in {<<>>, << 78 >>} /\ (o = <<>> \/ k > 0)
    BY <1>3 DEF Astray
  <2> SUFFICES Refuted(u) \/ Astray(m, k + 1, u) \/ Verifying(m, k + 1, u)
    BY DEF Verifying
  <2>2. CASE nes.in = OPCODE /\ k > 0
    <3>1. k \in 1 .. 6
      BY <2>2
    <3>2. Refuted(u) \/ Astray(m, k + 1, u)
      BY <2>1, <2>2, <3>1, AstrayOpcode
    <3> QED
      BY <3>2
  <2>3. CASE nes.in = DISABLED
    BY <2>1, <2>3, AstrayRun
  <2>4. CASE nes.in \in Writes \cup {"reg_wr", "cfg"}
    BY <2>1, <2>4, AstraySilent
  <2>5. CASE nes.in = "echo"
    <3>1. \/ k = 3 /\ nes.left = 0 /\ nes.head = <<>>
          \/ k = 4 /\ nes.left = 0 /\ nes.head = << 78 >>
          \/ k = 5 /\ nes.left > 0
          \/ o = <<>> /\ (k = 0 \/ (k = 1 /\ (nes.left > 0 \/ nes.head = << 0 >>))
                                \/ (k = 2 /\ nes.left > 0))
      BY <1>3, <2>5 DEF Astray, OPCODE, DISABLED, Writes, Reads
    <3>2. nes.left \in Nat
      BY DEF NesOK, Machines
    <3>3. CASE nes.left > 0
      <4>1. k \in {0, 1, 2, 5}
        BY <3>1, <3>3
      <4> QED
        BY <2>1, <2>5, <3>3, <4>1, AstrayData
    <3>4. CASE nes.left = 0
      <4>1. /\ \/ k = 0 \/ (k = 1 /\ nes.head = << 0 >>)
               \/ (k = 3 /\ nes.head = <<>>) \/ (k = 4 /\ nes.head = << 78 >>)
            /\ k < 3 => o = <<>>
        BY <3>1, <3>4
      <4> QED
        BY <2>1, <2>5, <3>4, <4>1, AstrayEcho
    <3> QED
      BY <3>2, <3>3, <3>4
  <2>6. CASE o = <<>> /\ nes.in = "reg_rd" /\ k = 0
    BY <2>6, AstrayRegister
  <2>7. CASE o = <<>> /\ nes.in \in Reads /\ k <= Len(nes.head) /\ ReadsFirst(nes, Rest(k)) # <<78, 69>>
    BY <2>7, AstrayRead
  <2> QED
    BY <1>3, <2>2, <2>3, <2>4, <2>5, <2>6, <2>7 DEF Astray
<1> QED
  BY <1>1, <1>2, <1>3 DEF Verifying

\* The program of the machine gets to a HLT.
LEMMA VerifyBreak ==
    ASSUME NEW k \in 0 .. 7, NEW o, Verifying(nes, k, o), nes.in = DISABLED,
           NEW m, m.in = OPCODE
    PROVE  Verifying(m, k, o)
<1>1. ~Echoing(nes, k, o)
  BY DEF Echoing, OPCODE, DISABLED
<1>2. CASE k > 0
  BY <1>1, <1>2 DEF Verifying, Astray
<1>3. CASE k = 0
  BY <1>1, <1>3 DEF Verifying, Astray, Echoing
<1> QED
  BY <1>2, <1>3

\* Wherever the machine is, but for what Mimics says.
LEMMA VerifyBegins ==
    ASSUME NesOK(nes), BetweenPackets \/ ~Mimics
    PROVE  Verifying(nes, 0, <<>>)
<1>1. nes.in \in InPackets \cup {OPCODE, DISABLED}
  BY DEF NesOK, Machines
<1>2. CASE nes.in \in {OPCODE, DISABLED} \cup Writes \cup {"reg_wr", "cfg", "reg_rd", "echo"}
  BY <1>2 DEF Verifying, Echoing, Astray
<1>3. CASE nes.in \in Reads
  <2>1. ~BetweenPackets
    BY <1>3 DEF BetweenPackets, Reads, OPCODE, DISABLED
  <2>2. ReadsFirst(nes, Greeting) # SubSeq(pInitString, 1, 2)
    BY <1>3, <2>1, GreetingIs DEF Mimics, ReadsFirst
  <2>3. SubSeq(pInitString, 1, 2) = <<78, 69>>
    <3> DEFINE s == pInitString
               t == SubSeq(s, 1, 2)
               e == <<78, 69>>
    <3>1. s \in Seq(Bytes) /\ Len(s) = 4 /\ s[1] = 78 /\ s[2] = 69
      BY ByteRange DEF pInitString
    <3>2. e \in Seq(Bytes) /\ Len(e) = 2 /\ e[1] = 78 /\ e[2] = 69
      BY ByteRange
    <3> HIDE DEF s, e
    <3>3. t \in Seq(Bytes) /\ Len(t) = 2 /\ t[1] = s[1] /\ t[2] = s[2]
      BY <3>1
    <3> HIDE DEF t
    <3>4. \A i \in 1 .. Len(t) : t[i] = e[i]
      <4>1. \A i \in 1 .. 2 : i = 1 \/ i = 2
        OBVIOUS
      <4> QED
        BY <3>1, <3>2, <3>3, <4>1
    <3>5. t = e
      BY <3>2, <3>3, <3>4, SeqEqual
    <3> QED
      BY <3>5 DEF t, s, e
  <2>4. 0 <= Len(nes.head)
    BY DEF NesOK, Machines
  <2>5. Rest(0) = Greeting
    BY RestIs
  <2> QED
    BY <1>3, <2>2, <2>3, <2>4, <2>5 DEF Verifying, Astray
<1> QED
  BY <1>1, <1>2, <1>3 DEF InPackets, Reads, Writes

\* The program is told of an echo only by a machine between two packets.
LEMMA VerifyEnds ==
    ASSUME NesOK(nes), out \in Seq(Bytes), Verifying(nes, 7, out), NEW heap \in Heap,
           Received(Len(pInitString), heap) = pInitString
    PROVE  nes.in = OPCODE /\ out = pInitString
<1>1. /\ Len(pInitString) = 4 /\ pInitString[1] = 78 /\ pInitString[2] = 69
      /\ pInitString[3] = 83 /\ pInitString[4] = 0
  BY DEF pInitString
<1> DEFINE g == Received(4, heap)
<1>2. \A i \in 1 .. 4 : g[i] = IF i <= Len(out) THEN out[i] ELSE heap
  BY DEF Received
<1>3. g[1] = 78 /\ g[2] = 69 /\ g[3] = 83 /\ g[4] = 0
  BY <1>1
<1> HIDE DEF g
<1>4. Len(out) \in Nat
  OBVIOUS
<1>5. ~Refuted(out)
  BY <1>2, <1>3, <1>4 DEF Refuted
<1>6. ~Astray(nes, 7, out)
  <2>1. Len(<<>>) = 0 /\ Len(<< 78 >>) = 1
    OBVIOUS
  <2>2. (out = <<>> => Len(out) = 0) /\ (out = << 78 >> => Len(out) = 1)
    BY <2>1
  <2>3. ~(Len(out) < 2)
    BY <1>2, <1>3, <1>4
  <2> QED
    <3> DEFINE n == Len(out)
    <3>2. ~(n < 2) /\ (out = <<>> => n = 0) /\ (out = << 78 >> => n = 1)
      BY <2>2, <2>3
    <3> HIDE DEF n
    <3>3. n # 0 /\ n # 1
      BY <3>2
    <3>1. out # <<>> /\ out # << 78 >>
      BY <3>2, <3>3
    <3> QED
      BY <3>1 DEF Astray
<1>7. Echoing(nes, 7, out)
  BY <1>5, <1>6 DEF Verifying
<1> QED
  BY <1>7 DEF Echoing

-----------------------------------------------------------------------------
(* The calls under way.                                                     *)

\* A load has its checks behind it when it sends; a run is at one of its calls.
FrameOK(f) ==
    /\ f.kind = "load" =>
          /\ {"at", "rom", "heap", "i", "ok"} \subseteq DOMAIN f
          /\ f.heap \in Bytes /\ f.i \in Nat \ {0} /\ f.ok \in BOOLEAN
          /\ f.at # "browse" => f.rom \in DOMAIN Roms
          /\ f.at \in {"browse", "open", "read"} => f.i = 1
          /\ f.at = "send" => f.ok
          /\ (f.at = "send" \/ (f.at = "check" /\ f.i > 2)) /\ f.ok => ~Faulty(Data(f), 2)
    /\ f.kind = "send" => {"at", "n", "got"} \subseteq DOMAIN f /\ f.n \in Nat
    /\ f.kind = "run" =>
          /\ {"at", "n", "pc", "script", "held"} \subseteq DOMAIN f
          /\ f.pc \in Nat \ {0} /\ f.script \in DOMAIN Scripts /\ f.held \subseteq DOMAIN PrgFiles
          /\ f.at = "receive" => f.n \in Nat

FramesOK(s) == \A i \in DOMAIN s : FrameOK(s[i])

\* The bytes that a call waits for.
WaitsFor(f) ==
    IF f.kind \in {"send", "run"} /\ f.at = "receive" THEN f.n
    ELSE IF f.kind = "run" /\ f.at = "halted?" THEN 1
    ELSE 0

Awaited == IF stack = <<>> THEN 0 ELSE WaitsFor(Top)

-----------------------------------------------------------------------------
(* The invariant: what program and machine know of each other at each step  *)
(* of Init, and once it is done.                                            *)
PortInv ==
    /\ NesOK(nes) /\ wire \in Seq(Bytes) /\ out \in Seq(Bytes)
    /\ port \in {"closed", "open", "dead"} /\ plugged \in BOOLEAN /\ rogue \in BOOLEAN
    /\ comm \in InitBoxes \cup {"none", "open", "set", "echo", "verify", "up", "failed"}
    /\ port # "open" => wire = <<>> /\ out = <<>>

ProgramInv ==
    /\ app \in {"off", "init", "loop", "exit"} /\ quit \in BOOLEAN
    /\ faults \in 0 .. MaxFaults
    /\ app = "off" => comm = "none"
    /\ app = "loop" => comm = "up"
    /\ comm = "open" => port = "closed"

\* Between the opening of the port and the echo.
Opened == comm \in {"set", "echo"} => wire = <<>> /\ out = <<>> /\ (BetweenPackets \/ ~Mimics)
Verifies == comm = "verify" => \E k \in 0 .. 7 : wire = Rest(k) /\ Verifying(nes, k, out)
Agreed == comm = "up" => Agrees(nes, wire, Len(out), Awaited)

WireInv == port = "open" /\ ~rogue => Opened /\ Verifies /\ Agreed

FrameInv == FramesOK(stack)

LinkInv == PortInv /\ ProgramInv /\ WireInv /\ FrameInv

-----------------------------------------------------------------------------
(* Program and machine in step, at a step of either.                        *)

\* With nothing on the wire the machine is between two packets.
LEMMA AgreesEmpty ==
    ASSUME NesOK(nes), NEW o \in Nat, NEW a \in Nat, Agrees(nes, <<>>, o, a)
    PROVE  nes.in \in {OPCODE, DISABLED} /\ o <= a
<1>1. ~IsPacket(<<>>)
  BY DEF IsPacket
<1>2. ~(nes.left > 0 /\ Len(<<>>) = nes.left)
  <2>1. Len(<<>>) = 0
    OBVIOUS
  <2>2. nes.left \in Nat
    BY DEF NesOK, Machines
  <2> QED
    BY <2>1, <2>2
<1>3. ASSUME nes.in \in InPackets, nes.left = 0
      PROVE  ~IsPacket(Full(nes, <<>>))
  <2> DEFINE h == nes.head
             op == OpOf[nes.in]
             p == Full(nes, <<>>)
             s == <<op>> \o h
  <2>1. nes.in \in InPackets \ {"cfg"} /\ op \in Bytes
    BY <1>3, OpOfPackets DEF NesOK, Shape
  <2>2. h \in Seq(Bytes) /\ Len(h) \in Nat /\ Len(h) < HeadLen(nes.in)
    BY <1>3 DEF NesOK, Machines, Shape
  <2>3. s \in Seq(Bytes) /\ Len(s) = 1 + Len(h) /\ s[1] = op
    <3> HIDE DEF op, h
    <3>1. <<op>> \in Seq(Bytes) /\ Len(<<op>>) = 1 /\ <<op>>[1] = op
      BY <2>1
    <3> DEFINE f == <<op>>
    <3> HIDE DEF f
    <3>2. /\ f \o h \in Seq(Bytes) /\ Len(f \o h) = Len(f) + Len(h)
          /\ \A i \in 1 .. Len(f) + Len(h) : (f \o h)[i] = IF i <= Len(f) THEN f[i] ELSE h[i - Len(f)]
      BY <2>2, <3>1, Joined DEF f
    <3> QED
      BY <2>2, <3>1, <3>2 DEF f
  <2>4. p = s
    <3> HIDE DEF s
    <3>1. s \o <<>> = s
      BY <2>3, ConcatEmptySeq
    <3> QED
      BY <3>1 DEF Full, s
  <2>5. Len(p) = 1 + Len(h) /\ p[1] = op
    BY <2>3, <2>4
  <2> HIDE DEF p, s, h
  <2> SUFFICES ASSUME IsPacket(p) PROVE FALSE
    BY DEF p
  <2>6. CASE nes.in = "echo"
    BY <2>2, <2>5, <2>6, HeadLens, OpOfIn DEF IsPacket, op
  <2>7. CASE nes.in \in Reads \cup Writes
    <3>1. op \in {1, 2, 9, 10} /\ HeadLen(nes.in) = 4
      BY <2>7, HeadLens, OpOfIn DEF Reads, Writes, op
    <3> QED
      BY <2>2, <2>5, <3>1 DEF IsPacket
  <2>8. CASE nes.in = "reg_rd"
    <3>1. op = 5 /\ HeadLen(nes.in) = 1
      BY <2>8, HeadLens, OpOfIn DEF op
    <3>2. SizeInBytes(p) = 2
      BY <2>5, <3>1, Sizes
    <3>3. Len(p) = 2
      BY <3>2 DEF IsPacket
    <3> DEFINE l == Len(h)
    <3>4. l \in Nat /\ l < 1 /\ 1 + l = 2
      BY <2>2, <2>5, <3>1, <3>3
    <3> HIDE DEF l
    <3> QED
      BY <3>4
  <2>9. CASE nes.in = "reg_wr"
    <3>1. op = 6 /\ HeadLen(nes.in) = 1
      BY <2>9, HeadLens, OpOfIn DEF op
    <3>2. SizeInBytes(p) = 3
      BY <2>5, <3>1, Sizes
    <3>3. Len(p) = 3
      BY <3>2 DEF IsPacket
    <3> DEFINE l == Len(h)
    <3>4. l \in Nat /\ l < 1 /\ 1 + l = 3
      BY <2>2, <2>5, <3>1, <3>3
    <3> HIDE DEF l
    <3> QED
      BY <3>4
  <2> QED
    BY <2>1, <2>6, <2>7, <2>8, <2>9 DEF InPackets, Reads, Writes
<1> QED
  BY <1>1, <1>2, <1>3 DEF Agrees

\* The program of the machine gets to a HLT.
LEMMA BreakOK ==
    ASSUME NesOK(nes), nes.in = DISABLED, NEW m, m = [nes EXCEPT !.in = OPCODE]
    PROVE  /\ NesOK(m) /\ m.in = OPCODE
           /\ \A w, o, a : Agrees(nes, w, o, a) => Agrees(m, w, o, a)
<1>1. nes \in Machines /\ nes.head = <<>> /\ nes.left = 0
  BY DEF NesOK, Shape
<1>2. m \in Machines /\ m.in = OPCODE /\ m.head = <<>> /\ m.left = 0
  BY <1>1 DEF Machines
<1>3. NesOK(m)
  BY <1>2 DEF NesOK, Shape, InPackets, OPCODE, DISABLED
<1>4. ASSUME NEW w, NEW o, NEW a, Agrees(nes, w, o, a)
      PROVE  Agrees(m, w, o, a)
  <2>1. ~(nes.left > 0) /\ nes.in \notin InPackets
    BY <1>1 DEF InPackets, DISABLED
  <2> QED
    BY <1>2, <1>4, <2>1 DEF Agrees, OPCODE, DISABLED
<1> QED
  BY <1>2, <1>3, <1>4

\* The whole of a packet goes on the wire.
LEMMA SentWhole ==
    ASSUME NEW p, IsPacket(p)
    PROVE  SubSeq(p, 1, SizeInBytes(p)) = p /\ p \in Seq(Bytes) /\ p # <<>>
<1>1. p \in Seq(Bytes) /\ p # <<>> /\ Len(p) = SizeInBytes(p)
  BY DEF IsPacket
<1>2. SubSeq(p, 1, Len(p)) = p
  BY <1>1
<1> QED
  BY <1>1, <1>2

LEMMA AgreesSent ==
    ASSUME nes.in \in {OPCODE, DISABLED}, NEW p, IsPacket(p), nes.in = DISABLED => Len(p) = 1
    PROVE  Agrees(nes, p, 0, ReturnBytesExpected(p))
<1>1. ReturnBytesExpected(p) \in Nat
  BY ExpectedIsNat
<1> QED
  BY <1>1 DEF Agrees

LEMMA ResetIsOK ==
    ResetNes \in Machines /\ ResetNes.in = OPCODE /\ ResetNes.head = <<>> /\ ResetNes.left = 0
<1> DEFINE c == <<0, 0, 0, 0, 0>>
           z == [x \in Cells |-> 0]
           y == [r \in Registers |-> 0]
           n == [in |-> OPCODE, head |-> <<>>, addr |-> 0, left |-> 0, err |-> 0,
                 cpu |-> z, ppu |-> z, regs |-> y, cfg |-> c]
<1>1. 0 \in Bytes
  BY ByteRange
<1>2. c \in Seq(Bytes) /\ Len(c) = 5
  BY <1>1
<1>3. z \in Memories /\ y \in [Registers -> Bytes]
  BY <1>1 DEF Memories
<1>4. <<>> \in Seq(Bytes)
  OBVIOUS
<1>5. ResetNes = n
  BY DEF ResetNes
<1> HIDE DEF c, z, y
<1>6. n \in Machines /\ n.in = OPCODE /\ n.head = <<>> /\ n.left = 0
  BY <1>1, <1>2, <1>3, <1>4 DEF Machines
<1> HIDE DEF n
<1> QED
  BY <1>5, <1>6

LEMMA ResetOK ==
    ASSUME NesOK(nes)
    PROVE  NesOK([ResetNes EXCEPT !.cpu = nes.cpu, !.ppu = nes.ppu,
                    !.regs = [r \in Registers |-> IF r = CpuRegPch THEN 128 ELSE 0]])
<1> DEFINE f == [r \in Registers |-> IF r = CpuRegPch THEN 128 ELSE 0]
           u == nes.cpu
           v == nes.ppu
           m == [ResetNes EXCEPT !.cpu = u, !.ppu = v, !.regs = f]
<1>1. 0 \in Bytes /\ 128 \in Bytes
  BY ByteRange
<1>2. f \in [Registers -> Bytes]
  BY <1>1
<1>3. u \in Memories /\ v \in Memories
  BY DEF NesOK, Machines
<1> HIDE DEF f, u, v
<1>5. ResetNes \in Machines /\ ResetNes.in = OPCODE /\ ResetNes.head = <<>> /\ ResetNes.left = 0
  BY ResetIsOK
<1>6. m \in Machines /\ m.in = OPCODE /\ m.head = <<>> /\ m.left = 0
  BY <1>2, <1>3, <1>5 DEF Machines
<1> HIDE DEF m
<1>7. NesOK(m)
  BY <1>6 DEF NesOK, Shape, InPackets, OPCODE, DISABLED
<1> QED
  BY <1>7 DEF m, f, u, v

-----------------------------------------------------------------------------
(* The calls under way, as the stack changes.                               *)
LEMMA BoxOK == FrameOK(Box) /\ WaitsFor(Box) = 0
  BY DEF Box, FrameOK, WaitsFor

LEMMA TopOK ==
    ASSUME StackInv, stack # <<>>
    PROVE  /\ Top = stack[1] /\ 1 \in DOMAIN stack /\ "kind" \in DOMAIN Top
           /\ FrameInv => FrameOK(Top)
<1>1. PICK S : stack \in Seq(S)
  BY DEF StackInv, Sound, IsStack
<1>2. Top = stack[1] /\ 1 \in DOMAIN stack
  BY <1>1 DEF Top
<1> QED
  BY <1>2, TopIsFrame DEF FrameInv, FramesOK, IsFrame

LEMMA AwaitedNat == StackInv /\ FrameInv => Awaited \in Nat
<1> SUFFICES ASSUME StackInv, FrameInv, stack # <<>>
             PROVE  Awaited \in Nat
  BY DEF Awaited
<1>1. FrameOK(Top)
  BY TopOK
<1> QED
  BY <1>1 DEF Awaited, WaitsFor, FrameOK

LEMMA GoFrames ==
    ASSUME StackInv, FrameInv, stack # <<>>, NEW f, FrameOK(f), Go(f)
    PROVE  FrameInv' /\ Awaited' = WaitsFor(f)
<1>1. PICK S : stack \in Seq(S)
  BY DEF StackInv, Sound, IsStack
<1> DEFINE t == <<f>> \o Tail(stack)
<1>2. /\ t \in Seq(S \cup {f}) /\ DOMAIN t = DOMAIN stack /\ 1 \in DOMAIN stack
      /\ t[1] = f /\ \A i \in DOMAIN stack : i # 1 => t[i] = stack[i]
  BY <1>1, NewHead
<1> HIDE DEF t
<1>3. FramesOK(t)
  BY <1>2 DEF FrameInv, FramesOK
<1>4. t # <<>> /\ Head(t) = f
  BY <1>2
<1>5. stack' = t
  BY DEF Go, t
<1> QED
  BY <1>3, <1>4, <1>5 DEF FrameInv, Awaited, Top

LEMMA PushFrames ==
    ASSUME NEW S, NEW s \in Seq(S), FramesOK(s), NEW f, FrameOK(f)
    PROVE  LET t == <<f>> \o s IN FramesOK(t) /\ t # <<>> /\ Head(t) = f
<1> DEFINE t == <<f>> \o s
<1>1. /\ t \in Seq(S \cup {f}) /\ DOMAIN s = 1 .. Len(s) /\ Len(s) \in Nat
      /\ DOMAIN t = 1 .. Len(s) + 1
      /\ t[1] = f /\ \A i \in 1 .. Len(s) : t[i + 1] = s[i]
  BY Pushed
<1> HIDE DEF t
<1>2. \A j \in DOMAIN t : j = 1 \/ (j - 1 \in DOMAIN s /\ t[j] = s[j - 1])
  BY <1>1
<1>3. FramesOK(t)
  BY <1>1, <1>2 DEF FramesOK
<1>4. t # <<>> /\ Head(t) = f
  BY <1>1
<1> QED
  BY <1>3, <1>4 DEF t

LEMMA BoxFrames ==
    ASSUME StackInv, FrameInv, stack # <<>>, NEW f, FrameOK(f), BoxOver(f)
    PROVE  FrameInv' /\ Awaited' = 0
<1>1. PICK S : stack \in Seq(S)
  BY DEF StackInv, Sound, IsStack
<1> DEFINE t == <<f>> \o Tail(stack)
<1>2. /\ t \in Seq(S \cup {f}) /\ DOMAIN t = DOMAIN stack /\ 1 \in DOMAIN stack
      /\ t[1] = f /\ \A i \in DOMAIN stack : i # 1 => t[i] = stack[i]
  BY <1>1, NewHead
<1>3. <<Box>> \o t = <<Box, f>> \o Tail(stack)
  BY <1>1
<1> HIDE DEF t
<1>4. FramesOK(t)
  BY <1>2 DEF FrameInv, FramesOK
<1>5. LET u == <<Box>> \o t IN FramesOK(u) /\ u # <<>> /\ Head(u) = Box
  BY <1>2, <1>4, BoxOK, PushFrames
<1>6. stack' = <<Box>> \o t
  BY <1>3 DEF BoxOver
<1> QED
  BY <1>5, <1>6, BoxOK DEF FrameInv, Awaited, Top

LEMMA ReturnFrames ==
    ASSUME StackInv, FrameInv, stack # <<>>, Return
    PROVE  FrameInv'
<1>1. PICK S : stack \in Seq(S)
  BY DEF StackInv, Sound, IsStack
<1> DEFINE t == Tail(stack)
<1>2. /\ t \in Seq(S) /\ DOMAIN stack = 1 .. Len(stack) /\ Len(stack) \in Nat /\ Len(stack) >= 1
      /\ DOMAIN t = 1 .. Len(stack) - 1 /\ \A i \in 2 .. Len(stack) : t[i - 1] = stack[i]
  BY <1>1, Popped
<1> HIDE DEF t
<1>3. \A i \in DOMAIN t : i + 1 \in DOMAIN stack /\ t[i] = stack[i + 1]
  BY <1>2
<1>4. FramesOK(t)
  BY <1>3 DEF FrameInv, FramesOK
<1> QED
  BY <1>4 DEF Return, FrameInv, t

\* A call that is told that it has not the machine to itself, or that its dialog ends.
LEMMA FlaggedOK ==
    ASSUME NEW f, FrameOK(f)
    PROVE  /\ f.kind = "run" => FrameOK([f EXCEPT !.fair = FALSE])
           /\ f.kind \in {"raw", "scripts"} => FrameOK([f EXCEPT !.ended = TRUE])
<1>1. ASSUME f.kind = "run"
      PROVE  FrameOK([f EXCEPT !.fair = FALSE])
  <2> DEFINE e == [f EXCEPT !.fair = FALSE]
  <2>1. /\ {"at", "n", "pc", "script", "held"} \subseteq DOMAIN f
        /\ f.pc \in Nat \ {0} /\ f.script \in DOMAIN Scripts /\ f.held \subseteq DOMAIN PrgFiles
        /\ f.at = "receive" => f.n \in Nat
    BY <1>1 DEF FrameOK
  <2>2. DOMAIN e = DOMAIN f /\ e.at = f.at /\ e.n = f.n /\ e.pc = f.pc /\ e.script = f.script
        /\ e.held = f.held
    BY <2>1
  <2>3. e.kind \notin {"load", "send"}
    BY <1>1
  <2> HIDE DEF e
  <2> QED
    BY <2>1, <2>2, <2>3 DEF FrameOK, e
<1>2. ASSUME f.kind \in {"raw", "scripts"}
      PROVE  FrameOK([f EXCEPT !.ended = TRUE])
  <2> DEFINE e == [f EXCEPT !.ended = TRUE]
  <2>1. e.kind \notin {"load", "send", "run"}
    BY <1>2
  <2> QED
    BY <2>1 DEF FrameOK
<1> QED
  BY <1>1, <1>2

LEMMA StartFrames ==
    ASSUME StackInv, FrameInv, NEW f, FrameOK(f), Start(f)
    PROVE  FrameInv' /\ Awaited' = WaitsFor(f)
<1> DEFINE e(i) == IF stack[i].kind = "run" THEN [stack[i] EXCEPT !.fair = FALSE]
                   ELSE stack[i]
           t == [i \in DOMAIN stack |-> e(i)]
<1>1. PICK S : stack \in Seq(S)
  BY DEF StackInv, Sound, IsStack
<1>2. t \in Seq({e(i) : i \in DOMAIN stack}) /\ DOMAIN t = DOMAIN stack
      /\ \A i \in DOMAIN stack : t[i] = e(i)
  BY <1>1
<1>3. \A i \in DOMAIN stack : FrameOK(e(i))
  BY FlaggedOK DEF FrameInv, FramesOK
<1>4. stack' = <<f>> \o t
  BY DEF Start
<1> DEFINE T == {e(i) : i \in DOMAIN stack}
<1> HIDE DEF e, t, T
<1>5. FramesOK(t)
  BY <1>2, <1>3 DEF FramesOK
<1>6. t \in Seq(T)
  BY <1>2 DEF T
<1>7. LET u == <<f>> \o t IN FramesOK(u) /\ u # <<>> /\ Head(u) = f
  BY <1>5, <1>6, PushFrames
<1> QED
  BY <1>4, <1>7 DEF FrameInv, Awaited, Top

LEMMA EndFrames ==
    ASSUME StackInv, FrameInv, NEW k \in {"raw", "scripts"}, EndDialog(k)
    PROVE  FrameInv'
<1> DEFINE e(i) == IF stack[i].kind = k THEN [stack[i] EXCEPT !.ended = TRUE]
                   ELSE stack[i]
           t == [i \in DOMAIN stack |-> e(i)]
<1>1. \A i \in DOMAIN stack : FrameOK(e(i))
  BY FlaggedOK DEF FrameInv, FramesOK
<1>2. stack' = t
  BY DEF EndDialog
<1> HIDE DEF e
<1>3. FramesOK(t)
  BY <1>1 DEF FramesOK
<1> HIDE DEF t
<1> QED
  BY <1>2, <1>3 DEF FrameInv

-----------------------------------------------------------------------------
(* What the steps of the program do to the wire.                            *)
LEMMA Calm ==
    ASSUME PortInv, UNCHANGED <<nes, out, commVars>>
    PROVE  PortInv' /\ (Opened => Opened') /\ (Verifies => Verifies')
<1>1. /\ nes' = nes /\ out' = out /\ port' = port /\ comm' = comm /\ wire' = wire
      /\ plugged' = plugged /\ rogue' = rogue
  BY DEF commVars
<1>2. PortInv'
  BY <1>1 DEF PortInv
<1>3. Opened => Opened'
  BY <1>1 DEF Opened, BetweenPackets, Mimics
<1>4. Verifies => Verifies'
  BY <1>1 DEF Verifies
<1> QED
  BY <1>2, <1>3, <1>4

\* Nothing is on the wire and nobody waits.
LEMMA AgreedEmpty ==
    ASSUME PortInv, WireInv, port = "open", ~rogue, comm = "up", Written, Awaited \in Nat
    PROVE  nes.in \in {OPCODE, DISABLED} /\ Len(out) \in Nat /\ Len(out) <= Awaited
<1>1. NesOK(nes) /\ out \in Seq(Bytes) /\ Len(out) \in Nat
  BY DEF PortInv
<1>2. Agrees(nes, <<>>, Len(out), Awaited)
  BY DEF WireInv, Agreed, Written
<1> QED
  BY <1>1, <1>2, AgreesEmpty

\* Nothing is sent, and nothing received.
LEMMA QuietStep ==
    ASSUME PortInv, WireInv, Written, Awaited = 0, Awaited' \in Nat,
           UNCHANGED <<nes, out, commVars>>
    PROVE  PortInv' /\ WireInv'
<1>1. PortInv' /\ (Opened => Opened') /\ (Verifies => Verifies')
  BY Calm
<1>2. /\ nes' = nes /\ out' = out /\ port' = port /\ comm' = comm /\ wire' = wire
      /\ rogue' = rogue
  BY DEF commVars
<1>3. ASSUME port = "open", ~rogue, comm = "up"
      PROVE  Agrees(nes', wire', Len(out'), Awaited')
  <2>1. nes.in \in {OPCODE, DISABLED} /\ Len(out) \in Nat /\ Len(out) <= 0
    BY <1>3, AgreedEmpty
  <2>2. Len(out) <= Awaited'
    BY <2>1
  <2> QED
    BY <1>2, <2>1, <2>2 DEF Agrees, Written
<1> QED
  BY <1>1, <1>2, <1>3 DEF WireInv, Agreed

\* A packet is sent, and its answer awaited from then on.
LEMMA SendStep ==
    ASSUME PortInv, WireInv, Written, Awaited = 0, comm = "up", NEW p, IsPacket(p), SendData(p),
           Awaited' = ReturnBytesExpected(p), UNCHANGED <<nes, out, port, comm, plugged>>
    PROVE  PortInv' /\ WireInv'
<1>1. wire' = (IF port = "open" THEN p ELSE wire) /\ p \in Seq(Bytes)
  BY SentWhole DEF SendData, WriteFile
<1>2. rogue' = (rogue \/ Reckless(p))
  BY DEF SendData
<1>3. PortInv'
  BY <1>1, <1>2 DEF PortInv, Reckless
<1>4. ASSUME port = "open", ~rogue, ~Reckless(p)
      PROVE  Agrees(nes', wire', Len(out'), Awaited')
  <2>1. nes.in \in {OPCODE, DISABLED} /\ Len(out) \in Nat /\ Len(out) <= 0
    BY <1>4, AgreedEmpty
  <2>2. Len(out) = 0
    BY <2>1
  <2>3. nes.in = DISABLED => Len(p) = 1
    <3>1. p \in Seq(Bytes) /\ p # <<>>
      BY SentWhole
    <3>2. Len(p) \in Nat /\ Len(p) >= 1
      BY <3>1, FirstByte
    <3>3. nes.in = DISABLED => ~(Len(p) > 1)
      BY <1>4 DEF Reckless, Running
    <3>4. \A n \in Nat : n >= 1 => n > 1 \/ n = 1
      OBVIOUS
    <3> QED
      BY <3>2, <3>3, <3>4
  <2>4. Agrees(nes, p, 0, ReturnBytesExpected(p))
    BY <2>1, <2>3, AgreesSent
  <2>5. nes' = nes /\ wire' = p /\ Len(out') = 0 /\ Awaited' = ReturnBytesExpected(p)
    BY <1>1, <1>4, <2>2
  <2> QED
    BY <2>4, <2>5
<1> QED
  BY <1>2, <1>3, <1>4 DEF WireInv, Opened, Verifies, Agreed

\* What was asked for is taken, whether it has come or not.
LEMMA ReceiveStep ==
    ASSUME PortInv, WireInv, Written, comm = "up", Awaited \in Nat, Awaited' \in Nat,
           ReceiveData(Awaited), UNCHANGED <<nes, commVars>>
    PROVE  PortInv' /\ WireInv'
<1>1. /\ nes' = nes /\ port' = port /\ comm' = comm /\ wire' = wire /\ plugged' = plugged
      /\ rogue' = rogue
  BY DEF commVars
<1>2. out \in Seq(Bytes) /\ Len(out) \in Nat
  BY DEF PortInv
<1> DEFINE n == Awaited
           s == SubSeq(out, n + 1, Len(out))
<1>3. out' = s
  BY DEF ReceiveData
<1>4. s \in Seq(Bytes) /\ (Len(out) <= n => Len(s) = 0) /\ (out = <<>> => s = <<>>)
  <2>1. n \in Nat
    OBVIOUS
  <2> HIDE DEF n
  <2>2. s \in Seq(Bytes) /\ (Len(out) <= n => Len(s) = 0)
    BY <1>2, <2>1
  <2> HIDE DEF s
  <2>3. out = <<>> => Len(out) <= n
    <3>1. Len(<<>>) = 0
      OBVIOUS
    <3> QED
      BY <2>1, <3>1
  <2> QED
    BY <2>2, <2>3, NoBytes
<1> HIDE DEF n, s
<1>5. PortInv'
  BY <1>1, <1>3, <1>4 DEF PortInv
<1>6. ASSUME port = "open", ~rogue
      PROVE  Agrees(nes', wire', Len(out'), Awaited')
  <2>1. nes.in \in {OPCODE, DISABLED} /\ Len(out) <= n
    BY <1>6, AgreedEmpty DEF n
  <2>2. Len(out') <= Awaited'
    BY <1>3, <1>4, <2>1
  <2> QED
    BY <1>1, <2>1, <2>2 DEF Agrees, Written
<1> QED
  BY <1>1, <1>5, <1>6 DEF WireInv, Opened, Verifies, Agreed

\* The port is closed, or lost.
LEMMA LostStep ==
    ASSUME PortInv, port' # "open", port' \in {"closed", "dead"}, wire' = <<>>, out' = <<>>,
           NesOK(nes'), plugged' \in BOOLEAN, rogue' \in BOOLEAN,
           comm' \in InitBoxes \cup {"none", "open", "set", "echo", "verify", "up", "failed"}
    PROVE  PortInv' /\ WireInv'
<1>1. <<>> \in Seq(Bytes)
  OBVIOUS
<1> QED
  BY <1>1 DEF PortInv, WireInv

-----------------------------------------------------------------------------
(* The steps of the machine.                                                *)
LEMMA ByteOK ==
    ASSUME NesOK(nes), NEW b \in Bytes
    PROVE  NesOK(After(b)) /\ Reply(b) \in Seq(Bytes)
<1>1. nes.in \in InPackets \cup {OPCODE, DISABLED} /\ nes.left \in Nat
  BY DEF NesOK, Machines
<1>2. <<>> \in Seq(Bytes) /\ <<b>> \in Seq(Bytes)
  OBVIOUS
<1>3. CASE nes.in = OPCODE
  BY <1>3, AtOpcode
<1>4. CASE nes.in = DISABLED
  BY <1>4, AtRun
<1>5. CASE nes.in \in InPackets /\ nes.left = 0 /\ Len(nes.head) # HeadLen(nes.in) - 1
  BY <1>2, <1>5, AtHead
<1>6. CASE nes.in \in InPackets /\ nes.left = 0 /\ Len(nes.head) = HeadLen(nes.in) - 1
  BY <1>6, AtHeadEnd
<1>7. CASE nes.left > 0
  BY <1>2, <1>7, AtData
<1> QED
  BY <1>1, <1>3, <1>4, <1>5, <1>6, <1>7

LEMMA MachineStep ==
    ASSUME PortInv, WireInv, Awaited \in Nat, Machine
    PROVE  PortInv' /\ WireInv'
<1> DEFINE b == Head(wire)
           r == Reply(b)
<1>1. /\ wire # <<>> /\ nes' = After(b) /\ out' = out \o r /\ wire' = Tail(wire)
      /\ port' = port /\ comm' = comm /\ plugged' = plugged /\ rogue' = rogue
      /\ stack' = stack
  BY DEF Machine, NesTakes, Take, scriptVars
<1>2. NesOK(nes) /\ wire \in Seq(Bytes) /\ out \in Seq(Bytes) /\ port = "open"
  BY <1>1 DEF PortInv
<1>3. b \in Bytes /\ Tail(wire) \in Seq(Bytes)
  BY <1>1, <1>2, FirstByte
<1>4. NesOK(After(b)) /\ r \in Seq(Bytes)
  BY <1>2, <1>3, ByteOK
<1>5. out \o r \in Seq(Bytes) /\ Len(out \o r) = Len(out) + Len(r) /\ Len(out) \in Nat
  BY <1>2, <1>4, Joined
<1>6. PortInv'
  BY <1>1, <1>2, <1>3, <1>4, <1>5 DEF PortInv
<1>7. SUFFICES ASSUME ~rogue
               PROVE  Opened' /\ Verifies' /\ Agreed'
  BY <1>1, <1>6 DEF WireInv
<1>8. Opened /\ Verifies /\ Agreed
  BY <1>2, <1>7 DEF WireInv
<1>9. Opened'
  BY <1>1, <1>8 DEF Opened
<1>10. ASSUME comm = "verify"
       PROVE  \E k \in 0 .. 7 : Tail(wire) = Rest(k) /\ Verifying(After(b), k, out \o r)
  <2>1. PICK k \in 0 .. 7 : wire = Rest(k) /\ Verifying(nes, k, out)
    BY <1>8, <1>10 DEF Verifies
  <2>2. k \in 0 .. 6
    <3>1. k # 7
      BY <1>1, <2>1, RestIs
    <3> QED
      BY <3>1
  <2>3. b = Greeting[k + 1] /\ Tail(wire) = Rest(k + 1)
    BY <2>1, <2>2, RestIs
  <2>4. r = Reply(Greeting[k + 1]) /\ After(b) = After(Greeting[k + 1])
    BY <2>3
  <2> HIDE DEF b, r
  <2>5. Verifying(After(Greeting[k + 1]), k + 1, out \o Reply(Greeting[k + 1]))
    BY <1>2, <1>4, <2>1, <2>2, <2>4, VerifyStep
  <2>6. k + 1 \in 0 .. 7
    BY <2>2
  <2> QED
    BY <2>3, <2>4, <2>5, <2>6
<1>11. ASSUME comm = "up"
       PROVE  Agrees(After(b), Tail(wire), Len(out) + Len(r), Awaited)
  BY <1>1, <1>2, <1>5, <1>8, <1>11, AgreesStep DEF Agreed
<1>12. Awaited' = Awaited
  BY <1>1 DEF Awaited, Top
<1> HIDE DEF b, r
<1>13. Verifies'
  BY <1>1, <1>10 DEF Verifies
<1>14. Agreed'
  BY <1>1, <1>5, <1>11, <1>12 DEF Agreed
<1> QED
  BY <1>9, <1>13, <1>14

LEMMA BreakStep ==
    ASSUME PortInv, WireInv, Program
    PROVE  PortInv' /\ WireInv'
<1> DEFINE m == [nes EXCEPT !.in = OPCODE]
<1>1. /\ nes.in = DISABLED /\ nes' = m /\ out' = out /\ port' = port /\ comm' = comm
      /\ wire' = wire /\ plugged' = plugged /\ rogue' = rogue /\ stack' = stack
  BY DEF Program, NesBreaks, Break, Running, commVars, scriptVars
<1>2. /\ NesOK(m) /\ m.in = OPCODE
      /\ \A w, o, a : Agrees(nes, w, o, a) => Agrees(m, w, o, a)
  BY <1>1, BreakOK DEF PortInv
<1> HIDE DEF m
<1>3. PortInv'
  BY <1>1, <1>2 DEF PortInv
<1>4. Opened => Opened'
  BY <1>1, <1>2 DEF Opened, BetweenPackets
<1>5. Verifies => Verifies'
  BY <1>1, <1>2, VerifyBreak DEF Verifies
<1>6. Awaited' = Awaited
  BY <1>1 DEF Awaited, Top
<1>7. Agreed => Agreed'
  BY <1>1, <1>2, <1>6 DEF Agreed
<1> QED
  BY <1>1, <1>3, <1>4, <1>5, <1>7 DEF WireInv

LEMMA ResetStep ==
    ASSUME PortInv, WireInv, ProgramInv, AppInv, Reset
    PROVE  PortInv' /\ WireInv'
<1>1. /\ port # "open" /\ wire = <<>> /\ out = <<>> /\ port \in {"closed", "dead"}
  BY DEF Reset, AppInv
<1>2. /\ out' = out /\ port' = port /\ comm' = comm /\ wire' = wire /\ plugged' = plugged
      /\ rogue' = FALSE
  BY DEF Reset, ResetButton
<1>3. NesOK(nes')
  BY ResetOK DEF PortInv, Reset, ResetButton
<1> QED
  BY <1>1, <1>2, <1>3, LostStep DEF PortInv

-----------------------------------------------------------------------------
(* The steps of SerialComm::Init.                                           *)
LEMMA OpenStep ==
    ASSUME PortInv, ProgramInv, OpenPort
    PROVE  PortInv' /\ WireInv'
<1>1. /\ comm = "open" /\ port = "closed" /\ wire = <<>> /\ out = <<>>
      /\ nes' = nes /\ out' = out /\ wire' = wire /\ plugged' = plugged
      /\ (port' = "open" /\ comm' = "set") \/ (port' = port /\ comm' = NoPort)
      /\ rogue' = (~BetweenPackets /\ (rogue \/ Mimics))
  BY DEF OpenPort, PortInv, ProgramInv
<1>2. rogue' \in BOOLEAN
  BY <1>1 DEF BetweenPackets, Mimics, PortInv
<1>3. comm' \in InitBoxes \cup {"set"}
  BY <1>1 DEF InitBoxes
<1>4. PortInv'
  BY <1>1, <1>2, <1>3 DEF PortInv
<1>5. ~rogue' => (BetweenPackets \/ ~Mimics)'
  BY <1>1 DEF BetweenPackets, Mimics
<1>6. port' = "open" => comm' = "set"
  BY <1>1
<1>7. WireInv'
  BY <1>1, <1>5, <1>6 DEF WireInv, Opened, Verifies, Agreed
<1> QED
  BY <1>4, <1>7

LEMMA SetStep ==
    ASSUME PortInv, WireInv, SetTimeouts
    PROVE  PortInv' /\ WireInv'
<1>1. /\ comm = "set" /\ comm' = (IF port = "open" THEN "echo" ELSE NotSet)
      /\ nes' = nes /\ out' = out /\ wire' = wire /\ plugged' = plugged /\ port' = port
      /\ rogue' = rogue
  BY DEF SetTimeouts
<1>2. PortInv'
  BY <1>1 DEF PortInv, InitBoxes
<1>3. port = "open" /\ ~rogue => Opened'
  BY <1>1 DEF WireInv, Opened, BetweenPackets, Mimics
<1> QED
  BY <1>1, <1>2, <1>3 DEF WireInv, Verifies, Agreed

LEMMA EchoStep ==
    ASSUME PortInv, WireInv, SendEcho
    PROVE  PortInv' /\ WireInv'
<1>1. /\ comm = "echo" /\ comm' = "verify" /\ WriteFile(EchoPacket(pInitString))
      /\ nes' = nes /\ out' = out /\ plugged' = plugged /\ port' = port /\ rogue' = rogue
  BY DEF SendEcho
<1>2. IsPacket(Greeting)
  <2>1. pInitString \in Seq(Bytes) /\ Len(pInitString) = 4
    BY ByteRange DEF pInitString
  <2>2. 4 \in Ushorts
    BY ByteRange DEF Ushorts
  <2>3. Asked(EchoPacket(pInitString), Len(pInitString))
    BY <2>1, <2>2, EchoAsked
  <2> QED
    BY <2>3, GreetingIs DEF Asked
<1>3. wire' = IF port = "open" THEN Greeting ELSE wire
  BY <1>1, <1>2, SentWhole, GreetingIs DEF WriteFile
<1>4. PortInv'
  BY <1>1, <1>3, GreetingIs DEF PortInv
<1>5. ASSUME port = "open", ~rogue
      PROVE  Verifies'
  <2>1. out = <<>> /\ (BetweenPackets \/ ~Mimics)
    BY <1>1, <1>5 DEF WireInv, Opened
  <2>2. Verifying(nes, 0, <<>>)
    BY <2>1, VerifyBegins DEF PortInv
  <2>3. wire' = Rest(0) /\ Verifying(nes', 0, out')
    BY <1>1, <1>3, <1>5, <2>1, <2>2, RestIs
  <2>4. 0 \in 0 .. 7
    OBVIOUS
  <2> QED
    BY <2>3, <2>4 DEF Verifies
<1> QED
  BY <1>1, <1>4, <1>5 DEF WireInv, Opened, Agreed

LEMMA AnswerStep ==
    ASSUME PortInv, WireInv, Written, VerifyEcho, Awaited' \in Nat
    PROVE  PortInv' /\ WireInv'
<1> DEFINE n == Len(pInitString)
           s == SubSeq(out, n + 1, Len(out))
<1>1. /\ comm = "verify" /\ out' = s /\ nes' = nes /\ wire' = wire /\ plugged' = plugged
      /\ port' = port /\ rogue' = rogue
  BY DEF VerifyEcho, ReceiveData
<1>2. PICK heap \in Heap : comm' = IF Received(n, heap) = pInitString THEN "up" ELSE NotConnected
  BY DEF VerifyEcho
<1>3. out \in Seq(Bytes) /\ Len(out) \in Nat /\ NesOK(nes) /\ n = 4
  BY DEF PortInv, pInitString
<1>4. s \in Seq(Bytes) /\ (Len(out) <= n => Len(s) = 0)
  <2> HIDE DEF n
  <2> QED
    BY <1>3
<1>5. out = <<>> => s = <<>>
  <2>1. Len(<<>>) = 0
    OBVIOUS
  <2> HIDE DEF n, s
  <2>2. out = <<>> => Len(out) <= n
    BY <1>3, <2>1
  <2> QED
    BY <1>4, <2>2, NoBytes
<1> HIDE DEF s
<1>6. comm' \in InitBoxes \cup {"up"}
  BY <1>2 DEF InitBoxes
<1>7. PortInv'
  BY <1>1, <1>4, <1>5, <1>6 DEF PortInv
<1>8. ASSUME port = "open", ~rogue, comm' = "up"
      PROVE  Agrees(nes', wire', Len(out'), Awaited')
  <2>1. PICK k \in 0 .. 7 : wire = Rest(k) /\ Verifying(nes, k, out)
    BY <1>1, <1>8 DEF WireInv, Verifies
  <2>2. k = 7
    <3>1. k \notin 0 .. 6
      BY <2>1, RestIs DEF Written
    <3> QED
      BY <3>1
  <2>3. Received(n, heap) = pInitString
    BY <1>2, <1>8 DEF NotConnected
  <2>4. nes.in = OPCODE /\ out = pInitString
    BY <1>3, <2>1, <2>2, <2>3, VerifyEnds
  <2>5. Len(out) <= n
    <3>1. Len(out) = n
      BY <2>4
    <3> HIDE DEF n
    <3> QED
      BY <1>3, <3>1
  <2>6. Len(out') <= Awaited'
    BY <1>1, <1>4, <2>5
  <2> QED
    BY <1>1, <2>4, <2>6 DEF Agrees, Written
<1>9. comm' # "set" /\ comm' # "echo" /\ comm' # "verify"
  BY <1>6 DEF InitBoxes, NoPort, NotSet, NotConnected
<1> QED
  BY <1>1, <1>7, <1>8, <1>9 DEF WireInv, Opened, Verifies, Agreed

LEMMA InitStep ==
    ASSUME PortInv, WireInv, ProgramInv, AppInv, Written, InitSerialComm
    PROVE  PortInv' /\ WireInv'
<1>1. stack' = stack /\ stack = <<>>
  BY DEF InitSerialComm, scriptVars, AppInv
<1>2. Awaited' \in Nat
  BY <1>1 DEF Awaited
<1> QED
  BY <1>2, OpenStep, SetStep, EchoStep, AnswerStep DEF InitSerialComm, SerialCommInit

-----------------------------------------------------------------------------
(* The other steps that leave the calls alone, or end them all.             *)
LEMMA SameStep ==
    ASSUME PortInv, WireInv, UNCHANGED <<nes, out, commVars, stack>>
    PROVE  PortInv' /\ WireInv'
<1>1. PortInv' /\ (Opened => Opened') /\ (Verifies => Verifies')
  BY Calm
<1>2. /\ nes' = nes /\ out' = out /\ port' = port /\ comm' = comm /\ wire' = wire
      /\ rogue' = rogue /\ stack' = stack
  BY DEF commVars
<1>3. Agreed => Agreed'
  BY <1>2 DEF Agreed, Awaited, Top
<1> QED
  BY <1>1, <1>2, <1>3 DEF WireInv

LEMMA CloseStep ==
    ASSUME PortInv, WireInv, nes' = nes, plugged' = plugged, rogue' = rogue, Close,
           comm' \in {"none", "failed"}
    PROVE  PortInv' /\ WireInv'
<1>1. port' = "closed" /\ wire' = <<>> /\ out' = <<>>
  BY DEF Close
<1> QED
  BY <1>1, LostStep DEF PortInv

LEMMA OuterStep ==
    ASSUME PortInv, WireInv, ProgramInv, AppInv,
           \/ WinMain \/ NoWindow \/ InitReturns \/ LoopEnds \/ Exits \/ MenuExit \/ Dies
           \/ InitFails /\ UNCHANGED <<scriptVars, appVars>>
           \/ (Unplug \/ Replug) /\ UNCHANGED <<scriptVars, app, quit>>
    PROVE  PortInv' /\ WireInv'
<1>1. CASE WinMain \/ NoWindow
  <2>1. /\ port = "closed" /\ comm' \in {"open", "none"}
        /\ nes' = nes /\ out' = out /\ port' = port /\ wire' = wire /\ plugged' = plugged
        /\ rogue' = rogue
    BY <1>1 DEF WinMain, NoWindow, AppInv, ProgramInv
  <2>2. wire = <<>> /\ out = <<>>
    BY <2>1 DEF PortInv
  <2> QED
    BY <2>1, <2>2, LostStep DEF PortInv
<1>2. CASE InitReturns \/ LoopEnds \/ MenuExit
  BY <1>2, SameStep DEF InitReturns, LoopEnds, MenuExit, scriptVars
<1>3. CASE Exits \/ Dies \/ (InitFails /\ UNCHANGED <<scriptVars, appVars>>)
  BY <1>3, CloseStep DEF Exits, Dies, InitFails
<1>4. CASE Replug /\ UNCHANGED <<scriptVars, app, quit>>
  <2>1. /\ nes' = nes /\ out' = out /\ port' = port /\ comm' = comm /\ wire' = wire
        /\ rogue' = rogue /\ stack' = stack /\ plugged' = TRUE
    BY <1>4 DEF Replug, scriptVars
  <2>2. PortInv'
    BY <2>1 DEF PortInv
  <2>3. (Opened => Opened') /\ (Verifies => Verifies') /\ (Agreed => Agreed')
    BY <2>1 DEF Opened, BetweenPackets, Mimics, Verifies, Agreed, Awaited, Top
  <2> QED
    BY <2>1, <2>2, <2>3 DEF WireInv
<1>5. CASE Unplug /\ UNCHANGED <<scriptVars, app, quit>>
  <2>1. /\ nes' = nes /\ comm' = comm /\ rogue' = rogue /\ plugged' = FALSE
        /\ wire' = <<>> /\ out' = <<>> /\ port' = (IF port = "open" THEN "dead" ELSE port)
    BY <1>5 DEF Unplug
  <2>2. port' # "open" /\ port' \in {"closed", "dead"}
    BY <2>1 DEF PortInv
  <2> QED
    BY <2>1, <2>2, LostStep DEF PortInv
<1> QED
  BY <1>1, <1>2, <1>3, <1>4, <1>5

-----------------------------------------------------------------------------
(* What the program is at.                                                  *)
LEMMA FaultCounted ==
    ASSUME faults \in 0 .. MaxFaults
    PROVE  /\ \A P : (P => faults < MaxFaults) => (IF P THEN faults + 1 ELSE faults) \in 0 .. MaxFaults
           /\ faults < MaxFaults => faults + 1 \in 0 .. MaxFaults
<1>1. MaxFaults \in Nat
  BY NesDbgAssumption, SMT
<1>2. faults < MaxFaults => faults + 1 \in 0 .. MaxFaults
  BY <1>1
<1> QED
  BY <1>2

LEMMA Unmoved ==
    ASSUME ProgramInv, app' = app, port' = port, comm' = comm,
           quit' \in BOOLEAN, faults' \in 0 .. MaxFaults
    PROVE  ProgramInv'
  BY DEF ProgramInv

LEMMA ProgramStays ==
    ASSUME PortInv, ProgramInv, AppInv, [Next]_vars
    PROVE  ProgramInv'
<1>1. /\ app \in {"off", "init", "loop", "exit"} /\ quit \in BOOLEAN /\ faults \in 0 .. MaxFaults
      /\ FALSE \in BOOLEAN /\ TRUE \in BOOLEAN
  BY DEF ProgramInv
<1>2. CASE NoWindow \/ InitReturns \/ LoopEnds \/ Exits \/ WinMain
  BY <1>2 DEF NoWindow, InitReturns, LoopEnds, Exits, WinMain, ProgramInv, AppInv, Close, commVars
<1>3. CASE InitSerialComm
  <2>1. /\ app' = app /\ quit' = quit /\ faults' = faults /\ app = "init" /\ comm' # "open"
    BY <1>3 DEF InitSerialComm, SerialCommInit, OpenPort, SetTimeouts, SendEcho, VerifyEcho,
                NoPort, NotSet, NotConnected, appVars
  <2> QED
    BY <1>1, <2>1 DEF ProgramInv
<1>4. CASE InitFails /\ UNCHANGED <<scriptVars, appVars>>
  BY <1>4 DEF InitFails, ProgramInv, InitBoxes, NoPort, NotSet, NotConnected, appVars
<1>5. CASE Machine
  BY <1>1, <1>5, Unmoved DEF Machine, NesTakes, appVars
<1>6. CASE Program \/ Reset
  BY <1>1, <1>6, Unmoved DEF Program, Reset, NesBreaks, ResetButton, commVars, appVars
<1>7. ASSUME Dies, faults' \in 0 .. MaxFaults
      PROVE  ProgramInv'
  BY <1>7 DEF Dies, ProgramInv
<1>8. CASE Fault
  <2>1. faults' \in 0 .. MaxFaults
    BY <1>1, <1>8, FaultCounted DEF Fault
  <2>2. CASE (Unplug \/ Replug) /\ UNCHANGED <<scriptVars, app, quit>>
    BY <2>1, <2>2 DEF Unplug, Replug, ProgramInv
  <2> QED
    BY <1>7, <1>8, <2>1, <2>2 DEF Fault
<1>9. CASE MenuTestScriptsCrashes
  BY <1>1, <1>7, <1>9, FaultCounted DEF MenuTestScriptsCrashes
<1>10. CASE UNCHANGED vars
  BY <1>1, <1>10, Unmoved DEF vars, appVars, commVars
<1>11. CASE LoadBrowses \/ LoadOpens \/ LoadReads \/ LoadChecks \/ LoadSends \/ LoadCloses
  BY <1>1, <1>11, Unmoved DEF LoadBrowses, LoadOpens, LoadReads, LoadChecks, LoadSends,
                           LoadCloses, appVars, commVars
<1>12. CASE RawReceives \/ RawShows \/ RawDone \/ DialogReturns \/ BoxReturns
  BY <1>1, <1>12, Unmoved DEF RawReceives, RawShows, RawDone, DialogReturns, BoxReturns, appVars, commVars
<1>13. CASE RunStep /\ UNCHANGED appVars
  <2>1. port' = port /\ comm' = comm
    BY <1>13 DEF RunStep, ReturnsNothing, LuaPrint, LuaEcho, LuaCpuMemRd, LuaCpuMemWr,
         LuaPpuMemRd, LuaPpuMemWr, LuaCpuRegRd, LuaCpuRegWr, LuaDbgHlt, LuaDbgRun,
         LuaWaitForHlt, WaitForHltAsks, WaitForHltReads, LuaLoadAsm, LoadAsmReads,
         LoadAsmFails, LoadAsmReturns, Receive, ExecuteScript,
         NextScript, LastScript, Tell, Ask, commVars
  <2> QED
    BY <1>1, <1>13, <2>1, Unmoved DEF appVars
<1>14. CASE MenuExit \/ MenuLoadRom \/ MenuRawDebug \/ MenuTestScripts
  BY <1>1, <1>14, Unmoved DEF MenuExit, MenuLoadRom, MenuRawDebug, MenuTestScripts, appVars, commVars
<1>15. ASSUME NEW text \in Texts, RawSend(text)
       PROVE  ProgramInv'
  <2>1. faults' \in 0 .. MaxFaults
    BY <1>1, <1>15, FaultCounted DEF RawSend
  <2> QED
    BY <1>1, <1>15, <2>1, Unmoved DEF RawSend
<1>16. ASSUME NEW selected \in Selections, TestScriptsRun(selected)
       PROVE  ProgramInv'
  <2>1. faults' \in 0 .. MaxFaults
    BY <1>1, <1>16, FaultCounted DEF TestScriptsRun
  <2> QED
    BY <1>1, <1>16, <2>1, Unmoved DEF TestScriptsRun, TestScriptDlgRun, commVars
<1>17. CASE TestScriptDlgDone /\ UNCHANGED appVars
  BY <1>1, <1>17, Unmoved DEF TestScriptDlgDone, appVars, commVars
<1> QED
  BY <1>2, <1>3, <1>4, <1>5, <1>6, <1>8, <1>9, <1>10, <1>11, <1>12, <1>13, <1>14, <1>15, <1>16, <1>17
     DEF Next, ProgramStep, UserStep

-----------------------------------------------------------------------------
(* The steps of LoadRom.                                                    *)
AwaitsSome == Awaited \in Nat

LEMMA AwaitedNext == StackInv' /\ FrameInv' => Awaited' \in Nat
<1>1. StackInv /\ FrameInv => AwaitsSome
  BY AwaitedNat DEF AwaitsSome
<1>2. StackInv' /\ FrameInv' => AwaitsSome'
  BY <1>1, PTL
<1> QED
  BY <1>2 DEF AwaitsSome

\* What stays as it is where a load goes on.
LEMMA LoadFrame ==
    ASSUME StackInv, FrameInv, InTop("load")
    PROVE  /\ stack # <<>> /\ Top.kind = "load" /\ FrameOK(Top)
           /\ {"kind", "at", "rom", "heap", "i", "ok"} \subseteq DOMAIN Top
           /\ Top.heap \in Bytes /\ Top.i \in Nat \ {0} /\ Top.ok \in BOOLEAN
           /\ Top.at # "browse" => Top.rom \in DOMAIN Roms
           /\ Awaited = 0
<1>1. stack # <<>> /\ Top.kind = "load"
  BY DEF InTop
<1>2. "kind" \in DOMAIN Top /\ FrameOK(Top)
  BY <1>1, TopOK
<1>3. Awaited = 0
  BY <1>1 DEF Awaited, WaitsFor
<1> QED
  BY <1>1, <1>2, <1>3 DEF FrameOK

LEMMA ChecksFrames ==
    ASSUME StackInv, FrameInv, LoadChecks
    PROVE  FrameInv'
<1>1. LoadIs("check") /\ InTop("load") /\ Top.at = "check"
  BY DEF LoadChecks, LoadIs, At
<1>2. /\ stack # <<>> /\ Top.kind = "load" /\ FrameOK(Top)
      /\ {"kind", "at", "rom", "heap", "i", "ok"} \subseteq DOMAIN Top
      /\ Top.heap \in Bytes /\ Top.i \in Nat \ {0} /\ Top.ok \in BOOLEAN
      /\ Top.rom \in DOMAIN Roms
  BY <1>1, LoadFrame
<1> DEFINE next == [Top EXCEPT !.i = @ + 1]
           bad  == [next EXCEPT !.ok = FALSE]
           last == [Top EXCEPT !.at = IF Top.ok THEN "send" ELSE "close", !.i = 1]
<1>3. IF Top.i > 4 THEN Go(last)
      ELSE IF Faulty(Data(Top), Top.i) THEN BoxOver(bad)
      ELSE Go(next)
  BY DEF LoadChecks
<1>4. Top.i > 2 /\ Top.ok => ~Faulty(Data(Top), 2)
  BY <1>1, <1>2 DEF FrameOK
<1>5. /\ DOMAIN next = DOMAIN Top /\ next.kind = "load" /\ next.at = "check"
      /\ next.heap = Top.heap /\ next.rom = Top.rom /\ next.ok = Top.ok /\ next.i = Top.i + 1
  BY <1>1, <1>2
<1>6. /\ DOMAIN last = DOMAIN Top /\ last.kind = "load" /\ last.at = IF Top.ok THEN "send" ELSE "close"
      /\ last.heap = Top.heap /\ last.rom = Top.rom /\ last.ok = Top.ok /\ last.i = 1
  BY <1>1, <1>2
<1>7. /\ DOMAIN bad = DOMAIN Top /\ bad.kind = "load" /\ bad.at = "check"
      /\ bad.heap = Top.heap /\ bad.rom = Top.rom /\ bad.ok = FALSE /\ bad.i = Top.i + 1
  BY <1>2, <1>5
<1> HIDE DEF next, bad, last
<1>8. CASE Top.i > 4
  <2>1. Data(last) = Data(Top)
    BY <1>6 DEF Data
  <2>2. FrameOK(last)
    BY <1>2, <1>4, <1>6, <1>8, <2>1 DEF FrameOK
  <2> QED
    BY <1>2, <1>3, <1>8, <2>2, GoFrames
<1>9. CASE Top.i <= 4 /\ Faulty(Data(Top), Top.i)
  <2>1. bad.i \in Nat \ {0} /\ bad.at \notin {"browse", "open", "read", "send"} /\ ~bad.ok
    BY <1>2, <1>7
  <2>2. FrameOK(bad)
    BY <1>2, <1>7, <2>1 DEF FrameOK
  <2> QED
    BY <1>2, <1>3, <1>9, <2>2, BoxFrames
<1>10. CASE Top.i <= 4 /\ ~Faulty(Data(Top), Top.i)
  <2>1. Data(next) = Data(Top)
    BY <1>5 DEF Data
  <2>2. next.i > 2 => Top.i = 2 \/ Top.i > 2
    BY <1>2, <1>5
  <2>3. next.i > 2 /\ next.ok => ~Faulty(Data(next), 2)
    BY <1>4, <1>5, <1>10, <2>1, <2>2
  <2>4. FrameOK(next)
    BY <1>2, <1>5, <2>3 DEF FrameOK
  <2> QED
    BY <1>2, <1>3, <1>10, <2>4, GoFrames
<1> QED
  BY <1>2, <1>8, <1>9, <1>10

LEMMA LoadFrames ==
    ASSUME StackInv, FrameInv, LoadBrowses \/ LoadOpens \/ LoadReads \/ LoadCloses
    PROVE  FrameInv'
<1>1. InTop("load")
  BY DEF LoadBrowses, LoadOpens, LoadReads, LoadCloses, LoadIs, At
<1>2. /\ stack # <<>> /\ Top.kind = "load" /\ FrameOK(Top)
      /\ {"kind", "at", "rom", "heap", "i", "ok"} \subseteq DOMAIN Top
      /\ Top.heap \in Bytes /\ Top.i \in Nat \ {0} /\ Top.ok \in BOOLEAN
      /\ Top.at # "browse" => Top.rom \in DOMAIN Roms
  BY <1>1, LoadFrame
<1>3. Top.at \in {"browse", "open", "read"} => Top.i = 1
  BY <1>2 DEF FrameOK
<1>4. ASSUME NEW r \in DOMAIN Roms, Top.at = "browse"
      PROVE  FrameOK([Top EXCEPT !.at = "open", !.rom = r])
  <2> DEFINE f == [Top EXCEPT !.at = "open", !.rom = r]
  <2>1. /\ DOMAIN f = DOMAIN Top /\ f.kind = "load" /\ f.at = "open" /\ f.heap = Top.heap
        /\ f.rom = r /\ f.ok = Top.ok /\ f.i = Top.i
    BY <1>2
  <2> HIDE DEF f
  <2>2. FrameOK(f)
    BY <1>2, <1>3, <1>4, <2>1 DEF FrameOK
  <2> QED
    BY <2>2 DEF f
<1>5. ASSUME NEW s \in {"read", "done", "close"}, Top.at \in {"open", "read"}
      PROVE  FrameOK([Top EXCEPT !.at = s])
  <2> DEFINE f == [Top EXCEPT !.at = s]
  <2>1. /\ DOMAIN f = DOMAIN Top /\ f.kind = "load" /\ f.at = s /\ f.heap = Top.heap
        /\ f.rom = Top.rom /\ f.ok = Top.ok /\ f.i = Top.i
    BY <1>2
  <2> HIDE DEF f
  <2>2. FrameOK(f)
    BY <1>2, <1>3, <1>5, <2>1 DEF FrameOK
  <2> QED
    BY <2>2 DEF f
<1>6. ASSUME NEW heap \in Bytes, Top.at = "read"
      PROVE  FrameOK([Top EXCEPT !.at = "check", !.heap = heap])
  <2> DEFINE f == [Top EXCEPT !.at = "check", !.heap = heap]
  <2>1. /\ DOMAIN f = DOMAIN Top /\ f.kind = "load" /\ f.at = "check" /\ f.heap = heap
        /\ f.rom = Top.rom /\ f.ok = Top.ok /\ f.i = 1
    BY <1>2, <1>3, <1>6
  <2> HIDE DEF f
  <2>2. FrameOK(f)
    BY <1>2, <1>6, <2>1 DEF FrameOK
  <2> QED
    BY <2>2 DEF f
<1>7. CASE LoadBrowses
  <2>1. Top.at = "browse" /\ \/ \E r \in DOMAIN Roms : Go([Top EXCEPT !.at = "open", !.rom = r])
                             \/ Return
    BY <1>7 DEF LoadBrowses, LoadIs, At
  <2> QED
    BY <1>2, <1>4, <2>1, GoFrames, ReturnFrames
<1>8. CASE LoadOpens
  <2>1. Top.at = "open" /\ \/ Go([Top EXCEPT !.at = "read"])
                           \/ BoxOver([Top EXCEPT !.at = "done"])
    BY <1>8 DEF LoadOpens, LoadIs, At
  <2> QED
    BY <1>2, <1>5, <2>1, GoFrames, BoxFrames
<1>9. CASE LoadReads
  <2>1. Top.at = "read"
    BY <1>9 DEF LoadReads, LoadIs, At
  <2>2. \/ \E heap \in Bytes : Go([Top EXCEPT !.at = "check", !.heap = heap])
        \/ BoxOver([Top EXCEPT !.at = "close"])
    <3>1. Heap \subseteq Bytes /\ 0 \in Bytes
      BY CommAssumption, ByteRange DEF Bytes
    <3> DEFINE short == Len(Roms[Top.rom]) < RomSize
    <3>2. \/ \E heap \in IF short THEN Heap ELSE {0} : Go([Top EXCEPT !.at = "check", !.heap = heap])
          \/ BoxOver([Top EXCEPT !.at = "close"])
      BY <1>9 DEF LoadReads
    <3> HIDE DEF short
    <3> QED
      BY <3>1, <3>2
  <2> QED
    BY <1>2, <1>5, <1>6, <2>1, <2>2, GoFrames, BoxFrames
<1>10. CASE LoadCloses
  <2>1. Return
    BY <1>10 DEF LoadCloses
  <2> QED
    BY <1>2, <2>1, ReturnFrames
<1> QED
  BY <1>7, <1>8, <1>9, <1>10

\* Nothing is sent before the last check.
LEMMA LoadSteps ==
    ASSUME StackInv, FrameInv, PortInv, WireInv, Written,
           LoadBrowses \/ LoadOpens \/ LoadReads \/ LoadChecks \/ LoadCloses
    PROVE  PortInv' /\ WireInv' /\ FrameInv'
<1>1. Awaited = 0
  BY LoadFrame DEF LoadBrowses, LoadOpens, LoadReads, LoadChecks, LoadCloses, LoadIs, At
<1>2. UNCHANGED <<nes, out, commVars>>
  BY DEF LoadBrowses, LoadOpens, LoadReads, LoadChecks, LoadCloses
<1>3. FrameInv'
  BY ChecksFrames, LoadFrames
<1>4. Awaited' \in Nat
  BY <1>3, LoadStepKeeps, AwaitedNext
<1> QED
  BY <1>1, <1>2, <1>3, <1>4, QuietStep

LEMMA LoadSendsStep ==
    ASSUME StackInv, FrameInv, PortInv, WireInv, Written, comm = "up", LoadSends
    PROVE  PortInv' /\ WireInv' /\ FrameInv'
<1>1. InTop("load") /\ Top.at = "send"
  BY DEF LoadSends, LoadIs, At
<1>2. /\ stack # <<>> /\ Top.kind = "load" /\ FrameOK(Top)
      /\ {"kind", "at", "rom", "heap", "i", "ok"} \subseteq DOMAIN Top
      /\ Top.heap \in Bytes /\ Top.i \in Nat \ {0} /\ Top.ok \in BOOLEAN
      /\ Top.rom \in DOMAIN Roms /\ Awaited = 0
  BY <1>1, LoadFrame
<1>3. Top.ok /\ ~Faulty(Data(Top), 2)
  BY <1>1, <1>2 DEF FrameOK
<1>4. RomPackets(Data(Top)) \in Seq(ToldPackets)
  <2>1. Data(Top) \in Seq(Bytes) /\ Len(Data(Top)) = RomSize
    BY <1>2, RomData
  <2> DEFINE d == Data(Top)
  <2>2. ~(d[5] > 2 \/ d[6] > 1)
    BY <1>3 DEF Faulty
  <2> HIDE DEF d
  <2> QED
    BY <2>1, <2>2, RomToldPackets DEF d
<1> DEFINE ps == RomPackets(Data(Top))
           next == [Top EXCEPT !.i = @ + 1]
           last == [Top EXCEPT !.at = "close"]
<1>5. /\ UNCHANGED <<nes, out, port, comm, plugged>>
      /\ IF Top.i <= Len(ps) THEN SendData(ps[Top.i]) /\ Go(next)
         ELSE Go(last) /\ UNCHANGED <<wire, rogue>>
  BY DEF LoadSends
<1>6. /\ DOMAIN next = DOMAIN Top /\ next.kind = "load" /\ next.at = "send"
      /\ next.heap = Top.heap /\ next.rom = Top.rom /\ next.ok = Top.ok /\ next.i = Top.i + 1
  BY <1>1, <1>2
<1>7. /\ DOMAIN last = DOMAIN Top /\ last.kind = "load" /\ last.at = "close"
      /\ last.heap = Top.heap /\ last.rom = Top.rom /\ last.ok = Top.ok /\ last.i = Top.i
  BY <1>1, <1>2
<1> HIDE DEF next, last, ps
<1>8. CASE Top.i <= Len(ps)
  <2>1. Data(next) = Data(Top)
    BY <1>6 DEF Data
  <2>2. FrameOK(next) /\ WaitsFor(next) = 0
    BY <1>2, <1>3, <1>6, <2>1 DEF FrameOK, WaitsFor
  <2>3. FrameInv' /\ Awaited' = 0
    BY <1>2, <1>5, <1>8, <2>2, GoFrames
  <2>4. ps[Top.i] \in ToldPackets
    BY <1>2, <1>4, <1>8 DEF ps
  <2>5. IsPacket(ps[Top.i]) /\ ReturnBytesExpected(ps[Top.i]) = 0
    BY <2>4 DEF ToldPackets, Told
  <2> QED
    BY <1>2, <1>5, <1>8, <2>3, <2>5, SendStep
<1>9. CASE ~(Top.i <= Len(ps))
  <2>1. FrameOK(last) /\ WaitsFor(last) = 0
    BY <1>2, <1>7 DEF FrameOK, WaitsFor
  <2>2. FrameInv' /\ Awaited' = 0
    BY <1>2, <1>5, <1>9, <2>1, GoFrames
  <2>3. UNCHANGED <<nes, out, commVars>>
    BY <1>5, <1>9 DEF commVars
  <2> QED
    BY <1>2, <2>2, <2>3, QuietStep
<1> QED
  BY <1>8, <1>9

-----------------------------------------------------------------------------
(* The steps of the dialogs and boxes, and what the user starts.            *)
LEMMA PumpingIdle == Pumping => Awaited = 0
  BY DEF Pumping, InTop, At, Awaited, WaitsFor

LEMMA LoopIsUp ==
    ASSUME AppInv, ProgramInv
    PROVE  /\ stack # <<>> => comm = "up"
           /\ \A k : Live(k) => stack # <<>>
<1>1. DOMAIN <<>> = {}
  OBVIOUS
<1> QED
  BY <1>1 DEF AppInv, ProgramInv, Live

\* A call that starts and sends nothing; where it starts nobody waits.
LEMMA StartStep ==
    ASSUME StackInv, FrameInv, PortInv, WireInv, Written, NEW f, FrameOK(f), WaitsFor(f) = 0,
           Start(f), UNCHANGED <<nes, out, commVars>>
    PROVE  PortInv' /\ WireInv' /\ FrameInv'
<1>1. FrameInv' /\ Awaited' = 0
  BY StartFrames
<1>2. Awaited = 0
  BY PumpingIdle DEF Start
<1> QED
  BY <1>1, <1>2, QuietStep

LEMMA RawSendStep ==
    ASSUME StackInv, FrameInv, AppInv, ProgramInv, PortInv, WireInv, Written,
           NEW text \in Texts, RawSend(text)
    PROVE  PortInv' /\ WireInv' /\ FrameInv'
<1>1. comm = "up"
  BY LoopIsUp DEF RawSend
<1> DEFINE p(h) == CreateObjFromString(text, h)
           f(h) == [kind |-> "send", at |-> "receive", n |-> ReturnBytesExpected(p(h)),
                    got |-> <<>>, want |-> Wanted(AsTyped(text, p(h)))]
<1>2. PICK h \in Heap :
          IF p(h) = NoPacket THEN Start(Box) /\ UNCHANGED <<wire, rogue, faults>>
          ELSE Start(f(h)) /\ SendData(p(h))
  BY DEF RawSend
<1>3. UNCHANGED <<nes, out, port, comm, plugged>>
  BY DEF RawSend
<1>4. p(h) = NoPacket \/ IsPacket(p(h))
  BY TypedPacket
<1>5. f(h).kind = "send" /\ f(h).at = "receive" /\ f(h).n = ReturnBytesExpected(p(h))
      /\ {"at", "n", "got"} \subseteq DOMAIN f(h)
  OBVIOUS
<1> HIDE DEF p, f
<1>6. CASE p(h) = NoPacket
  <2>1. UNCHANGED <<nes, out, commVars>>
    BY <1>2, <1>3, <1>6 DEF commVars
  <2> QED
    BY <1>2, <1>6, <2>1, BoxOK, StartStep
<1>7. CASE p(h) # NoPacket
  <2>1. IsPacket(p(h)) /\ ReturnBytesExpected(p(h)) \in Nat
    BY <1>4, <1>7, ExpectedIsNat
  <2>2. FrameOK(f(h)) /\ WaitsFor(f(h)) = ReturnBytesExpected(p(h))
    BY <1>5, <2>1 DEF FrameOK, WaitsFor
  <2>3. Start(f(h)) /\ SendData(p(h))
    BY <1>2, <1>7
  <2>4. FrameInv' /\ Awaited' = ReturnBytesExpected(p(h))
    BY <2>2, <2>3, StartFrames
  <2>5. Awaited = 0
    BY <2>3, PumpingIdle DEF Start
  <2> QED
    BY <1>1, <1>3, <2>1, <2>3, <2>4, <2>5, SendStep
<1> QED
  BY <1>6, <1>7

LEMMA StartsStep ==
    ASSUME StackInv, FrameInv, PortInv, WireInv, Written,
           MenuLoadRom \/ MenuRawDebug \/ MenuTestScripts
    PROVE  PortInv' /\ WireInv' /\ FrameInv'
<1>1. CASE MenuLoadRom
  <2> DEFINE f == [kind |-> "load", at |-> "browse", rom |-> "", heap |-> 0, i |-> 1, ok |-> TRUE]
  <2>1. Start(f) /\ UNCHANGED <<nes, out, commVars>>
    BY <1>1 DEF MenuLoadRom
  <2>2. /\ f.kind = "load" /\ f.at = "browse" /\ f.heap = 0 /\ f.i = 1 /\ f.ok = TRUE
        /\ {"at", "rom", "heap", "i", "ok"} \subseteq DOMAIN f
    OBVIOUS
  <2> HIDE DEF f
  <2>3. f.heap \in Bytes /\ f.i \in Nat \ {0} /\ f.ok \in BOOLEAN
    <3>1. f.heap \in Bytes /\ f.i \in Nat \ {0}
      BY <2>2, ByteRange
    <3>2. f.ok \in BOOLEAN
      BY <2>2, Zenon
    <3> QED
      BY <3>1, <3>2
  <2>4. FrameOK(f) /\ WaitsFor(f) = 0
    BY <2>2, <2>3 DEF FrameOK, WaitsFor
  <2> QED
    BY <2>1, <2>4, StartStep
<1>2. CASE MenuRawDebug \/ MenuTestScripts
  <2>1. PICK k \in {"raw", "scripts"} : Start([kind |-> k, ended |-> FALSE])
    BY <1>2 DEF MenuRawDebug, MenuTestScripts, TestScriptDlgInit
  <2>2. UNCHANGED <<nes, out, commVars>>
    BY <1>2 DEF MenuRawDebug, MenuTestScripts
  <2> DEFINE f == [kind |-> k, ended |-> FALSE]
  <2>3. FrameOK(f) /\ WaitsFor(f) = 0
    BY DEF FrameOK, WaitsFor
  <2> QED
    BY <2>1, <2>2, <2>3, StartStep
<1> QED
  BY <1>1, <1>2

LEMMA TestRunStep ==
    ASSUME StackInv, FrameInv, PortInv, WireInv, Written,
           NEW selected \in Selections, TestScriptsRun(selected)
    PROVE  PortInv' /\ WireInv' /\ FrameInv'
<1>1. UNCHANGED <<nes, out, commVars>>
  BY DEF TestScriptsRun, TestScriptDlgRun
<1>2. CASE selected = <<>>
  <2>1. Start(Box)
    BY <1>2 DEF TestScriptsRun, TestScriptDlgRun
  <2> QED
    BY <1>1, <2>1, BoxOK, StartStep
<1>3. CASE selected # <<>>
  <2> DEFINE f == [kind |-> "run", at |-> "next", left |-> selected, of |-> Len(selected),
                   tally |-> <<0, 0, 0>>, script |-> Head(selected), pc |-> 1,
                   result |-> PASS, verdict |-> NoVerdict, n |-> 0, held |-> {},
                   below |-> 0, fair |-> FALSE]
  <2>1. Start(f)
    BY <1>3 DEF TestScriptsRun, TestScriptDlgRun
  <2>2. /\ f.kind = "run" /\ f.at = "next" /\ f.pc = 1 /\ f.script = Head(selected)
        /\ f.held = {} /\ {"at", "n", "pc", "script", "held"} \subseteq DOMAIN f
    OBVIOUS
  <2>3. selected \in Seq(DOMAIN Scripts)
    BY ScriptsAssumption
  <2>4. Head(selected) \in DOMAIN Scripts
    BY <1>3, <2>3
  <2> HIDE DEF f
  <2>5. FrameOK(f) /\ WaitsFor(f) = 0
    BY <2>2, <2>4 DEF FrameOK, WaitsFor
  <2> QED
    BY <1>1, <2>1, <2>5, StartStep
<1> QED
  BY <1>2, <1>3

\* The top of the stack is back, or its dialog ends: nobody waits before,
\* and whoever is on top after it waits at least for nothing.
LEMMA BackStep ==
    ASSUME StackInv, StackInv', FrameInv, PortInv, WireInv, Written, Awaited = 0,
           \/ stack # <<>> /\ Return
           \/ \E k \in {"raw", "scripts"} : EndDialog(k),
           UNCHANGED <<nes, out, commVars>>
    PROVE  PortInv' /\ WireInv' /\ FrameInv'
<1>1. FrameInv'
  BY ReturnFrames, EndFrames
<1>2. Awaited' \in Nat
  BY <1>1, AwaitedNext
<1> QED
  BY <1>1, <1>2, QuietStep

LEMMA DialogsStep ==
    ASSUME StackInv, FrameInv, AppInv, ProgramInv, PortInv, WireInv, Written,
           \/ RawReceives \/ RawShows \/ RawDone \/ DialogReturns \/ BoxReturns
           \/ TestScriptDlgDone
    PROVE  PortInv' /\ WireInv' /\ FrameInv'
<1>1. StackInv'
  BY DialogsKeep
<1>2. CASE RawReceives
  <2>1. /\ stack # <<>> /\ Top.kind = "send" /\ Top.at = "receive" /\ ReceiveData(Top.n)
        /\ UNCHANGED <<nes, commVars>>
    BY <1>2 DEF RawReceives, At, InTop
  <2>2. "kind" \in DOMAIN Top /\ {"at", "n", "got"} \subseteq DOMAIN Top /\ Top.n \in Nat
    BY <2>1, TopOK DEF FrameOK
  <2>3. Awaited = Top.n
    BY <2>1 DEF Awaited, WaitsFor
  <2>4. PICK heap \in Heap : Go([Top EXCEPT !.at = "show", !.got = Received(Top.n, heap)])
    BY <1>2 DEF RawReceives
  <2> DEFINE f == [Top EXCEPT !.at = "show", !.got = Received(Top.n, heap)]
  <2>5. DOMAIN f = DOMAIN Top /\ f.kind = "send" /\ f.at = "show" /\ f.n = Top.n
    BY <2>1, <2>2
  <2> HIDE DEF f
  <2>6. FrameOK(f)
    BY <2>2, <2>5 DEF FrameOK
  <2>7. FrameInv'
    BY <2>1, <2>4, <2>6, GoFrames DEF f
  <2>8. Awaited' \in Nat
    BY <1>1, <2>7, AwaitedNext
  <2>9. comm = "up"
    BY <2>1, LoopIsUp
  <2> QED
    BY <2>1, <2>2, <2>3, <2>7, <2>8, <2>9, ReceiveStep
<1>3. CASE RawShows \/ DialogReturns \/ BoxReturns
  <2>1. /\ stack # <<>> /\ Return /\ UNCHANGED <<nes, out, commVars>>
        /\ \/ Top.kind = "send" /\ Top.at = "show"
           \/ Top.kind \in {"raw", "scripts", "box"}
    BY <1>3 DEF RawShows, DialogReturns, BoxReturns, At, InTop
  <2>2. Awaited = 0
    BY <2>1 DEF Awaited, WaitsFor
  <2> QED
    BY <1>1, <2>1, <2>2, BackStep
<1>4. CASE RawDone \/ TestScriptDlgDone
  <2>1. Pumping /\ UNCHANGED <<nes, out, commVars>>
        /\ \E k \in {"raw", "scripts"} : EndDialog(k)
    BY <1>4 DEF RawDone, TestScriptDlgDone
  <2> QED
    BY <1>1, <2>1, PumpingIdle, BackStep
<1> QED
  BY <1>2, <1>3, <1>4

-----------------------------------------------------------------------------
(* The steps of a script.                                                   *)
LEMMA RunFrame ==
    ASSUME StackInv, FrameInv, InTop("run")
    PROVE  /\ stack # <<>> /\ Top.kind = "run"
           /\ {"kind", "at", "n", "pc", "script", "held"} \subseteq DOMAIN Top
           /\ Top.pc \in Nat \ {0} /\ Top.script \in DOMAIN Scripts
           /\ Top.held \subseteq DOMAIN PrgFiles
           /\ Top.at = "receive" => Top.n \in Nat /\ Awaited = Top.n
           /\ Top.at = "halted?" => Awaited = 1
           /\ Top.at \notin {"receive", "halted?"} => Awaited = 0
<1>1. stack # <<>> /\ Top.kind = "run"
  BY DEF InTop
<1>2. "kind" \in DOMAIN Top /\ FrameOK(Top)
  BY <1>1, TopOK
<1>3. /\ Top.at = "receive" => Awaited = Top.n
      /\ Top.at = "halted?" => Awaited = 1
      /\ Top.at \notin {"receive", "halted?"} => Awaited = 0
  BY <1>1 DEF Awaited, WaitsFor
<1> QED
  BY <1>1, <1>2, <1>3 DEF FrameOK

LEMMA RunOK ==
    ASSUME NEW f, f.kind = "run", {"at", "n", "pc", "script", "held"} \subseteq DOMAIN f,
           f.pc \in Nat \ {0}, f.script \in DOMAIN Scripts, f.held \subseteq DOMAIN PrgFiles,
           f.at = "receive" => f.n \in Nat
    PROVE  FrameOK(f)
  BY DEF FrameOK

LEMMA ReturnedOK ==
    ASSUME StackInv, FrameInv, InTop("run"), NEW v
    PROVE  /\ FrameOK(Returned(v)) /\ WaitsFor(Returned(v)) = 0
           /\ LET g == [Returned(v) EXCEPT !.held = {}, !.n = 0]
              IN  FrameOK(g) /\ WaitsFor(g) = 0
<1>1. /\ stack # <<>> /\ Top.kind = "run"
      /\ {"kind", "at", "n", "pc", "script", "held"} \subseteq DOMAIN Top
      /\ Top.pc \in Nat \ {0} /\ Top.script \in DOMAIN Scripts
      /\ Top.held \subseteq DOMAIN PrgFiles
  BY RunFrame
<1> DEFINE f == Returned(v)
           g == [f EXCEPT !.held = {}, !.n = 0]
<1>2. /\ DOMAIN f = DOMAIN Top /\ f.kind = "run" /\ f.at = "call" /\ f.pc = Top.pc + 1
      /\ f.script = Top.script /\ f.held = Top.held
  BY <1>1 DEF Returned
<1> HIDE DEF f
<1>3. /\ DOMAIN g = DOMAIN f /\ g.kind = "run" /\ g.at = "call" /\ g.pc = f.pc
      /\ g.script = f.script /\ g.held = {}
  BY <1>1, <1>2
<1> HIDE DEF g
<1>4. FrameOK(f) /\ FrameOK(g)
  BY <1>1, <1>2, <1>3, RunOK
<1>5. WaitsFor(f) = 0 /\ WaitsFor(g) = 0
  BY <1>2, <1>3 DEF WaitsFor
<1> QED
  BY <1>4, <1>5 DEF f, g

\* The call that a script is at is one of those it is made of.
LEMMA CalledOK ==
    ASSUME StackInv, FrameInv, NEW fn, Calling(fn)
    PROVE  /\ InTop("run") /\ Top.at = "call" /\ Awaited = 0
           /\ CallOK(TheCall) /\ TheCall.fn = fn /\ TheCall.args # <<>>
<1>1. InTop("run") /\ Top.at = "call" /\ TheCall.fn = fn /\ TheCall.args # <<>> /\ InCalls
  BY DEF Calling, At, BadArgs
<1>2. Top.pc \in Nat \ {0} /\ Top.script \in DOMAIN Scripts /\ Awaited = 0
  BY <1>1, RunFrame
<1>3. Len(Calls) \in Nat /\ \A i \in 1 .. Len(Calls) : CallOK(Calls[i])
  BY <1>2, ScriptsAssumption DEF Calls
<1>4. Top.pc \in 1 .. Len(Calls)
  BY <1>1, <1>2, <1>3 DEF InCalls
<1> QED
  BY <1>1, <1>2, <1>3, <1>4 DEF TheCall

LEMMA TellStep ==
    ASSUME StackInv, FrameInv, PortInv, WireInv, Written, comm = "up", InTop("run"),
           Awaited = 0, NEW p, Told(p), Tell(p)
    PROVE  PortInv' /\ WireInv' /\ FrameInv'
<1>1. SendData(p) /\ Go(Returned(<<>>)) /\ UNCHANGED <<nes, out, port, comm, plugged>>
  BY DEF Tell
<1>2. IsPacket(p) /\ ReturnBytesExpected(p) = 0 /\ stack # <<>>
  BY RunFrame DEF Told
<1>3. FrameInv' /\ Awaited' = 0
  BY <1>1, <1>2, ReturnedOK, GoFrames
<1> QED
  BY <1>1, <1>2, <1>3, SendStep

LEMMA AskStep ==
    ASSUME StackInv, FrameInv, PortInv, WireInv, Written, comm = "up", InTop("run"),
           Awaited = 0, NEW p, IsPacket(p), Ask(p)
    PROVE  PortInv' /\ WireInv' /\ FrameInv'
<1> DEFINE n == ReturnBytesExpected(p)
           f == [Top EXCEPT !.at = "receive", !.n = n]
<1>1. SendData(p) /\ Go(f) /\ UNCHANGED <<nes, out, port, comm, plugged>>
  BY DEF Ask
<1>2. /\ stack # <<>> /\ Top.kind = "run"
      /\ {"kind", "at", "n", "pc", "script", "held"} \subseteq DOMAIN Top
      /\ Top.pc \in Nat \ {0} /\ Top.script \in DOMAIN Scripts
      /\ Top.held \subseteq DOMAIN PrgFiles
  BY RunFrame
<1>3. n \in Nat
  BY ExpectedIsNat
<1> HIDE DEF n
<1>4. /\ DOMAIN f = DOMAIN Top /\ f.kind = "run" /\ f.at = "receive" /\ f.n = n /\ f.pc = Top.pc
      /\ f.script = Top.script /\ f.held = Top.held
  BY <1>2
<1> HIDE DEF f
<1>5. FrameOK(f) /\ WaitsFor(f) = n
  BY <1>2, <1>3, <1>4, RunOK DEF WaitsFor
<1>6. FrameInv' /\ Awaited' = ReturnBytesExpected(p)
  BY <1>1, <1>2, <1>5, GoFrames DEF n
<1> QED
  BY <1>1, <1>6, SendStep

\* The functions of Lua that send one packet.
LEMMA LuaSteps ==
    ASSUME StackInv, FrameInv, PortInv, WireInv, Written, AppInv, ProgramInv,
           \/ LuaEcho \/ LuaCpuMemRd \/ LuaCpuMemWr \/ LuaPpuMemRd \/ LuaPpuMemWr
           \/ LuaCpuRegRd \/ LuaCpuRegWr \/ LuaDbgHlt \/ LuaDbgRun
    PROVE  PortInv' /\ WireInv' /\ FrameInv'
<1>1. ASSUME NEW fn, Calling(fn)
      PROVE  InTop("run") /\ Awaited = 0 /\ comm = "up"
  BY <1>1, CalledOK, LoopIsUp DEF InTop
<1>2. ASSUME NEW fn, Calling(fn), NEW p, IsPacket(p), Ask(p)
      PROVE  PortInv' /\ WireInv' /\ FrameInv'
  BY <1>1, <1>2, AskStep
<1>3. ASSUME NEW fn, Calling(fn), NEW p, Told(p), Tell(p)
      PROVE  PortInv' /\ WireInv' /\ FrameInv'
  BY <1>1, <1>3, TellStep
<1>4. CASE LuaEcho
  <2> DEFINE n == Ushort(Arg(1))
             t == TableBytes(n, Arg(2))
  <2>1. Calling("Echo") /\ Ask(EchoPacket(t))
    BY <1>4 DEF LuaEcho
  <2>2. Arg(1) \in Int /\ Table(Arg(2))
    BY <2>1, CalledOK DEF CallOK, Arg
  <2>3. n \in Ushorts
    BY <2>2, LuaNumbers
  <2> HIDE DEF n
  <2>4. t \in Seq(Bytes) /\ Len(t) \in Ushorts
    BY <2>2, <2>3, LuaTable
  <2> HIDE DEF t
  <2>5. IsPacket(EchoPacket(t))
    BY <2>4, EchoAsked DEF Asked
  <2> QED
    BY <1>2, <2>1, <2>5
<1>5. CASE LuaCpuMemRd
  <2>1. Calling("CpuMemRd") /\ Ask(CpuMemRdPacket(Ushort(Arg(1)), Ushort(Arg(2))))
    BY <1>5 DEF LuaCpuMemRd
  <2>2. Arg(1) \in Int /\ Arg(2) \in Int
    BY <2>1, CalledOK DEF CallOK, Arg
  <2>3. IsPacket(CpuMemRdPacket(Ushort(Arg(1)), Ushort(Arg(2))))
    BY <2>2, LuaNumbers, ReadAsked DEF Asked
  <2> QED
    BY <1>2, <2>1, <2>3
<1>6. CASE LuaPpuMemRd
  <2>1. Calling("PpuMemRd") /\ Ask(PpuMemRdPacket(Ushort(Arg(1)), Ushort(Arg(2))))
    BY <1>6 DEF LuaPpuMemRd
  <2>2. Arg(1) \in Int /\ Arg(2) \in Int
    BY <2>1, CalledOK DEF CallOK, Arg
  <2>3. IsPacket(PpuMemRdPacket(Ushort(Arg(1)), Ushort(Arg(2))))
    BY <2>2, LuaNumbers, ReadAsked DEF Asked
  <2> QED
    BY <1>2, <2>1, <2>3
<1>7. CASE LuaCpuMemWr \/ LuaPpuMemWr
  <2> DEFINE a == Ushort(Arg(1))
             n == Ushort(Arg(2))
             t == TableBytes(n, Arg(3))
  <2>1. PICK fn \in {"CpuMemWr", "PpuMemWr"} :
            Calling(fn) /\ \/ Tell(CpuMemWrPacket(a, t))
                           \/ Tell(PpuMemWrPacket(a, t))
    BY <1>7 DEF LuaCpuMemWr, LuaPpuMemWr
  <2>2. Arg(1) \in Int /\ Arg(2) \in Int /\ Table(Arg(3))
    BY <2>1, CalledOK DEF CallOK, Arg
  <2>3. a \in Ushorts /\ n \in Ushorts
    BY <2>2, LuaNumbers
  <2> HIDE DEF a, n
  <2>4. t \in Seq(Bytes) /\ Len(t) \in Ushorts
    BY <2>2, <2>3, LuaTable
  <2> HIDE DEF t
  <2>5. Told(CpuMemWrPacket(a, t)) /\ Told(PpuMemWrPacket(a, t))
    BY <2>3, <2>4, WriteTold
  <2> QED
    BY <1>3, <2>1, <2>5
<1>8. CASE LuaCpuRegRd
  <2>1. Calling("CpuRegRd") /\ Ask(CpuRegRdPacket(Arg(1)))
    BY <1>8 DEF LuaCpuRegRd
  <2>2. Arg(1) \in Bytes
    BY <2>1, CalledOK DEF CallOK, Arg, Bytes
  <2>3. IsPacket(CpuRegRdPacket(Arg(1)))
    BY <2>2, ShortPackets DEF Asked
  <2> QED
    BY <1>2, <2>1, <2>3
<1>9. CASE LuaCpuRegWr
  <2>1. Calling("CpuRegWr") /\ Tell(CpuRegWrPacket(Arg(1), Byte(Arg(2))))
    BY <1>9 DEF LuaCpuRegWr
  <2>2. Arg(1) \in Bytes /\ Arg(2) \in Int
    BY <2>1, CalledOK DEF CallOK, Arg, Bytes
  <2>3. Told(CpuRegWrPacket(Arg(1), Byte(Arg(2))))
    BY <2>2, LuaNumbers, ShortPackets
  <2> QED
    BY <1>3, <2>1, <2>3
<1>10. CASE LuaDbgHlt \/ LuaDbgRun
  BY <1>3, <1>10, ShortPackets DEF LuaDbgHlt, LuaDbgRun
<1> QED
  BY <1>4, <1>5, <1>6, <1>7, <1>8, <1>9, <1>10

LEMMA WaitStep ==
    ASSUME StackInv, FrameInv, PortInv, WireInv, Written, AppInv, ProgramInv, LuaWaitForHlt
    PROVE  PortInv' /\ WireInv' /\ FrameInv'
<1>1. InTop("run") /\ stack # <<>>
  BY DEF LuaWaitForHlt, WaitForHltAsks, WaitForHltReads, Calling, At, InTop
<1>2. /\ Top.kind = "run"
      /\ {"kind", "at", "n", "pc", "script", "held"} \subseteq DOMAIN Top
      /\ Top.pc \in Nat \ {0} /\ Top.script \in DOMAIN Scripts
      /\ Top.held \subseteq DOMAIN PrgFiles
  BY <1>1, RunFrame
<1>3. comm = "up"
  BY <1>1, LoopIsUp
<1>4. StackInv'
  BY WaitKeeps
<1>5. CASE WaitForHltAsks
  <2> DEFINE f(h) == [Top EXCEPT !.at = "halted?", !.n = h]
             g == [Top EXCEPT !.at = "halted?"]
  <2>1. /\ SendData(QueryHltPacket) /\ UNCHANGED <<nes, out, port, comm, plugged>>
        /\ (\E h : Go(f(h))) \/ Go(g)
    BY <1>5 DEF WaitForHltAsks
  <2>2. Awaited = 0
    <3>1. Top.at \in {"call", "wait"}
      BY <1>5 DEF WaitForHltAsks, Calling, At
    <3> QED
      BY <1>1, <3>1, RunFrame
  <2>3. ASSUME NEW h
        PROVE  FrameOK(f(h)) /\ WaitsFor(f(h)) = 1
    <3>1. /\ DOMAIN f(h) = DOMAIN Top /\ f(h).kind = "run" /\ f(h).at = "halted?"
          /\ f(h).pc = Top.pc /\ f(h).script = Top.script /\ f(h).held = Top.held
      BY <1>2
    <3> HIDE DEF f
    <3> QED
      BY <1>2, <3>1, RunOK DEF WaitsFor
  <2>4. FrameOK(g) /\ WaitsFor(g) = 1
    <3>1. /\ DOMAIN g = DOMAIN Top /\ g.kind = "run" /\ g.at = "halted?"
          /\ g.pc = Top.pc /\ g.script = Top.script /\ g.held = Top.held
      BY <1>2
    <3> HIDE DEF g
    <3> QED
      BY <1>2, <3>1, RunOK DEF WaitsFor
  <2> HIDE DEF f, g
  <2>5. FrameInv' /\ Awaited' = 1
    BY <1>1, <2>1, <2>3, <2>4, GoFrames
  <2>6. IsPacket(QueryHltPacket) /\ ReturnBytesExpected(QueryHltPacket) = 1
    BY ShortPackets DEF Asked
  <2> QED
    BY <1>3, <2>1, <2>2, <2>5, <2>6, SendStep
<1>6. CASE WaitForHltReads
  <2> DEFINE g == [Top EXCEPT !.at = "wait", !.n = 0]
  <2>1. /\ ReceiveData(1) /\ UNCHANGED <<nes, commVars>>
        /\ Go(g) \/ Go(Returned(<<>>))
    BY <1>6 DEF WaitForHltReads
  <2>2. Awaited = 1
    <3>1. Top.at = "halted?"
      BY <1>6 DEF WaitForHltReads, At
    <3> QED
      BY <1>1, <3>1, RunFrame
  <2>3. FrameOK(g)
    <3>1. /\ DOMAIN g = DOMAIN Top /\ g.kind = "run" /\ g.at = "wait"
          /\ g.pc = Top.pc /\ g.script = Top.script /\ g.held = Top.held
      BY <1>2
    <3> HIDE DEF g
    <3> QED
      BY <1>2, <3>1, RunOK
  <2> HIDE DEF g
  <2>4. FrameInv'
    BY <1>1, <2>1, <2>3, ReturnedOK, GoFrames
  <2>5. Awaited' \in Nat
    BY <1>4, <2>4, AwaitedNext
  <2> QED
    BY <1>3, <2>1, <2>2, <2>4, <2>5, ReceiveStep
<1> QED
  BY <1>5, <1>6 DEF LuaWaitForHlt

\* What a run does by itself, or receives.
LEMMA LocalStep ==
    ASSUME StackInv, FrameInv, PortInv, WireInv, Written, AppInv, ProgramInv,
           ReturnsNothing \/ LuaPrint \/ Receive
    PROVE  PortInv' /\ WireInv' /\ FrameInv'
<1>1. InTop("run") /\ stack # <<>>
  BY DEF ReturnsNothing, LuaPrint, Receive, Calling, At, InTop
<1>2. /\ Top.kind = "run"
      /\ {"kind", "at", "n", "pc", "script", "held"} \subseteq DOMAIN Top
      /\ Top.pc \in Nat \ {0} /\ Top.script \in DOMAIN Scripts
      /\ Top.held \subseteq DOMAIN PrgFiles
  BY <1>1, RunFrame
<1>3. CASE ReturnsNothing \/ LuaPrint
  <2> DEFINE g == [Top EXCEPT !.at = "error"]
  <2>1. UNCHANGED <<nes, out, commVars>> /\ (Go(g) \/ Go(Returned(<<>>)))
    BY <1>3 DEF ReturnsNothing, LuaPrint
  <2>2. Awaited = 0
    <3>1. Top.at = "call"
      BY <1>3 DEF ReturnsNothing, LuaPrint, Calling, At
    <3> QED
      BY <1>1, <3>1, RunFrame
  <2>3. /\ DOMAIN g = DOMAIN Top /\ g.kind = "run" /\ g.at = "error"
        /\ g.pc = Top.pc /\ g.script = Top.script /\ g.held = Top.held
    BY <1>2
  <2> HIDE DEF g
  <2>4. FrameOK(g) /\ WaitsFor(g) = 0
    BY <1>2, <2>3, RunOK DEF WaitsFor
  <2>5. FrameInv' /\ Awaited' = 0
    BY <1>1, <2>1, <2>4, ReturnedOK, GoFrames
  <2> QED
    BY <2>1, <2>2, <2>5, QuietStep
<1>4. CASE Receive
  <2>1. /\ Top.at = "receive" /\ ReceiveData(Top.n) /\ UNCHANGED <<nes, commVars>>
        /\ \E v : Go(Returned(v))
    BY <1>4 DEF Receive, At
  <2>2. FrameInv' /\ Awaited' = 0
    BY <1>1, <2>1, ReturnedOK, GoFrames
  <2>3. Awaited = Top.n /\ Top.n \in Nat /\ comm = "up"
    BY <1>1, <2>1, RunFrame, LoopIsUp
  <2> QED
    BY <2>1, <2>2, <2>3, ReceiveStep
<1> QED
  BY <1>3, <1>4

\* A program that is loaded goes out as one packet.
LEMMA ProgramTold ==
    ASSUME NEW file \in DOMAIN PrgFiles
    PROVE  LET data == PrgFiles[file]
           IN  Told(CpuMemWrPacket(data[1] + Base * data[2], SubSeq(data, 3, Len(data))))
<1> DEFINE data == PrgFiles[file]
           n == Len(data)
           s == SubSeq(data, 3, n)
<1>1. data \in Seq(Bytes) /\ n \in 2 .. Base * Base
  BY ScriptsAssumption, SMT DEF Bytes
<1>2. n \in Nat /\ n >= 2 /\ n - 2 < Base * Base
  <2>1. \A b, m \in Int : m \in 2 .. b => m \in Nat /\ m >= 2 /\ m - 2 < b
    BY SMT
  <2> DEFINE b == Base * Base
  <2>2. b \in Int
    BY ByteRange
  <2> HIDE DEF n, b
  <2>3. n \in 2 .. b
    BY <1>1 DEF b
  <2>4. n \in Int
    BY <2>2, <2>3
  <2> QED
    BY <2>1, <2>2, <2>3, <2>4 DEF b
<1> HIDE DEF data
<1>3. data[1] \in Bytes /\ data[2] \in Bytes
  <2>1. 1 \in 1 .. n /\ 2 \in 1 .. n
    BY <1>2
  <2> QED
    BY <1>1, <2>1, ByteOf
<1>4. data[1] + Base * data[2] \in Ushorts
  BY <1>3, TwoBytes
<1>5. s \in Seq(Bytes) /\ Len(s) = n - 2
  <2>1. \A t \in Seq(Bytes) : Len(t) >= 2 =>
            SubSeq(t, 3, Len(t)) \in Seq(Bytes) /\ Len(SubSeq(t, 3, Len(t))) = Len(t) - 2
    <3> TAKE t \in Seq(Bytes)
    <3> HAVE Len(t) >= 2
    <3> DEFINE k == Len(t)
               u == SubSeq(t, 3, k)
    <3>1. k \in Nat /\ k >= 2 /\ \A i \in 3 .. k : t[i] \in Bytes
      OBVIOUS
    <3> HIDE DEF k
    <3>2. u \in Seq(Bytes) /\ Len(u) = IF 3 <= k THEN k - 3 + 1 ELSE 0
      BY <3>1, SubSeqProperties
    <3> HIDE DEF u
    <3>3. Len(u) = k - 2
      BY <3>1, <3>2
    <3> QED
      BY <3>2, <3>3 DEF u, k
  <2> QED
    BY <1>1, <1>2, <2>1
<1> HIDE DEF n, s
<1>6. Len(s) \in Ushorts
  BY <1>2, <1>5 DEF Ushorts
<1> QED
  BY <1>4, <1>5, <1>6, WriteTold DEF s, n, data

LEMMA LoadingOK ==
    ASSUME StackInv, FrameInv, InTop("run"), NEW n, NEW held \in SUBSET DOMAIN PrgFiles
    PROVE  /\ FrameOK(Loading(n, held)) /\ WaitsFor(Loading(n, held)) = 0
           /\ FrameOK([Loading(n, held) EXCEPT !.fair = FALSE])
<1>1. /\ stack # <<>> /\ Top.kind = "run"
      /\ {"kind", "at", "n", "pc", "script", "held"} \subseteq DOMAIN Top
      /\ Top.pc \in Nat \ {0} /\ Top.script \in DOMAIN Scripts
  BY RunFrame
<1> DEFINE f == Loading(n, held)
           g == [f EXCEPT !.fair = FALSE]
<1>2. /\ DOMAIN f = DOMAIN Top /\ f.kind = "run" /\ f.at = "loaded" /\ f.pc = Top.pc
      /\ f.script = Top.script /\ f.held = held
  BY <1>1 DEF Loading
<1> HIDE DEF f
<1>3. /\ DOMAIN g = DOMAIN f /\ g.kind = "run" /\ g.at = "loaded" /\ g.pc = f.pc
      /\ g.script = f.script /\ g.held = held
  BY <1>1, <1>2
<1> HIDE DEF g
<1>4. FrameOK(f) /\ FrameOK(g)
  BY <1>1, <1>2, <1>3, RunOK
<1>5. WaitsFor(f) = 0
  BY <1>2 DEF WaitsFor
<1> QED
  BY <1>4, <1>5 DEF f, g

LEMMA LoadAsmStep ==
    ASSUME StackInv, FrameInv, PortInv, WireInv, Written, AppInv, ProgramInv, LuaLoadAsm
    PROVE  PortInv' /\ WireInv' /\ FrameInv'
<1>1. InTop("run") /\ stack # <<>> /\ Top.at \in {"call", "loaded"}
  BY DEF LuaLoadAsm, LoadAsmReads, LoadAsmFails, LoadAsmReturns, Calling, At, InTop
<1>2. Awaited = 0 /\ comm = "up"
  BY <1>1, RunFrame, LoopIsUp
<1>3. CASE LoadAsmReads
  <2> DEFINE file == Arg(1)
             data == PrgFiles[file]
             p == CpuMemWrPacket(data[1] + Base * data[2], SubSeq(data, 3, Len(data)))
  <2>1. file \in DOMAIN PrgFiles /\ UNCHANGED <<nes, out, port, comm, plugged>>
    BY <1>3 DEF LoadAsmReads
  <2>2. PICK n :
            \/ SendData(p) /\ Go(Loading(n, {file}))
            \/ BoxOver([Loading(0, {file}) EXCEPT !.fair = FALSE]) /\ UNCHANGED <<wire, rogue>>
    BY <1>3 DEF LoadAsmReads
  <2>3. Told(p)
    BY <2>1, ProgramTold
  <2>4. {file} \in SUBSET DOMAIN PrgFiles
    BY <2>1
  <2> HIDE DEF p, file
  <2>5. CASE SendData(p) /\ Go(Loading(n, {file}))
    <3>1. FrameInv' /\ Awaited' = 0
      BY <1>1, <2>4, <2>5, LoadingOK, GoFrames
    <3>2. IsPacket(p) /\ ReturnBytesExpected(p) = 0
      BY <2>3 DEF Told
    <3> QED
      BY <1>2, <2>1, <2>5, <3>1, <3>2, SendStep
  <2>6. CASE BoxOver([Loading(0, {file}) EXCEPT !.fair = FALSE]) /\ UNCHANGED <<wire, rogue>>
    <3>1. FrameInv' /\ Awaited' = 0
      BY <1>1, <2>4, <2>6, LoadingOK, BoxFrames
    <3>2. UNCHANGED <<nes, out, commVars>>
      BY <2>1, <2>6 DEF commVars
    <3> QED
      BY <1>2, <3>1, <3>2, QuietStep
  <2> QED
    BY <2>2, <2>5, <2>6
<1>4. CASE LoadAsmFails
  <2>1. BoxOver([Loading(0, {}) EXCEPT !.fair = FALSE]) /\ UNCHANGED <<nes, out, commVars>>
    BY <1>4 DEF LoadAsmFails
  <2>2. FrameInv' /\ Awaited' = 0
    BY <1>1, <2>1, LoadingOK, BoxFrames
  <2> QED
    BY <1>2, <2>1, <2>2, QuietStep
<1>5. CASE LoadAsmReturns
  <2>1. /\ Go([Returned(Word(Top.n)) EXCEPT !.held = {}, !.n = 0])
        /\ UNCHANGED <<nes, out, commVars>>
    BY <1>5 DEF LoadAsmReturns
  <2>2. FrameInv' /\ Awaited' = 0
    BY <1>1, <2>1, ReturnedOK, GoFrames
  <2> QED
    BY <1>2, <2>1, <2>2, QuietStep
<1> QED
  BY <1>3, <1>4, <1>5 DEF LuaLoadAsm

\* The end of a script, the next, and the end of the last.
LEMMA EndsStep ==
    ASSUME StackInv, TallyInv, FrameInv, PortInv, WireInv, Written,
           ExecuteScript \/ NextScript \/ LastScript
    PROVE  PortInv' /\ WireInv' /\ FrameInv'
<1>1. /\ InTop("run") /\ stack # <<>> /\ Top.at \in {"call", "error", "no file", "next"}
      /\ UNCHANGED <<nes, out, commVars>>
  BY DEF ExecuteScript, ScriptEnds, ScriptFails, NextScript, LastScript, At, InTop
<1>2. /\ Top.kind = "run" /\ Awaited = 0
      /\ {"kind", "at", "n", "pc", "script", "held"} \subseteq DOMAIN Top
      /\ Top.pc \in Nat \ {0} /\ Top.script \in DOMAIN Scripts
      /\ Top.held \subseteq DOMAIN PrgFiles
  BY <1>1, RunFrame
<1>3. CASE ExecuteScript
  <2>1. PICK v : Verdict(v)
    BY <1>3 DEF ExecuteScript, ScriptEnds, ScriptFails
  <2> DEFINE f == [Top EXCEPT !.at = "next", !.verdict = v, !.tally[v + 1] = @ + 1]
  <2>2. Go(f)
    BY <2>1 DEF Verdict
  <2>3. /\ DOMAIN f = DOMAIN Top /\ f.kind = "run" /\ f.at = "next" /\ f.pc = Top.pc
        /\ f.script = Top.script /\ f.held = Top.held
    BY <1>2
  <2> HIDE DEF f
  <2>4. FrameOK(f) /\ WaitsFor(f) = 0
    BY <1>2, <2>3, RunOK DEF WaitsFor
  <2>5. FrameInv' /\ Awaited' = 0
    BY <1>1, <2>2, <2>4, GoFrames
  <2> QED
    BY <1>1, <1>2, <2>5, QuietStep
<1>4. CASE NextScript
  <2>1. Top.left # <<>>
    BY <1>4 DEF NextScript
  <2>2. Top.left \in Seq(DOMAIN Scripts)
    BY <1>1, <1>2, TopIsCall DEF IsCall, Counts
  <2>3. Head(Top.left) \in DOMAIN Scripts
    BY <2>1, <2>2
  <2> DEFINE s == IF Live("scripts") THEN "call" ELSE "no file"
             b == (port = "open" /\ nes.in = OPCODE /\ ~rogue)
             f == [Top EXCEPT !.left = Tail(@), !.script = Head(Top.left), !.verdict = NoVerdict,
                      !.pc = 1, !.result = PASS, !.n = 0, !.at = s, !.fair = b]
  <2>4. Go(f)
    BY <1>4 DEF NextScript
  <2>5. s \in {"call", "no file"}
    OBVIOUS
  <2> HIDE DEF s, b
  <2>6. /\ DOMAIN f = DOMAIN Top /\ f.kind = "run" /\ f.at = s /\ f.pc = 1
        /\ f.script = Head(Top.left) /\ f.held = Top.held
    BY <1>2
  <2> HIDE DEF f
  <2>7. FrameOK(f) /\ WaitsFor(f) = 0
    <3>1. f.pc \in Nat \ {0} /\ f.at # "receive" /\ f.at # "halted?"
      <4>1. f.pc \in Nat \ {0}
        BY <2>6
      <4>2. f.at = s /\ s # "receive" /\ s # "halted?"
        BY <2>5, <2>6
      <4> QED
        BY <4>1, <4>2
    <3>2. f.script \in DOMAIN Scripts /\ f.held \subseteq DOMAIN PrgFiles
      BY <1>2, <2>3, <2>6
    <3> QED
      BY <1>2, <2>6, <3>1, <3>2, RunOK DEF WaitsFor
  <2>8. FrameInv' /\ Awaited' = 0
    BY <1>1, <2>4, <2>7, GoFrames
  <2> QED
    BY <1>1, <1>2, <2>8, QuietStep
<1>5. CASE LastScript
  <2>1. Return
    BY <1>5 DEF LastScript
  <2>2. StackInv'
    BY <1>5, RunStepKeeps DEF RunStep
  <2> QED
    BY <1>1, <1>2, <2>1, <2>2, BackStep
<1> QED
  BY <1>3, <1>4, <1>5

-----------------------------------------------------------------------------
(* Every step.                                                              *)
LEMMA SameFrames ==
    /\ FrameInv /\ UNCHANGED stack => FrameInv'
    /\ stack' = <<>> => FrameInv'
<1>1. DOMAIN <<>> = {}
  OBVIOUS
<1> QED
  BY <1>1 DEF FrameInv, FramesOK

LEMMA LinkStep ==
    ASSUME IInv, TallyInv, LinkInv, [Next]_vars
    PROVE  LinkInv'
<1>1. StackInv /\ AppInv /\ PortInv /\ ProgramInv /\ WireInv /\ FrameInv
  BY DEF IInv, LinkInv
<1>2. ProgramInv'
  BY <1>1, ProgramStays
<1>3. CASE /\ \/ WinMain \/ NoWindow \/ InitReturns \/ LoopEnds \/ Exits \/ MenuExit \/ Dies
              \/ InitFails /\ UNCHANGED <<scriptVars, appVars>>
              \/ (Unplug \/ Replug) /\ UNCHANGED <<scriptVars, app, quit>>
  <2>1. UNCHANGED stack \/ stack' = <<>>
    BY <1>3 DEF WinMain, NoWindow, InitReturns, LoopEnds, Exits, MenuExit, Dies, scriptVars
  <2> QED
    BY <1>1, <1>2, <1>3, <2>1, OuterStep, SameFrames DEF LinkInv
<1>4. CASE ProgramStep
  <2>1. Written
    BY <1>4 DEF ProgramStep
  <2>2. CASE InitSerialComm
    <3>1. UNCHANGED stack
      BY <2>2 DEF InitSerialComm, scriptVars
    <3> QED
      BY <1>1, <1>2, <2>1, <2>2, <3>1, InitStep, SameFrames DEF LinkInv
  <2>3. CASE LoadBrowses \/ LoadOpens \/ LoadReads \/ LoadChecks \/ LoadCloses
    BY <1>1, <1>2, <2>1, <2>3, LoadSteps DEF LinkInv
  <2>4. CASE LoadSends
    <3>1. comm = "up"
      BY <1>1, <2>4, LoopIsUp DEF LoadSends, LoadIs, At, InTop
    <3> QED
      BY <1>1, <1>2, <2>1, <2>4, <3>1, LoadSendsStep DEF LinkInv
  <2>5. CASE RawReceives \/ RawShows \/ DialogReturns \/ BoxReturns
    BY <1>1, <1>2, <2>1, <2>5, DialogsStep DEF LinkInv
  <2>6. CASE RunStep
    BY <1>1, <1>2, <2>1, <2>6, LuaSteps, WaitStep, LocalStep, LoadAsmStep, EndsStep
       DEF RunStep, LinkInv
  <2> QED
    BY <1>3, <1>4, <2>2, <2>3, <2>4, <2>5, <2>6 DEF ProgramStep
<1>5. CASE UserStep
  <2>1. Written
    BY <1>5 DEF UserStep
  <2>2. CASE LoadBrowses
    BY <1>1, <1>2, <2>1, <2>2, LoadSteps DEF LinkInv
  <2>3. CASE BoxReturns \/ RawDone \/ TestScriptDlgDone
    BY <1>1, <1>2, <2>1, <2>3, DialogsStep DEF LinkInv
  <2>4. CASE MenuLoadRom \/ MenuRawDebug \/ MenuTestScripts
    BY <1>1, <1>2, <2>1, <2>4, StartsStep DEF LinkInv
  <2>5. ASSUME NEW text \in Texts, RawSend(text)
        PROVE  LinkInv'
    BY <1>1, <1>2, <2>1, <2>5, RawSendStep DEF LinkInv
  <2>6. ASSUME NEW selected \in Selections, TestScriptsRun(selected)
        PROVE  LinkInv'
    BY <1>1, <1>2, <2>1, <2>6, TestRunStep DEF LinkInv
  <2> QED
    BY <1>3, <1>5, <2>2, <2>3, <2>4, <2>5, <2>6 DEF UserStep
<1>6. CASE Machine \/ Program \/ Reset
  <2>1. UNCHANGED stack
    BY <1>6 DEF Machine, Program, Reset, scriptVars
  <2>2. Awaited \in Nat
    BY <1>1, AwaitedNat
  <2>3. PortInv' /\ WireInv'
    BY <1>1, <1>6, <2>2, MachineStep, BreakStep, ResetStep
  <2> QED
    BY <1>1, <1>2, <2>1, <2>3, SameFrames DEF LinkInv
<1>7. CASE Fault \/ (Written /\ MenuTestScriptsCrashes)
  BY <1>3, <1>7 DEF Fault, MenuTestScriptsCrashes
<1>8. CASE UNCHANGED vars
  <2>1. UNCHANGED <<nes, out, commVars, stack>>
    BY <1>8 DEF vars, scriptVars
  <2> QED
    BY <1>1, <1>2, <2>1, SameStep, SameFrames DEF LinkInv
<1> QED
  BY <1>4, <1>5, <1>6, <1>7, <1>8 DEF Next

LEMMA LinkBegins == Init => LinkInv
<1> SUFFICES ASSUME Init PROVE LinkInv
  OBVIOUS
<1>1. /\ nes = ResetNes /\ out = <<>> /\ port = "closed" /\ comm = "none" /\ wire = <<>>
      /\ plugged = TRUE /\ rogue = FALSE /\ stack = <<>>
      /\ app = "off" /\ quit = FALSE /\ faults = 0
  BY DEF Init, CommInit, ProtocolInit, ScriptInit
<1>2. NesOK(nes)
  BY <1>1, ResetIsOK, BetweenOK DEF NesOK, Shape, InPackets, OPCODE
<1>3. <<>> \in Seq(Bytes) /\ DOMAIN <<>> = {}
  OBVIOUS
<1>4. PortInv /\ WireInv
  BY <1>1, <1>2, <1>3 DEF PortInv, WireInv
<1>5. ProgramInv
  <2>1. 0 \in 0 .. MaxFaults
    BY NesDbgAssumption, SMT
  <2> QED
    BY <1>1, <2>1 DEF ProgramInv
<1>6. FrameInv
  BY <1>1, <1>3 DEF FrameInv, FramesOK
<1> QED
  BY <1>4, <1>5, <1>6 DEF LinkInv

LEMMA LinkHolds == Init /\ [][Next]_vars => [](IInv /\ TallyInv /\ LinkInv)
<1>1. IInv /\ TallyInv /\ LinkInv /\ [Next]_vars => LinkInv'
  BY LinkStep
<1> QED
  BY <1>1, LinkBegins, InvHolds, TallyHolds, PTL

-----------------------------------------------------------------------------
(* The results.                                                             *)

\* Every variable of program, port and machine keeps to its type, and the files
\* held open are ROMs and programs: what is on the wire, and what the machine
\* answers, are bytes, for no packet that NesDbg builds has a field too wide.
THEOREM TypesCorrect == Spec => []TypeOK
<1>1. ASSUME IInv, TallyInv, LinkInv
      PROVE  TypeOK
  <2>1. \A i \in DOMAIN stack : stack[i].kind \in {"box", "load", "raw", "send", "scripts", "run"}
    BY <1>1 DEF TallyInv, CallsOK, IsCall, Kinds
  <2>2. files \subseteq DOMAIN Roms \cup DOMAIN PrgFiles
    <3> SUFFICES ASSUME NEW x \in files
                 PROVE  x \in DOMAIN Roms \cup DOMAIN PrgFiles
      OBVIOUS
    <3>1. PICK i \in DOMAIN stack : x \in HeldBy(stack[i])
      BY <1>1 DEF IInv, StackInv, Sound, Owns
    <3>2. FrameOK(stack[i])
      BY <1>1 DEF LinkInv, FrameInv, FramesOK
    <3> DEFINE f == stack[i]
    <3> HIDE DEF f
    <3>3. FrameOK(f) /\ x \in HeldBy(f)
      BY <3>1, <3>2 DEF f
    <3> QED
      BY <3>3 DEF FrameOK, HeldBy
  <2>3. lua \in {PASS, FAIL, ERROR}
    BY <1>1 DEF TallyInv, Verdicts
  <2>4. wire \in Seq(0 .. Base - 1) /\ out \in Seq(0 .. Base - 1)
    BY <1>1 DEF LinkInv, PortInv, Bytes
  <2> QED
    BY <1>1, <2>1, <2>2, <2>3, <2>4 DEF LinkInv, PortInv, ProgramInv, TypeOK
<1>2. IInv /\ TallyInv /\ LinkInv => TypeOK
  BY <1>1
<1> QED
  BY <1>2, LinkHolds, PTL DEF Spec

\* Once SerialComm::Init has passed and until the program is reckless, the machine
\* is between two packets whenever nothing is on the wire, and what waits to be
\* read was asked for by the call that is about to read it.
THEOREM StaysInStep == Spec => []InStep
<1>1. ASSUME IInv, TallyInv, LinkInv, app = "loop", port = "open", Written, ~rogue
      PROVE  /\ BetweenPackets
             /\ out # <<>> => At("send", "receive") \/ At("run", "receive") \/ At("run", "halted?")
  <2>1. PortInv /\ WireInv /\ comm = "up" /\ Awaited \in Nat
    BY <1>1, AwaitedNat DEF LinkInv, ProgramInv, IInv
  <2>2. nes.in \in {OPCODE, DISABLED} /\ Len(out) \in Nat /\ Len(out) <= Awaited
    BY <1>1, <2>1, AgreedEmpty
  <2>3. ASSUME out # <<>>
        PROVE  Awaited # 0
    <3>1. out \in Seq(Bytes)
      BY <2>1 DEF PortInv
    <3>2. Len(out) # 0
      BY <2>3, <3>1, NoBytes
    <3> QED
      BY <2>2, <3>2
  <2>4. Awaited # 0 => At("send", "receive") \/ At("run", "receive") \/ At("run", "halted?")
    BY DEF Awaited, WaitsFor, At, InTop
  <2> QED
    BY <2>2, <2>3, <2>4 DEF BetweenPackets
<1>2. IInv /\ TallyInv /\ LinkInv => InStep
  BY <1>1 DEF InStep
<1> QED
  BY <1>2, LinkHolds, PTL DEF Spec
=============================================================================
