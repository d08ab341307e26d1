----------------------------- MODULE PpuProofs -----------------------------
(***************************************************************************)
(* Proofs about PpuRegs, for every size of its digits and memories, every   *)
(* program and every length of a CPU cycle.                                 *)
(*                                                                         *)
(* The way there: arithmetic of numbers of several digits; what the writes  *)
(* of 0x2000, 0x2005 and 0x2006 do to the number the scroll latches make    *)
(* up; the inductive invariant IInv, ranges and the two delays of the code; *)
(* the registers after each access by name; and, from that, that the clock  *)
(* of an access makes PpuPort's step for it and every other clock none.     *)
(***************************************************************************)
EXTENDS PpuRegs, TLAPS

-----------------------------------------------------------------------------
(* Numbers of several digits, of any size each.                             *)
Pos == Nat \ {0}

LEMMA DivMod ==
    ASSUME NEW a \in Int, NEW b \in Pos
    PROVE  /\ a = b * (a \div b) + (a % b)
           /\ a \div b \in Int /\ a % b \in 0 .. b - 1
           /\ a \in Nat => a \div b \in Nat
  BY DEF Pos

LEMMA Unique ==
    ASSUME NEW b \in Pos, NEW q \in Int, NEW r \in 0 .. b - 1
    PROVE  (q * b + r) \div b = q /\ (q * b + r) % b = r
  <1>1. q * b + r \in Int /\ q * b + r = b * q + r
    BY DEF Pos
  <1>2. \A a \in Int : a = b * q + r => a \div b = q /\ a % b = r
    BY DEF Pos
  <1> QED
    BY <1>1, <1>2

LEMMA Bound ==
    ASSUME NEW m \in Pos, NEW b \in Pos, NEW x \in 0 .. m - 1, NEW d \in 0 .. b - 1
    PROVE  x * b + d \in 0 .. m * b - 1 /\ m * b \in Pos
  <1>1. x * b \in Nat /\ m * b \in Nat /\ m * b > 0
    BY DEF Pos
  <1>2. (m - 1 - x) * b >= 0
    BY DEF Pos
  <1>3. (m - 1 - x) * b = m * b - b - x * b
    BY DEF Pos
  <1>4. x * b <= m * b - b
    BY <1>1, <1>2, <1>3 DEF Pos
  <1> QED
    BY <1>1, <1>4 DEF Pos

\* Only the largest digits make the largest number.
LEMMA Largest ==
    ASSUME NEW m \in Pos, NEW b \in Pos, NEW x \in 0 .. m - 1, NEW d \in 0 .. b - 1
    PROVE  x * b + d = m * b - 1 <=> x = m - 1 /\ d = b - 1
  <1>1. m * b - 1 = (m - 1) * b + (b - 1)
    BY DEF Pos
  <1>2. /\ (x * b + d) \div b = x /\ (x * b + d) % b = d
        /\ ((m - 1) * b + (b - 1)) \div b = m - 1 /\ ((m - 1) * b + (b - 1)) % b = b - 1
    <2>1. m - 1 \in Int /\ b - 1 \in 0 .. b - 1 /\ x \in Int
      BY DEF Pos
    <2> QED
      BY <2>1, Unique
  <1> QED
    BY <1>1, <1>2

LEMMA Nested ==
    ASSUME NEW a \in Int, NEW b \in Pos, NEW c \in Pos
    PROVE  /\ a \div (c * b) = (a \div b) \div c
           /\ a % (c * b) = ((a \div b) % c) * b + (a % b)
  <1> DEFINE q == a \div b
             r == a % b
             q2 == q \div c
             r2 == q % c
  <1>1. a = b * q + r /\ q \in Int /\ r \in 0 .. b - 1
    BY DivMod
  <1>2. q = c * q2 + r2 /\ q2 \in Int /\ r2 \in 0 .. c - 1
    BY <1>1, DivMod
  <1>3. r2 * b + r \in 0 .. c * b - 1 /\ c * b \in Pos
    BY <1>1, <1>2, Bound
  <1> HIDE DEF q, r, q2, r2
  <1>4. a = q2 * (c * b) + (r2 * b + r)
    BY <1>1, <1>2 DEF Pos
  <1>5. a \div (c * b) = q2 /\ a % (c * b) = r2 * b + r
    BY <1>2, <1>3, <1>4, Unique
  <1> QED
    BY <1>5 DEF q, r, q2, r2

\* A number below a product, by quotient and remainder.
LEMMA TwoParts ==
    ASSUME NEW c \in Pos, NEW b \in Pos, NEW t \in 0 .. c * b - 1
    PROVE  /\ t = (t \div b) * b + (t % b)
           /\ t \div b \in 0 .. c - 1 /\ t % b \in 0 .. b - 1
  <1> DEFINE p == t \div b
  <1>1. t \in Nat /\ t < c * b
    BY DEF Pos
  <1>2. t = b * p + (t % b) /\ p \in Nat /\ t % b \in 0 .. b - 1
    BY <1>1, DivMod
  <1> HIDE DEF p
  <1>3. ASSUME p >= c PROVE FALSE
    <2>1. b * (p - c) >= 0
      BY <1>2, <1>3 DEF Pos
    <2>2. b * (p - c) = b * p - c * b
      BY <1>2 DEF Pos
    <2> QED
      BY <1>1, <1>2, <2>1, <2>2 DEF Pos
  <1>4. b * p = p * b
    BY <1>2 DEF Pos
  <1> QED
    BY <1>2, <1>3, <1>4 DEF p, Pos

\* The number with digit e of weight w and base b has it replaced.
LEMMA SetDigitOK ==
    ASSUME NEW w \in Pos, NEW b \in Pos, NEW x \in Int, NEW e \in 0 .. b - 1,
           NEW r \in 0 .. w - 1, NEW d \in Int
    PROVE  Port!SetDigit((x * b + e) * w + r, w, b, d) = (x * b + (d % b)) * w + r
  <1> DEFINE u == x * b + e
             k == d % b
  <1>1. u \in Int /\ u % b = e /\ k \in Int
    BY Unique, DivMod DEF Pos
  <1> HIDE DEF u, k
  <1>2. (u * w + r) \div w = u
    BY <1>1, Unique
  <1>3. Port!SetDigit(u * w + r, w, b, d) = u * w + r + (k - e) * w
    BY <1>1, <1>2 DEF Port!SetDigit, k
  <1>4. u * w + r + (k - e) * w = (x * b + k) * w + r
    BY <1>1 DEF Pos, u
  <1> QED
    BY <1>3, <1>4 DEF u, k

-----------------------------------------------------------------------------
(* The scroll position and the memory address as numbers.                   *)

LEMMA Sizes ==
    /\ FV \in Pos /\ NV \in Pos /\ NH \in Pos /\ VTHI \in Pos /\ VTLO \in Pos /\ HT \in Pos
    /\ OamSize \in Pos /\ VT \in Pos /\ 2 * FV \in Pos /\ VTLO * HT \in Pos
    /\ VT * HT \in Pos /\ NH * (VT * HT) \in Pos /\ NV * (NH * (VT * HT)) \in Pos
    /\ MemSize = FV * (NV * (NH * (VT * HT))) /\ MemSize \in Pos
    /\ Port!Row = HT /\ Port!NameTable = VT * HT /\ Port!Page = VTLO * HT
    /\ Port!Fine = NV * (NH * (VT * HT))
    /\ Port!Total = 2 * FV * (NV * (NH * (VT * HT))) /\ Port!MemSize = MemSize
  <1>1. /\ FV \in Pos /\ NV \in Pos /\ NH \in Pos /\ VTHI \in Pos /\ VTLO \in Pos
        /\ HT \in Pos /\ OamSize \in Pos /\ VT = VTHI * VTLO
    BY PpuAssumption DEF Pos, VT
  <1>2. \A a, b \in Pos : a * b \in Pos
    BY DEF Pos
  <1>3. VT \in Pos /\ 2 * FV \in Pos /\ VTLO * HT \in Pos
    BY <1>1, <1>2 DEF Pos
  <1> DEFINE A == VT * HT
             B == NH * A
             C == NV * B
  <1>4. A \in Pos /\ B \in Pos /\ C \in Pos
    BY <1>1, <1>2, <1>3
  <1>5. MemSize = FV * C
    BY <1>1, <1>3 DEF MemSize, Pos
  <1>6. MemSize \in Pos
    BY <1>1, <1>2, <1>4, <1>5
  <1>7. Port!NameTable = A /\ Port!Row = HT /\ Port!Page = VTLO * HT
    BY <1>1 DEF Port!NameTable, Port!Row, Port!Page
  <1>8. Port!Fine = C
    BY <1>1, <1>3, <1>7 DEF Port!Fine, Pos
  <1> HIDE DEF A, B, C
  <1>9. Port!Total = 2 * FV * C /\ Port!Total = 2 * MemSize
    BY <1>1, <1>4, <1>5, <1>8 DEF Port!Total, Pos
  <1>10. Port!MemSize = MemSize
    BY <1>6, <1>9 DEF Port!MemSize, Pos
  <1> QED
    BY <1>1, <1>3, <1>4, <1>5, <1>6, <1>7, <1>8, <1>9, <1>10 DEF A, B, C

\* Taking a number apart and together again loses what is above the top digit.
LEMMA FieldsOK ==
    ASSUME NEW n \in Nat
    PROVE  Fields(n) \in Scrolls /\ Number(Fields(n)) = n % Port!Total
  <1> DEFINE q1 == n \div HT
             q2 == q1 \div VT
             q3 == q2 \div NH
             q4 == q3 \div NV
             A == VT * HT
             B == NH * A
             C == NV * B
  <1>1. /\ HT \in Pos /\ VT \in Pos /\ NH \in Pos /\ NV \in Pos /\ 2 * FV \in Pos
        /\ A \in Pos /\ B \in Pos /\ C \in Pos
    BY Sizes
  <1> HIDE DEF A, B, C
  <1>2. q1 \in Nat /\ n % HT \in 0 .. HT - 1
    BY <1>1, DivMod
  <1>3. q2 \in Nat /\ q1 % VT \in 0 .. VT - 1
    BY <1>1, <1>2, DivMod
  <1>4. q3 \in Nat /\ q2 % NH \in 0 .. NH - 1
    BY <1>1, <1>3, DivMod
  <1>5. q4 \in Nat /\ q3 % NV \in 0 .. NV - 1
    BY <1>1, <1>4, DivMod
  <1>6. q4 % (2 * FV) \in 0 .. 2 * FV - 1
    BY <1>1, <1>5, DivMod
  <1>7. n \div A = q2 /\ n % A = (q1 % VT) * HT + (n % HT)
    BY <1>1, Nested DEF A
  <1>8. n \div B = q3 /\ n % B = (q2 % NH) * A + (n % A)
    BY <1>1, <1>7, Nested DEF B
  <1>9. n \div C = q4 /\ n % C = (q3 % NV) * B + (n % B)
    BY <1>1, <1>8, Nested DEF C
  <1>10. n % (2 * FV * C) = (q4 % (2 * FV)) * C + (n % C)
    BY <1>1, <1>9, Nested
  <1>11. HT * VT = A /\ HT * VT * NH = B /\ HT * VT * NH * NV = C
    BY <1>1 DEF Pos, A, B, C
  <1> HIDE DEF q1, q2, q3, q4
  <1>12. Fields(n) = [fv |-> q4 % (2 * FV), v |-> q3 % NV, h |-> q2 % NH,
                     vt |-> q1 % VT, ht |-> n % HT]
    <2>1. HT * VT * NH * NV = C /\ HT * VT * NH = B /\ HT * VT = A
      BY <1>11
    <2>2. n \div HT = q1
      BY DEF q1
    <2> QED
      BY <1>7, <1>8, <1>9, <2>1, <2>2 DEF Fields
  <1>13. Fields(n) \in Scrolls
    BY <1>2, <1>3, <1>4, <1>5, <1>6, <1>12 DEF Scrolls
  <1> DEFINE fv == q4 % (2 * FV)
             v == q3 % NV
             hh == q2 % NH
             vt == q1 % VT
             ht == n % HT
  <1>14. Number(Fields(n)) = (((fv * NV + v) * NH + hh) * VT + vt) * HT + ht
    BY <1>12 DEF Number
  <1>15. n % (2 * FV * C) = fv * C + (v * B + (hh * A + (vt * HT + ht)))
    BY <1>7, <1>8, <1>9, <1>10
  <1>16. fv \in Int /\ v \in Int /\ hh \in Int /\ vt \in Int /\ ht \in Int
    BY <1>2, <1>3, <1>4, <1>5, <1>6
  <1> HIDE DEF fv, v, hh, vt, ht
  <1>17. (((fv * NV + v) * NH + hh) * VT + vt) * HT + ht
            = fv * C + (v * B + (hh * A + (vt * HT + ht)))
    BY <1>1, <1>16 DEF Pos, A, B, C
  <1>18. Port!Total = 2 * FV * C
    BY Sizes DEF A, B, C
  <1> QED
    BY <1>13, <1>14, <1>15, <1>17, <1>18

-----------------------------------------------------------------------------
(* What the writes of 0x2000, 0x2005 and 0x2006 do to the number.           *)
Num(fv, v, y, vt, ht) == (((fv * NV + v) * NH + y) * VT + vt) * HT + ht

LEMMA NumNat ==
    ASSUME NEW fv \in Nat, NEW v \in Nat, NEW y \in Nat, NEW vt \in Nat, NEW ht \in Nat
    PROVE  Num(fv, v, y, vt, ht) \in Nat
  <1>1. \A a, b, c \in Nat : a * b + c \in Nat
    OBVIOUS
  <1>2. NV \in Nat /\ NH \in Nat /\ VT \in Nat /\ HT \in Nat
    BY Sizes DEF Pos
  <1>3. fv * NV + v \in Nat
    BY <1>1, <1>2
  <1>4. (fv * NV + v) * NH + y \in Nat
    BY <1>1, <1>2, <1>3
  <1>5. ((fv * NV + v) * NH + y) * VT + vt \in Nat
    BY <1>1, <1>2, <1>4
  <1> QED
    BY <1>1, <1>2, <1>5 DEF Num

LEMMA SetTables ==
    ASSUME NEW fv \in 0 .. 2 * FV - 1, NEW v \in 0 .. NV - 1, NEW y \in 0 .. NH - 1,
           NEW vt \in 0 .. VT - 1, NEW ht \in 0 .. HT - 1, NEW t \in 0 .. NV * NH - 1
    PROVE  /\ t \div NH \in 0 .. NV - 1 /\ t % NH \in 0 .. NH - 1
           /\ Num(fv, t \div NH, t % NH, vt, ht)
                = Port!SetDigit(Num(fv, v, y, vt, ht), Port!NameTable, NV * NH, t)
  <1> DEFINE b == NV * NH
             w == VT * HT
             e == v * NH + y
             r == vt * HT + ht
  <1>1. /\ b \in Pos /\ e \in 0 .. b - 1
        /\ w \in Pos /\ r \in 0 .. w - 1
    BY Sizes, Bound
  <1>2. NV \in Pos /\ NH \in Pos /\ VT \in Pos /\ HT \in Pos /\ fv \in Int
        /\ t \in Int /\ Port!NameTable = w
    BY <1>1, Sizes DEF Pos
  <1>3. Num(fv, v, y, vt, ht) = (fv * b + e) * w + r
    BY <1>2 DEF Num, Pos
  <1> HIDE DEF e, r
  <1>4. Port!SetDigit((fv * b + e) * w + r, w, b, t) = (fv * b + (t % b)) * w + r
    <2> HIDE DEF b, w
    <2> QED
      BY <1>1, <1>2, SetDigitOK
  <1>5. /\ t = (t \div NH) * NH + (t % NH)
        /\ t \div NH \in 0 .. NV - 1 /\ t % NH \in 0 .. NH - 1
    BY <1>2, TwoParts
  <1>6. t % b = t
    BY <1>1, <1>2 DEF Pos
  <1> DEFINE p == t \div NH
             q == t % NH
  <1>7. Num(fv, p, q, vt, ht) = (fv * b + t) * w + r
    <2>1. t = p * NH + q /\ p \in Int /\ q \in Int
      BY <1>5
    <2> HIDE DEF p, q
    <2> QED
      BY <1>2, <2>1 DEF Num, Pos, r
  <1> QED
    BY <1>2, <1>3, <1>4, <1>5, <1>6, <1>7

LEMMA SetCoarse ==
    ASSUME NEW fv \in 0 .. 2 * FV - 1, NEW v \in 0 .. NV - 1, NEW y \in 0 .. NH - 1,
           NEW vt \in 0 .. VT - 1, NEW ht \in 0 .. HT - 1, NEW t \in Nat
    PROVE  Num(fv, v, y, vt, t % HT)
             = Port!SetDigit(Num(fv, v, y, vt, ht), 1, Port!Row, t)
  <1> DEFINE x == ((fv * NV + v) * NH + y) * VT + vt
  <1>1. HT \in Pos /\ Port!Row = HT /\ x \in Int /\ t % HT \in Int /\ 1 \in Pos /\ 0 \in 0 .. 1 - 1
    BY Sizes, DivMod DEF Pos
  <1>2. Num(fv, v, y, vt, ht) = x * HT + ht /\ Num(fv, v, y, vt, t % HT) = x * HT + (t % HT)
    BY DEF Num
  <1> HIDE DEF x
  <1>3. Port!SetDigit((x * HT + ht) * 1 + 0, 1, HT, t) = (x * HT + (t % HT)) * 1 + 0
    BY <1>1, SetDigitOK
  <1>4. \A n \in Int : n * 1 + 0 = n
    OBVIOUS
  <1>5. x * HT + ht \in Int /\ x * HT + (t % HT) \in Int
    BY <1>1 DEF Pos
  <1> QED
    BY <1>1, <1>2, <1>3, <1>4, <1>5

LEMMA SetVertical ==
    ASSUME NEW fv \in 0 .. 2 * FV - 1, NEW v \in 0 .. NV - 1, NEW y \in 0 .. NH - 1,
           NEW vt \in 0 .. VT - 1, NEW ht \in 0 .. HT - 1, NEW f \in Nat, NEW t \in Nat
    PROVE  Num(f % (2 * FV), v, y, t % VT, ht)
             = Port!SetDigit(Port!SetDigit(Num(fv, v, y, vt, ht), Port!Fine, 2 * FV, f),
                             Port!Row, VTHI * VTLO, t)
  <1> DEFINE w == NV * (NH * (VT * HT))
             g == f % (2 * FV)
             r == v * (NH * (VT * HT)) + (y * (VT * HT) + (vt * HT + ht))
             x == (g * NV + v) * NH + y
  <1>1. /\ NV \in Pos /\ NH \in Pos /\ VT \in Pos /\ HT \in Pos /\ 2 * FV \in Pos
        /\ w \in Pos /\ Port!Fine = w /\ Port!Row = HT /\ VTHI * VTLO = VT
    BY Sizes DEF VT
  <1>2. g \in 0 .. 2 * FV - 1 /\ g \in Int /\ t % VT \in Int
    <2>1. g \in 0 .. 2 * FV - 1 /\ t % VT \in 0 .. VT - 1
      BY <1>1, DivMod
    <2> QED
      BY <2>1
  <1>3. r \in 0 .. w - 1
    <2>1. vt * HT + ht \in 0 .. VT * HT - 1 /\ VT * HT \in Pos
      BY <1>1, Bound
    <2>2. /\ y * (VT * HT) + (vt * HT + ht) \in 0 .. NH * (VT * HT) - 1
          /\ NH * (VT * HT) \in Pos
      BY <1>1, <2>1, Bound
    <2> QED
      BY <1>1, <2>2, Bound
  <1> HIDE DEF g
  <1>4. Num(fv, v, y, vt, ht) = (0 * (2 * FV) + fv) * w + r
    BY <1>1 DEF Num, Pos
  <1>5. Num(g, v, y, vt, ht) = (0 * (2 * FV) + g) * w + r
    BY <1>1, <1>2 DEF Num, Pos
  <1> HIDE DEF w, r
  <1>6. Port!SetDigit((0 * (2 * FV) + fv) * w + r, w, 2 * FV, f) = (0 * (2 * FV) + g) * w + r
    BY <1>1, <1>3, SetDigitOK DEF g
  <1>7. x \in Int
    BY <1>1, <1>2 DEF Pos
  <1>8. /\ Num(g, v, y, vt, ht) = (x * VT + vt) * HT + ht
        /\ Num(g, v, y, t % VT, ht) = (x * VT + (t % VT)) * HT + ht
    BY DEF Num
  <1> HIDE DEF x
  <1>9. Port!SetDigit((x * VT + vt) * HT + ht, HT, VT, t) = (x * VT + (t % VT)) * HT + ht
    BY <1>1, <1>7, SetDigitOK
  <1>10. Port!SetDigit(Num(fv, v, y, vt, ht), Port!Fine, 2 * FV, f) = Num(g, v, y, vt, ht)
    BY <1>1, <1>4, <1>5, <1>6
  <1> QED
    BY <1>1, <1>8, <1>9, <1>10 DEF g

LEMMA SetLow ==
    ASSUME NEW fv \in 0 .. 2 * FV - 1, NEW v \in 0 .. NV - 1, NEW y \in 0 .. NH - 1,
           NEW vt \in 0 .. VT - 1, NEW ht \in 0 .. HT - 1, NEW d \in Nat
    PROVE  LET u == (vt - (vt % VTLO)) + ((d \div HT) % VTLO)
           IN  /\ u \in 0 .. VT - 1
               /\ Num(fv, v, y, u, d % HT)
                    = Port!SetDigit(Num(fv, v, y, vt, ht), 1, Port!Page, d)
  <1> DEFINE top == (fv * NV + v) * NH + y
             p == vt \div VTLO
             q == vt % VTLO
             x == top * VTHI + p
             b == VTLO * HT
             e == q * HT + ht
             k == (d \div HT) % VTLO
             l == d % HT
  <1>1. /\ NV \in Pos /\ NH \in Pos /\ VTHI \in Pos /\ VTLO \in Pos /\ HT \in Pos
        /\ b \in Pos /\ Port!Page = b /\ VT = VTHI * VTLO
    BY Sizes DEF VT
  <1>2. vt = p * VTLO + q /\ p \in 0 .. VTHI - 1 /\ q \in 0 .. VTLO - 1
    BY <1>1, TwoParts
  <1>3. k \in 0 .. VTLO - 1 /\ l \in 0 .. HT - 1 /\ d % b = k * HT + l
    BY <1>1, DivMod, Nested
  <1>4. e \in 0 .. b - 1
    BY <1>1, <1>2, Bound
  <1>5. top \in Int /\ x \in Int
    <2>1. top \in Int
      BY <1>1 DEF Pos
    <2> HIDE DEF top
    <2> QED
      BY <1>1, <1>2, <2>1 DEF Pos
  <1> HIDE DEF p, q, k, l, top
  <1>6. (vt - q) + k = p * VTLO + k
    BY <1>1, <1>2, <1>3 DEF Pos
  <1>7. p * VTLO + k \in 0 .. VT - 1
    BY <1>1, <1>2, <1>3, Bound
  <1>8. Num(fv, v, y, vt, ht) = (x * b + e) * 1 + 0
    <2>1. Num(fv, v, y, vt, ht) = (top * VT + vt) * HT + ht
      BY DEF Num, top
    <2> QED
      BY <1>1, <1>2, <1>5, <2>1 DEF Pos
  <1>9. Num(fv, v, y, p * VTLO + k, l) = (x * b + (k * HT + l)) * 1 + 0
    <2>1. Num(fv, v, y, p * VTLO + k, l) = (top * VT + (p * VTLO + k)) * HT + l
      BY DEF Num, top
    <2> QED
      BY <1>1, <1>2, <1>3, <1>5, <2>1 DEF Pos
  <1> HIDE DEF x, b, e
  <1>10. Port!SetDigit((x * b + e) * 1 + 0, 1, b, d) = (x * b + (d % b)) * 1 + 0
    <2>1. 1 \in Pos /\ 0 \in 0 .. 1 - 1
      BY DEF Pos
    <2> QED
      BY <1>1, <1>4, <1>5, <2>1, SetDigitOK
  <1>11. Num(fv, v, y, (vt - q) + k, l) = Port!SetDigit(Num(fv, v, y, vt, ht), 1, Port!Page, d)
    BY <1>1, <1>3, <1>6, <1>8, <1>9, <1>10
  <1> QED
    BY <1>6, <1>7, <1>11 DEF q, k, l

\* The upper part of 0x2006 is a number of its own: all but the top bit.
LEMMA SetHigh ==
    ASSUME NEW fv \in 0 .. 2 * FV - 1, NEW v \in 0 .. NV - 1, NEW y \in 0 .. NH - 1,
           NEW vt \in 0 .. VT - 1, NEW ht \in 0 .. HT - 1, NEW d \in Nat
    PROVE  LET fvh == d \div VTHI
               f == (fvh \div (NV * NH)) % FV
               g == (fvh \div NH) % NV
               j == fvh % NH
               u == (d % VTHI) * VTLO + (vt % VTLO)
           IN  /\ f \in 0 .. 2 * FV - 1 /\ g \in 0 .. NV - 1 /\ j \in 0 .. NH - 1
               /\ u \in 0 .. VT - 1
               /\ Num(f, g, j, u, ht)
                    = Port!SetDigit(Num(fv, v, y, vt, ht), Port!Page,
                                    Port!Total \div Port!Page,
                                    d % (Port!MemSize \div Port!Page))
  <1> DEFINE fvh == d \div VTHI
             z == fvh \div NH
             f == (z \div NV) % FV
             g == z % NV
             j == fvh % NH
             i == d % VTHI
             p == vt \div VTLO
             q == vt % VTLO
             w == VTLO * HT
             m == FV * (NV * (NH * VTHI))
             b == 2 * m
             n == d % m
             e == ((fv * NV + v) * NH + y) * VTHI + p
             r == q * HT + ht
  <1>1. /\ NV \in Pos /\ NH \in Pos /\ VTHI \in Pos /\ VTLO \in Pos /\ HT \in Pos /\ FV \in Pos
        /\ 2 * FV \in Pos /\ w \in Pos /\ Port!Page = w /\ VT = VTHI * VTLO
    BY Sizes DEF VT
  <1>2. NH * VTHI \in Pos /\ NV * (NH * VTHI) \in Pos /\ m \in Pos /\ b \in Pos
    <2>1. \A c1, c2 \in Pos : c1 * c2 \in Pos
      BY DEF Pos
    <2>2. NH * VTHI \in Pos
      BY <1>1, <2>1
    <2>3. NV * (NH * VTHI) \in Pos
      BY <1>1, <2>1, <2>2
    <2>4. m \in Pos
      BY <1>1, <2>1, <2>3
    <2> HIDE DEF m
    <2> QED
      BY <2>2, <2>3, <2>4 DEF Pos
  <1>3. vt = p * VTLO + q /\ p \in 0 .. VTHI - 1 /\ q \in 0 .. VTLO - 1
    BY <1>1, TwoParts
  <1>4. /\ d \div VTHI \in Nat /\ i \in 0 .. VTHI - 1 /\ z \in Nat /\ j \in 0 .. NH - 1
        /\ g \in 0 .. NV - 1 /\ z \div NV \in Nat /\ f \in 0 .. FV - 1
    <2>1. fvh \in Nat /\ i \in 0 .. VTHI - 1
      BY <1>1, DivMod
    <2>2. z \in Nat /\ j \in 0 .. NH - 1
      BY <1>1, <2>1, DivMod
    <2>3. z \div NV \in Nat /\ g \in 0 .. NV - 1
      BY <1>1, <2>2, DivMod
    <2>4. f \in 0 .. FV - 1
      BY <1>1, <2>3, DivMod
    <2> QED
      BY <2>1, <2>2, <2>3, <2>4
  <1>5. fvh \div (NV * NH) = z \div NV
    BY <1>1, <1>4, Nested
  <1>6. n = ((f * NV + g) * NH + j) * VTHI + i
    <2>1. d \div (NH * VTHI) = z /\ d % (NH * VTHI) = j * VTHI + i
      BY <1>1, Nested
    <2>2. /\ d \div (NV * (NH * VTHI)) = z \div NV
          /\ d % (NV * (NH * VTHI)) = g * (NH * VTHI) + (j * VTHI + i)
      BY <1>1, <1>2, <2>1, Nested
    <2>3. n = f * (NV * (NH * VTHI)) + (g * (NH * VTHI) + (j * VTHI + i))
      BY <1>1, <1>2, <2>2, Nested
    <2> HIDE DEF f, g, j, i, n
    <2>4. f \in Int /\ g \in Int /\ j \in Int /\ i \in Int
      BY <1>4
    <2> QED
      BY <1>1, <2>3, <2>4 DEF Pos
  <1>7. e \in 0 .. b - 1
    <2>1. fv * NV + v \in 0 .. (2 * FV) * NV - 1 /\ (2 * FV) * NV \in Pos
      BY <1>1, Bound
    <2>2. /\ (fv * NV + v) * NH + y \in 0 .. ((2 * FV) * NV) * NH - 1
          /\ ((2 * FV) * NV) * NH \in Pos
      BY <1>1, <2>1, Bound
    <2>3. e \in 0 .. (((2 * FV) * NV) * NH) * VTHI - 1
      BY <1>1, <1>3, <2>2, Bound
    <2>4. (((2 * FV) * NV) * NH) * VTHI = b
      BY <1>1 DEF Pos
    <2> QED
      BY <2>3, <2>4
  <1>8. r \in 0 .. w - 1
    BY <1>1, <1>3, Bound
  <1>9. Port!MemSize = m * w /\ Port!Total = b * w
    <2>1. Port!MemSize = FV * (NV * (NH * (VT * HT))) /\ Port!Total = 2 * FV * (NV * (NH * (VT * HT)))
      BY Sizes
    <2> QED
      BY <1>1, <2>1 DEF Pos
  <1> HIDE DEF p, q, w, n, f, g, j, i, z
  <1>10. Num(fv, v, y, vt, ht) = (0 * b + e) * w + r
    <2>1. Num(fv, v, y, vt, ht) = (((fv * NV + v) * NH + y) * VT + vt) * HT + ht
      BY DEF Num
    <2> QED
      BY <1>1, <1>2, <1>3, <2>1 DEF Pos, w
  <1>11. Num(f, g, j, i * VTLO + q, ht) = (0 * b + n) * w + r
    <2>1. Num(f, g, j, i * VTLO + q, ht) = (((f * NV + g) * NH + j) * VT + (i * VTLO + q)) * HT + ht
      BY DEF Num
    <2> QED
      BY <1>1, <1>2, <1>3, <1>4, <1>6, <2>1 DEF Pos, w
  <1>12. i * VTLO + q \in 0 .. VT - 1
    BY <1>1, <1>3, <1>4, Bound
  <1> HIDE DEF m
  <1>13. n \in 0 .. m - 1 /\ n \in 0 .. b - 1
    BY <1>2, DivMod DEF n, Pos
  <1>14. Port!MemSize \div Port!Page = m /\ Port!Total \div Port!Page = b
    <2>1. /\ m * w + 0 = m * w /\ b * w + 0 = b * w /\ 0 \in 0 .. w - 1
          /\ m \in Int /\ b \in Int
      BY <1>1, <1>2 DEF Pos
    <2> QED
      BY <1>1, <1>9, <2>1, Unique
  <1> HIDE DEF b, e, r
  <1>15. n % b = n
    BY <1>2, <1>13 DEF Pos
  <1>16. Port!SetDigit((0 * b + e) * w + r, w, b, n) = (0 * b + (n % b)) * w + r
    BY <1>1, <1>2, <1>7, <1>8, <1>13, SetDigitOK
  <1>17. Num(f, g, j, i * VTLO + q, ht)
           = Port!SetDigit(Num(fv, v, y, vt, ht), Port!Page, Port!Total \div Port!Page,
                           d % (Port!MemSize \div Port!Page))
    BY <1>1, <1>10, <1>11, <1>14, <1>15, <1>16 DEF n
  <1>18. f \in 0 .. 2 * FV - 1
    BY <1>1, <1>4 DEF Pos
  <1> QED
    BY <1>4, <1>5, <1>12, <1>17, <1>18 DEF f, g, j, i, q, z

-----------------------------------------------------------------------------
(* What the address selects.                                                *)

LEMMA ScrollsNumber ==
    ASSUME NEW c \in Scrolls
    PROVE  /\ c.fv \in 0 .. 2 * FV - 1 /\ c.v \in 0 .. NV - 1 /\ c.h \in 0 .. NH - 1
           /\ c.vt \in 0 .. VT - 1 /\ c.ht \in 0 .. HT - 1
           /\ Number(c) = Num(c.fv, c.v, c.h, c.vt, c.ht)
           /\ Number(c) \in Nat
  <1>1. /\ c.fv \in 0 .. 2 * FV - 1 /\ c.v \in 0 .. NV - 1 /\ c.h \in 0 .. NH - 1
        /\ c.vt \in 0 .. VT - 1 /\ c.ht \in 0 .. HT - 1
    BY DEF Scrolls
  <1>2. Number(c) = Num(c.fv, c.v, c.h, c.vt, c.ht)
    BY DEF Number, Num
  <1>3. Num(c.fv, c.v, c.h, c.vt, c.ht) \in Nat
    <2>1. c.fv \in Nat /\ c.v \in Nat /\ c.h \in Nat /\ c.vt \in Nat /\ c.ht \in Nat
      BY <1>1
    <2> QED
      BY <2>1, NumNat
  <1> QED
    BY <1>1, <1>2, <1>3

\* The palette is the last page of memory.
LEMMA PaletteOK ==
    ASSUME cntrs \in Scrolls
    PROVE  Port!InPalette(Number(cntrs)) <=> InPram
  <1> DEFINE fv == cntrs.fv
             v == cntrs.v
             y == cntrs.h
             vt == cntrs.vt
             ht == cntrs.ht
             w == NV * (NH * (VT * HT))
             rest == v * (NH * (VT * HT)) + (y * (VT * HT) + (vt * HT + ht))
             f == fv % FV
             p == vt \div VTLO
             q == vt % VTLO
             page == VTLO * HT
             m == ((FV * NV) * NH) * VTHI
             low == q * HT + ht
             top1 == f * NV + v
             top2 == top1 * NH + y
             top == top2 * VTHI + p
  <1>1. /\ NV \in Pos /\ NH \in Pos /\ VTHI \in Pos /\ VTLO \in Pos /\ HT \in Pos /\ FV \in Pos
        /\ w \in Pos /\ page \in Pos /\ VT = VTHI * VTLO /\ VT \in Pos
        /\ Port!Page = page /\ Port!MemSize = FV * w
    BY Sizes DEF VT
  <1>2. /\ fv \in 0 .. 2 * FV - 1 /\ v \in 0 .. NV - 1 /\ y \in 0 .. NH - 1
        /\ vt \in 0 .. VT - 1 /\ ht \in 0 .. HT - 1
        /\ Number(cntrs) = Num(fv, v, y, vt, ht)
    BY ScrollsNumber
  <1> HIDE DEF fv, v, y, vt, ht
  <1>3. vt = p * VTLO + q /\ p \in 0 .. VTHI - 1 /\ q \in 0 .. VTLO - 1
    BY <1>1, <1>2, TwoParts
  <1>4. f \in 0 .. FV - 1
    BY <1>1, <1>2, DivMod
  <1>5. rest \in 0 .. w - 1
    <2>1. vt * HT + ht \in 0 .. VT * HT - 1 /\ VT * HT \in Pos
      BY <1>1, <1>2, Bound
    <2>2. /\ y * (VT * HT) + (vt * HT + ht) \in 0 .. NH * (VT * HT) - 1
          /\ NH * (VT * HT) \in Pos
      BY <1>1, <1>2, <2>1, Bound
    <2> QED
      BY <1>1, <1>2, <2>2, Bound
  <1>6. Num(fv, v, y, vt, ht) = fv * w + rest
    BY <1>1, <1>2 DEF Num, Pos
  <1>7. (fv * w + rest) % (FV * w) = f * w + rest
    <2>1. fv \in Int /\ fv * w + rest \in Int
      BY <1>1, <1>2, <1>5 DEF Pos
    <2> HIDE DEF w, rest
    <2>2. (fv * w + rest) \div w = fv /\ (fv * w + rest) % w = rest
      BY <1>1, <1>5, <2>1, Unique
    <2> DEFINE n == fv * w + rest
    <2>3. n % (FV * w) = ((n \div w) % FV) * w + (n % w)
      <3> HIDE DEF n
      <3>1. n \in Int
        BY <2>1 DEF n
      <3> QED
        BY <1>1, <3>1, Nested
    <2> QED
      BY <2>2, <2>3 DEF f
  <1>8. /\ top1 \in 0 .. FV * NV - 1 /\ FV * NV \in Pos
        /\ (top1 = FV * NV - 1 <=> f = FV - 1 /\ v = NV - 1)
    <2>1. top1 \in 0 .. FV * NV - 1 /\ FV * NV \in Pos
      BY <1>1, <1>2, <1>4, Bound
    <2>2. top1 = FV * NV - 1 <=> f = FV - 1 /\ v = NV - 1
      BY <1>1, <1>2, <1>4, Largest
    <2> QED
      BY <2>1, <2>2
  <1>9. /\ top2 \in 0 .. (FV * NV) * NH - 1 /\ (FV * NV) * NH \in Pos
        /\ (top2 = (FV * NV) * NH - 1 <=> top1 = FV * NV - 1 /\ y = NH - 1)
    <2> HIDE DEF top1
    <2> QED
      <3>1. top2 \in 0 .. (FV * NV) * NH - 1 /\ (FV * NV) * NH \in Pos
        BY <1>1, <1>2, <1>8, Bound
      <3>2. top2 = (FV * NV) * NH - 1 <=> top1 = FV * NV - 1 /\ y = NH - 1
        BY <1>1, <1>2, <1>8, Largest
      <3> QED
        BY <3>1, <3>2
  <1>10. /\ top \in 0 .. m - 1 /\ m \in Pos
         /\ (top = m - 1 <=> top2 = (FV * NV) * NH - 1 /\ p = VTHI - 1)
    <2> HIDE DEF top2
    <2> QED
      <3>1. top \in 0 .. m - 1 /\ m \in Pos
        BY <1>1, <1>3, <1>9, Bound
      <3>2. top = m - 1 <=> top2 = (FV * NV) * NH - 1 /\ p = VTHI - 1
        <4> DEFINE k == (FV * NV) * NH
        <4>1. k \in Pos /\ top2 \in 0 .. k - 1
          BY <1>9
        <4> HIDE DEF k, p
        <4>2. top2 * VTHI + p = k * VTHI - 1 <=> top2 = k - 1 /\ p = VTHI - 1
          BY <1>1, <1>3, <4>1, Largest
        <4> QED
          BY <4>2 DEF k
      <3> QED
        BY <3>1, <3>2
  <1>11. low \in 0 .. page - 1
    BY <1>1, <1>2, <1>3, Bound
  <1>12. f * w + rest = top * page + low
    <2> HIDE DEF f, p, q
    <2> QED
      BY <1>1, <1>2, <1>3, <1>4 DEF Pos
  <1>13. FV * w = m * page
    BY <1>1 DEF Pos
  <1> HIDE DEF top, low, m, page, w, rest, f, p, q
  <1>14. top * page + low >= m * page - page <=> top = m - 1
    <2>1. CASE top = m - 1
      <3>1. (m - 1) * page = m * page - page
        BY <1>1, <1>10 DEF Pos
      <3> QED
        BY <1>1, <1>10, <1>11, <2>1, <3>1 DEF Pos
    <2>2. CASE top <= m - 2
      <3>1. (m - 2 - top) * page >= 0
        BY <1>1, <1>10, <2>2 DEF Pos
      <3>2. (m - 2 - top) * page = m * page - 2 * page - top * page
        BY <1>1, <1>10 DEF Pos
      <3>3. top * page \in Int /\ m * page \in Int
        BY <1>1, <1>10 DEF Pos
      <3> QED
        BY <1>1, <1>10, <1>11, <2>2, <3>1, <3>2, <3>3 DEF Pos
    <2> QED
      BY <1>10, <2>1, <2>2 DEF Pos
  <1>15. Port!InPalette(Number(cntrs)) <=> top = m - 1
    BY <1>1, <1>2, <1>6, <1>7, <1>12, <1>13, <1>14 DEF Port!InPalette
  <1> QED
    BY <1>8, <1>9, <1>10, <1>15 DEF InPram, f, p, fv, v, y, vt

\* Its last digit selects the colour.
LEMMA ColourOK ==
    ASSUME cntrs \in Scrolls
    PROVE  Port!Colour(Number(cntrs)) = PramA(cntrs.ht)
  <1> DEFINE x == ((cntrs.fv * NV + cntrs.v) * NH + cntrs.h) * VT + cntrs.vt
  <1>1. Number(cntrs) = x * HT + cntrs.ht
    BY DEF Number
  <1>2. HT \in Pos /\ cntrs.ht \in 0 .. HT - 1 /\ x \in Int
    <2>1. /\ cntrs.fv \in Nat /\ cntrs.v \in Nat /\ cntrs.h \in Nat /\ cntrs.vt \in Nat
          /\ NV \in Nat /\ NH \in Nat /\ VT \in Nat
      BY ScrollsNumber, Sizes DEF Pos
    <2>2. cntrs.fv * NV + cntrs.v \in Nat
      BY <2>1
    <2>3. (cntrs.fv * NV + cntrs.v) * NH + cntrs.h \in Nat
      BY <2>1, <2>2
    <2>4. x \in Nat
      BY <2>1, <2>3
    <2> QED
      BY <2>4, ScrollsNumber, Sizes
  <1> HIDE DEF x
  <1>3. Number(cntrs) % HT = cntrs.ht
    BY <1>1, <1>2, Unique
  <1> QED
    BY <1>3 DEF Port!Colour, Port!PaletteSize, PramA

-----------------------------------------------------------------------------
(* The inductive invariant.                                                 *)

\* The registers by name: what an update of one says of the others.
RiFields == {"fv", "v", "h", "vt", "ht", "nvbl_en", "addr_incr", "rendering",
             "vblank", "byte_sel", "rd_buf", "rd_rdy", "upd_cntrs",
             "spr_ram_a", "cpu_d_out", "ncs_in", "vblank_in"}

RiTypes(r) ==
    /\ DOMAIN r = RiFields /\ r = [f \in RiFields |-> r[f]]
    /\ Latches(r) \in Scrolls
    /\ r.nvbl_en \in BOOLEAN /\ r.addr_incr \in BOOLEAN /\ r.rendering \in BOOLEAN
    /\ r.vblank \in BOOLEAN /\ r.byte_sel \in BOOLEAN /\ r.rd_rdy \in BOOLEAN
    /\ r.upd_cntrs \in BOOLEAN /\ r.ncs_in \in BOOLEAN /\ r.vblank_in \in BOOLEAN
    /\ r.spr_ram_a \in 0 .. OamSize - 1

Types ==
    /\ RiTypes(ri) /\ cntrs \in Scrolls
    /\ ram_a \in 0 .. MemSize - 1 /\ DOMAIN ram = 0 .. MemSize - 1
    /\ DOMAIN palette_ram = 0 .. HT - 1 /\ DOMAIN m_oam = 0 .. OamSize - 1
    /\ phase \in 0 .. CycleLength - 1 /\ blank \in BOOLEAN
    /\ cycle \in Accesses \cup {NoCycle}

\* During an access q_ncs_in is high in the first clock and low from then on.
EdgeAtStart == cycle # NoCycle => (ri.ncs_in <=> phase = 0)

\* What an access leaves to the clock after it is done before the next access.
Delays == ri.upd_cntrs \/ ri.rd_rdy => phase = 1

IInv == Types /\ EdgeAtStart /\ Delays

LEMMA InitIInv == Init => IInv
  <1> SUFFICES ASSUME Init PROVE IInv
    OBVIOUS
  <1>1. /\ 0 \in 0 .. 2 * FV - 1 /\ 0 \in 0 .. NV - 1 /\ 0 \in 0 .. NH - 1 /\ 0 \in 0 .. VT - 1
        /\ 0 \in 0 .. HT - 1 /\ 0 \in 0 .. OamSize - 1 /\ 0 \in 0 .. MemSize - 1
    BY Sizes DEF Pos
  <1>2. Latches(ResetRi) \in Scrolls
    BY <1>1 DEF Latches, ResetRi, Scrolls
  <1>3. RiTypes(ResetRi)
    BY <1>1, <1>2 DEF RiTypes, RiFields, ResetRi
  <1>4. cntrs \in Scrolls
    BY FieldsOK DEF Init, PpuInit
  <1>5. phase \in 0 .. CycleLength - 1 /\ DOMAIN ram = 0 .. MemSize - 1
        /\ DOMAIN palette_ram = 0 .. HT - 1 /\ DOMAIN m_oam = 0 .. OamSize - 1
    BY RegsAssumption DEF Init, PpuInit
  <1>6. Types
    BY <1>1, <1>3, <1>4, <1>5 DEF Init, PpuInit, Types
  <1>7. EdgeAtStart /\ Delays
    BY DEF Init, PpuInit, ResetRi, EdgeAtStart, Delays
  <1> QED
    BY <1>6, <1>7 DEF IInv

\* A clock's defaults.
Fresh(r) ==
    /\ RiTypes(r)
    /\ Latches(r) = Latches(ri)
    /\ r.fv = ri.fv /\ r.v = ri.v /\ r.h = ri.h /\ r.vt = ri.vt /\ r.ht = ri.ht
    /\ r.nvbl_en = ri.nvbl_en /\ r.addr_incr = ri.addr_incr /\ r.byte_sel = ri.byte_sel
    /\ r.spr_ram_a = ri.spr_ram_a /\ r.cpu_d_out = ri.cpu_d_out
    /\ r.rd_buf = IF ri.rd_rdy THEN vram_d_in ELSE ri.rd_buf
    /\ ~r.rd_rdy /\ ~r.upd_cntrs /\ (r.ncs_in <=> cycle = NoCycle)
    /\ r.vblank_in = blank
    /\ r.vblank <=> blank /\ (ri.vblank \/ ~ri.vblank_in)

LEMMA DefaultOK == ASSUME Types PROVE Fresh(Default(Bus, blank))
  <1> DEFINE r == Default(Bus, blank)
  <1>1. DOMAIN r = RiFields /\ r = [f \in RiFields |-> r[f]]
    BY DEF Types, RiTypes, RiFields, Default
  <1>2. /\ r.fv = ri.fv /\ r.v = ri.v /\ r.h = ri.h /\ r.vt = ri.vt /\ r.ht = ri.ht
        /\ r.nvbl_en = ri.nvbl_en /\ r.addr_incr = ri.addr_incr /\ r.byte_sel = ri.byte_sel
        /\ r.spr_ram_a = ri.spr_ram_a /\ r.cpu_d_out = ri.cpu_d_out
        /\ r.rendering = ri.rendering
        /\ r.rd_buf = IF ri.rd_rdy THEN vram_d_in ELSE ri.rd_buf
        /\ r.rd_rdy = FALSE /\ r.upd_cntrs = FALSE /\ r.ncs_in = Bus.ncs
        /\ r.vblank_in = blank
        /\ r.vblank = (blank /\ (ri.vblank \/ ~ri.vblank_in))
    BY DEF Types, RiTypes, RiFields, Default
  <1>3. Bus.ncs = (cycle = NoCycle)
    BY DEF Bus
  <1> HIDE DEF r
  <1>4. Latches(r) = Latches(ri)
    BY <1>2 DEF Latches
  <1>5. RiTypes(r)
    BY <1>1, <1>2, <1>3, <1>4 DEF RiTypes, Types
  <1> QED
    BY <1>2, <1>3, <1>4, <1>5 DEF Fresh, r

-----------------------------------------------------------------------------
(* The access of a CPU cycle.                                               *)

\* The byte a register is given, by its fields.
LEMMA CycleOK ==
    ASSUME Types, cycle # NoCycle
    PROVE  /\ Bus.sel = cycle.reg /\ (Bus.r_nw <=> ~cycle.wr)
           /\ cycle.reg \in 0 .. 7 /\ cycle.wr \in BOOLEAN /\ cycle \in Accesses
           /\ cycle.wr /\ cycle.reg = 0 =>
                /\ Bus.d = cycle /\ cycle.nmi \in BOOLEAN /\ cycle.rows \in BOOLEAN
                /\ cycle.tables \in 0 .. NV * NH - 1
           /\ cycle.wr /\ cycle.reg = 5 =>
                Bus.d = cycle /\ cycle.tile \in Nat /\ cycle.fine \in Nat
           /\ cycle.wr /\ cycle.reg \in {3, 4, 6, 7} => Bus.d = cycle.d /\ cycle.d \in Nat
  <1>1. /\ cycle \in Accesses
        /\ cycle \in ReadCycles \cup CtrlWrites \cup MaskWrites \cup ScrollWrites \cup ByteWrites
    BY RegsAssumption DEF Types
  <1>2. Bus.sel = cycle.reg /\ (Bus.r_nw <=> ~cycle.wr)
    BY DEF Bus
  <1>3. Bus.d = IF "d" \in DOMAIN cycle THEN cycle.d ELSE cycle
    BY DEF Bus
  <1>4. CASE cycle \in ReadCycles
    BY <1>1, <1>2, <1>4 DEF ReadCycles
  <1>5. CASE cycle \in CtrlWrites
    <2>1. /\ DOMAIN cycle = {"reg", "wr", "nmi", "rows", "tables"}
          /\ cycle.reg = 0 /\ cycle.wr /\ cycle.wr \in BOOLEAN
          /\ cycle.nmi \in BOOLEAN /\ cycle.rows \in BOOLEAN
          /\ cycle.tables \in 0 .. NV * NH - 1
      BY <1>5 DEF CtrlWrites
    <2>2. Bus.d = cycle
      BY <1>3, <2>1
    <2> QED
      BY <1>1, <1>2, <2>1, <2>2
  <1>6. CASE cycle \in MaskWrites
    <2>1. cycle.reg = 1 /\ cycle.wr /\ cycle.wr \in BOOLEAN
      BY <1>6 DEF MaskWrites
    <2>2. cycle.reg \in 0 .. 7
      BY <2>1
    <2>3. ~(cycle.wr /\ cycle.reg = 0) /\ ~(cycle.wr /\ cycle.reg = 5)
      BY <2>1
    <2>4. ~(cycle.wr /\ cycle.reg \in {3, 4, 6, 7})
      BY <2>1
    <2> QED
      BY <1>1, <1>2, <2>1, <2>2, <2>3, <2>4
  <1>7. CASE cycle \in ScrollWrites
    <2>1. /\ DOMAIN cycle = {"reg", "wr", "tile", "fine"}
          /\ cycle.reg = 5 /\ cycle.wr /\ cycle.wr \in BOOLEAN
          /\ cycle.tile \in Nat /\ cycle.fine \in Nat
      BY <1>7 DEF ScrollWrites
    <2>2. Bus.d = cycle
      BY <1>3, <2>1
    <2> QED
      BY <1>1, <1>2, <2>1, <2>2
  <1>8. CASE cycle \in ByteWrites
    <2>1. /\ DOMAIN cycle = {"reg", "wr", "d"}
          /\ cycle.reg \in {2, 3, 4, 6, 7} /\ cycle.wr /\ cycle.wr \in BOOLEAN /\ cycle.d \in Nat
      BY <1>8 DEF ByteWrites
    <2>2. Bus.d = cycle.d
      BY <1>3, <2>1
    <2> QED
      BY <1>1, <1>2, <2>1, <2>2
  <1> QED
    BY <1>1, <1>4, <1>5, <1>6, <1>7, <1>8

\* A falling edge of the chip select is the first clock of an access.
LEMMA EdgeOK == ASSUME IInv PROVE Evaluates(Bus) <=> phase = 0 /\ cycle # NoCycle
  BY DEF IInv, Types, RiTypes, EdgeAtStart, Evaluates, Bus

LEMMA Selected ==
    ASSUME Types, Evaluates(Bus)
    PROVE  LET r == Default(Bus, blank)
               n == Next_ri(Bus, blank)
           IN  /\ ~cycle.wr /\ cycle.reg = 2 => n = ReadStatus(r)
               /\ ~cycle.wr /\ cycle.reg = 4 => n = ReadOam(r)
               /\ ~cycle.wr /\ cycle.reg = 7 => n = ReadData(r)
               /\ cycle.wr /\ cycle.reg = 0 => n = WriteCtrl(r, cycle)
               /\ cycle.wr /\ cycle.reg = 1 => n = WriteMask(r, Bus.d)
               /\ cycle.wr /\ cycle.reg = 3 => n = WriteOamAddr(r, cycle.d)
               /\ cycle.wr /\ cycle.reg = 4 => n = WriteOam(r)
               /\ cycle.wr /\ cycle.reg = 5 => n = WriteScroll(r, cycle)
               /\ cycle.wr /\ cycle.reg = 6 => n = WriteAddr(r, cycle.d)
               /\ cycle.wr /\ cycle.reg \notin {0, 1, 3, 4, 5, 6} => n = r
               /\ ~cycle.wr /\ cycle.reg \notin {2, 4, 7} => n = r
  <1>1. cycle # NoCycle
    BY DEF Evaluates, Bus
  <1>2. /\ \A reg : Reads(Bus, reg) <=> ~cycle.wr /\ cycle.reg = reg
        /\ \A reg : Writes(Bus, reg) <=> cycle.wr /\ cycle.reg = reg
    BY <1>1, CycleOK DEF Reads, Writes
  <1>3. /\ cycle.wr /\ cycle.reg = 0 => Bus.d = cycle
        /\ cycle.wr /\ cycle.reg = 5 => Bus.d = cycle
        /\ cycle.wr /\ cycle.reg = 3 => Bus.d = cycle.d
        /\ cycle.wr /\ cycle.reg = 6 => Bus.d = cycle.d
    BY <1>1, CycleOK
  <1> DEFINE r == Default(Bus, blank)
  <1> HIDE DEF r
  <1>4. Next_ri(Bus, blank) =
         CASE ~cycle.wr /\ cycle.reg = 2 -> ReadStatus(r)
           [] ~cycle.wr /\ cycle.reg = 4 -> ReadOam(r)
           [] ~cycle.wr /\ cycle.reg = 7 -> ReadData(r)
           [] cycle.wr /\ cycle.reg = 0 -> WriteCtrl(r, Bus.d)
           [] cycle.wr /\ cycle.reg = 1 -> WriteMask(r, Bus.d)
           [] cycle.wr /\ cycle.reg = 3 -> WriteOamAddr(r, Bus.d)
           [] cycle.wr /\ cycle.reg = 4 -> WriteOam(r)
           [] cycle.wr /\ cycle.reg = 5 -> WriteScroll(r, Bus.d)
           [] cycle.wr /\ cycle.reg = 6 -> WriteAddr(r, Bus.d)
           [] OTHER -> r
    BY <1>2 DEF Next_ri, r
  <1> QED
    BY <1>3, <1>4 DEF r

\* Without a falling edge there is no access.
LEMMA Unselected ==
    ASSUME ~Evaluates(Bus)
    PROVE  /\ Next_ri(Bus, blank) = Default(Bus, blank)
           /\ Next_cntrs(Bus) = IF ri.upd_cntrs THEN Latches(ri) ELSE cntrs
           /\ ~vram_wr(Bus) /\ ~pram_wr(Bus) /\ ~spr_ram_wr(Bus)
  <1>1. \A reg : ~Reads(Bus, reg) /\ ~Writes(Bus, reg)
    BY DEF Reads, Writes
  <1> QED
    BY <1>1 DEF Next_ri, Next_cntrs, inc_addr, vram_wr, pram_wr, spr_ram_wr

-----------------------------------------------------------------------------
(* The registers after each access, by name.                                *)

\* An access sets the registers of C and leaves the others as r has them.
Sets(s, r, C) ==
    /\ DOMAIN s = RiFields /\ s = [f \in RiFields |-> s[f]]
    /\ \A f \in RiFields \ C : s[f] = r[f]

Flags == {"nvbl_en", "addr_incr", "rendering", "vblank", "byte_sel", "rd_rdy",
          "upd_cntrs", "ncs_in", "vblank_in"}

LEMMA SetsTypes ==
    ASSUME NEW r, NEW s, NEW C, RiTypes(r), Sets(s, r, C), Latches(s) \in Scrolls,
           \A f \in C \cap Flags : s[f] \in BOOLEAN, s.spr_ram_a \in 0 .. OamSize - 1
    PROVE  RiTypes(s)
  <1>1. \A f \in Flags : r[f] \in BOOLEAN
    BY DEF RiTypes, Flags
  <1>2. \A f \in Flags : s[f] \in BOOLEAN
    BY <1>1 DEF Sets, Flags, RiFields
  <1> QED
    BY <1>2 DEF Sets, RiTypes, Flags

LEMMA ReadsOK ==
    ASSUME NEW r, RiTypes(r)
    PROVE  /\ LET s == ReadStatus(r)
              IN  /\ Sets(s, r, {"cpu_d_out", "byte_sel", "vblank"})
                  /\ s.cpu_d_out = (IF ri.vblank THEN 1 ELSE 0)
                  /\ s.byte_sel = FALSE /\ s.vblank = FALSE
           /\ LET s == ReadOam(r)
              IN  Sets(s, r, {"cpu_d_out"}) /\ s.cpu_d_out = m_oam[ri.spr_ram_a]
           /\ LET s == ReadData(r)
              IN  /\ Sets(s, r, {"cpu_d_out", "rd_rdy"})
                  /\ s.cpu_d_out = (IF InPram THEN pram_d_in ELSE ri.rd_buf)
                  /\ s.rd_rdy = TRUE
  <1>1. RiTypes(r)!1
    BY DEF RiTypes
  <1>2. LET s == ReadStatus(r)
        IN  /\ Sets(s, r, {"cpu_d_out", "byte_sel", "vblank"})
            /\ s.cpu_d_out = (IF ri.vblank THEN 1 ELSE 0)
            /\ s.byte_sel = FALSE /\ s.vblank = FALSE
    BY <1>1 DEF ReadStatus, Sets, RiFields
  <1>3. LET s == ReadOam(r)
        IN  Sets(s, r, {"cpu_d_out"}) /\ s.cpu_d_out = m_oam[ri.spr_ram_a]
    BY <1>1 DEF ReadOam, Sets, RiFields
  <1>4. LET s == ReadData(r)
        IN  /\ Sets(s, r, {"cpu_d_out", "rd_rdy"})
            /\ s.cpu_d_out = (IF InPram THEN pram_d_in ELSE ri.rd_buf)
            /\ s.rd_rdy = TRUE
    BY <1>1 DEF ReadData, Sets, RiFields
  <1> QED
    BY <1>2, <1>3, <1>4

LEMMA WritesOK ==
    ASSUME NEW r, RiTypes(r), NEW d
    PROVE  /\ LET s == WriteCtrl(r, d)
              IN  /\ Sets(s, r, {"nvbl_en", "addr_incr", "v", "h"})
                  /\ s.nvbl_en = d.nmi /\ s.addr_incr = d.rows
                  /\ s.v = d.tables \div NH /\ s.h = d.tables % NH
           /\ Sets(WriteMask(r, d), r, {"rendering"}) /\ WriteMask(r, d).rendering \in BOOLEAN
           /\ LET s == WriteOamAddr(r, d)
              IN  Sets(s, r, {"spr_ram_a"}) /\ s.spr_ram_a = d % OamSize
  <1>1. RiTypes(r)!1
    BY DEF RiTypes
  <1>2. LET s == WriteCtrl(r, d)
        IN  /\ Sets(s, r, {"nvbl_en", "addr_incr", "v", "h"})
            /\ s.nvbl_en = d.nmi /\ s.addr_incr = d.rows
            /\ s.v = d.tables \div NH /\ s.h = d.tables % NH
    BY <1>1 DEF WriteCtrl, Sets, RiFields
  <1>3. Sets(WriteMask(r, d), r, {"rendering"}) /\ WriteMask(r, d).rendering \in BOOLEAN
    BY <1>1 DEF WriteMask, Sets, RiFields
  <1>4. LET s == WriteOamAddr(r, d)
        IN  Sets(s, r, {"spr_ram_a"}) /\ s.spr_ram_a = d % OamSize
    BY <1>1 DEF WriteOamAddr, Sets, RiFields
  <1> QED
    BY <1>2, <1>3, <1>4

LEMMA OamStepOK ==
    ASSUME NEW r, RiTypes(r)
    PROVE  LET s == WriteOam(r)
           IN  Sets(s, r, {"spr_ram_a"}) /\ s.spr_ram_a = (r.spr_ram_a + 1) % OamSize
  <1>1. RiTypes(r)!1
    BY DEF RiTypes
  <1> QED
    BY <1>1 DEF WriteOam, Sets, RiFields

\* The first and the second byte for 0x2005 and 0x2006.
LEMMA HalvesOK ==
    ASSUME NEW r, RiTypes(r), NEW d
    PROVE  LET s == WriteScroll(r, d)
           IN  /\ Sets(s, r, IF ri.byte_sel THEN {"byte_sel", "fv", "vt"}
                             ELSE {"byte_sel", "ht"})
               /\ s.byte_sel = ~ri.byte_sel
               /\ IF ri.byte_sel
                  THEN s.fv = d.fine % (2 * FV) /\ s.vt = d.tile % VT
                  ELSE s.ht = d.tile % HT
  <1>1. RiTypes(r)!1
    BY DEF RiTypes
  <1>2. CASE ri.byte_sel
    BY <1>1, <1>2 DEF WriteScroll, Sets, RiFields
  <1>3. CASE ~ri.byte_sel
    BY <1>1, <1>3 DEF WriteScroll, Sets, RiFields
  <1> QED
    BY <1>2, <1>3

SetsHigh(s, r, d) ==
    /\ Sets(s, r, {"byte_sel", "fv", "v", "h", "vt"})
    /\ s.byte_sel = TRUE
    /\ s.fv = ((d \div VTHI) \div (NV * NH)) % FV
    /\ s.v = ((d \div VTHI) \div NH) % NV
    /\ s.h = (d \div VTHI) % NH
    /\ s.vt = (d % VTHI) * VTLO + (r.vt % VTLO)

LEMMA AddrHighOK ==
    ASSUME NEW r, RiTypes(r), NEW d, ~ri.byte_sel
    PROVE  SetsHigh(WriteAddr(r, d), r, d)
  <1>1. RiTypes(r)!1
    BY DEF RiTypes
  <1>2. LET s == WriteAddr(r, d)
        IN  /\ Sets(s, r, {"byte_sel", "fv", "v", "h", "vt"})
            /\ s.byte_sel = TRUE
            /\ s.fv = ((d \div VTHI) \div (NV * NH)) % FV
            /\ s.v = ((d \div VTHI) \div NH) % NV
            /\ s.h = (d \div VTHI) % NH
            /\ s.vt = (d % VTHI) * VTLO + (r.vt % VTLO)
    BY <1>1 DEF WriteAddr, Sets, RiFields
  <1> QED
    BY <1>2 DEF SetsHigh

LEMMA AddrLowOK ==
    ASSUME NEW r, RiTypes(r), NEW d, ri.byte_sel
    PROVE  LET s == WriteAddr(r, d)
           IN  /\ Sets(s, r, {"byte_sel", "vt", "ht", "upd_cntrs"})
               /\ s.byte_sel = FALSE /\ s.upd_cntrs = TRUE
               /\ s.vt = (r.vt - (r.vt % VTLO)) + ((d \div HT) % VTLO)
               /\ s.ht = d % HT
  <1>1. RiTypes(r)!1
    BY DEF RiTypes
  <1> QED
    BY <1>1 DEF WriteAddr, Sets, RiFields

-----------------------------------------------------------------------------
(* The registers keep their ranges.                                         *)

LEMMA LatchesOK ==
    ASSUME NEW s, s.fv \in 0 .. 2 * FV - 1, s.v \in 0 .. NV - 1, s.h \in 0 .. NH - 1,
           s.vt \in 0 .. VT - 1, s.ht \in 0 .. HT - 1
    PROVE  Latches(s) \in Scrolls
  BY DEF Latches, Scrolls

LEMMA LatchRanges ==
    ASSUME NEW r, RiTypes(r)
    PROVE  /\ r.fv \in 0 .. 2 * FV - 1 /\ r.v \in 0 .. NV - 1 /\ r.h \in 0 .. NH - 1
           /\ r.vt \in 0 .. VT - 1 /\ r.ht \in 0 .. HT - 1
           /\ Number(Latches(r)) = Num(r.fv, r.v, r.h, r.vt, r.ht)
  <1>1. Latches(r) \in Scrolls
    BY DEF RiTypes
  <1>2. /\ Latches(r).fv = r.fv /\ Latches(r).v = r.v /\ Latches(r).h = r.h
        /\ Latches(r).vt = r.vt /\ Latches(r).ht = r.ht
    BY DEF Latches
  <1> QED
    BY <1>1, <1>2, ScrollsNumber

LEMMA RiTyped ==
    ASSUME Types, Evaluates(Bus)
    PROVE  RiTypes(Next_ri(Bus, blank))
  <1> DEFINE r == Default(Bus, blank)
             n == Next_ri(Bus, blank)
  <1> SUFFICES RiTypes(n)
    OBVIOUS
  <1>1. Fresh(r) /\ RiTypes(r)
    BY DefaultOK DEF Fresh
  <1>2. cycle # NoCycle
    BY DEF Evaluates, Bus
  <1> HIDE DEF r
  <1>3. /\ cycle.reg \in 0 .. 7 /\ cycle.wr \in BOOLEAN
        /\ ri.byte_sel \in BOOLEAN
    BY <1>2, CycleOK DEF Types, RiTypes
  <1>4. Latches(r) \in Scrolls /\ r.spr_ram_a \in 0 .. OamSize - 1
    BY <1>1 DEF RiTypes
  <1>5. \A d \in Nat : d % OamSize \in 0 .. OamSize - 1
    <2>1. OamSize \in Pos
      BY Sizes
    <2> QED
      BY <2>1 DEF Pos
  <1>6. CASE ~cycle.wr /\ cycle.reg = 2
    <2> DEFINE C == {"cpu_d_out", "byte_sel", "vblank"}
    <2>1. n = ReadStatus(r)
      BY <1>6, Selected DEF r
    <2> HIDE DEF n
    <2>2. /\ Sets(n, r, C)
          /\ n.byte_sel = FALSE /\ n.vblank = FALSE
      BY <1>1, <2>1, ReadsOK
    <2>3. /\ n.fv = r.fv /\ n.v = r.v /\ n.h = r.h /\ n.vt = r.vt /\ n.ht = r.ht
          /\ n.spr_ram_a = r.spr_ram_a
      BY <2>2 DEF Sets, RiFields
    <2>4. Latches(n) \in Scrolls
      BY <1>1, <2>3, LatchRanges, LatchesOK
    <2>5. \A f \in C \cap Flags : n[f] \in BOOLEAN
      BY <2>2 DEF Flags
    <2> HIDE DEF C
    <2> QED
      BY <1>1, <1>4, <2>2, <2>3, <2>4, <2>5, SetsTypes
  <1>7. CASE ~cycle.wr /\ cycle.reg = 4
    <2> DEFINE C == {"cpu_d_out"}
    <2>1. n = ReadOam(r)
      BY <1>7, Selected DEF r
    <2> HIDE DEF n
    <2>2. Sets(n, r, C)
      BY <1>1, <2>1, ReadsOK
    <2>3. /\ n.fv = r.fv /\ n.v = r.v /\ n.h = r.h /\ n.vt = r.vt /\ n.ht = r.ht
          /\ n.spr_ram_a = r.spr_ram_a
      BY <2>2 DEF Sets, RiFields
    <2>4. Latches(n) \in Scrolls
      BY <1>1, <2>3, LatchRanges, LatchesOK
    <2>5. \A f \in C \cap Flags : n[f] \in BOOLEAN
      BY DEF Flags
    <2> HIDE DEF C
    <2> QED
      BY <1>1, <1>4, <2>2, <2>3, <2>4, <2>5, SetsTypes
  <1>8. CASE ~cycle.wr /\ cycle.reg = 7
    <2> DEFINE C == {"cpu_d_out", "rd_rdy"}
    <2>1. n = ReadData(r)
      BY <1>8, Selected DEF r
    <2> HIDE DEF n
    <2>2. Sets(n, r, C) /\ n.rd_rdy = TRUE
      BY <1>1, <2>1, ReadsOK
    <2>3. /\ n.fv = r.fv /\ n.v = r.v /\ n.h = r.h /\ n.vt = r.vt /\ n.ht = r.ht
          /\ n.spr_ram_a = r.spr_ram_a
      BY <2>2 DEF Sets, RiFields
    <2>4. Latches(n) \in Scrolls
      BY <1>1, <2>3, LatchRanges, LatchesOK
    <2>5. \A f \in C \cap Flags : n[f] \in BOOLEAN
      BY <2>2 DEF Flags
    <2> HIDE DEF C
    <2> QED
      BY <1>1, <1>4, <2>2, <2>3, <2>4, <2>5, SetsTypes
  <1>9. CASE cycle.wr /\ cycle.reg = 0
    <2> DEFINE C == {"nvbl_en", "addr_incr", "v", "h"}
    <2>1. n = WriteCtrl(r, cycle)
      BY <1>9, Selected DEF r
    <2> HIDE DEF n
    <2>2. /\ Sets(n, r, C)
          /\ n.nvbl_en = cycle.nmi /\ n.addr_incr = cycle.rows
          /\ n.v = cycle.tables \div NH /\ n.h = cycle.tables % NH
      BY <1>1, <2>1, WritesOK
    <2>3. /\ cycle.nmi \in BOOLEAN /\ cycle.rows \in BOOLEAN
          /\ cycle.tables \in 0 .. NV * NH - 1
      BY <1>2, <1>9, CycleOK
    <2>4. n.v \in 0 .. NV - 1 /\ n.h \in 0 .. NH - 1
      <3>1. NV \in Pos /\ NH \in Pos
        BY Sizes
      <3> QED
        BY <2>2, <2>3, <3>1, TwoParts
    <2>5. n.fv = r.fv /\ n.vt = r.vt /\ n.ht = r.ht /\ n.spr_ram_a = r.spr_ram_a
      BY <2>2 DEF Sets, RiFields
    <2>6. Latches(n) \in Scrolls
      BY <1>1, <2>4, <2>5, LatchRanges, LatchesOK
    <2>7. \A f \in C \cap Flags : n[f] \in BOOLEAN
      BY <2>2, <2>3 DEF Flags
    <2> HIDE DEF C
    <2> QED
      BY <1>1, <1>4, <2>2, <2>5, <2>6, <2>7, SetsTypes
  <1>10. CASE cycle.wr /\ cycle.reg = 1
    <2> DEFINE C == {"rendering"}
    <2>1. n = WriteMask(r, Bus.d)
      BY <1>10, Selected DEF r
    <2> HIDE DEF n
    <2>2. Sets(n, r, C) /\ n.rendering \in BOOLEAN
      BY <1>1, <2>1, WritesOK
    <2>3. /\ n.fv = r.fv /\ n.v = r.v /\ n.h = r.h /\ n.vt = r.vt /\ n.ht = r.ht
          /\ n.spr_ram_a = r.spr_ram_a
      BY <2>2 DEF Sets, RiFields
    <2>4. Latches(n) \in Scrolls
      BY <1>1, <2>3, LatchRanges, LatchesOK
    <2>5. \A f \in C \cap Flags : n[f] \in BOOLEAN
      BY <2>2 DEF Flags
    <2> HIDE DEF C
    <2> QED
      BY <1>1, <1>4, <2>2, <2>3, <2>4, <2>5, SetsTypes
  <1>11. CASE cycle.wr /\ cycle.reg \in {3, 4}
    <2> DEFINE C == {"spr_ram_a"}
    <2>1. n = WriteOamAddr(r, cycle.d) \/ n = WriteOam(r)
      BY <1>11, Selected DEF r
    <2> HIDE DEF n
    <2>2. /\ Sets(n, r, C)
          /\ n.spr_ram_a = cycle.d % OamSize \/ n.spr_ram_a = (r.spr_ram_a + 1) % OamSize
      <3>1. CASE n = WriteOamAddr(r, cycle.d)
        BY <1>1, WritesOK, <3>1
      <3>2. CASE n = WriteOam(r)
        BY <1>1, OamStepOK, <3>2
      <3> QED
        BY <2>1, <3>1, <3>2
    <2>3. n.spr_ram_a \in 0 .. OamSize - 1
      <3>1. cycle.d \in Nat /\ r.spr_ram_a + 1 \in Nat
        BY <1>2, <1>4, <1>11, CycleOK
      <3> QED
        BY <1>5, <2>2, <3>1
    <2>4. /\ n.fv = r.fv /\ n.v = r.v /\ n.h = r.h /\ n.vt = r.vt /\ n.ht = r.ht
      BY <2>2 DEF Sets, RiFields
    <2>5. Latches(n) \in Scrolls
      BY <1>1, <2>4, LatchRanges, LatchesOK
    <2>6. \A f \in C \cap Flags : n[f] \in BOOLEAN
      BY DEF Flags
    <2> HIDE DEF C
    <2> QED
      BY <1>1, <1>4, <2>2, <2>3, <2>5, <2>6, SetsTypes
  <1>12. CASE cycle.wr /\ cycle.reg = 5
    <2>1. n = WriteScroll(r, cycle)
      BY <1>12, Selected DEF r
    <2> HIDE DEF n
    <2>2. cycle.tile % VT \in 0 .. VT - 1 /\ cycle.tile % HT \in 0 .. HT - 1
          /\ cycle.fine % (2 * FV) \in 0 .. 2 * FV - 1
      <3>1. cycle.tile \in Nat /\ cycle.fine \in Nat
        BY <1>2, <1>12, CycleOK
      <3>2. VT \in Pos /\ HT \in Pos /\ 2 * FV \in Pos
        BY Sizes
      <3> QED
        BY <3>1, <3>2, DivMod
    <2>3. CASE ri.byte_sel
      <3> DEFINE C == {"byte_sel", "fv", "vt"}
      <3>1. /\ Sets(n, r, C)
            /\ n.byte_sel = ~ri.byte_sel /\ n.fv = cycle.fine % (2 * FV) /\ n.vt = cycle.tile % VT
        BY <1>1, <2>1, <2>3, HalvesOK
      <3>2. n.v = r.v /\ n.h = r.h /\ n.ht = r.ht /\ n.spr_ram_a = r.spr_ram_a
        BY <3>1 DEF Sets, RiFields
      <3>3. Latches(n) \in Scrolls
        BY <1>1, <2>2, <3>1, <3>2, LatchRanges, LatchesOK
      <3>4. \A f \in C \cap Flags : n[f] \in BOOLEAN
        BY <3>1 DEF Flags
      <3> HIDE DEF C
      <3> QED
        BY <1>1, <1>4, <3>1, <3>2, <3>3, <3>4, SetsTypes
    <2>4. CASE ~ri.byte_sel
      <3> DEFINE C == {"byte_sel", "ht"}
      <3>1. /\ Sets(n, r, C)
            /\ n.byte_sel = ~ri.byte_sel /\ n.ht = cycle.tile % HT
        BY <1>1, <2>1, <2>4, HalvesOK
      <3>2. n.fv = r.fv /\ n.v = r.v /\ n.h = r.h /\ n.vt = r.vt /\ n.spr_ram_a = r.spr_ram_a
        BY <3>1 DEF Sets, RiFields
      <3>3. Latches(n) \in Scrolls
        BY <1>1, <2>2, <3>1, <3>2, LatchRanges, LatchesOK
      <3>4. \A f \in C \cap Flags : n[f] \in BOOLEAN
        BY <3>1 DEF Flags
      <3> HIDE DEF C
      <3> QED
        BY <1>1, <1>4, <3>1, <3>2, <3>3, <3>4, SetsTypes
    <2> QED
      BY <2>3, <2>4
  <1>13. CASE cycle.wr /\ cycle.reg = 6
    <2>1. n = WriteAddr(r, cycle.d)
      BY <1>13, Selected DEF r
    <2> HIDE DEF n
    <2>2. cycle.d \in Nat
      BY <1>2, <1>13, CycleOK
    <2>3. CASE ri.byte_sel
      <3> DEFINE C == {"byte_sel", "vt", "ht", "upd_cntrs"}
      <3>1. /\ Sets(n, r, C)
            /\ n.byte_sel = FALSE /\ n.upd_cntrs = TRUE
            /\ n.vt = (r.vt - (r.vt % VTLO)) + ((cycle.d \div HT) % VTLO)
            /\ n.ht = cycle.d % HT
        BY <1>1, <2>1, <2>3, AddrLowOK
      <3>2. n.fv = r.fv /\ n.v = r.v /\ n.h = r.h /\ n.spr_ram_a = r.spr_ram_a
        BY <3>1 DEF Sets, RiFields
      <3>3. n.vt \in 0 .. VT - 1
        BY <1>1, <2>2, <3>1, LatchRanges, SetLow
      <3>4. n.ht \in 0 .. HT - 1
        <4>1. HT \in Pos
          BY Sizes
        <4> QED
          BY <2>2, <3>1, <4>1, DivMod
      <3>5. Latches(n) \in Scrolls
        BY <1>1, <3>2, <3>3, <3>4, LatchRanges, LatchesOK
      <3>6. \A f \in C \cap Flags : n[f] \in BOOLEAN
        BY <3>1 DEF Flags
      <3> HIDE DEF C
      <3> QED
        BY <1>1, <1>4, <3>1, <3>2, <3>5, <3>6, SetsTypes
    <2>4. CASE ~ri.byte_sel
      <3> DEFINE C == {"byte_sel", "fv", "v", "h", "vt"}
      <3>1. /\ Sets(n, r, C)
            /\ n.byte_sel = TRUE
            /\ n.fv = ((cycle.d \div VTHI) \div (NV * NH)) % FV
            /\ n.v = ((cycle.d \div VTHI) \div NH) % NV
            /\ n.h = (cycle.d \div VTHI) % NH
            /\ n.vt = (cycle.d % VTHI) * VTLO + (r.vt % VTLO)
        <4>1. SetsHigh(n, r, cycle.d)
          BY <1>1, <2>1, <2>4, AddrHighOK
        <4> QED
          BY <4>1 DEF SetsHigh
      <3>2. n.ht = r.ht /\ n.spr_ram_a = r.spr_ram_a
        BY <3>1 DEF Sets, RiFields
      <3>3. /\ n.fv \in 0 .. 2 * FV - 1 /\ n.v \in 0 .. NV - 1 /\ n.h \in 0 .. NH - 1
            /\ n.vt \in 0 .. VT - 1
        BY <1>1, <2>2, <3>1, LatchRanges, SetHigh
      <3>4. Latches(n) \in Scrolls
        BY <1>1, <3>2, <3>3, LatchRanges, LatchesOK
      <3>5. \A f \in C \cap Flags : n[f] \in BOOLEAN
        BY <3>1 DEF Flags
      <3> HIDE DEF C
      <3> QED
        BY <1>1, <1>4, <3>1, <3>2, <3>4, <3>5, SetsTypes
    <2> QED
      BY <2>3, <2>4
  <1>14. CASE IF cycle.wr THEN cycle.reg \notin {0, 1, 3, 4, 5, 6} ELSE cycle.reg \notin {2, 4, 7}
    <2>1. n = r
      BY <1>14, Selected DEF r
    <2> QED
      BY <1>1, <2>1
  <1> QED
    BY <1>3, <1>6, <1>7, <1>8, <1>9, <1>10, <1>11, <1>12, <1>13, <1>14

\* No access touches q_ncs_in and q_vblank_in, which only remember the lines.
LEMMA LinesOK ==
    ASSUME Types
    PROVE  LET n == Next_ri(Bus, blank)
           IN  n.ncs_in = (cycle = NoCycle) /\ n.vblank_in = blank
  <1> DEFINE r == Default(Bus, blank)
             OK(s) == s.ncs_in = (cycle = NoCycle) /\ s.vblank_in = blank
  <1>1. DOMAIN r = RiFields /\ r = [f \in RiFields |-> r[f]]
    BY DefaultOK DEF Fresh, RiTypes
  <1>2. OK(r)
    BY DEF Types, RiTypes, Default, RiFields, Bus
  <1> HIDE DEF r
  <1>3. OK(ReadStatus(r)) /\ OK(ReadOam(r)) /\ OK(ReadData(r))
    BY <1>1, <1>2 DEF ReadStatus, ReadOam, ReadData, RiFields
  <1>4. OK(WriteCtrl(r, Bus.d)) /\ OK(WriteMask(r, Bus.d)) /\ OK(WriteOamAddr(r, Bus.d))
    BY <1>1, <1>2 DEF WriteCtrl, WriteMask, WriteOamAddr, RiFields
  <1>5. OK(WriteOam(r)) /\ OK(WriteScroll(r, Bus.d))
    BY <1>1, <1>2 DEF WriteOam, WriteScroll, RiFields
  <1>6. OK(WriteAddr(r, Bus.d))
    BY <1>1, <1>2 DEF WriteAddr, RiFields
  <1> HIDE DEF OK
  <1>7. OK(Next_ri(Bus, blank))
    BY <1>2, <1>3, <1>4, <1>5, <1>6 DEF Next_ri, r
  <1> QED
    BY <1>7 DEF OK

LEMMA CntrsTyped == ASSUME Types PROVE Next_cntrs(Bus) \in Scrolls
  <1>1. cntrs \in Scrolls /\ Latches(ri) \in Scrolls
    BY DEF Types, RiTypes
  <1>2. Number(cntrs) + HT \in Nat /\ Number(cntrs) + 1 \in Nat
    <2>1. HT \in Pos /\ Number(cntrs) \in Nat
      BY <1>1, Sizes, ScrollsNumber
    <2> QED
      BY <2>1 DEF Pos
  <1>3. NextRow \in Scrolls /\ NextByte \in Scrolls
    BY <1>2, FieldsOK DEF NextRow, NextByte
  <1> QED
    BY <1>1, <1>3 DEF Next_cntrs

\* The clock that ends a CPU cycle is followed by its successor's first.
LEMMA PhaseOK ==
    ASSUME IInv, Clock
    PROVE  /\ phase' \in 0 .. CycleLength - 1
           /\ phase = CycleLength - 1 => phase' = 0
           /\ phase # CycleLength - 1 => phase' = phase + 1
           /\ phase = 0 => phase' = 1
  <1>1. /\ CycleLength \in Nat /\ CycleLength >= 3 /\ phase \in 0 .. CycleLength - 1
        /\ phase' = (phase + 1) % CycleLength
    BY RegsAssumption DEF IInv, Types, Clock
  <1> QED
    BY <1>1

LEMMA NextIInv == IInv /\ [Next]_vars => IInv'
  <1> SUFFICES ASSUME IInv, [Next]_vars PROVE IInv'
    OBVIOUS
  <1>1. CASE Clock
    <2> USE <1>1
    <2>1. ri' = Next_ri(Bus, blank) /\ cntrs' = Next_cntrs(Bus)
      BY DEF Clock, PpuClock
    <2>2. Types
      BY DEF IInv
    <2>3. RiTypes(ri')
      <3>1. CASE Evaluates(Bus)
        BY <2>1, <2>2, <3>1, RiTyped
      <3>2. CASE ~Evaluates(Bus)
        BY <2>1, <2>2, <3>2, Unselected, DefaultOK DEF Fresh
      <3> QED
        BY <3>1, <3>2
    <2>4. cntrs' \in Scrolls
      BY <2>1, <2>2, CntrsTyped
    <2>5. ram_a' \in 0 .. MemSize - 1
      <3>1. Number(cntrs) \in Nat /\ MemSize \in Pos
        BY <2>2, ScrollsNumber, Sizes DEF Types
      <3>2. ram_a' = Number(cntrs) % MemSize
        BY DEF Clock, PpuClock, vram_a
      <3> QED
        BY <3>1, <3>2, DivMod
    <2>6. DOMAIN ram' = DOMAIN ram /\ DOMAIN palette_ram' = DOMAIN palette_ram
          /\ DOMAIN m_oam' = DOMAIN m_oam
      BY DEF Clock, PpuClock
    <2>7. phase' \in 0 .. CycleLength - 1
      BY PhaseOK
    <2>8. blank' \in BOOLEAN /\ cycle' \in Accesses \cup {NoCycle}
      BY <2>2, RegsAssumption DEF Clock, NextCycle, Types
    <2>9. RiTypes(ri)'
      BY <2>3
    <2>10. Types'
      BY <2>2, <2>4, <2>5, <2>6, <2>7, <2>8, <2>9 DEF Types
    <2>11. ri'.ncs_in = (cycle = NoCycle)
      BY <2>1, <2>2, LinesOK
    <2>12. EdgeAtStart'
      <3>1. CASE phase = CycleLength - 1
        <4>1. phase' = 0
          BY <3>1, PhaseOK
        <4>2. cycle' # NoCycle => cycle = NoCycle
          BY <3>1 DEF Clock, NextCycle
        <4> QED
          BY <2>11, <4>1, <4>2 DEF EdgeAtStart
      <3>2. CASE phase # CycleLength - 1
        <4>1. phase' # 0
          <5>1. phase' = phase + 1 /\ phase \in Nat
            BY <2>2, <3>2, PhaseOK, RegsAssumption DEF Types
          <5> QED
            BY <5>1
        <4>2. cycle' = cycle
          BY <3>2 DEF Clock
        <4> QED
          BY <2>11, <4>1, <4>2 DEF EdgeAtStart
      <3> QED
        BY <3>1, <3>2
    <2>13. Delays'
      <3>1. CASE Evaluates(Bus)
        BY <3>1, EdgeOK, PhaseOK DEF Delays
      <3>2. CASE ~Evaluates(Bus)
        <4>1. ~ri'.rd_rdy /\ ~ri'.upd_cntrs
          BY <2>1, <2>2, <3>2, Unselected, DefaultOK DEF Fresh
        <4> QED
          BY <4>1 DEF Delays
      <3> QED
        BY <3>1, <3>2
    <2> QED
      BY <2>10, <2>12, <2>13 DEF IInv
  <1>2. CASE UNCHANGED vars
    BY <1>2 DEF IInv, Types, EdgeAtStart, Delays, vars, ppuVars, RiTypes
  <1> QED
    BY <1>1, <1>2 DEF Next

LEMMA Inductive == Spec => []IInv
  BY InitIInv, NextIInv, PTL DEF Spec

\* Types after reset and after every clock, whatever the program does: the digits
\* of every counter and latch stay below their bases, the addresses in memory.
THEOREM TypeCorrect == Spec => []TypeOK
  <1>1. IInv => TypeOK
    <2> SUFFICES ASSUME IInv PROVE TypeOK
      OBVIOUS
    <2>1. Types /\ RiTypes(ri)
      BY DEF IInv, Types
    <2>2. {ri.nvbl_en, ri.addr_incr, ri.rendering, ri.vblank, ri.byte_sel,
           ri.rd_rdy, ri.upd_cntrs, ri.ncs_in, ri.vblank_in, blank} \subseteq BOOLEAN
      BY <2>1 DEF Types, RiTypes
    <2> QED
      BY <2>1, <2>2 DEF Types, RiTypes, TypeOK
  <1> QED
    BY <1>1, Inductive, PTL

-----------------------------------------------------------------------------
(* What a program sees of them.                                             *)
Scroll == Number(Latches(ri))
Addr   == Number(IF ri.upd_cntrs THEN Latches(ri) ELSE cntrs)
Ahead  == IF ri.rd_rdy THEN vram_d_in ELSE ri.rd_buf

\* "Only evaluate RI reads/writes on /CS falling edges" (ppu_ri.v): there is a
\* falling edge in the first clock of every access, and none elsewhere.
EvaluatedOnce == Evaluates(Bus) <=> phase = 0 /\ cycle # NoCycle

\* However long the CPU cycles are, one falling edge per access of the program.
THEOREM OneEvaluation == Spec => []EvaluatedOnce
  <1>1. IInv => EvaluatedOnce
    BY EdgeOK DEF EvaluatedOnce
  <1> QED
    BY <1>1, Inductive, PTL

\* Between accesses the delayed loads of read buffer (q_rd_rdy) and counters
\* (q_upd_cntrs_out) do not show: for the program nothing changes.
LEMMA QuietStep == IInv /\ Clock /\ ~Evaluates(Bus) => Port!NoAccess
  <1> SUFFICES ASSUME IInv, Clock, ~Evaluates(Bus) PROVE Port!NoAccess
    OBVIOUS
  <1>1. /\ ri' = Default(Bus, blank)
        /\ cntrs' = IF ri.upd_cntrs THEN Latches(ri) ELSE cntrs
        /\ ram' = ram /\ palette_ram' = palette_ram /\ m_oam' = m_oam
    BY Unselected DEF Clock, PpuClock
  <1>2. Fresh(ri')
    BY <1>1, DefaultOK DEF IInv
  <1>3. Scroll' = Scroll
    BY <1>2 DEF Fresh, Scroll
  <1>4. Addr' = Addr
    <2>1. ~ri'.upd_cntrs
      BY <1>2 DEF Fresh
    <2> QED
      BY <1>1, <2>1 DEF Addr
  <1>5. Ahead' = Ahead
    BY <1>2 DEF Fresh, Ahead
  <1> QED
    BY <1>1, <1>2, <1>3, <1>4, <1>5 DEF Fresh, Port!NoAccess, Scroll, Addr, Ahead

\* In the clocks without a falling edge PpuPort stutters: q_rd_rdy and
\* q_upd_cntrs_out finish what an access began and begin nothing.
QuietBetween == [][~(phase = 0 /\ cycle # NoCycle) => Port!NoAccess]_vars

\* The registers of ppu_ri.v lag, but what the program could see of it does not.
THEOREM NothingBetweenAccesses == Spec => QuietBetween
  <1>1. IInv /\ [Next]_vars => [~(phase = 0 /\ cycle # NoCycle) => Port!NoAccess]_vars
    BY QuietStep, EdgeOK DEF Next
  <1> QED
    BY <1>1, Inductive, PTL DEF Spec, QuietBetween

-----------------------------------------------------------------------------
(* The accesses, one by one.                                                *)

LEMMA Accessed ==
    ASSUME IInv, Clock, Evaluates(Bus)
    PROVE  LET r == Default(Bus, blank)
           IN  /\ Fresh(r) /\ RiTypes(r) /\ RiTypes(ri) /\ cntrs \in Scrolls
               /\ cycle # NoCycle /\ ri' = Next_ri(Bus, blank)
               /\ r.rd_buf = ri.rd_buf /\ r.rd_rdy = FALSE /\ r.upd_cntrs = FALSE
               /\ Addr = Number(cntrs) /\ Ahead = ri.rd_buf
  <1>1. phase = 0 /\ cycle # NoCycle
    BY EdgeOK
  <1>2. Types /\ ri.upd_cntrs = FALSE /\ ri.rd_rdy = FALSE
    BY <1>1 DEF IInv, Delays, Types, RiTypes
  <1> DEFINE r == Default(Bus, blank)
  <1>3. Fresh(r)
    BY <1>2, DefaultOK
  <1>4. ri' = Next_ri(Bus, blank)
    BY DEF Clock, PpuClock
  <1> HIDE DEF r
  <1>5. r.rd_buf = ri.rd_buf /\ r.rd_rdy = FALSE /\ r.upd_cntrs = FALSE /\ RiTypes(r)
    BY <1>2, <1>3 DEF Fresh, RiTypes
  <1>6. Addr = Number(cntrs) /\ Ahead = ri.rd_buf
    BY <1>2 DEF Addr, Ahead
  <1> QED
    BY <1>1, <1>2, <1>3, <1>4, <1>5, <1>6 DEF r, Types

\* The counters and memories after an access.
LEMMA Stored ==
    ASSUME IInv, Clock, Evaluates(Bus)
    PROVE  /\ cntrs' = IF cycle.reg = 7 THEN IF ri.addr_incr THEN NextRow ELSE NextByte
                       ELSE cntrs
           /\ ram' = IF cycle.wr /\ cycle.reg = 7 /\ ~InPram
                     THEN [ram EXCEPT ![vram_a] = cycle.d] ELSE ram
           /\ palette_ram' = IF cycle.wr /\ cycle.reg = 7 /\ InPram
                             THEN [palette_ram EXCEPT ![PramA(cntrs.ht)] = cycle.d]
                             ELSE palette_ram
           /\ m_oam' = IF cycle.wr /\ cycle.reg = 4
                       THEN [m_oam EXCEPT ![ri.spr_ram_a] = cycle.d] ELSE m_oam
  <1>1. phase = 0 /\ cycle # NoCycle
    BY EdgeOK
  <1>2. Types /\ ri.upd_cntrs = FALSE
    BY <1>1 DEF IInv, Delays, Types, RiTypes
  <1>3. /\ \A reg : Reads(Bus, reg) <=> ~cycle.wr /\ cycle.reg = reg
        /\ \A reg : Writes(Bus, reg) <=> cycle.wr /\ cycle.reg = reg
    BY <1>1, <1>2, CycleOK DEF Reads, Writes
  <1>4. cycle.wr /\ cycle.reg \in {4, 7} => Bus.d = cycle.d
    BY <1>1, <1>2, CycleOK
  <1>5. cntrs' = Next_cntrs(Bus)
    BY DEF Clock, PpuClock
  <1>6. cntrs' = IF cycle.reg = 7 THEN IF ri.addr_incr THEN NextRow ELSE NextByte ELSE cntrs
    BY <1>2, <1>3, <1>5 DEF Next_cntrs, inc_addr
  <1> QED
    BY <1>3, <1>4, <1>6 DEF Clock, PpuClock, vram_wr, pram_wr, spr_ram_wr

\* Where buffer and delays are not concerned.
LEMMA Plain ==
    ASSUME IInv, Clock, Evaluates(Bus), cycle.reg # 7,
           NEW C, Sets(ri', Default(Bus, blank), C),
           "rd_buf" \notin C, "rd_rdy" \notin C, "upd_cntrs" \notin C
    PROVE  Addr' = Addr /\ Ahead' = Ahead
  <1> DEFINE r == Default(Bus, blank)
  <1>1. /\ r.rd_buf = ri.rd_buf /\ r.rd_rdy = FALSE /\ r.upd_cntrs = FALSE
        /\ Addr = Number(cntrs) /\ Ahead = ri.rd_buf
    BY Accessed
  <1> HIDE DEF r
  <1>2. ri'.rd_buf = ri.rd_buf /\ ri'.rd_rdy = FALSE /\ ri'.upd_cntrs = FALSE
    BY <1>1 DEF Sets, RiFields, r
  <1>3. cntrs' = cntrs
    BY Stored
  <1> QED
    BY <1>1, <1>2, <1>3 DEF Addr, Ahead

LEMMA ScrollKept ==
    ASSUME IInv, Clock, Evaluates(Bus), NEW C, Sets(ri', Default(Bus, blank), C),
           "fv" \notin C, "v" \notin C, "h" \notin C, "vt" \notin C, "ht" \notin C
    PROVE  Scroll' = Scroll
  <1> DEFINE r == Default(Bus, blank)
  <1>1. r.fv = ri.fv /\ r.v = ri.v /\ r.h = ri.h /\ r.vt = ri.vt /\ r.ht = ri.ht
    BY Accessed DEF Fresh
  <1> HIDE DEF r
  <1>2. /\ ri'.fv = ri.fv /\ ri'.v = ri.v /\ ri'.h = ri.h
        /\ ri'.vt = ri.vt /\ ri'.ht = ri.ht
    BY <1>1 DEF Sets, RiFields, r
  <1>3. Latches(ri)' = Latches(ri)
    BY <1>2 DEF Latches
  <1> QED
    BY <1>3 DEF Scroll

\* The other registers, where they are not set.
LEMMA OthersKept ==
    ASSUME IInv, Clock, Evaluates(Bus), NEW C, Sets(ri', Default(Bus, blank), C)
    PROVE  /\ "nvbl_en" \notin C => ri'.nvbl_en = ri.nvbl_en
           /\ "addr_incr" \notin C => ri'.addr_incr = ri.addr_incr
           /\ "byte_sel" \notin C => ri'.byte_sel = ri.byte_sel
           /\ "spr_ram_a" \notin C => ri'.spr_ram_a = ri.spr_ram_a
           /\ "cpu_d_out" \notin C => ri'.cpu_d_out = ri.cpu_d_out
  <1> DEFINE r == Default(Bus, blank)
  <1>1. /\ r.nvbl_en = ri.nvbl_en /\ r.addr_incr = ri.addr_incr /\ r.byte_sel = ri.byte_sel
        /\ r.spr_ram_a = ri.spr_ram_a /\ r.cpu_d_out = ri.cpu_d_out
    BY Accessed DEF Fresh
  <1> HIDE DEF r
  <1> QED
    BY <1>1 DEF Sets, RiFields, r

LEMMA DoReadStatus ==
    ASSUME IInv, Clock, Evaluates(Bus), ~cycle.wr, cycle.reg = 2
    PROVE  Port!ReadStatus(cycle)
  <1> DEFINE r == Default(Bus, blank)
             C == {"cpu_d_out", "byte_sel", "vblank"}
  <1>1. RiTypes(r) /\ ri' = ReadStatus(r)
    BY Accessed, Selected DEF IInv
  <1> HIDE DEF r
  <1>2. /\ Sets(ri', r, C) /\ ri'.byte_sel = FALSE
        /\ ri'.cpu_d_out = IF ri.vblank THEN 1 ELSE 0
    BY <1>1, ReadsOK
  <1>3. /\ "rd_buf" \notin C /\ "rd_rdy" \notin C /\ "upd_cntrs" \notin C
        /\ "fv" \notin C /\ "v" \notin C /\ "h" \notin C /\ "vt" \notin C /\ "ht" \notin C
        /\ "nvbl_en" \notin C /\ "addr_incr" \notin C /\ "spr_ram_a" \notin C
    OBVIOUS
  <1> HIDE DEF C
  <1>4. Addr' = Addr /\ Ahead' = Ahead /\ Scroll' = Scroll
    BY <1>2, <1>3, Plain, ScrollKept DEF r
  <1>5. /\ ri'.nvbl_en = ri.nvbl_en /\ ri'.addr_incr = ri.addr_incr
        /\ ri'.spr_ram_a = ri.spr_ram_a
    BY <1>2, <1>3, OthersKept DEF r
  <1>6. ram' = ram /\ palette_ram' = palette_ram /\ m_oam' = m_oam
    BY Stored
  <1> QED
    BY <1>2, <1>4, <1>5, <1>6 DEF Port!ReadStatus, Scroll, Addr, Ahead

LEMMA DoReadOam ==
    ASSUME IInv, Clock, Evaluates(Bus), ~cycle.wr, cycle.reg = 4
    PROVE  Port!ReadOam(cycle)
  <1> DEFINE r == Default(Bus, blank)
             C == {"cpu_d_out"}
  <1>1. RiTypes(r) /\ ri' = ReadOam(r)
    BY Accessed, Selected DEF IInv
  <1> HIDE DEF r
  <1>2. Sets(ri', r, C) /\ ri'.cpu_d_out = m_oam[ri.spr_ram_a]
    BY <1>1, ReadsOK
  <1>3. /\ "rd_buf" \notin C /\ "rd_rdy" \notin C /\ "upd_cntrs" \notin C
        /\ "fv" \notin C /\ "v" \notin C /\ "h" \notin C /\ "vt" \notin C /\ "ht" \notin C
        /\ "nvbl_en" \notin C /\ "addr_incr" \notin C /\ "byte_sel" \notin C
        /\ "spr_ram_a" \notin C
    OBVIOUS
  <1> HIDE DEF C
  <1>4. Addr' = Addr /\ Ahead' = Ahead /\ Scroll' = Scroll
    BY <1>2, <1>3, Plain, ScrollKept DEF r
  <1>5. /\ ri'.nvbl_en = ri.nvbl_en /\ ri'.addr_incr = ri.addr_incr
        /\ ri'.byte_sel = ri.byte_sel /\ ri'.spr_ram_a = ri.spr_ram_a
    BY <1>2, <1>3, OthersKept DEF r
  <1>6. ram' = ram /\ palette_ram' = palette_ram /\ m_oam' = m_oam
    BY Stored
  <1> QED
    BY <1>2, <1>4, <1>5, <1>6 DEF Port!ReadOam, Scroll, Addr, Ahead

LEMMA DoWriteOamAddr ==
    ASSUME IInv, Clock, Evaluates(Bus), cycle.wr, cycle.reg = 3
    PROVE  Port!WriteOamAddr(cycle)
  <1> DEFINE r == Default(Bus, blank)
             C == {"spr_ram_a"}
  <1>1. RiTypes(r) /\ ri' = WriteOamAddr(r, cycle.d)
    BY Accessed, Selected DEF IInv
  <1> HIDE DEF r
  <1>2. Sets(ri', r, C) /\ ri'.spr_ram_a = cycle.d % OamSize
    <2> DEFINE s == WriteOamAddr(r, cycle.d)
    <2>1. Sets(s, r, {"spr_ram_a"}) /\ s.spr_ram_a = cycle.d % OamSize
      <3>1. RiTypes(r)!1
        BY <1>1 DEF RiTypes
      <3> QED
        BY <3>1 DEF WriteOamAddr, Sets, RiFields
    <2> HIDE DEF s
    <2> QED
      BY <1>1, <2>1 DEF s
  <1>3. /\ "rd_buf" \notin C /\ "rd_rdy" \notin C /\ "upd_cntrs" \notin C
        /\ "fv" \notin C /\ "v" \notin C /\ "h" \notin C /\ "vt" \notin C /\ "ht" \notin C
        /\ "nvbl_en" \notin C /\ "addr_incr" \notin C /\ "byte_sel" \notin C
        /\ "cpu_d_out" \notin C
    OBVIOUS
  <1> HIDE DEF C
  <1>4. Addr' = Addr /\ Ahead' = Ahead /\ Scroll' = Scroll
    BY <1>2, <1>3, Plain, ScrollKept DEF r
  <1>5. /\ ri'.nvbl_en = ri.nvbl_en /\ ri'.addr_incr = ri.addr_incr
        /\ ri'.byte_sel = ri.byte_sel /\ ri'.cpu_d_out = ri.cpu_d_out
    BY <1>2, <1>3, OthersKept DEF r
  <1>6. ram' = ram /\ palette_ram' = palette_ram /\ m_oam' = m_oam
    BY Stored
  <1> QED
    BY <1>2, <1>4, <1>5, <1>6 DEF Port!WriteOamAddr, Scroll, Addr, Ahead

LEMMA DoWriteOam ==
    ASSUME IInv, Clock, Evaluates(Bus), cycle.wr, cycle.reg = 4
    PROVE  Port!WriteOam(cycle)
  <1> DEFINE r == Default(Bus, blank)
             C == {"spr_ram_a"}
  <1>1. RiTypes(r) /\ ri' = WriteOam(r) /\ r.spr_ram_a = ri.spr_ram_a
    BY Accessed, Selected DEF IInv, Fresh
  <1> HIDE DEF r
  <1>2. Sets(ri', r, C) /\ ri'.spr_ram_a = (ri.spr_ram_a + 1) % OamSize
    BY <1>1, OamStepOK
  <1>3. /\ "rd_buf" \notin C /\ "rd_rdy" \notin C /\ "upd_cntrs" \notin C
        /\ "fv" \notin C /\ "v" \notin C /\ "h" \notin C /\ "vt" \notin C /\ "ht" \notin C
        /\ "nvbl_en" \notin C /\ "addr_incr" \notin C /\ "byte_sel" \notin C
        /\ "cpu_d_out" \notin C
    OBVIOUS
  <1> HIDE DEF C
  <1>4. Addr' = Addr /\ Ahead' = Ahead /\ Scroll' = Scroll
    BY <1>2, <1>3, Plain, ScrollKept DEF r
  <1>5. /\ ri'.nvbl_en = ri.nvbl_en /\ ri'.addr_incr = ri.addr_incr
        /\ ri'.byte_sel = ri.byte_sel /\ ri'.cpu_d_out = ri.cpu_d_out
    BY <1>2, <1>3, OthersKept DEF r
  <1>6. /\ ram' = ram /\ palette_ram' = palette_ram
        /\ m_oam' = [m_oam EXCEPT ![ri.spr_ram_a] = cycle.d]
    BY Stored
  <1> QED
    BY <1>2, <1>4, <1>5, <1>6 DEF Port!WriteOam, Scroll, Addr, Ahead

LEMMA DoWriteCtrl ==
    ASSUME IInv, Clock, Evaluates(Bus), cycle.wr, cycle.reg = 0
    PROVE  Port!WriteCtrl(cycle)
  <1> DEFINE r == Default(Bus, blank)
             C == {"nvbl_en", "addr_incr", "v", "h"}
  <1>1. RiTypes(r) /\ RiTypes(ri) /\ ri' = WriteCtrl(r, cycle) /\ RiTypes(ri')
    BY Accessed, Selected, RiTyped DEF IInv
  <1>2. r.fv = ri.fv /\ r.vt = ri.vt /\ r.ht = ri.ht
    BY Accessed DEF Fresh
  <1>3. cycle.tables \in 0 .. NV * NH - 1
    BY Accessed, CycleOK DEF IInv
  <1> HIDE DEF r
  <1>4. /\ Sets(ri', r, C) /\ ri'.nvbl_en = cycle.nmi /\ ri'.addr_incr = cycle.rows
        /\ ri'.v = cycle.tables \div NH /\ ri'.h = cycle.tables % NH
    BY <1>1, WritesOK
  <1>5. ri'.fv = ri.fv /\ ri'.vt = ri.vt /\ ri'.ht = ri.ht
    BY <1>2, <1>4 DEF Sets, RiFields
  <1>6. Scroll' = Port!SetDigit(Scroll, Port!NameTable, NV * NH, cycle.tables)
    <2>1. Scroll = Num(ri.fv, ri.v, ri.h, ri.vt, ri.ht)
      BY <1>1, LatchRanges DEF Scroll
    <2>2. Scroll' = Num(ri.fv, cycle.tables \div NH, cycle.tables % NH, ri.vt, ri.ht)
      <3>1. Number(Latches(ri')) = Num(ri'.fv, ri'.v, ri'.h, ri'.vt, ri'.ht)
        BY <1>1, LatchRanges
      <3> QED
        BY <1>4, <1>5, <3>1 DEF Scroll
    <2>3. /\ ri.fv \in 0 .. 2 * FV - 1 /\ ri.v \in 0 .. NV - 1 /\ ri.h \in 0 .. NH - 1
          /\ ri.vt \in 0 .. VT - 1 /\ ri.ht \in 0 .. HT - 1
      BY <1>1, LatchRanges
    <2> QED
      BY <1>3, <2>1, <2>2, <2>3, SetTables
  <1>7. /\ "rd_buf" \notin C /\ "rd_rdy" \notin C /\ "upd_cntrs" \notin C
        /\ "byte_sel" \notin C /\ "spr_ram_a" \notin C /\ "cpu_d_out" \notin C
    OBVIOUS
  <1> HIDE DEF C
  <1>8. Addr' = Addr /\ Ahead' = Ahead
    BY <1>4, <1>7, Plain DEF r
  <1>9. /\ ri'.byte_sel = ri.byte_sel /\ ri'.cpu_d_out = ri.cpu_d_out
        /\ ri'.spr_ram_a = ri.spr_ram_a
    BY <1>4, <1>7, OthersKept DEF r
  <1>10. ram' = ram /\ palette_ram' = palette_ram /\ m_oam' = m_oam
    BY Stored
  <1> QED
    BY <1>4, <1>6, <1>8, <1>9, <1>10 DEF Port!WriteCtrl, Scroll, Addr, Ahead

LEMMA DoWriteScroll ==
    ASSUME IInv, Clock, Evaluates(Bus), cycle.wr, cycle.reg = 5
    PROVE  Port!WriteScroll(cycle)
  <1> DEFINE r == Default(Bus, blank)
             C == IF ri.byte_sel THEN {"byte_sel", "fv", "vt"} ELSE {"byte_sel", "ht"}
  <1>1. /\ RiTypes(r) /\ RiTypes(ri) /\ ri' = WriteScroll(r, cycle) /\ RiTypes(ri')
        /\ cycle.tile \in Nat /\ cycle.fine \in Nat
    BY Accessed, Selected, RiTyped, CycleOK DEF IInv
  <1>2. r.fv = ri.fv /\ r.v = ri.v /\ r.h = ri.h /\ r.vt = ri.vt /\ r.ht = ri.ht
    BY Accessed DEF Fresh
  <1> HIDE DEF r
  <1>3. /\ Sets(ri', r, C) /\ ri'.byte_sel = ~ri.byte_sel
        /\ IF ri.byte_sel
           THEN ri'.fv = cycle.fine % (2 * FV) /\ ri'.vt = cycle.tile % VT
           ELSE ri'.ht = cycle.tile % HT
    BY <1>1, HalvesOK
  <1>4. /\ "rd_buf" \notin C /\ "rd_rdy" \notin C /\ "upd_cntrs" \notin C
        /\ "nvbl_en" \notin C /\ "addr_incr" \notin C /\ "spr_ram_a" \notin C
        /\ "cpu_d_out" \notin C /\ "v" \notin C /\ "h" \notin C
        /\ (ri.byte_sel => "ht" \notin C)
        /\ (~ri.byte_sel => "fv" \notin C /\ "vt" \notin C)
    OBVIOUS
  <1> HIDE DEF C
  <1>5. /\ ri'.v = ri.v /\ ri'.h = ri.h
        /\ ri.byte_sel => ri'.ht = ri.ht
        /\ ~ri.byte_sel => ri'.fv = ri.fv /\ ri'.vt = ri.vt
    BY <1>2, <1>3, <1>4 DEF Sets, RiFields
  <1>6. /\ Scroll = Num(ri.fv, ri.v, ri.h, ri.vt, ri.ht)
        /\ ri.fv \in 0 .. 2 * FV - 1 /\ ri.v \in 0 .. NV - 1 /\ ri.h \in 0 .. NH - 1
        /\ ri.vt \in 0 .. VT - 1 /\ ri.ht \in 0 .. HT - 1
    BY <1>1, LatchRanges DEF Scroll
  <1>7. Scroll' = Num(ri'.fv, ri'.v, ri'.h, ri'.vt, ri'.ht)
    <2>1. Number(Latches(ri')) = Num(ri'.fv, ri'.v, ri'.h, ri'.vt, ri'.ht)
      BY <1>1, LatchRanges
    <2> QED
      BY <2>1 DEF Scroll
  <1>8. Scroll' = IF ri.byte_sel
                  THEN Port!SetDigit(Port!SetDigit(Scroll, Port!Fine, 2 * FV, cycle.fine),
                                     Port!Row, VTHI * VTLO, cycle.tile)
                  ELSE Port!SetDigit(Scroll, 1, Port!Row, cycle.tile)
    <2>1. CASE ri.byte_sel
      <3>1. Scroll' = Num(cycle.fine % (2 * FV), ri.v, ri.h, cycle.tile % VT, ri.ht)
        BY <1>3, <1>5, <1>7, <2>1
      <3> QED
        BY <1>1, <1>6, <2>1, <3>1, SetVertical
    <2>2. CASE ~ri.byte_sel
      <3>1. Scroll' = Num(ri.fv, ri.v, ri.h, ri.vt, cycle.tile % HT)
        BY <1>3, <1>5, <1>7, <2>2
      <3> QED
        BY <1>1, <1>6, <2>2, <3>1, SetCoarse
    <2> QED
      BY <2>1, <2>2
  <1>9. Addr' = Addr /\ Ahead' = Ahead
    BY <1>3, <1>4, Plain DEF r
  <1>10. /\ ri'.nvbl_en = ri.nvbl_en /\ ri'.addr_incr = ri.addr_incr
         /\ ri'.spr_ram_a = ri.spr_ram_a /\ ri'.cpu_d_out = ri.cpu_d_out
    BY <1>3, <1>4, OthersKept DEF r
  <1>11. ram' = ram /\ palette_ram' = palette_ram /\ m_oam' = m_oam
    BY Stored
  <1> QED
    BY <1>3, <1>8, <1>9, <1>10, <1>11 DEF Port!WriteScroll, Port!Flip, Scroll, Addr, Ahead

\* The second byte of an address loads the counters a clock later; the program
\* cannot tell.
LEMMA DoWriteAddr ==
    ASSUME IInv, Clock, Evaluates(Bus), cycle.wr, cycle.reg = 6
    PROVE  Port!WriteAddr(cycle)
  <1> DEFINE r == Default(Bus, blank)
  <1>1. /\ RiTypes(r) /\ RiTypes(ri) /\ ri' = WriteAddr(r, cycle.d) /\ RiTypes(ri')
        /\ cycle.d \in Nat
    BY Accessed, Selected, RiTyped, CycleOK DEF IInv
  <1>2. /\ r.fv = ri.fv /\ r.v = ri.v /\ r.h = ri.h /\ r.vt = ri.vt /\ r.ht = ri.ht
        /\ r.rd_buf = ri.rd_buf /\ r.rd_rdy = FALSE /\ Ahead = ri.rd_buf
    BY Accessed DEF Fresh
  <1> HIDE DEF r
  <1>3. /\ Scroll = Num(ri.fv, ri.v, ri.h, ri.vt, ri.ht)
        /\ ri.fv \in 0 .. 2 * FV - 1 /\ ri.v \in 0 .. NV - 1 /\ ri.h \in 0 .. NH - 1
        /\ ri.vt \in 0 .. VT - 1 /\ ri.ht \in 0 .. HT - 1
    BY <1>1, LatchRanges DEF Scroll
  <1>4. Scroll' = Num(ri'.fv, ri'.v, ri'.h, ri'.vt, ri'.ht)
    <2>1. Number(Latches(ri')) = Num(ri'.fv, ri'.v, ri'.h, ri'.vt, ri'.ht)
      BY <1>1, LatchRanges
    <2> QED
      BY <2>1 DEF Scroll
  <1>5. ram' = ram /\ palette_ram' = palette_ram /\ m_oam' = m_oam
    BY Stored
  <1>6. CASE ri.byte_sel
    <2> DEFINE C == {"byte_sel", "vt", "ht", "upd_cntrs"}
    <2>1. /\ Sets(ri', r, C) /\ ri'.byte_sel = FALSE /\ ri'.upd_cntrs = TRUE
          /\ ri'.vt = (r.vt - (r.vt % VTLO)) + ((cycle.d \div HT) % VTLO)
          /\ ri'.ht = cycle.d % HT
      BY <1>1, <1>6, AddrLowOK, ZenonT(40)
    <2>2. /\ "nvbl_en" \notin C /\ "addr_incr" \notin C /\ "spr_ram_a" \notin C
          /\ "cpu_d_out" \notin C
      OBVIOUS
    <2>3. /\ ri'.fv = ri.fv /\ ri'.v = ri.v /\ ri'.h = ri.h
          /\ ri'.rd_buf = ri.rd_buf /\ ri'.rd_rdy = FALSE
      BY <1>2, <2>1 DEF Sets, RiFields
    <2> HIDE DEF C
    <2>4. Scroll' = Port!SetDigit(Scroll, 1, Port!Page, cycle.d)
      <3>1. Scroll' = Num(ri.fv, ri.v, ri.h,
                          (ri.vt - (ri.vt % VTLO)) + ((cycle.d \div HT) % VTLO), cycle.d % HT)
        BY <1>2, <1>4, <2>1, <2>3
      <3> QED
        BY <1>1, <1>3, <3>1, SetLow
    <2>5. Addr' = Scroll'
      BY <2>1 DEF Addr, Scroll
    <2>6. Ahead' = Ahead
      BY <1>2, <2>3 DEF Ahead
    <2>7. /\ ri'.nvbl_en = ri.nvbl_en /\ ri'.addr_incr = ri.addr_incr
          /\ ri'.spr_ram_a = ri.spr_ram_a /\ ri'.cpu_d_out = ri.cpu_d_out
      BY <2>1, <2>2, OthersKept DEF r
    <2> QED
      BY <1>5, <1>6, <2>1, <2>4, <2>5, <2>6, <2>7
         DEF Port!WriteAddr, Port!Flip, Scroll, Addr, Ahead
  <1>7. CASE ~ri.byte_sel
    <2> DEFINE C == {"byte_sel", "fv", "v", "h", "vt"}
    <2>1. /\ Sets(ri', r, C) /\ ri'.byte_sel = TRUE
          /\ ri'.fv = ((cycle.d \div VTHI) \div (NV * NH)) % FV
          /\ ri'.v = ((cycle.d \div VTHI) \div NH) % NV
          /\ ri'.h = (cycle.d \div VTHI) % NH
          /\ ri'.vt = (cycle.d % VTHI) * VTLO + (r.vt % VTLO)
      <3>1. SetsHigh(ri', r, cycle.d)
        BY <1>1, <1>7, AddrHighOK
      <3> QED
        BY <3>1 DEF SetsHigh
    <2>2. /\ "nvbl_en" \notin C /\ "addr_incr" \notin C /\ "spr_ram_a" \notin C
          /\ "cpu_d_out" \notin C
          /\ "rd_buf" \notin C /\ "rd_rdy" \notin C /\ "upd_cntrs" \notin C
      OBVIOUS
    <2>3. ri'.ht = ri.ht
      BY <1>2, <2>1 DEF Sets, RiFields
    <2> HIDE DEF C
    <2>4. Scroll' = Port!SetDigit(Scroll, Port!Page, Port!Total \div Port!Page,
                                  cycle.d % (Port!MemSize \div Port!Page))
      <3>1. Scroll' = Num(((cycle.d \div VTHI) \div (NV * NH)) % FV,
                          ((cycle.d \div VTHI) \div NH) % NV, (cycle.d \div VTHI) % NH,
                          (cycle.d % VTHI) * VTLO + (ri.vt % VTLO), ri.ht)
        BY <1>2, <1>4, <2>1, <2>3, Zenon
      <3> QED
        BY <1>1, <1>3, <3>1, SetHigh
    <2>5. Addr' = Addr /\ Ahead' = Ahead
      BY <2>1, <2>2, Plain DEF r
    <2>6. /\ ri'.nvbl_en = ri.nvbl_en /\ ri'.addr_incr = ri.addr_incr
          /\ ri'.spr_ram_a = ri.spr_ram_a /\ ri'.cpu_d_out = ri.cpu_d_out
      BY <2>1, <2>2, OthersKept DEF r
    <2> QED
      BY <1>5, <1>7, <2>1, <2>4, <2>5, <2>6
         DEF Port!WriteAddr, Port!Flip, Scroll, Addr, Ahead
  <1> QED
    BY <1>6, <1>7

\* The counters after an access of 0x2007: one or one row further, from the top
\* back to zero.
LEMMA Advanced ==
    ASSUME IInv, Clock, Evaluates(Bus), cycle.reg = 7, ri'.upd_cntrs = FALSE
    PROVE  Addr' = (Addr + (IF ri.addr_incr THEN Port!Row ELSE 1)) % Port!Total
  <1>1. cntrs \in Scrolls /\ Addr = Number(cntrs)
    BY Accessed
  <1>2. Addr' = Number(cntrs')
    BY DEF Addr
  <1>3. cntrs' = IF ri.addr_incr THEN NextRow ELSE NextByte
    BY Stored
  <1>4. Number(cntrs) + HT \in Nat /\ Number(cntrs) + 1 \in Nat /\ Port!Row = HT
    <2>1. HT \in Pos /\ Number(cntrs) \in Nat /\ Port!Row = HT
      BY <1>1, Sizes, ScrollsNumber
    <2> QED
      BY <2>1 DEF Pos
  <1>5. /\ Number(NextRow) = (Number(cntrs) + HT) % Port!Total
        /\ Number(NextByte) = (Number(cntrs) + 1) % Port!Total
    BY <1>4, FieldsOK DEF NextRow, NextByte
  <1> QED
    BY <1>1, <1>2, <1>3, <1>4, <1>5

\* What the address selects, in the words of PpuPort.
LEMMA AddressOK ==
    ASSUME IInv, Clock, Evaluates(Bus)
    PROVE  /\ Port!InPalette(Addr) <=> InPram
           /\ Port!Colour(Addr) = PramA(cntrs.ht)
           /\ Addr % Port!MemSize = vram_a
  <1>1. cntrs \in Scrolls /\ Addr = Number(cntrs) /\ Port!MemSize = MemSize
    BY Accessed, Sizes
  <1> QED
    BY <1>1, PaletteOK, ColourOK DEF vram_a

\* The read buffer is loaded a clock later, from the word the RAM then shows.
LEMMA DoReadData ==
    ASSUME IInv, Clock, Evaluates(Bus), ~cycle.wr, cycle.reg = 7
    PROVE  Port!ReadData(cycle)
  <1> DEFINE r == Default(Bus, blank)
             C == {"cpu_d_out", "rd_rdy"}
  <1>1. /\ RiTypes(r) /\ ri' = ReadData(r) /\ r.upd_cntrs = FALSE
        /\ Ahead = ri.rd_buf
    BY Accessed, Selected DEF IInv
  <1> HIDE DEF r
  <1>2. /\ Sets(ri', r, C) /\ ri'.rd_rdy = TRUE
        /\ ri'.cpu_d_out = IF InPram THEN pram_d_in ELSE ri.rd_buf
    BY <1>1, ReadsOK
  <1>3. ri'.upd_cntrs = FALSE
    BY <1>1, <1>2 DEF Sets, RiFields
  <1>4. /\ "fv" \notin C /\ "v" \notin C /\ "h" \notin C /\ "vt" \notin C /\ "ht" \notin C
        /\ "nvbl_en" \notin C /\ "addr_incr" \notin C /\ "spr_ram_a" \notin C
        /\ "byte_sel" \notin C
    OBVIOUS
  <1> HIDE DEF C
  <1>5. Scroll' = Scroll
    BY <1>2, <1>4, ScrollKept DEF r
  <1>6. /\ ri'.nvbl_en = ri.nvbl_en /\ ri'.addr_incr = ri.addr_incr
        /\ ri'.spr_ram_a = ri.spr_ram_a /\ ri'.byte_sel = ri.byte_sel
    BY <1>2, <1>4, OthersKept DEF r
  <1>7. ram' = ram /\ palette_ram' = palette_ram /\ m_oam' = m_oam
    BY Stored
  <1>8. Addr' = (Addr + (IF ri.addr_incr THEN Port!Row ELSE 1)) % Port!Total
    BY <1>3, Advanced
  <1>9. Ahead' = ram[Addr % Port!MemSize]
    <2>1. Ahead' = ram'[ram_a']
      BY <1>2 DEF Ahead, vram_d_in
    <2>2. ram_a' = vram_a
      BY DEF Clock, PpuClock
    <2> QED
      BY <1>7, <2>1, <2>2, AddressOK
  <1>10. ri'.cpu_d_out = IF Port!InPalette(Addr) THEN palette_ram[Port!Colour(Addr)] ELSE Ahead
    BY <1>1, <1>2, AddressOK DEF pram_d_in
  <1> QED
    BY <1>5, <1>6, <1>7, <1>8, <1>9, <1>10
       DEF Port!ReadData, Port!Advance, Scroll, Addr, Ahead

\* What no access sets.
LEMMA NothingSet ==
    ASSUME IInv, Clock, Evaluates(Bus), ri' = Default(Bus, blank)
    PROVE  /\ Scroll' = Scroll /\ Ahead' = Ahead /\ ri'.upd_cntrs = FALSE
           /\ ri'.nvbl_en = ri.nvbl_en /\ ri'.addr_incr = ri.addr_incr
           /\ ri'.spr_ram_a = ri.spr_ram_a /\ ri'.byte_sel = ri.byte_sel
           /\ ri'.cpu_d_out = ri.cpu_d_out
  <1>1. /\ Fresh(ri') /\ ri'.rd_buf = ri.rd_buf /\ ri'.rd_rdy = FALSE
        /\ ri'.upd_cntrs = FALSE /\ Ahead = ri.rd_buf
    BY Accessed
  <1>2. Latches(ri)' = Latches(ri)
    BY <1>1 DEF Fresh
  <1> QED
    BY <1>1, <1>2 DEF Scroll, Ahead, Fresh

LEMMA DoWriteData ==
    ASSUME IInv, Clock, Evaluates(Bus), cycle.wr, cycle.reg = 7
    PROVE  Port!WriteData(cycle)
  <1>1. ri' = Default(Bus, blank)
    BY Accessed, Selected DEF IInv
  <1>2. Addr' = (Addr + (IF ri.addr_incr THEN Port!Row ELSE 1)) % Port!Total
    BY <1>1, NothingSet, Advanced
  <1>3. m_oam' = m_oam
    BY Stored
  <1>4. IF Port!InPalette(Addr)
        THEN palette_ram' = [palette_ram EXCEPT ![Port!Colour(Addr)] = cycle.d] /\ ram' = ram
        ELSE ram' = [ram EXCEPT ![Addr % Port!MemSize] = cycle.d] /\ palette_ram' = palette_ram
    BY Stored, AddressOK
  <1> QED
    BY <1>1, <1>2, <1>3, <1>4, NothingSet
       DEF Port!WriteData, Port!Advance, Scroll, Addr, Ahead

\* Neither 0x2001 nor what cannot be read or written is seen here.
LEMMA DoIgnored ==
    ASSUME IInv, Clock, Evaluates(Bus),
           IF cycle.wr THEN cycle.reg \in {1, 2} ELSE cycle.reg \notin {2, 4, 7}
    PROVE  Port!Ignored(cycle)
  <1> DEFINE r == Default(Bus, blank)
             C == {"rendering"}
  <1>1. RiTypes(r) /\ cycle.reg # 7
    BY Accessed, CycleOK DEF IInv
  <1>2. ri' = r \/ ri' = WriteMask(r, Bus.d)
    BY Accessed, Selected DEF IInv
  <1> HIDE DEF r
  <1>3. Sets(ri', r, C)
    <2>1. CASE ri' = r
      BY <1>1, <2>1 DEF Sets, RiTypes
    <2>2. CASE ri' = WriteMask(r, Bus.d)
      BY <1>1, <2>2, WritesOK
    <2> QED
      BY <1>2, <2>1, <2>2
  <1>4. /\ "rd_buf" \notin C /\ "rd_rdy" \notin C /\ "upd_cntrs" \notin C
        /\ "fv" \notin C /\ "v" \notin C /\ "h" \notin C /\ "vt" \notin C /\ "ht" \notin C
        /\ "nvbl_en" \notin C /\ "addr_incr" \notin C /\ "byte_sel" \notin C
        /\ "spr_ram_a" \notin C /\ "cpu_d_out" \notin C
    OBVIOUS
  <1> HIDE DEF C
  <1>5. Addr' = Addr /\ Ahead' = Ahead /\ Scroll' = Scroll
    BY <1>1, <1>3, <1>4, Plain, ScrollKept DEF r
  <1>6. /\ ri'.nvbl_en = ri.nvbl_en /\ ri'.addr_incr = ri.addr_incr
        /\ ri'.byte_sel = ri.byte_sel /\ ri'.spr_ram_a = ri.spr_ram_a
        /\ ri'.cpu_d_out = ri.cpu_d_out
    BY <1>3, <1>4, OthersKept DEF r
  <1>7. ram' = ram /\ palette_ram' = palette_ram /\ m_oam' = m_oam
    BY Stored
  <1> QED
    BY <1>5, <1>6, <1>7 DEF Port!Ignored, Port!NoAccess, Scroll, Addr, Ahead

-----------------------------------------------------------------------------
(* The registers implement PpuPort.                                         *)

\* Whatever the cycle's access is, the first clock makes it whole.
LEMMA AccessStep == IInv /\ Clock /\ Evaluates(Bus) => Port!Do(cycle)
  <1> SUFFICES ASSUME IInv, Clock, Evaluates(Bus) PROVE Port!Do(cycle)
    OBVIOUS
  <1>1. cycle.reg \in 0 .. 7 /\ cycle.wr \in BOOLEAN
    BY Accessed, CycleOK DEF IInv
  <1>2. CASE cycle.wr /\ cycle.reg = 0
    BY <1>2, DoWriteCtrl DEF Port!Do
  <1>3. CASE ~cycle.wr /\ cycle.reg = 2
    BY <1>3, DoReadStatus DEF Port!Do
  <1>4. CASE cycle.wr /\ cycle.reg = 3
    BY <1>4, DoWriteOamAddr DEF Port!Do
  <1>5. CASE ~cycle.wr /\ cycle.reg = 4
    BY <1>5, DoReadOam DEF Port!Do
  <1>6. CASE cycle.wr /\ cycle.reg = 4
    BY <1>6, DoWriteOam DEF Port!Do
  <1>7. CASE cycle.wr /\ cycle.reg = 5
    BY <1>7, DoWriteScroll DEF Port!Do
  <1>8. CASE cycle.wr /\ cycle.reg = 6
    BY <1>8, DoWriteAddr DEF Port!Do
  <1>9. CASE ~cycle.wr /\ cycle.reg = 7
    BY <1>9, DoReadData DEF Port!Do
  <1>10. CASE cycle.wr /\ cycle.reg = 7
    BY <1>10, DoWriteData DEF Port!Do
  <1>11. CASE IF cycle.wr THEN cycle.reg \in {1, 2} ELSE cycle.reg \notin {2, 4, 7}
    BY <1>11, DoIgnored DEF Port!Do
  <1> QED
    BY <1>1, <1>2, <1>3, <1>4, <1>5, <1>6, <1>7, <1>8, <1>9, <1>10, <1>11

\* The flag of the vertical blank: a read of 0x2002 clears it, even as it rises.
LEMMA FlagOK ==
    ASSUME Types
    PROVE  Next_ri(Bus, blank).vblank = IF Reads(Bus, 2) THEN FALSE
                                        ELSE Default(Bus, blank).vblank
  <1> DEFINE r == Default(Bus, blank)
             OK(s) == s.vblank = r.vblank
  <1>1. DOMAIN r = RiFields /\ r = [f \in RiFields |-> r[f]]
    BY DefaultOK DEF Fresh, RiTypes
  <1> HIDE DEF r
  <1>2. OK(r) /\ OK(ReadOam(r)) /\ OK(ReadData(r))
    BY <1>1 DEF ReadOam, ReadData, RiFields
  <1>3. OK(WriteCtrl(r, Bus.d)) /\ OK(WriteMask(r, Bus.d)) /\ OK(WriteOamAddr(r, Bus.d))
    BY <1>1 DEF WriteCtrl, WriteMask, WriteOamAddr, RiFields
  <1>4. OK(WriteOam(r)) /\ OK(WriteScroll(r, Bus.d))
    BY <1>1 DEF WriteOam, WriteScroll, RiFields
  <1>5. OK(WriteAddr(r, Bus.d))
    BY <1>1 DEF WriteAddr, RiFields
  <1>6. ReadStatus(r).vblank = FALSE
    BY <1>1 DEF ReadStatus, RiFields
  <1> HIDE DEF OK
  <1>7. CASE Reads(Bus, 2)
    <2>1. ~Reads(Bus, 4) /\ ~Reads(Bus, 7) /\ \A reg : ~Writes(Bus, reg)
      BY <1>7 DEF Reads, Writes, Bus
    <2> QED
      BY <1>6, <1>7, <2>1 DEF Next_ri, r
  <1>8. CASE ~Reads(Bus, 2)
    <2>1. OK(Next_ri(Bus, blank))
      BY <1>2, <1>3, <1>4, <1>5, <1>8 DEF Next_ri, r
    <2> QED
      BY <1>8, <2>1 DEF OK, r
  <1> QED
    BY <1>7, <1>8

LEMMA BlankStep ==
    IInv /\ Clock => ri'.vblank_in \in BOOLEAN /\ Port!Blank(Reads(Bus, 2))
  <1> SUFFICES ASSUME IInv, Clock
               PROVE  ri'.vblank_in \in BOOLEAN /\ Port!Blank(Reads(Bus, 2))
    OBVIOUS
  <1>1. Types /\ ri' = Next_ri(Bus, blank)
    BY DEF IInv, Clock, PpuClock
  <1>2. blank \in BOOLEAN /\ ri.vblank \in BOOLEAN /\ ri.vblank_in \in BOOLEAN
    BY <1>1 DEF Types, RiTypes
  <1>3. ri'.vblank_in = blank
    BY <1>1, LinesOK
  <1>4. Default(Bus, blank).vblank = (blank /\ (ri.vblank \/ ~ri.vblank_in))
    BY <1>1 DEF Types, RiTypes, RiFields, Default
  <1>5. ri'.vblank = (blank /\ ~Reads(Bus, 2) /\ (ri.vblank \/ ~ri.vblank_in))
    BY <1>1, <1>2, <1>4, FlagOK
  <1> QED
    BY <1>2, <1>3, <1>5 DEF Port!Blank

LEMMA PortInit == Init => Port!Init
  <1> SUFFICES ASSUME Init PROVE Port!Init
    OBVIOUS
  <1>1. ri = ResetRi /\ cntrs = Fields(0)
    BY DEF Init, PpuInit
  <1>2. NV \in Nat /\ NH \in Nat /\ VT \in Nat /\ HT \in Nat
    BY Sizes DEF Pos
  <1>3. Number(Latches(ri)) = 0
    BY <1>1, <1>2 DEF ResetRi, Latches, Number
  <1>4. Number(cntrs) = 0
    <2>1. Port!Total \in Pos
      <3>1. MemSize \in Pos /\ FV * (NV * (NH * (VT * HT))) = MemSize
        BY Sizes
      <3>2. Port!Total = 2 * FV * (NV * (NH * (VT * HT)))
        BY Sizes
      <3>3. FV \in Pos /\ NV * (NH * (VT * HT)) \in Pos
        BY Sizes
      <3> QED
        BY <3>1, <3>2, <3>3 DEF Pos
    <2>2. Number(cntrs) = 0 % Port!Total
      BY <1>1, FieldsOK
    <2> QED
      BY <2>1, <2>2 DEF Pos
  <1>5. /\ ri.upd_cntrs = FALSE /\ ri.rd_rdy = FALSE /\ ri.rd_buf = 0 /\ ri.cpu_d_out = 0
        /\ ~ri.byte_sel /\ ~ri.addr_incr /\ ~ri.nvbl_en /\ ~ri.vblank_in /\ ~ri.vblank
        /\ ri.spr_ram_a = 0
    BY <1>1 DEF ResetRi
  <1> QED
    BY <1>3, <1>4, <1>5 DEF Port!Init

LEMMA PortStep == IInv /\ [Next]_vars => [Port!Next]_(Port!portVars)
  <1> SUFFICES ASSUME IInv, [Next]_vars PROVE [Port!Next]_(Port!portVars)
    OBVIOUS
  <1>1. CASE Clock
    <2> USE <1>1
    <2>1. ri'.vblank_in \in BOOLEAN /\ Port!Blank(Reads(Bus, 2))
      BY BlankStep
    <2>2. CASE Evaluates(Bus)
      <3>1. cycle \in Accesses /\ (Bus.r_nw <=> ~cycle.wr) /\ Bus.sel = cycle.reg
            /\ cycle.wr \in BOOLEAN
        BY <2>2, Accessed, CycleOK DEF IInv
      <3>2. Reads(Bus, 2) <=> cycle.reg = 2 /\ ~cycle.wr
        BY <2>2, <3>1 DEF Reads
      <3>3. Port!Blank(cycle.reg = 2 /\ ~cycle.wr)
        BY <2>1, <3>2 DEF Port!Blank
      <3>4. Port!Do(cycle)
        BY <2>2, AccessStep
      <3> QED
        BY <2>1, <3>1, <3>3, <3>4 DEF Port!Next
    <2>3. CASE ~Evaluates(Bus)
      <3>1. Port!NoAccess
        BY <2>3, QuietStep
      <3>2. Port!Blank(FALSE)
        BY <2>1, <2>3 DEF Port!Blank, Reads
      <3> QED
        BY <2>1, <3>1, <3>2 DEF Port!Next
    <2> QED
      BY <2>2, <2>3
  <1>2. CASE UNCHANGED vars
    <2>1. Scroll' = Scroll
      BY <1>2 DEF vars, ppuVars, Scroll
    <2>2. Addr' = Addr
      BY <1>2 DEF vars, ppuVars, Addr
    <2>3. Ahead' = Ahead
      BY <1>2 DEF vars, ppuVars, Ahead, vram_d_in
    <2> QED
      BY <1>2, <2>1, <2>2, <2>3 DEF vars, ppuVars, Port!portVars, Scroll, Addr, Ahead
  <1> QED
    BY <1>1, <1>2 DEF Next

\* ppu_ri.v with its latches, its read buffer and its loads a clock later gives
\* every program the registers PpuPort describes.
THEOREM RegistersImplementPort == Spec => PortSpec
  <1> QED
    BY PortInit, PortStep, Inductive, PTL DEF Spec, PortSpec, Port!Spec

\* The first clock of an access makes exactly the access, and no other clock
\* anything a program could see.
THEOREM AccessExecutedOnce == Spec => ExecutedOnce
  <1>1. IInv /\ [Next]_vars =>
          [IF phase = 0 /\ cycle # NoCycle THEN Port!Do(cycle) ELSE Port!NoAccess]_vars
    BY AccessStep, QuietStep, EdgeOK DEF Next
  <1> QED
    BY <1>1, Inductive, PTL DEF Spec, ExecutedOnce

=============================================================================
