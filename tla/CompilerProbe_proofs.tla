-------------------------- MODULE CompilerProbe_proofs --------------------------
(***************************************************************************)
(* What the probes say of every toolchain there may be.                    *)
(*                                                                         *)
(* A verdict is a function of the macros alone (AsProbed), so the work is  *)
(* about the macros, in three parts.  Versions: what DEC and HEX write is  *)
(* read back, and the arithmetic of the probes takes apart what a vendor   *)
(* packed; Carries says what of the macros that needs.  Identification:    *)
(* Tells says what the facts of the cascade are for a compiler, whoever    *)
(* it pretends to be, and PositionC and PositionCXX that the branch of its *)
(* vendor is the first one taken.  The target: of the names the probes ask *)
(* for, a toolchain defines those of its target only.                      *)
(***************************************************************************)
EXTENDS CompilerProbe, SequenceTheorems, TLAPS

-----------------------------------------------------------------------------
(* Digits.                                                                  *)

(* Dividing by ten takes the last digit away. *)
LEMMA LastDigit ==
    ASSUME NEW n \in Nat
    PROVE  /\ n \div 10 \in Nat /\ n % 10 \in 0 .. 9
           /\ n = 10 * (n \div 10) + (n % 10)
  BY SMT

LEMMA Shifted ==
    ASSUME NEW n \in Nat
    PROVE  /\ n \div 100 = (n \div 10) \div 10
           /\ n \div 1000 = (n \div 100) \div 10
           /\ n \div 10000 = (n \div 1000) \div 10
           /\ n \div 100000 = (n \div 10000) \div 10
           /\ n \div 1000000 = (n \div 100000) \div 10
           /\ n \div 10000000 = (n \div 1000000) \div 10
  BY SMT

LEMMA Leading ==
    ASSUME NEW n \in Nat, n < 100000000
    PROVE  (n \div 10000000) % 10 = n \div 10000000
  <1> DEFINE q == n \div 10000000
  <1>1. q \in Nat /\ 10000000 * q =< n
    BY SMT
  <1>2. q < 10
    BY <1>1, SMT
  <1> QED
    BY <1>1, <1>2, SMT

(* Whatever it is divided by, a digit is left. *)
LEMMA OneDigit ==
    ASSUME NEW n \in Nat, NEW t \in Nat \ {0}
    PROVE  (n \div t) % 10 \in 0 .. 9
  <1>1. n \div t \in Nat
    BY SMT
  <1> QED
    BY <1>1, LastDigit, SMT

(* The digits DEC writes are digits, and CMake reads the number from them. *)
THEOREM DecReadsBack ==
    ASSUME NEW n \in Nat, n < 100000000
    PROVE  Dec(n) \in [1 .. 8 -> 0 .. 9] /\ Number(Dec(n)) = n
  <1>1. /\ Dec(n)[8] = n % 10 /\ Dec(n)[7] = (n \div 10) % 10
        /\ Dec(n)[6] = (n \div 100) % 10 /\ Dec(n)[5] = (n \div 1000) % 10
        /\ Dec(n)[4] = (n \div 10000) % 10 /\ Dec(n)[3] = (n \div 100000) % 10
        /\ Dec(n)[2] = (n \div 1000000) % 10 /\ Dec(n)[1] = (n \div 10000000) % 10
    BY SMT DEF Dec, Tens
  <1>2. Dec(n)[1] = n \div 10000000
    BY <1>1, Leading, SMT
  <1>3. Dec(n) \in [1 .. 8 -> 0 .. 9]
    <2>1. \A i \in 1 .. 8 : Tens[i] \in Nat \ {0}
      BY SMT DEF Tens
    <2>2. \A i \in 1 .. 8 : (n \div Tens[i]) % 10 \in 0 .. 9
      BY <2>1, OneDigit, SMT
    <2> QED
      BY <2>2, SMT DEF Dec
  <1>4. /\ n \div 10 \in Nat /\ n \div 100 \in Nat /\ n \div 1000 \in Nat /\ n \div 10000 \in Nat
        /\ n \div 100000 \in Nat /\ n \div 1000000 \in Nat /\ n \div 10000000 \in Nat
    BY SMT
  <1>5. /\ n = 10 * (n \div 10) + Dec(n)[8]
        /\ n \div 10 = 10 * (n \div 100) + Dec(n)[7]
        /\ n \div 100 = 10 * (n \div 1000) + Dec(n)[6]
        /\ n \div 1000 = 10 * (n \div 10000) + Dec(n)[5]
    BY <1>1, <1>4, LastDigit, Shifted, SMT
  <1>6. /\ n \div 10000 = 10 * (n \div 100000) + Dec(n)[4]
        /\ n \div 100000 = 10 * (n \div 1000000) + Dec(n)[3]
        /\ n \div 1000000 = 10 * (n \div 10000000) + Dec(n)[2]
    BY <1>1, <1>4, LastDigit, Shifted, SMT
  <1>7. Dec(n) \in [1 .. 8 -> Nat]
    BY <1>3, SMT
  <1>8. Number(Dec(n)) = n
    BY <1>2, <1>4, <1>5, <1>6, <1>7, SMT DEF Number
  <1> QED
    BY <1>3, <1>8, SMT

-----------------------------------------------------------------------------
(* Versions: reading back what was written.                                *)

(* A number below a hundred written as binary coded decimals in HEX is read
   back as itself. *)
LEMMA HexReadsBack ==
    ASSUME NEW n \in Nat, n =< 99
    PROVE  Number(Hex(Bcd(n))) = n
  <1> DEFINE q == n \div 10
             r == n % 10
  <1>1. q \in 0 .. 9 /\ r \in 0 .. 9 /\ n = 10 * q + r /\ Bcd(n) = q * 16 + r
    BY SMT DEF Bcd
  <1> HIDE DEF q, r
  <1> DEFINE b == q * 16 + r
  <1>2. b \div 16 = q /\ b % 16 = r /\ b \in 0 .. 255
    BY <1>1, SMT
  <1>3. (b \div 1) % 16 = r /\ (b \div 16) % 16 = q /\ b \div 256 = 0 /\ b \div 4096 = 0
        /\ b \div 65536 = 0 /\ b \div 1048576 = 0 /\ b \div 16777216 = 0 /\ b \div 268435456 = 0
    BY <1>1, <1>2, SMT
  <1>4. /\ Hex(b)[8] = (b \div 1) % 16 /\ Hex(b)[7] = (b \div 16) % 16
        /\ Hex(b)[6] = (b \div 256) % 16 /\ Hex(b)[5] = (b \div 4096) % 16
        /\ Hex(b)[4] = (b \div 65536) % 16 /\ Hex(b)[3] = (b \div 1048576) % 16
        /\ Hex(b)[2] = (b \div 16777216) % 16 /\ Hex(b)[1] = (b \div 268435456) % 16
    BY SMT DEF Hex, Sixteens
  <1>5. 0 % 16 = 0
    BY SMT
  <1> HIDE DEF b
  <1>6. Number(Hex(b)) = 10 * q + r
    BY <1>1, <1>3, <1>4, <1>5, SMT DEF Number
  <1> QED
    BY <1>1, <1>6 DEF b

(* The components of a version are numbers. *)
LEMMA ElementOf ==
    ASSUME NEW v \in Seq(Nat)
    PROVE  \A i \in 1 .. Len(v) : v[i] \in Nat
  BY SMT

(* What a version of two components is. *)
LEMMA Fits2 ==
    ASSUME NEW v, NEW a \in Nat, NEW b \in Nat, Fits(v, <<a, b>>)
    PROVE  v \in Seq(Nat) /\ Len(v) = 2 /\ v[1] \in Nat /\ v[1] =< a /\ v[2] \in Nat /\ v[2] =< b
  <1>1. Len(<<a, b>>) = 2 /\ <<a, b>>[1] = a /\ <<a, b>>[2] = b
    OBVIOUS
  <1>2. v \in Seq(Nat) /\ Len(v) = 2 /\ \A i \in 1 .. 2 : v[i] =< <<a, b>>[i] /\ v[i] \in Nat
    BY <1>1, SMT DEF Fits
  <1> QED
    BY <1>1, <1>2, SMT

(* ... of three. *)
LEMMA Fits3 ==
    ASSUME NEW v, NEW a \in Nat, NEW b \in Nat, NEW c \in Nat, Fits(v, <<a, b, c>>)
    PROVE  /\ v \in Seq(Nat) /\ Len(v) = 3
           /\ v[1] \in Nat /\ v[1] =< a /\ v[2] \in Nat /\ v[2] =< b /\ v[3] \in Nat /\ v[3] =< c
  <1>1. Len(<<a, b, c>>) = 3 /\ <<a, b, c>>[1] = a /\ <<a, b, c>>[2] = b /\ <<a, b, c>>[3] = c
    OBVIOUS
  <1>2. v \in Seq(Nat) /\ Len(v) = 3 /\ \A i \in 1 .. 3 : v[i] =< <<a, b, c>>[i] /\ v[i] \in Nat
    BY <1>1, SMT DEF Fits
  <1> QED
    BY <1>1, <1>2, SMT

(* ... of four. *)
LEMMA Fits4 ==
    ASSUME NEW v, NEW a \in Nat, NEW b \in Nat, NEW c \in Nat, NEW d \in Nat, Fits(v, <<a, b, c, d>>)
    PROVE  /\ v \in Seq(Nat) /\ Len(v) = 4
           /\ v[1] \in Nat /\ v[1] =< a /\ v[2] \in Nat /\ v[2] =< b
           /\ v[3] \in Nat /\ v[3] =< c /\ v[4] \in Nat /\ v[4] =< d
  <1>1. Len(<<a, b, c, d>>) = 4 /\ <<a, b, c, d>>[1] = a /\ <<a, b, c, d>>[2] = b
            /\ <<a, b, c, d>>[3] = c /\ <<a, b, c, d>>[4] = d
    OBVIOUS
  <1>2. v \in Seq(Nat) /\ Len(v) = 4
    BY <1>1, SMT DEF Fits
  <1>3. v[1] \in Nat /\ v[2] \in Nat /\ v[3] \in Nat /\ v[4] \in Nat
    <2>1. \A i \in 1 .. Len(v) : v[i] \in Nat
      BY <1>2, Zenon, ElementOf
    <2>2. 1 \in 1 .. 4 /\ 2 \in 1 .. 4 /\ 3 \in 1 .. 4 /\ 4 \in 1 .. 4
      BY SMT
    <2> QED
      BY <1>2, <2>1, <2>2
  <1>4. \A i \in 1 .. 4 : v[i] =< <<a, b, c, d>>[i]
    BY <1>1, Zenon DEF Fits
  <1> QED
    BY <1>1, <1>2, <1>3, <1>4, SMT

(* A version of three components is the tuple of them. *)
LEMMA Tuple3 ==
    ASSUME NEW v \in Seq(Nat), Len(v) = 3
    PROVE  v = <<v[1], v[2], v[3]>>
  BY SMT

(* Literals that read back as the components read back as the version. *)
LEMMA SameVersion ==
    ASSUME NEW v \in Seq(Nat), NEW literals, DOMAIN literals = 1 .. Len(v),
           \A i \in 1 .. Len(v) : Number(literals[i]) = v[i]
    PROVE  Numbers(literals) = v
  BY SMT DEF Numbers

(* A number with room in DEC reads back as itself. *)
LEMMA DecRead ==
    ASSUME NEW n \in Nat, n =< Largest
    PROVE  Number(Dec(n)) = n
  <1>1. n < 100000000
    BY SMT DEF Largest
  <1> QED
    BY <1>1, DecReadsBack, SMT

(* Two literals that read back as two components. *)
LEMMA Read2 ==
    ASSUME NEW v \in Seq(Nat), Len(v) = 2, NEW a, NEW b, Number(a) = v[1], Number(b) = v[2]
    PROVE  Numbers(<<a, b>>) = v
  <1> DEFINE literals == <<a, b>>
  <1>1. DOMAIN literals = 1 .. Len(v) /\ literals[1] = a /\ literals[2] = b
    OBVIOUS
  <1>2. \A i \in 1 .. Len(v) : Number(literals[i]) = v[i]
    BY <1>1, SMT
  <1> QED
    BY <1>1, <1>2, SameVersion

(* Three. *)
LEMMA Read3 ==
    ASSUME NEW v \in Seq(Nat), Len(v) = 3, NEW a, NEW b, NEW c,
           Number(a) = v[1], Number(b) = v[2], Number(c) = v[3]
    PROVE  Numbers(<<a, b, c>>) = v
  <1> DEFINE literals == <<a, b, c>>
  <1>1. DOMAIN literals = 1 .. Len(v) /\ literals[1] = a /\ literals[2] = b /\ literals[3] = c
    OBVIOUS
  <1>2. \A i \in 1 .. Len(v) : Number(literals[i]) = v[i]
    BY <1>1, SMT
  <1> QED
    BY <1>1, <1>2, SameVersion

(* Four. *)
LEMMA Read4 ==
    ASSUME NEW v \in Seq(Nat), Len(v) = 4, NEW a, NEW b, NEW c, NEW d,
           Number(a) = v[1], Number(b) = v[2], Number(c) = v[3], Number(d) = v[4]
    PROVE  Numbers(<<a, b, c, d>>) = v
  <1> DEFINE literals == <<a, b, c, d>>
  <1>1. DOMAIN literals = 1 .. Len(v) /\ literals[1] = a /\ literals[2] = b /\ literals[3] = c
            /\ literals[4] = d
    OBVIOUS
  <1>2. \A i \in 1 .. Len(v) : Number(literals[i]) = v[i]
    BY <1>1, SMT
  <1> QED
    BY <1>1, <1>2, SameVersion

(* When every macro is defined, Given reads all of them. *)
LEMMA ReadGiven ==
    ASSUME NEW v \in Seq(Nat), NEW m, NEW macros, Len(macros) = Len(v),
           \A i \in 1 .. Len(v) : macros[i] \in DOMAIN m /\ m[macros[i]] = v[i] /\ v[i] =< Largest
    PROVE  Numbers(Given(m, macros)) = v
  <1>1. Len(v) \in Nat /\ \A i \in 1 .. Len(v) : v[i] \in Nat
    BY SMT
  <1>2. Given(m, macros) = [i \in 1 .. Len(v) |-> Dec(m[macros[i]])]
    BY SMT DEF Given, Defined
  <1>3. \A i \in 1 .. Len(v) : Given(m, macros)[i] = Dec(v[i]) /\ v[i] \in Nat /\ v[i] < 100000000
    BY <1>1, <1>2, SMT DEF Largest
  <1>4. \A i \in 1 .. Len(v) : Number(Given(m, macros)[i]) = v[i]
    BY <1>3, DecReadsBack
  <1>5. DOMAIN Given(m, macros) = 1 .. Len(v)
    BY <1>2
  <1> QED
    BY <1>4, <1>5, SameVersion

(* One macro is read if it is defined. *)
LEMMA GivenOne ==
    ASSUME NEW m, NEW macro
    PROVE  /\ macro \in DOMAIN m => Given(m, <<macro>>) = <<Dec(m[macro])>>
           /\ macro \notin DOMAIN m => Given(m, <<macro>>) = <<>>
  <1>1. Len(<<macro>>) = 1 /\ <<macro>>[1] = macro
    OBVIOUS
  <1>2. ASSUME macro \in DOMAIN m
        PROVE  Given(m, <<macro>>) = <<Dec(m[macro])>>
    <2>1. {i \in 1 .. Len(<<macro>>) : ~Defined(m, <<macro>>[i])} = {}
      BY <1>1, <1>2, SMT DEF Defined
    <2>2. Given(m, <<macro>>) = [i \in 1 .. 1 |-> Dec(m[<<macro>>[i]])]
      BY <1>1, <2>1 DEF Given
    <2> QED
      BY <1>1, <2>2, SMT
  <1>3. ASSUME macro \notin DOMAIN m
        PROVE  Given(m, <<macro>>) = <<>>
    <2>1. {i \in 1 .. Len(<<macro>>) : ~Defined(m, <<macro>>[i])} = {1}
      BY <1>1, <1>3, SMT DEF Defined
    <2>2. Min({1}) = 1
      <3>1. \A x \in {1} : \A y \in {1} : x =< y
        BY SMT
      <3> QED
        BY <3>1 DEF Min
    <2>3. Given(m, <<macro>>) = [i \in 1 .. 1 - 1 |-> Dec(m[<<macro>>[i]])]
      BY <1>1, <2>1, <2>2, {1} # {} DEF Given
    <2> QED
      BY <2>3, SMT
  <1> QED
    BY <1>2, <1>3

(* What ++ defines, and that its first argument prevails. *)
LEMMA Merge ==
    ASSUME NEW f, NEW g, NEW x
    PROVE  /\ x \in DOMAIN (f ++ g) <=> x \in DOMAIN f \/ x \in DOMAIN g
           /\ x \in DOMAIN f => (f ++ g)[x] = f[x]
           /\ x \in DOMAIN g /\ x \notin DOMAIN f => (f ++ g)[x] = g[x]
  BY DEF ++

(* How to show what a concatenation is. *)
LEMMA Joined ==
    ASSUME NEW S, NEW s \in Seq(S), NEW t \in Seq(S), NEW u \in Seq(S),
           Len(u) = Len(s) + Len(t), \A i \in 1 .. Len(s) : u[i] = s[i],
           \A i \in 1 .. Len(t) : u[Len(s) + i] = t[i]
    PROVE  s \o t = u
  <1> DEFINE w == s \o t
  <1>1. w \in Seq(S) /\ Len(w) = Len(s) + Len(t)
    BY ConcatProperties, SMT
  <1>2. \A i \in 1 .. Len(w) : w[i] = IF i <= Len(s) THEN s[i] ELSE t[i - Len(s)]
    BY ConcatProperties
  <1> HIDE DEF w
  <1>3. ASSUME NEW i \in 1 .. Len(w)
        PROVE  w[i] = u[i]
    <2>1. CASE i <= Len(s)
      BY <1>1, <1>2, <2>1, SMT
    <2>2. CASE ~(i <= Len(s))
      <3> DEFINE j == i - Len(s)
      <3>1. j \in 1 .. Len(t) /\ Len(s) + j = i
        BY <1>1, <2>2, SMT
      <3>2. w[i] = t[j]
        BY <1>2, <2>2
      <3> HIDE DEF j
      <3> QED
        BY <3>1, <3>2, Zenon
    <2> QED
      BY <2>1, <2>2
  <1>4. w = u
    BY <1>1, <1>3, SMT
  <1> QED
    BY <1>4 DEF w

(* The concatenations that occur in the versions. *)
LEMMA OneAndOne ==
    ASSUME NEW x, NEW y
    PROVE  <<x>> \o <<y>> = <<x, y>>
  <1> DEFINE S == {x, y}
  <1>1. <<x>> \in Seq(S) /\ <<y>> \in Seq(S) /\ <<x, y>> \in Seq(S)
    BY SMT
  <1>2. /\ Len(<<x, y>>) = Len(<<x>>) + Len(<<y>>)
        /\ \A i \in 1 .. Len(<<x>>) : <<x, y>>[i] = <<x>>[i]
        /\ \A i \in 1 .. Len(<<y>>) : <<x, y>>[Len(<<x>>) + i] = <<y>>[i]
    <2>1. Len(<<x>>) = 1 /\ Len(<<y>>) = 1 /\ Len(<<x, y>>) = 2 /\ 1 + 1 = 2
      BY SMT
    <2>2. \A i \in 1 .. 1 : i = 1
      BY SMT
    <2>3. <<x>>[1] = x /\ <<y>>[1] = y /\ <<x, y>>[1] = x /\ <<x, y>>[2] = y
      BY SMT
    <2> QED
      BY <2>1, <2>2, <2>3
  <1> QED
    BY <1>1, <1>2, Joined, Zenon

LEMMA TwoAndOne ==
    ASSUME NEW x, NEW y, NEW z
    PROVE  <<x, y>> \o <<z>> = <<x, y, z>>
  <1> DEFINE S == {x, y, z}
  <1>1. <<x, y>> \in Seq(S) /\ <<z>> \in Seq(S) /\ <<x, y, z>> \in Seq(S)
    BY SMT
  <1>2. /\ Len(<<x, y, z>>) = Len(<<x, y>>) + Len(<<z>>)
        /\ \A i \in 1 .. Len(<<x, y>>) : <<x, y, z>>[i] = <<x, y>>[i]
        /\ \A i \in 1 .. Len(<<z>>) : <<x, y, z>>[Len(<<x, y>>) + i] = <<z>>[i]
    BY SMT
  <1> QED
    BY <1>1, <1>2, Joined, Zenon

LEMMA TwoAndTwo ==
    ASSUME NEW x, NEW y, NEW z, NEW w
    PROVE  <<x, y>> \o <<z, w>> = <<x, y, z, w>>
  <1> DEFINE S == {x, y, z, w}
  <1>1. <<x, y>> \in Seq(S) /\ <<z, w>> \in Seq(S) /\ <<x, y, z, w>> \in Seq(S)
    BY SMT
  <1>2. /\ Len(<<x, y, z, w>>) = Len(<<x, y>>) + Len(<<z, w>>)
        /\ \A i \in 1 .. Len(<<x, y>>) : <<x, y, z, w>>[i] = <<x, y>>[i]
        /\ \A i \in 1 .. Len(<<z, w>>) : <<x, y, z, w>>[Len(<<x, y>>) + i] = <<z, w>>[i]
    BY SMT
  <1> QED
    BY <1>1, <1>2, Joined, Zenon

LEMMA ThreeAndOne ==
    ASSUME NEW x, NEW y, NEW z, NEW w
    PROVE  <<x, y, z>> \o <<w>> = <<x, y, z, w>>
  <1> DEFINE S == {x, y, z, w}
  <1>1. <<x, y, z>> \in Seq(S) /\ <<w>> \in Seq(S) /\ <<x, y, z, w>> \in Seq(S)
    BY SMT
  <1>2. /\ Len(<<x, y, z, w>>) = Len(<<x, y, z>>) + Len(<<w>>)
        /\ \A i \in 1 .. Len(<<x, y, z>>) : <<x, y, z, w>>[i] = <<x, y, z>>[i]
        /\ \A i \in 1 .. Len(<<w>>) : <<x, y, z, w>>[Len(<<x, y, z>>) + i] = <<w>>[i]
    BY SMT
  <1> QED
    BY <1>1, <1>2, Joined, Zenon

LEMMA OneAlone ==
    ASSUME NEW x
    PROVE  <<x>> \o <<>> = <<x>>
  <1>1. <<x>> \in Seq({x})
    OBVIOUS
  <1> QED
    BY <1>1, ConcatEmptySeq

LEMMA TwoAlone ==
    ASSUME NEW x, NEW y
    PROVE  <<x, y>> \o <<>> = <<x, y>>
  <1>1. <<x, y>> \in Seq({x, y})
    OBVIOUS
  <1> QED
    BY <1>1, ConcatEmptySeq

LEMMA ThreeAlone ==
    ASSUME NEW x, NEW y, NEW z
    PROVE  <<x, y, z>> \o <<>> = <<x, y, z>>
  <1>1. <<x, y, z>> \in Seq({x, y, z})
    OBVIOUS
  <1> QED
    BY <1>1, ConcatEmptySeq

LEMMA AppendTwo ==
    ASSUME NEW x, NEW y, NEW z
    PROVE  Append(<<x, y>>, z) = <<x, y, z>>
  <1>1. <<x, y>> \in Seq({x, y, z}) /\ z \in {x, y, z}
    OBVIOUS
  <1>2. Append(<<x, y>>, z) = <<x, y>> \o <<z>>
    BY <1>1, AppendIsConcat
  <1> QED
    BY <1>2, TwoAndOne

-----------------------------------------------------------------------------
(* Versions: taking apart what was packed.                                 *)

(* Binary coded decimals fit a byte, and are the number itself below ten. *)
LEMMA BcdByte ==
    ASSUME NEW n \in Nat, n =< 99
    PROVE  Bcd(n) \in Nat /\ Bcd(n) =< 153 /\ (n =< 9 => Bcd(n) = n) /\ (n >= 10 => Bcd(n) >= 16)
  BY SMT DEF Bcd

(* How two components are taken apart. *)
LEMMA UnpackVrr ==
    ASSUME NEW a \in Nat, NEW b \in Nat, b =< 99
    PROVE  /\ Vrr(a, b) \div 100 = a /\ Vrr(a, b) % 100 = b
           /\ Vrr(a, b) - (Vrr(a, b) \div 100) * 100 = b
  BY SMT DEF Vrr

(* The probes' comments, as equations: VRP, VVRRPP, VVVRRRPPP and VRRPPPP take
   apart what a vendor has packed with as many digits. *)
LEMMA UnpackVrp ==
    ASSUME NEW a \in Nat, NEW b \in Nat, NEW c \in Nat, b =< 9, c =< 9
    PROVE  VRP(Vrp(a, b, c)) = <<Dec(a), Dec(b), Dec(c)>>
  <1> DEFINE n == 100 * a + 10 * b + c
  <1>1. n \div 10 = 10 * a + b /\ n % 10 = c
    BY SMT
  <1>2. n \div 100 = a /\ (10 * a + b) % 10 = b
    BY SMT
  <1>3. VRP(n) = <<Dec(a), Dec(b), Dec(c)>>
    BY <1>1, <1>2, Zenon DEF VRP
  <1> QED
    BY <1>3 DEF Vrp

LEMMA UnpackVvrrpp ==
    ASSUME NEW a \in Nat, NEW b \in Nat, NEW c \in Nat, b =< 99, c =< 99
    PROVE  VVRRPP(Vvrrpp(a, b, c)) = <<Dec(a), Dec(b), Dec(c)>>
  <1> DEFINE n == 10000 * a + 100 * b + c
  <1>1. n \div 100 = 100 * a + b /\ n % 100 = c
    BY SMT
  <1>2. n \div 10000 = a /\ (100 * a + b) % 100 = b
    BY SMT
  <1>3. VVRRPP(n) = <<Dec(a), Dec(b), Dec(c)>>
    BY <1>1, <1>2, SMT DEF VVRRPP
  <1> QED
    BY <1>3, SMT DEF Vvrrpp

LEMMA UnpackVvvrrrppp ==
    ASSUME NEW a \in Nat, NEW b \in Nat, NEW c \in Nat, b =< 999, c =< 999
    PROVE  VVVRRRPPP(Vvvrrrppp(a, b, c)) = <<Dec(a), Dec(b), Dec(c)>>
  <1> DEFINE n == 1000000 * a + 1000 * b + c
  <1>1. n \div 1000 = 1000 * a + b /\ n % 1000 = c
    BY SMT
  <1>2. n \div 1000000 = a /\ (1000 * a + b) % 1000 = b
    BY SMT
  <1>3. VVVRRRPPP(n) = <<Dec(a), Dec(b), Dec(c)>>
    BY <1>1, <1>2, SMT DEF VVVRRRPPP
  <1> QED
    BY <1>3, SMT DEF Vvvrrrppp

LEMMA UnpackVrrpppp ==
    ASSUME NEW a \in Nat, NEW b \in Nat, NEW c \in Nat, b =< 99, c =< 9999
    PROVE  VRRPPPP(Vrrpppp(a, b, c)) = <<Dec(a), Dec(b), Dec(c)>>
  <1> DEFINE n == 1000000 * a + 10000 * b + c
  <1>1. n \div 10000 = 100 * a + b /\ n % 10000 = c
    BY SMT
  <1>2. n \div 1000000 = a /\ (100 * a + b) % 100 = b
    BY SMT
  <1>3. VRRPPPP(n) = <<Dec(a), Dec(b), Dec(c)>>
    BY <1>1, <1>2, SMT DEF VRRPPPP
  <1> QED
    BY <1>3, SMT DEF Vrrpppp

(* ARMCC: one digit before version 5, two from then on. *)
LEMMA UnpackARMCC ==
    ASSUME NEW a \in Nat, NEW b \in Nat, NEW c \in Nat, a > 0, b =< 99, c =< 9999
    PROVE  ARMCCVersion(ARMCCNumber(a, b, c)) = <<Dec(a), Dec(b), Dec(c)>>
  <1>1. CASE ~(b < 10 /\ a < 5)
    <2>1. Vrrpppp(a, b, c) >= 1000000
      BY SMT DEF Vrrpppp
    <2>2. ARMCCNumber(a, b, c) = Vrrpppp(a, b, c)
      BY <1>1, SMT DEF ARMCCNumber
    <2>3. VRRPPPP(Vrrpppp(a, b, c)) = <<Dec(a), Dec(b), Dec(c)>>
      BY UnpackVrrpppp
    <2> QED
      BY <2>1, <2>2, <2>3, SMT DEF ARMCCVersion
  <1>2. CASE b < 10 /\ a < 5
    <2> DEFINE n == 100000 * a + 10000 * b + c
    <2>1. n < 1000000 /\ n \div 10000 = 10 * a + b /\ n % 10000 = c
      BY <1>2, SMT
    <2>2. n \div 100000 = a /\ (10 * a + b) % 10 = b /\ ~(n >= 1000000)
      BY <1>2, SMT
    <2>3. ARMCCNumber(a, b, c) = n
      BY <1>2, SMT DEF ARMCCNumber, Vrpppp
    <2> QED
      BY <2>1, <2>2, <2>3, SMT DEF ARMCCVersion
  <1> QED
    BY <1>1, <1>2

(* IntelLLVM: one digit each in 2021.1, two later. *)
LEMMA UnpackIntelLLVM ==
    ASSUME NEW a \in Nat, NEW b \in Nat, NEW c \in Nat, a >= 2021, a =< 9999, b =< 99, c =< 99,
           a = 2021 /\ b < 2 => c =< 9, NEW m, m["__INTEL_LLVM_COMPILER"] = IntelLLVMNumber(a, b, c)
    PROVE  IntelLLVMVersion(m) = <<Dec(a), Dec(b), Dec(c)>>
  <1>1. CASE a = 2021 /\ b < 2
    <2>1. Vrp(a, b, c) < 1000000
      BY <1>1, SMT DEF Vrp
    <2>2. VRP(Vrp(a, b, c)) = <<Dec(a), Dec(b), Dec(c)>>
      BY <1>1, UnpackVrp, SMT
    <2> QED
      BY <1>1, <2>1, <2>2, SMT DEF IntelLLVMVersion, IntelLLVMNumber
  <1>2. CASE ~(a = 2021 /\ b < 2)
    <2>1. ~(Vvrrpp(a, b, c) < 1000000)
      BY <1>2, SMT DEF Vvrrpp
    <2>2. VVRRPP(Vvrrpp(a, b, c)) = <<Dec(a), Dec(b), Dec(c)>>
      BY <1>2, UnpackVvrrpp, SMT
    <2> QED
      BY <1>2, <2>1, <2>2, SMT DEF IntelLLVMVersion, IntelLLVMNumber
  <1> QED
    BY <1>1, <1>2

(* Watcom: the third digit is written if it is not zero. *)
LEMMA UnpackWatcom ==
    ASSUME NEW a \in Nat, NEW b \in Nat, NEW c \in Nat, b =< 9, c =< 9
    PROVE  /\ c = 0 => /\ WatcomVersion(Vrp(a, b, c), 0) = <<Dec(a), Dec(b)>>
                       /\ WatcomVersion(1100 + Vrp(a, b, c), 1100) = <<Dec(a), Dec(b)>>
           /\ c > 0 => /\ WatcomVersion(Vrp(a, b, c), 0) = <<Dec(a), Dec(b), Dec(c)>>
                       /\ WatcomVersion(1100 + Vrp(a, b, c), 1100) = <<Dec(a), Dec(b), Dec(c)>>
  <1> DEFINE n == 100 * a + 10 * b + c
  <1>1. n \div 10 = 10 * a + b /\ n % 10 = c
    BY SMT
  <1>2. n \div 100 = a /\ (10 * a + b) % 10 = b
    BY SMT
  <1>3. (1100 + n) \div 10 = 110 + 10 * a + b /\ (1100 + n) % 10 = c
    BY SMT
  <1>4. (110 + 10 * a + b) % 10 = b
    BY SMT
  <1>5. n - 0 = n /\ (1100 + n) - 1100 = n /\ n \in Nat
    BY SMT
  <1>6. Vrp(a, b, c) = n
    BY SMT DEF Vrp
  <1> HIDE DEF n
  <1> DEFINE joined == <<Dec(a), Dec(b)>> \o (IF c > 0 THEN <<Dec(c)>> ELSE <<>>)
  <1>7. WatcomVersion(n, 0) = joined
    BY <1>1, <1>2, <1>5 DEF WatcomVersion
  <1>8. WatcomVersion(1100 + n, 1100) = joined
    BY <1>2, <1>3, <1>4, <1>5 DEF WatcomVersion
  <1>9. /\ c = 0 => joined = <<Dec(a), Dec(b)>>
        /\ c > 0 => joined = <<Dec(a), Dec(b), Dec(c)>>
    <2>1. c = 0 => ~(c > 0)
      BY SMT
    <2> QED
      BY <2>1, TwoAlone, TwoAndOne, Zenon
  <1> HIDE DEF joined
  <1> QED
    BY <1>6, <1>7, <1>8, <1>9

(* SunPro: three hexadecimal digits, four from 5.10 on. *)
LEMMA UnpackSunPro ==
    ASSUME NEW a \in Nat, NEW b \in Nat, NEW c \in Nat, a =< 9, c =< 9
    PROVE  /\ b =< 9 => SunProVersion(SunPro3(a, b, c)) = <<Hex(Bcd(a)), Hex(Bcd(b)), Hex(Bcd(c))>>
           /\ b >= 10 /\ b =< 99 /\ a >= 5 =>
                SunProVersion(SunPro4(a, b, c)) = <<Hex(Bcd(a)), Hex(Bcd(b)), Hex(Bcd(c))>>
  <1>1. Bcd(a) = a /\ Bcd(c) = c
    BY BcdByte, SMT
  <1>2. ASSUME b =< 9
        PROVE  SunProVersion(SunPro3(a, b, c)) = <<Hex(Bcd(a)), Hex(Bcd(b)), Hex(Bcd(c))>>
    <2> DEFINE n == 256 * a + 16 * b + c
    <2>1. Bcd(b) = b
      BY <1>2, BcdByte, SMT
    <2>2. n < 20736 /\ n \div 16 = 16 * a + b /\ n % 16 = c /\ ~(n >= 20736)
      BY <1>2, SMT
    <2>3. n \div 256 = a /\ (16 * a + b) % 16 = b
      BY <1>2, SMT
    <2> QED
      BY <1>1, <2>1, <2>2, <2>3, SMT DEF SunProVersion, SunPro3
  <1>3. ASSUME b >= 10, b =< 99, a >= 5
        PROVE  SunProVersion(SunPro4(a, b, c)) = <<Hex(Bcd(a)), Hex(Bcd(b)), Hex(Bcd(c))>>
    <2> DEFINE d == Bcd(b)
    <2>1. d \in Nat /\ d >= 16 /\ d =< 153
      BY <1>3, BcdByte, SMT
    <2> HIDE DEF d
    <2> DEFINE n == 4096 * a + 16 * d + c
    <2>2. n >= 20736 /\ n \div 16 = 256 * a + d /\ n % 16 = c
      BY <1>3, <2>1, SMT
    <2>3. n \div 4096 = a /\ (256 * a + d) % 256 = d
      BY <1>3, <2>1, SMT
    <2>4. SunPro4(a, b, c) = n
      BY SMT DEF SunPro4, d
    <2> HIDE DEF n
    <2> QED
      BY <1>1, <2>2, <2>3, <2>4, SMT DEF SunProVersion, d
  <1> QED
    BY <1>2, <1>3, SMT

(* Embarcadero: a byte each of version and revision, in decimal digits. *)
LEMMA UnpackBytes ==
    ASSUME NEW a \in Nat, NEW b \in Nat, NEW c \in Nat, a =< 99, b =< 99, c < 65536
    PROVE  /\ HexBytes(BcdBytes(a, b) + c) = <<Hex(Bcd(a)), Hex(Bcd(b))>>
           /\ EmbarcaderoVersion(BcdBytes(a, b) + c) = <<Hex(Bcd(a)), Hex(Bcd(b)), Dec(c)>>
  <1> DEFINE x == Bcd(a)
             y == Bcd(b)
  <1>1. x \in Nat /\ x =< 153 /\ y \in Nat /\ y =< 153
    BY BcdByte, SMT
  <1> HIDE DEF x, y
  <1> DEFINE n == 16777216 * x + 65536 * y + c
  <1>2. n \div 65536 = 256 * x + y /\ n % 65536 = c
    BY <1>1, SMT
  <1>3. n \div 16777216 = x /\ (256 * x + y) % 256 = y
    BY <1>1, SMT
  <1>4. BcdBytes(a, b) + c = n /\ BcdBytes(a, b) \in Nat
    BY <1>1, SMT DEF BcdBytes, x, y
  <1> HIDE DEF n
  <1>5. HexBytes(n) = <<Hex(x), Hex(y)>>
    BY <1>2, <1>3, SMT DEF HexBytes
  <1>6. EmbarcaderoVersion(n) = <<Hex(x), Hex(y), Dec(c)>>
    <2>1. Append(<<Hex(x), Hex(y)>>, Dec(c)) = <<Hex(x), Hex(y), Dec(c)>>
      BY AppendTwo
    <2> QED
      BY <1>2, <1>5, <2>1, SMT DEF EmbarcaderoVersion
  <1> QED
    BY <1>4, <1>5, <1>6 DEF x, y

(* ADSP: three bytes. *)
LEMMA UnpackThirdByte ==
    ASSUME NEW a \in Nat, NEW b \in Nat, NEW c \in Nat, a =< 99, b =< 99, c =< 99
    PROVE  ADSPVersion(BcdBytes(a, b) + Bcd(c) * 256) = <<Hex(Bcd(a)), Hex(Bcd(b)), Hex(Bcd(c))>>
  <1> DEFINE x == Bcd(a)
             y == Bcd(b)
             z == Bcd(c)
             n == BcdBytes(a, b) + z * 256
  <1>1. x \in Nat /\ x =< 153 /\ y \in Nat /\ y =< 153 /\ z \in Nat /\ z =< 153
    BY BcdByte, SMT
  <1> HIDE DEF x, y, z
  <1>2. z * 256 \in Nat /\ z * 256 < 65536
    BY <1>1, SMT
  <1>3. n = 16777216 * x + 65536 * y + 256 * z
    BY <1>1, SMT DEF BcdBytes, x, y
  <1>4. n \div 256 = 256 * (256 * x + y) + z
    BY <1>1, <1>3, SMT
  <1>5. (n \div 256) % 256 = z
    BY <1>1, <1>4, SMT
  <1> DEFINE w == z * 256
  <1>6. HexBytes(BcdBytes(a, b) + w) = <<Hex(Bcd(a)), Hex(Bcd(b))>>
    <2>1. w \in Nat /\ w < 65536
      BY <1>2
    <2> HIDE DEF w
    <2> QED
      BY <2>1, UnpackBytes, SMT
  <1>8. HexBytes(n) = <<Hex(x), Hex(y)>>
    BY <1>6 DEF x, y
  <1> HIDE DEF n
  <1>7. Append(HexBytes(n), Hex((n \div 256) % 256)) = <<Hex(x), Hex(y), Hex(z)>>
    <2>1. Append(<<Hex(x), Hex(y)>>, Hex(z)) = <<Hex(x), Hex(y), Hex(z)>>
      BY AppendTwo
    <2> QED
      BY <1>5, <1>8, <2>1
  <1> QED
    BY <1>7 DEF n, x, y, z, ADSPVersion

(* Borland: two. *)
LEMMA UnpackBorland ==
    ASSUME NEW a \in Nat, NEW b \in Nat, a =< 99, b =< 99
    PROVE  LET n == Bcd(a) * 256 + Bcd(b) IN n \div 256 = Bcd(a) /\ n % 256 = Bcd(b)
  <1> DEFINE x == Bcd(a)
             y == Bcd(b)
  <1>1. x \in Nat /\ x =< 153 /\ y \in Nat /\ y =< 153
    BY BcdByte, SMT
  <1> HIDE DEF x, y
  <1>2. (x * 256 + y) \div 256 = x /\ (x * 256 + y) % 256 = y
    BY <1>1, SMT
  <1> QED
    BY <1>2 DEF x, y

(* Compaq: the digit T for the kind of release is skipped. *)
LEMMA UnpackDec ==
    ASSUME NEW a \in Nat, NEW b \in Nat, NEW c \in Nat, b =< 99, c =< 9999
    PROVE  VVRRTPPPP(DecVer(a, b, c)) = <<Dec(a), Dec(b), Dec(c)>>
  <1> DEFINE n == 10000000 * a + 100000 * b + 90000 + c
  <1>1. n \div 100000 = 100 * a + b
    BY SMT
  <1>2. n \div 10000000 = a /\ (100 * a + b) % 100 = b
    BY SMT
  <1>3. n = 10000 * (1000 * a + 10 * b + 9) + c
    BY SMT
  <1>4. n % 10000 = c
    BY <1>3, SMT
  <1>5. VVRRTPPPP(n) = <<Dec(a), Dec(b), Dec(c)>>
    BY <1>1, <1>2, <1>4, SMT DEF VVRRTPPPP
  <1> QED
    BY <1>5, SMT DEF DecVer

-----------------------------------------------------------------------------
(* Versions: vendor by vendor.                                             *)

(* VersionFits, vendor by vendor. *)
LEMMA Room ==
    ASSUME NEW v
    PROVE  /\ VersionFits("Comeau", v) => Fits(v, <<9999, 99>>)
           /\ VersionFits("Intel", v) => IntelFits(v)
           /\ VersionFits("IntelLLVM", v) => IntelLLVMFits(v)
           /\ VersionFits("Embarcadero", v) => Fits(v, <<99, 99, 65535>>)
           /\ VersionFits("Borland", v) => Fits(v, <<99, 99>>)
           /\ VersionFits("Watcom", v) => Fits(v, <<11, 9>>) \/ (Fits(v, <<11, 9, 9>>) /\ v[3] > 0)
           /\ VersionFits("OpenWatcom", v) =>
                  (Fits(v, <<9999, 9>>) \/ (Fits(v, <<9999, 9, 9>>) /\ v[3] > 0)) /\ v[1] > 0
           /\ VersionFits("SunPro", v) => Fits(v, <<9, 9, 9>>) \/ (Fits(v, <<9, 99, 9>>) /\ v[1] >= 5)
           /\ VersionFits("HP", v) => v = <<>> \/ Fits(v, <<9999, 99, 99>>)
           /\ VersionFits("Compaq", v) => Fits(v, <<99, 99, 9999>>)
           /\ VersionFits("ARMClang", v) => Fits(v, <<99, 99, 9999>>)
           /\ VersionFits("zOS", v) => Fits(v, <<9999, 9, 9>>)
           /\ VersionFits("GHS", v) => Fits(v, <<9999, 9, 9>>)
           /\ VersionFits("XL", v) => Fits(v, <<9999, 9, 9>>) /\ v[1] >= 8
           /\ VersionFits("VisualAge", v) => Fits(v, <<7, 9, 9>>)
           /\ VersionFits("XLClang", v) => Fits(v, <<Largest, Largest, Largest, Largest>>)
           /\ VersionFits("AppleClang", v) => Fits(v, <<Largest, Largest, Largest, Largest>>)
           /\ VersionFits("Cray", v) => Fits(v, <<Largest, Largest>>)
           /\ VersionFits("TI", v) => Fits(v, <<99, 999, 999>>)
           /\ VersionFits("Fujitsu", v) => FujitsuFits(v)
           /\ VersionFits("TinyCC", v) => v = <<>>
           /\ VersionFits("Bruce", v) => v = <<>>
           /\ VersionFits("SCO", v) => v = <<>>
           /\ VersionFits("ARMCC", v) => Fits(v, <<99, 99, 9999>>) /\ v[1] > 0
           /\ VersionFits("MSVC", v) => MSVCFits(v)
           /\ VersionFits("ADSP", v) => Fits(v, <<99, 99, 99>>)
           /\ VersionFits("IAR", v) => Fits(v, <<6, 99, Largest>>) \/ (Fits(v, <<99, 999, 999>>) /\ v[1] > 6)
           /\ VersionFits("SDCC", v) =>
                  Fits(v, <<2, 9, 9>>) \/ (Fits(v, <<Largest, Largest, Largest>>) /\ v[1] >= 3)
           /\ VersionFits("PathScale", v) => Fits(v, <<Largest, Largest, Largest>>)
           /\ VersionFits("NVHPC", v) => Fits(v, <<Largest, Largest, Largest>>)
           /\ VersionFits("PGI", v) => Fits(v, <<Largest, Largest, Largest>>)
           /\ VersionFits("FujitsuClang", v) => Fits(v, <<Largest, Largest, Largest>>)
           /\ VersionFits("Clang", v) => Fits(v, <<Largest, Largest, Largest>>)
           /\ VersionFits("GNU", v) => Fits(v, <<Largest, Largest, Largest>>)
  BY SMT DEF VersionFits

(* The macros whose presence a probe asks for before reading a version. *)
Optional ==
    {"__INTEL_COMPILER_UPDATE", "__INTEL_COMPILER_BUILD_DATE", "__FCC_version__", "_MSC_FULL_VER",
     "_MSC_BUILD", "__SDCC_VERSION_MAJOR", "__HP_cc", "__HP_aCC"}

(* What m has to do with the version v of a vendor, whatever else is defined:
   the vendor's macros have their values, and those of them that the probe asks
   for are defined only if they are the vendor's. *)
Carries(m, vendor, v, l) ==
    /\ \A x \in DOMAIN OwnMacros(vendor, v, l) : x \in DOMAIN m /\ m[x] = OwnMacros(vendor, v, l)[x]
    /\ \A x \in Optional : x \in DOMAIN m => x \in DOMAIN OwnMacros(vendor, v, l)
    /\ vendor = "IAR" => /\ "__ICCARM__" \in DOMAIN m <=> v[1] > 6
                         /\ DOMAIN m \cap IARSmall = {} <=> v[1] > 6

(* A version with room in DEC for each component. *)
LEMMA FitsBelow ==
    ASSUME NEW v, NEW tops, Fits(v, tops), \A i \in 1 .. Len(tops) : tops[i] = Largest
    PROVE  v \in Seq(Nat) /\ Len(v) = Len(tops) /\ \A i \in 1 .. Len(v) : v[i] =< Largest
  BY Zenon DEF Fits

(* Vendors with a macro for each component of the version. *)
Components == {"PathScale", "XLClang", "NVHPC", "PGI", "Cray", "FujitsuClang", "Fujitsu",
    "AppleClang", "Clang", "GNU"}

(* Their versions have as many components as there are macros. *)
LEMMA ComponentsFit ==
    ASSUME NEW vendor \in Components, NEW v, VersionFits(vendor, v), vendor = "Fujitsu" => v[1] >= 4
    PROVE  /\ v \in Seq(Nat) /\ Len(v) = Len(ComponentsMacros[vendor])
           /\ \A i \in 1 .. Len(v) : v[i] =< Largest
  <1> DEFINE two == <<Largest, Largest>>
             three == <<Largest, Largest, Largest>>
             four == <<Largest, Largest, Largest, Largest>>
  <1>1. /\ Len(two) = 2 /\ \A i \in 1 .. Len(two) : two[i] = Largest
        /\ Len(three) = 3 /\ \A i \in 1 .. Len(three) : three[i] = Largest
        /\ Len(four) = 4 /\ \A i \in 1 .. Len(four) : four[i] = Largest
    BY SMT
  <1>2. /\ vendor \in {"XLClang", "AppleClang"} => Fits(v, four)
        /\ vendor = "Cray" => Fits(v, two)
    <2>1. VersionFits("XLClang", v) => Fits(v, four)
      BY SMT DEF VersionFits
    <2>2. VersionFits("AppleClang", v) => Fits(v, four)
      BY SMT DEF VersionFits
    <2>3. VersionFits("Cray", v) => Fits(v, two)
      BY SMT DEF VersionFits
    <2> HIDE DEF four, two
    <2> QED
      BY <2>1, <2>2, <2>3, SMT
  <1>5. /\ vendor \in {"XLClang", "AppleClang"} => Len(ComponentsMacros[vendor]) = 4
        /\ vendor = "Cray" => Len(ComponentsMacros[vendor]) = 2
        /\ vendor \notin {"XLClang", "AppleClang", "Cray"} => Len(ComponentsMacros[vendor]) = 3
    BY SMT DEF ComponentsMacros, Components
  <1>3. vendor \notin {"XLClang", "AppleClang", "Cray", "Fujitsu"} => Fits(v, three)
    BY Room, SMT DEF Components
  <1>4. vendor = "Fujitsu" => Fits(v, three)
    <2>1. Fits(v, three) => v \in Seq(Nat) /\ Len(v) = 3
      BY <1>1, SMT DEF Fits
    <2> SUFFICES ASSUME vendor = "Fujitsu" PROVE Fits(v, three)
      OBVIOUS
    <2>2. FujitsuFits(v) /\ v[1] >= 4
      BY Room, SMT
    <2>3. ASSUME v \in Seq(Nat), v # <<>>, v[1] < 4
          PROVE  FALSE
      <3>1. v[1] \in Nat
        BY <2>3, SMT
      <3> QED
        BY <2>2, <2>3, <3>1, SMT
    <2> QED
      BY <2>2, <2>3 DEF FujitsuFits
  <1> HIDE DEF two, three, four
  <1> QED
    BY <1>1, <1>2, <1>3, <1>4, <1>5, FitsBelow, SMT

(* Their macros have the components as their values. *)
LEMMA ComponentsOwn ==
    ASSUME NEW vendor \in Components, NEW v, NEW l \in Languages, vendor = "Fujitsu" => ~(v[1] < 4)
    PROVE  \A i \in 1 .. Len(ComponentsMacros[vendor]) :
             /\ ComponentsMacros[vendor][i] \in DOMAIN OwnMacros(vendor, v, l)
             /\ OwnMacros(vendor, v, l)[ComponentsMacros[vendor][i]] = v[i]
  <1> DEFINE Own(name) == \A i \in 1 .. Len(ComponentsMacros[name]) :
             /\ ComponentsMacros[name][i] \in DOMAIN OwnMacros(name, v, l)
             /\ OwnMacros(name, v, l)[ComponentsMacros[name][i]] = v[i]
  <1>1. /\ Own("PathScale") /\ Own("XLClang") /\ Own("NVHPC") /\ Own("PGI")  /\ Own("Cray")
    BY SMT DEF ComponentsMacros, OwnMacros
  <1>2. Own("FujitsuClang")
    BY SMT DEF ComponentsMacros, OwnMacros
  <1>3. Own("AppleClang") /\ Own("Clang") /\ Own("GNU")
    BY SMT DEF ComponentsMacros, OwnMacros, ClangMacros, GNUMacros, ++
  <1>4. ~(v[1] < 4) => Own("Fujitsu")
    BY SMT DEF ComponentsMacros, OwnMacros, FujitsuMacros
  <1> HIDE DEF Own
  <1>5. Own(vendor)
    BY <1>1, <1>2, <1>3, <1>4, SMT DEF Components
  <1> QED
    BY <1>5 DEF Own

(* Their versions are read back. *)
LEMMA ComponentsRead ==
    ASSUME NEW vendor \in Components, NEW v, VersionFits(vendor, v), vendor = "Fujitsu" => v[1] >= 4,
           NEW l \in Languages, NEW m, Carries(m, vendor, v, l)
    PROVE  Version(vendor, m, l) = v
  <1> DEFINE macros == ComponentsMacros[vendor]
             own == OwnMacros(vendor, v, l)
  <1>1. v \in Seq(Nat) /\ Len(v) = Len(macros) /\ \A i \in 1 .. Len(v) : v[i] =< Largest
    BY ComponentsFit, Zenon
  <1>2. vendor = "Fujitsu" => ~(v[1] < 4)
    <2>1. vendor = "Fujitsu" => Len(macros) = 3
      BY SMT DEF ComponentsMacros
    <2>2. vendor = "Fujitsu" => v[1] \in Nat
      BY <1>1, <2>1, SMT
    <2> QED
      BY <2>2, SMT
  <1>3. \A i \in 1 .. Len(macros) : macros[i] \in DOMAIN own /\ own[macros[i]] = v[i]
    BY <1>2, ComponentsOwn, SMTT(60)
  <1>4. \A x \in DOMAIN own : x \in DOMAIN m /\ m[x] = own[x]
    BY Zenon DEF Carries
  <1>5. Numbers(Given(m, macros)) = v
    <2> HIDE DEF macros, own
    <2>1. \A i \in 1 .. Len(v) : macros[i] \in DOMAIN m /\ m[macros[i]] = v[i] /\ v[i] =< Largest
      BY <1>1, <1>3, <1>4, Zenon
    <2> QED
      BY <1>1, <2>1, ReadGiven, Zenon
  <1>6. vendor = "Fujitsu" => "__FCC_version__" \notin DOMAIN m
    <2>1. vendor = "Fujitsu" => "__FCC_version__" \notin DOMAIN OwnMacros("Fujitsu", v, l)
      BY <1>2, SMT DEF OwnMacros, FujitsuMacros
    <2> QED
      BY <2>1, SMT DEF Carries, Optional
  <1> DEFINE Literals(name) == VersionLiterals(name, m, l) = Given(m, ComponentsMacros[name])
  <1>7. /\ Literals("PathScale") /\ Literals("XLClang") /\ Literals("NVHPC") /\ Literals("PGI")
        /\ Literals("Cray") /\ Literals("FujitsuClang") /\ Literals("Fujitsu") /\ Literals("AppleClang")
        /\ Literals("Clang") /\ Literals("GNU")
    BY SMT DEF VersionLiterals, ComponentsMacros
  <1>8. Literals(vendor)
    <2> HIDE DEF Literals
    <2> QED
      BY <1>7, SMT DEF Components
  <1> QED
    BY <1>5, <1>6, <1>8, Zenon DEF Version, Defined

(* DEC literals of the components of a version that fits. *)
LEMMA FitsTwo ==
    ASSUME NEW v, NEW a \in Nat, NEW b \in Nat, a =< Largest, b =< Largest, Fits(v, <<a, b>>)
    PROVE  /\ v[1] \in Nat /\ v[1] =< a /\ v[2] \in Nat /\ v[2] =< b
           /\ Numbers(<<Dec(v[1]), Dec(v[2])>>) = v
  <1>1. v \in Seq(Nat) /\ Len(v) = 2 /\ v[1] \in Nat /\ v[1] =< a /\ v[2] \in Nat /\ v[2] =< b
    BY Fits2
  <1>2. Number(Dec(v[1])) = v[1] /\ Number(Dec(v[2])) = v[2]
    <2>1. Largest \in Nat
      BY SMT DEF Largest
    <2> DEFINE x == v[1]
               y == v[2]
    <2>2. x \in Nat /\ x =< a /\ y \in Nat /\ y =< b
      BY <1>1
    <2> HIDE DEF x, y
    <2>3. x =< Largest /\ y =< Largest
      BY <2>1, <2>2, SMT
    <2>4. Number(Dec(x)) = x /\ Number(Dec(y)) = y
      BY <2>2, <2>3, DecRead, Zenon
    <2> QED
      BY <2>4 DEF x, y
  <1> QED
    BY <1>1, <1>2, Read2, Zenon

LEMMA FitsThree ==
    ASSUME NEW v, NEW a \in Nat, NEW b \in Nat, NEW c \in Nat,
           a =< Largest, b =< Largest, c =< Largest, Fits(v, <<a, b, c>>)
    PROVE  /\ v[1] \in Nat /\ v[1] =< a /\ v[2] \in Nat /\ v[2] =< b /\ v[3] \in Nat /\ v[3] =< c
           /\ Numbers(<<Dec(v[1]), Dec(v[2]), Dec(v[3])>>) = v
  <1>1. /\ v \in Seq(Nat) /\ Len(v) = 3
        /\ v[1] \in Nat /\ v[1] =< a /\ v[2] \in Nat /\ v[2] =< b /\ v[3] \in Nat /\ v[3] =< c
    BY Fits3
  <1>2. Number(Dec(v[1])) = v[1] /\ Number(Dec(v[2])) = v[2] /\ Number(Dec(v[3])) = v[3]
    <2>1. Largest \in Nat
      BY SMT DEF Largest
    <2> DEFINE x == v[1]
               y == v[2]
               z == v[3]
    <2>2. x \in Nat /\ x =< a /\ y \in Nat /\ y =< b /\ z \in Nat /\ z =< c
      BY <1>1
    <2> HIDE DEF x, y, z
    <2>3. x =< Largest /\ y =< Largest /\ z =< Largest
      BY <2>1, <2>2, SMT
    <2>4. Number(Dec(x)) = x /\ Number(Dec(y)) = y /\ Number(Dec(z)) = z
      BY <2>2, <2>3, DecRead, Zenon
    <2> QED
      BY <2>4 DEF x, y, z
  <1> QED
    BY <1>1, <1>2, Read3, Zenon

(* The versions packed as VRP are read back. *)
LEMMA Packed3 ==
    ASSUME NEW vendor \in {"GHS", "zOS", "XL", "VisualAge"}, NEW v, VersionFits(vendor, v),
           NEW l \in Languages, NEW m, Carries(m, vendor, v, l)
    PROVE  Version(vendor, m, l) = v
  <1>1. \/ Fits(v, <<9999, 9, 9>>)
        \/ Fits(v, <<7, 9, 9>>)
    BY Room, SMT
  <1>2. v[1] \in Nat /\ v[2] \in Nat /\ v[2] =< 9 /\ v[3] \in Nat /\ v[3] =< 9
        /\ Numbers(<<Dec(v[1]), Dec(v[2]), Dec(v[3])>>) = v
    BY <1>1, FitsThree, SMT DEF Largest
  <1>3. VRP(Vrp(v[1], v[2], v[3])) = <<Dec(v[1]), Dec(v[2]), Dec(v[3])>>
    BY <1>2, UnpackVrp
  <1> DEFINE own(name) == OwnMacros(name, v, l)
             n == Vrp(v[1], v[2], v[3])
             ibm == Spelling("__IBMC__", l)
  <1>4. /\ "__GHS_VERSION_NUMBER" \in DOMAIN own("GHS") /\ own("GHS")["__GHS_VERSION_NUMBER"] = n
        /\ ibm \in DOMAIN own("zOS") /\ own("zOS")[ibm] = n
        /\ ibm \in DOMAIN own("XL") /\ own("XL")[ibm] = n
        /\ ibm \in DOMAIN own("VisualAge") /\ own("VisualAge")[ibm] = n
    BY SMT DEF OwnMacros, Macro, Flags, ++
  <1>5. IF vendor = "GHS" THEN "__GHS_VERSION_NUMBER" \in DOMAIN m /\ m["__GHS_VERSION_NUMBER"] = n
        ELSE ibm \in DOMAIN m /\ m[ibm] = n
    <2> HIDE DEF n, ibm
    <2> QED
    BY <1>4, SMT DEF Carries
  <1> DEFINE Literals(name) == Version(name, m, l) = Numbers(VersionLiterals(name, m, l))
  <1>6. Literals("GHS") /\ Literals("zOS") /\ Literals("XL") /\ Literals("VisualAge")
    BY SMT DEF Version
  <1>7. /\ Defined(m, "__GHS_VERSION_NUMBER") => VersionLiterals("GHS", m, l) = VRP(m["__GHS_VERSION_NUMBER"])
        /\ VersionLiterals("zOS", m, l) = VRP(m[ibm])
        /\ VersionLiterals("XL", m, l) = VRP(m[ibm])
        /\ VersionLiterals("VisualAge", m, l) = VRP(m[ibm])
    BY SMT DEF VersionLiterals, ComponentsMacros
  <1>8. Version(vendor, m, l) = Numbers(VRP(n))
    <2> HIDE DEF n, ibm
    <2> QED
      BY <1>5, <1>6, <1>7, SMT DEF Defined
  <1> QED
    BY <1>2, <1>3, <1>8

(* The value of each vendor's macro, as it was packed. *)
LEMMA Carried ==
    ASSUME NEW v, NEW l \in Languages, NEW m
    PROVE  LET Has(x, n) == x \in DOMAIN m /\ m[x] = n IN
      /\ Carries(m, "Comeau", v, l) => Has("__COMO_VERSION__", Vrr(v[1], v[2]))
      /\ Carries(m, "IntelLLVM", v, l) =>
           Has("__INTEL_LLVM_COMPILER", IntelLLVMNumber(v[1], v[2], v[3]))
      /\ Carries(m, "Embarcadero", v, l) => Has("__CODEGEARC_VERSION__", BcdBytes(v[1], v[2]) + v[3])
      /\ Carries(m, "Borland", v, l) => Has("__BORLANDC__", Bcd(v[1]) * 256 + Bcd(v[2]))
      /\ Carries(m, "Watcom", v, l) => Has("__WATCOMC__", WatcomNumber(v))
      /\ Carries(m, "OpenWatcom", v, l) => Has("__WATCOMC__", 1100 + WatcomNumber(v))
      /\ Carries(m, "HP", v, l) /\ v # <<>> => Has(Spelling("__HP_cc", l), Vvrrpp(v[1], v[2], v[3]))
      /\ Carries(m, "Compaq", v, l) =>
           Has(Spelling("__DECC_VER", l), DecVer(v[1], v[2], v[3]))
      /\ Carries(m, "TI", v, l) => Has("__TI_COMPILER_VERSION__", Vvvrrrppp(v[1], v[2], v[3]))
      /\ Carries(m, "ARMCC", v, l) =>
           Has("__ARMCC_VERSION", ARMCCNumber(v[1], v[2], v[3]))
      /\ Carries(m, "ARMClang", v, l) => Has("__ARMCOMPILER_VERSION", Vrrpppp(v[1], v[2], v[3]))
      /\ Carries(m, "ADSP", v, l) =>
           Has("__VISUALDSPVERSION__", BcdBytes(v[1], v[2]) + Bcd(v[3]) * 256)
      /\ Carries(m, "IAR", v, l) /\ v[1] > 6 => Has("__VER__", Vvvrrrppp(v[1], v[2], v[3]))
      /\ Carries(m, "IAR", v, l) /\ ~(v[1] > 6) =>
           Has("__VER__", Vrr(v[1], v[2])) /\ Has("__SUBVERSION__", v[3])
      /\ Carries(m, "SDCC", v, l) /\ v[1] < 3 =>
           Has("SDCC", Vrp(v[1], v[2], v[3])) /\ "__SDCC_VERSION_MAJOR" \notin DOMAIN m
      /\ Carries(m, "SDCC", v, l) /\ ~(v[1] < 3) =>
           /\ Has("__SDCC_VERSION_MAJOR", v[1]) /\ Has("__SDCC_VERSION_MINOR", v[2])
           /\ Has("__SDCC_VERSION_PATCH", v[3])
      /\ Carries(m, "HP", v, l) /\ v = <<>> => Spelling("__HP_cc", l) \notin DOMAIN m
  <1> DEFINE Own(vendor, x, n) ==
        x \in DOMAIN OwnMacros(vendor, v, l) /\ OwnMacros(vendor, v, l)[x] = n
  <1>1. /\ Own("Comeau", "__COMO_VERSION__", Vrr(v[1], v[2]))
        /\ Own("IntelLLVM", "__INTEL_LLVM_COMPILER",
               IntelLLVMNumber(v[1], v[2], v[3]))
        /\ Own("Embarcadero", "__CODEGEARC_VERSION__", BcdBytes(v[1], v[2]) + v[3])
        /\ Own("Borland", "__BORLANDC__", Bcd(v[1]) * 256 + Bcd(v[2]))
        /\ Own("Watcom", "__WATCOMC__", WatcomNumber(v))
        /\ Own("OpenWatcom", "__WATCOMC__", 1100 + WatcomNumber(v))
    BY SMT DEF OwnMacros
  <1>2. /\ v # <<>> => Own("HP", Spelling("__HP_cc", l), Vvrrpp(v[1], v[2], v[3]))
        /\ Own("TI", "__TI_COMPILER_VERSION__", Vvvrrrppp(v[1], v[2], v[3]))
    BY SMT DEF OwnMacros, Macro
  <1>3. Own("Compaq", Spelling("__DECC_VER", l), DecVer(v[1], v[2], v[3]))
    BY SMT DEF OwnMacros, Macro, ++, Spelling, Languages
  <1>4. /\ Own("ARMCC", "__ARMCC_VERSION",
               ARMCCNumber(v[1], v[2], v[3]))
        /\ Own("ARMClang", "__ARMCOMPILER_VERSION", Vrrpppp(v[1], v[2], v[3]))
        /\ Own("ADSP", "__VISUALDSPVERSION__", BcdBytes(v[1], v[2]) + Bcd(v[3]) * 256)
    BY SMT DEF OwnMacros
  <1>5. /\ v[1] > 6 => Own("IAR", "__VER__", Vvvrrrppp(v[1], v[2], v[3]))
        /\ ~(v[1] > 6) => Own("IAR", "__VER__", Vrr(v[1], v[2])) /\ Own("IAR", "__SUBVERSION__", v[3])
    BY SMT DEF OwnMacros, IARMacros
  <1>6. /\ v[1] < 3 => Own("SDCC", "SDCC", Vrp(v[1], v[2], v[3]))
        /\ v[1] < 3 => "__SDCC_VERSION_MAJOR" \notin DOMAIN OwnMacros("SDCC", v, l)
        /\ ~(v[1] < 3) => /\ Own("SDCC", "__SDCC_VERSION_MAJOR", v[1])
                          /\ Own("SDCC", "__SDCC_VERSION_MINOR", v[2])
                          /\ Own("SDCC", "__SDCC_VERSION_PATCH", v[3])
        /\ v = <<>> => Spelling("__HP_cc", l) \notin DOMAIN OwnMacros("HP", v, l)
    BY SMT DEF OwnMacros, Flags, Spelling, Languages
  <1>7. ASSUME NEW vendor, NEW x, NEW n, Own(vendor, x, n), Carries(m, vendor, v, l)
        PROVE  x \in DOMAIN m /\ m[x] = n
    BY <1>7, Zenon DEF Carries
  <1>8. ASSUME NEW vendor, NEW x \in Optional, x \notin DOMAIN OwnMacros(vendor, v, l),
                   Carries(m, vendor, v, l)
        PROVE  x \notin DOMAIN m
    BY <1>8, Zenon DEF Carries
  <1>9. Spelling("__HP_cc", l) \in Optional /\ "__SDCC_VERSION_MAJOR" \in Optional
    BY SMT DEF Optional, Spelling, Languages
  <1> HIDE DEF Own
  <1> QED
    BY <1>1, <1>2, <1>3, <1>4, <1>5, <1>6, <1>7, <1>8, <1>9, SMT

(* VersionLiterals, vendor by vendor. *)
LEMMA LiteralsOf ==
    ASSUME NEW m, NEW l \in Languages
    PROVE  LET Written(id) == VersionLiterals(id, m, l)
               N(x) == m[Spelling(x, l)] IN
      /\ Written("Comeau") = <<Dec(m["__COMO_VERSION__"] \div 100), Dec(m["__COMO_VERSION__"] % 100)>>
      /\ Written("Intel") = IntelVersion(m)
      /\ Written("IntelLLVM") = IntelLLVMVersion(m)
      /\ Written("Embarcadero") =
           EmbarcaderoVersion(m["__CODEGEARC_VERSION__"])
      /\ Written("Borland") = <<Hex(m["__BORLANDC__"] \div 256), Hex(m["__BORLANDC__"] % 256)>>
      /\ Written("Watcom") = WatcomVersion(m["__WATCOMC__"], 0)
      /\ Written("OpenWatcom") = WatcomVersion(m["__WATCOMC__"], 1100)
      /\ Written("SunPro") = SunProVersion(N("__SUNPRO_C"))
      /\ Written("HP") = IF Spelling("__HP_cc", l) \in DOMAIN m THEN VVRRPP(N("__HP_cc")) ELSE <<>>
      /\ Written("Compaq") =
           VVRRTPPPP(N("__DECC_VER"))
      /\ Written("TI") = VVVRRRPPP(m["__TI_COMPILER_VERSION__"])
      /\ Written("TinyCC") = <<>> /\ Written("Bruce") = <<>> /\ Written("SCO") = <<>>
      /\ Written("ARMCC") = ARMCCVersion(m["__ARMCC_VERSION"])
      /\ Written("ARMClang") = VRRPPPP(m["__ARMCOMPILER_VERSION"])
      /\ Written("MSVC") = MSVCVersion(m)
      /\ "__VISUALDSPVERSION__" \in DOMAIN m =>
           Written("ADSP") = ADSPVersion(m["__VISUALDSPVERSION__"])
      /\ "__VER__" \in DOMAIN m => Written("IAR") = IARVersion(m)
      /\ Written("SDCC") =
           IF "__SDCC_VERSION_MAJOR" \in DOMAIN m
           THEN Given(m, <<"__SDCC_VERSION_MAJOR", "__SDCC_VERSION_MINOR", "__SDCC_VERSION_PATCH">>)
           ELSE VRP(m["SDCC"])
  BY SMT DEF VersionLiterals, ComponentsMacros, Defined

(* Only Fujitsu's version is a string. *)
LEMMA VersionIsNumbers ==
    ASSUME NEW id, id # "Fujitsu", NEW m, NEW l
    PROVE  Version(id, m, l) = Numbers(VersionLiterals(id, m, l))
  BY DEF Version

(* No literals, no version. *)
LEMMA Nothing ==
    Numbers(<<>>) = <<>>
  BY SMT DEF Numbers

(* Vendor by vendor, the version a probe reads is the compiler's. *)
LEMMA ComeauRead ==
    ASSUME NEW v, VersionFits("Comeau", v), NEW l \in Languages, NEW m, Carries(m, "Comeau", v, l)
    PROVE  Version("Comeau", m, l) = v
  <1> DEFINE n == Vrr(v[1], v[2])
  <1>1. Fits(v, <<9999, 99>>)
    BY Room, SMT
  <1>2. v[1] \in Nat /\ v[2] \in Nat /\ v[2] =< 99 /\ Numbers(<<Dec(v[1]), Dec(v[2])>>) = v
    BY <1>1, FitsTwo, SMT DEF Largest
  <1>3. n \div 100 = v[1] /\ n % 100 = v[2]
    BY <1>2, UnpackVrr
  <1>4. m["__COMO_VERSION__"] = n
    BY Carried, SMT
  <1>5. Version("Comeau", m, l) =
          Numbers(<<Dec(m["__COMO_VERSION__"] \div 100), Dec(m["__COMO_VERSION__"] % 100)>>)
    <2>1. VersionLiterals("Comeau", m, l) =
            <<Dec(m["__COMO_VERSION__"] \div 100), Dec(m["__COMO_VERSION__"] % 100)>>
      BY LiteralsOf, SMT
    <2> QED
      BY <2>1, VersionIsNumbers, SMT
  <1> HIDE DEF n
  <1> QED
    BY <1>2, <1>3, <1>4, <1>5

LEMMA IntelLLVMRead ==
    ASSUME NEW v, VersionFits("IntelLLVM", v), NEW l \in Languages, NEW m, Carries(m, "IntelLLVM", v, l)
    PROVE  Version("IntelLLVM", m, l) = v
  <1>1. Fits(v, <<9999, 99, 99>>) /\ v[1] >= 2021 /\ (v[1] = 2021 /\ v[2] < 2 => v[3] =< 9)
    BY Room, SMT DEF IntelLLVMFits
  <1>2. /\ v[1] \in Nat /\ v[2] \in Nat /\ v[3] \in Nat /\ v[2] =< 99 /\ v[3] =< 99 /\ v[1] =< 9999
        /\ Numbers(<<Dec(v[1]), Dec(v[2]), Dec(v[3])>>) = v
    BY <1>1, FitsThree, SMT DEF Largest
  <1>3. Version("IntelLLVM", m, l) = Numbers(IntelLLVMVersion(m))
    BY LiteralsOf, VersionIsNumbers, SMT
  <1>4. m["__INTEL_LLVM_COMPILER"] = IntelLLVMNumber(v[1], v[2], v[3])
    BY Carried, SMT
  <1>5. IntelLLVMVersion(m) = <<Dec(v[1]), Dec(v[2]), Dec(v[3])>>
    BY <1>1, <1>2, <1>4, UnpackIntelLLVM, SMT
  <1> QED
    BY <1>2, <1>3, <1>5

LEMMA CompaqRead ==
    ASSUME NEW v, VersionFits("Compaq", v), NEW l \in Languages, NEW m, Carries(m, "Compaq", v, l)
    PROVE  Version("Compaq", m, l) = v
  <1> DEFINE n == DecVer(v[1], v[2], v[3])
  <1>1. Fits(v, <<99, 99, 9999>>)
    BY Room, SMT
  <1>2. v[1] \in Nat /\ v[1] =< 99 /\ v[2] \in Nat /\ v[2] =< 99 /\ v[3] \in Nat /\ v[3] =< 9999
        /\ Numbers(<<Dec(v[1]), Dec(v[2]), Dec(v[3])>>) = v
    BY <1>1, FitsThree, SMT DEF Largest
  <1>3. VVRRTPPPP(n) = <<Dec(v[1]), Dec(v[2]), Dec(v[3])>>
    <2> DEFINE a == v[1]
               b == v[2]
               c == v[3]
    <2>1. a \in Nat /\ a =< 99 /\ b \in Nat /\ b =< 99 /\ c \in Nat /\ c =< 9999
      BY <1>1, <1>2
    <2> HIDE DEF a, b, c
    <2>2. VVRRTPPPP(DecVer(a, b, c)) = <<Dec(a), Dec(b), Dec(c)>>
      BY <2>1, UnpackDec, SMT
    <2> QED
      BY <2>2 DEF a, b, c
  <1>4. Spelling("__DECC_VER", l) \in DOMAIN m /\ m[Spelling("__DECC_VER", l)] = n
    BY Carried, SMT
  <1>5. VersionLiterals("Compaq", m, l) = VVRRTPPPP(m[Spelling("__DECC_VER", l)])
    BY <1>4, LiteralsOf, SMT
  <1> HIDE DEF n
  <1> QED
    BY <1>2, <1>3, <1>4, <1>5, VersionIsNumbers, SMT

LEMMA TIRead ==
    ASSUME NEW v, VersionFits("TI", v), NEW l \in Languages, NEW m, Carries(m, "TI", v, l)
    PROVE  Version("TI", m, l) = v
  <1> DEFINE n == Vvvrrrppp(v[1], v[2], v[3])
  <1>1. Fits(v, <<99, 999, 999>>)
    BY Room, SMT
  <1>2. v[1] \in Nat /\ v[1] =< 99 /\ v[2] \in Nat /\ v[2] =< 999 /\ v[3] \in Nat /\ v[3] =< 999
        /\ Numbers(<<Dec(v[1]), Dec(v[2]), Dec(v[3])>>) = v
    BY <1>1, FitsThree, SMT DEF Largest
  <1>3. VVVRRRPPP(n) = <<Dec(v[1]), Dec(v[2]), Dec(v[3])>>
    <2> DEFINE a == v[1]
               b == v[2]
               c == v[3]
    <2>1. a \in Nat /\ a =< 99 /\ b \in Nat /\ b =< 999 /\ c \in Nat /\ c =< 999
      BY <1>1, <1>2
    <2> HIDE DEF a, b, c
    <2>2. VVVRRRPPP(Vvvrrrppp(a, b, c)) = <<Dec(a), Dec(b), Dec(c)>>
      BY <2>1, UnpackVvvrrrppp, SMT
    <2> QED
      BY <2>2 DEF a, b, c
  <1>4. "__TI_COMPILER_VERSION__" \in DOMAIN m /\ m["__TI_COMPILER_VERSION__"] = n
    BY Carried, SMT
  <1>5. VersionLiterals("TI", m, l) = VVVRRRPPP(m["__TI_COMPILER_VERSION__"])
    BY <1>4, LiteralsOf, SMT
  <1> HIDE DEF n
  <1> QED
    BY <1>2, <1>3, <1>4, <1>5, VersionIsNumbers, SMT

LEMMA ARMCCRead ==
    ASSUME NEW v, VersionFits("ARMCC", v), NEW l \in Languages, NEW m, Carries(m, "ARMCC", v, l)
    PROVE  Version("ARMCC", m, l) = v
  <1> DEFINE n == ARMCCNumber(v[1], v[2], v[3])
  <1>1. Fits(v, <<99, 99, 9999>>) /\ v[1] > 0
    BY Room, SMT
  <1>2. v[1] \in Nat /\ v[1] =< 99 /\ v[2] \in Nat /\ v[2] =< 99 /\ v[3] \in Nat /\ v[3] =< 9999
        /\ Numbers(<<Dec(v[1]), Dec(v[2]), Dec(v[3])>>) = v
    BY <1>1, FitsThree, SMT DEF Largest
  <1>3. ARMCCVersion(n) = <<Dec(v[1]), Dec(v[2]), Dec(v[3])>>
    <2> DEFINE a == v[1]
               b == v[2]
               c == v[3]
    <2>1. a \in Nat /\ a =< 99 /\ b \in Nat /\ b =< 99 /\ c \in Nat /\ c =< 9999 /\ a > 0
      BY <1>1, <1>2
    <2> HIDE DEF a, b, c
    <2>2. ARMCCVersion(ARMCCNumber(a, b, c)) = <<Dec(a), Dec(b), Dec(c)>>
      BY <2>1, UnpackARMCC, SMT
    <2> QED
      BY <2>2 DEF a, b, c
  <1>4. "__ARMCC_VERSION" \in DOMAIN m /\ m["__ARMCC_VERSION"] = n
    BY Carried, SMT
  <1>5. VersionLiterals("ARMCC", m, l) = ARMCCVersion(m["__ARMCC_VERSION"])
    BY <1>4, LiteralsOf, SMT
  <1> HIDE DEF n
  <1> QED
    BY <1>2, <1>3, <1>4, <1>5, VersionIsNumbers, SMT

LEMMA ARMClangRead ==
    ASSUME NEW v, VersionFits("ARMClang", v), NEW l \in Languages, NEW m, Carries(m, "ARMClang", v, l)
    PROVE  Version("ARMClang", m, l) = v
  <1> DEFINE n == Vrrpppp(v[1], v[2], v[3])
  <1>1. Fits(v, <<99, 99, 9999>>)
    BY Room, SMT
  <1>2. v[1] \in Nat /\ v[1] =< 99 /\ v[2] \in Nat /\ v[2] =< 99 /\ v[3] \in Nat /\ v[3] =< 9999
        /\ Numbers(<<Dec(v[1]), Dec(v[2]), Dec(v[3])>>) = v
    BY <1>1, FitsThree, SMT DEF Largest
  <1>3. VRRPPPP(n) = <<Dec(v[1]), Dec(v[2]), Dec(v[3])>>
    <2> DEFINE a == v[1]
               b == v[2]
               c == v[3]
    <2>1. a \in Nat /\ a =< 99 /\ b \in Nat /\ b =< 99 /\ c \in Nat /\ c =< 9999
      BY <1>1, <1>2
    <2> HIDE DEF a, b, c
    <2>2. VRRPPPP(Vrrpppp(a, b, c)) = <<Dec(a), Dec(b), Dec(c)>>
      BY <2>1, UnpackVrrpppp, SMT
    <2> QED
      BY <2>2 DEF a, b, c
  <1>4. "__ARMCOMPILER_VERSION" \in DOMAIN m /\ m["__ARMCOMPILER_VERSION"] = n
    BY Carried, SMT
  <1>5. VersionLiterals("ARMClang", m, l) = VRRPPPP(m["__ARMCOMPILER_VERSION"])
    BY <1>4, LiteralsOf, SMT
  <1> HIDE DEF n
  <1> QED
    BY <1>2, <1>3, <1>4, <1>5, VersionIsNumbers, SMT

(* HP's compilers that tell their version. *)
LEMMA HPNamedRead ==
    ASSUME NEW v, VersionFits("HP", v), v # <<>>, NEW l \in Languages, NEW m, Carries(m, "HP", v, l)
    PROVE  Version("HP", m, l) = v
  <1> DEFINE n == Vvrrpp(v[1], v[2], v[3])
  <1>1. Fits(v, <<9999, 99, 99>>)
    BY Room, SMT
  <1>2. v[1] \in Nat /\ v[1] =< 9999 /\ v[2] \in Nat /\ v[2] =< 99 /\ v[3] \in Nat /\ v[3] =< 99
        /\ Numbers(<<Dec(v[1]), Dec(v[2]), Dec(v[3])>>) = v
    BY <1>1, FitsThree, SMT DEF Largest
  <1>3. VVRRPP(n) = <<Dec(v[1]), Dec(v[2]), Dec(v[3])>>
    <2> DEFINE a == v[1]
               b == v[2]
               c == v[3]
    <2>1. a \in Nat /\ a =< 9999 /\ b \in Nat /\ b =< 99 /\ c \in Nat /\ c =< 99
      BY <1>1, <1>2
    <2> HIDE DEF a, b, c
    <2>2. VVRRPP(Vvrrpp(a, b, c)) = <<Dec(a), Dec(b), Dec(c)>>
      BY <2>1, UnpackVvrrpp, SMT
    <2> QED
      BY <2>2 DEF a, b, c
  <1>4. Spelling("__HP_cc", l) \in DOMAIN m /\ m[Spelling("__HP_cc", l)] = n
    BY Carried, SMT
  <1>5. VersionLiterals("HP", m, l) = VVRRPP(m[Spelling("__HP_cc", l)])
    BY <1>4, LiteralsOf, SMT
  <1> HIDE DEF n
  <1> QED
    BY <1>2, <1>3, <1>4, <1>5, VersionIsNumbers, SMT

(* Those that do not, like three small vendors. *)
LEMMA SilentRead ==
    ASSUME NEW vendor \in {"TinyCC", "Bruce", "SCO", "HP"}, NEW l \in Languages, NEW m,
           Carries(m, vendor, <<>>, l)
    PROVE  Version(vendor, m, l) = <<>>
  <1>1. vendor = "HP" => Spelling("__HP_cc", l) \notin DOMAIN m
    BY Carried, SMT
  <1>2. VersionLiterals(vendor, m, l) = <<>>
    BY <1>1, LiteralsOf, SMT
  <1> QED
    BY <1>2, VersionIsNumbers, Nothing, SMT

LEMMA BorlandRead ==
    ASSUME NEW v, VersionFits("Borland", v), NEW l \in Languages, NEW m, Carries(m, "Borland", v, l)
    PROVE  Version("Borland", m, l) = v
  <1> DEFINE n == Bcd(v[1]) * 256 + Bcd(v[2])
  <1>1. Fits(v, <<99, 99>>)
    BY Room, SMT
  <1>2. v \in Seq(Nat) /\ Len(v) = 2 /\ v[1] \in Nat /\ v[1] =< 99 /\ v[2] \in Nat /\ v[2] =< 99
    BY <1>1, Fits2
  <1>3. n \div 256 = Bcd(v[1]) /\ n % 256 = Bcd(v[2])
    BY <1>2, UnpackBorland
  <1>4. m["__BORLANDC__"] = n
    BY Carried, SMT
  <1>5. VersionLiterals("Borland", m, l) = <<Hex(m["__BORLANDC__"] \div 256), Hex(m["__BORLANDC__"] % 256)>>
    BY LiteralsOf, SMT
  <1>6. Number(Hex(Bcd(v[1]))) = v[1] /\ Number(Hex(Bcd(v[2]))) = v[2]
    BY <1>2, HexReadsBack
  <1> HIDE DEF n
  <1>7. Numbers(<<Hex(n \div 256), Hex(n % 256)>>) = v
    BY <1>2, <1>3, <1>6, Read2
  <1>8. Version("Borland", m, l) = Numbers(VersionLiterals("Borland", m, l))
    BY VersionIsNumbers, SMT
  <1> QED
    BY <1>4, <1>5, <1>7, <1>8

LEMMA SunProRead ==
    ASSUME NEW v, VersionFits("SunPro", v), NEW l \in Languages, NEW m, Carries(m, "SunPro", v, l)
    PROVE  Version("SunPro", m, l) = v
  <1> DEFINE n == SunProNumber(v)
  <1>1. Fits(v, <<9, 9, 9>>) \/ (Fits(v, <<9, 99, 9>>) /\ v[1] >= 5)
    BY Room, SMT
  <1>2. /\ v \in Seq(Nat) /\ Len(v) = 3
        /\ v[1] \in Nat /\ v[1] =< 9 /\ v[2] \in Nat /\ v[2] =< 99 /\ v[3] \in Nat /\ v[3] =< 9
        /\ v[2] =< 9 \/ v[1] >= 5
    <2>1. CASE Fits(v, <<9, 9, 9>>)
      <3>1. /\ v \in Seq(Nat) /\ Len(v) = 3
            /\ v[1] \in Nat /\ v[1] =< 9 /\ v[2] \in Nat /\ v[2] =< 9 /\ v[3] \in Nat /\ v[3] =< 9
        BY <2>1, Fits3
      <3>2. v[2] =< 99
        BY <3>1, SMT
      <3> QED
        BY <3>1, <3>2
    <2>2. CASE Fits(v, <<9, 99, 9>>) /\ v[1] >= 5
      BY <2>2, Fits3
    <2> QED
      BY <1>1, <2>1, <2>2
  <1>3. SunProVersion(n) = <<Hex(Bcd(v[1])), Hex(Bcd(v[2])), Hex(Bcd(v[3]))>>
    <2>1. CASE v[2] < 10
      <3>1. n = SunPro3(v[1], v[2], v[3]) /\ v[2] =< 9
        BY <1>2, <2>1, SMT DEF SunProNumber
      <3> QED
        BY <1>2, <3>1, UnpackSunPro, SMTT(60)
    <2>2. CASE ~(v[2] < 10)
      <3>1. n = SunPro4(v[1], v[2], v[3]) /\ v[2] >= 10 /\ v[1] >= 5
        BY <1>2, <2>2, SMT DEF SunProNumber
      <3> QED
        BY <1>2, <3>1, UnpackSunPro, SMTT(60)
    <2> QED
      BY <2>1, <2>2
  <1>4. m[Spelling("__SUNPRO_C", l)] = n
    <2>1. /\ Spelling("__SUNPRO_C", l) \in DOMAIN OwnMacros("SunPro", v, l)
          /\ OwnMacros("SunPro", v, l)[Spelling("__SUNPRO_C", l)] = SunProNumber(v)
      BY SMT DEF OwnMacros, Macro
    <2> QED
      BY <2>1, Zenon DEF Carries
  <1>5. VersionLiterals("SunPro", m, l) = SunProVersion(m[Spelling("__SUNPRO_C", l)])
    BY LiteralsOf, SMT
  <1>6. Number(Hex(Bcd(v[1]))) = v[1] /\ Number(Hex(Bcd(v[2]))) = v[2] /\ Number(Hex(Bcd(v[3]))) = v[3]
    BY <1>2, HexReadsBack
  <1> HIDE DEF n
  <1>7. Numbers(SunProVersion(n)) = v
    BY <1>2, <1>3, <1>6, Read3
  <1>8. Version("SunPro", m, l) = Numbers(VersionLiterals("SunPro", m, l))
    BY VersionIsNumbers, SMT
  <1> QED
    BY <1>4, <1>5, <1>7, <1>8

LEMMA ADSPRead ==
    ASSUME NEW v, VersionFits("ADSP", v), NEW l \in Languages, NEW m, Carries(m, "ADSP", v, l)
    PROVE  Version("ADSP", m, l) = v
  <1> DEFINE n == BcdBytes(v[1], v[2]) + Bcd(v[3]) * 256
  <1>1. Fits(v, <<99, 99, 99>>)
    BY Room, SMT
  <1>2. /\ v \in Seq(Nat) /\ Len(v) = 3
        /\ v[1] \in Nat /\ v[1] =< 99 /\ v[2] \in Nat /\ v[2] =< 99 /\ v[3] \in Nat /\ v[3] =< 99
    BY <1>1, Fits3
  <1>3. ADSPVersion(n) = <<Hex(Bcd(v[1])), Hex(Bcd(v[2])), Hex(Bcd(v[3]))>>
    BY <1>2, UnpackThirdByte
  <1>4. "__VISUALDSPVERSION__" \in DOMAIN m /\ m["__VISUALDSPVERSION__"] = n
    BY Carried, SMT
  <1>5. VersionLiterals("ADSP", m, l) = ADSPVersion(m["__VISUALDSPVERSION__"])
    BY <1>4, LiteralsOf, SMT
  <1>6. Number(Hex(Bcd(v[1]))) = v[1] /\ Number(Hex(Bcd(v[2]))) = v[2] /\ Number(Hex(Bcd(v[3]))) = v[3]
    BY <1>2, HexReadsBack
  <1> HIDE DEF n
  <1>7. Numbers(ADSPVersion(n)) = v
    BY <1>2, <1>3, <1>6, Read3
  <1>8. Version("ADSP", m, l) = Numbers(VersionLiterals("ADSP", m, l))
    BY VersionIsNumbers, SMT
  <1> QED
    BY <1>4, <1>5, <1>7, <1>8

LEMMA EmbarcaderoRead ==
    ASSUME NEW v, VersionFits("Embarcadero", v), NEW l \in Languages, NEW m, Carries(m, "Embarcadero", v, l)
    PROVE  Version("Embarcadero", m, l) = v
  <1> DEFINE n == BcdBytes(v[1], v[2]) + v[3]
  <1>1. Fits(v, <<99, 99, 65535>>)
    BY Room, SMT
  <1>2. /\ v \in Seq(Nat) /\ Len(v) = 3
        /\ v[1] \in Nat /\ v[1] =< 99 /\ v[2] \in Nat /\ v[2] =< 99 /\ v[3] \in Nat /\ v[3] =< 65535
    BY <1>1, Fits3
  <1>3. v[3] < 65536 /\ v[3] =< Largest
    BY <1>2, SMT DEF Largest
  <1>4. EmbarcaderoVersion(n) = <<Hex(Bcd(v[1])), Hex(Bcd(v[2])), Dec(v[3])>>
    <2> DEFINE a == v[1]
               b == v[2]
               c == v[3]
    <2>1. a \in Nat /\ a =< 99 /\ b \in Nat /\ b =< 99 /\ c \in Nat /\ c < 65536
      BY <1>2, <1>3
    <2> HIDE DEF a, b, c
    <2>2. EmbarcaderoVersion(BcdBytes(a, b) + c) = <<Hex(Bcd(a)), Hex(Bcd(b)), Dec(c)>>
      BY <2>1, UnpackBytes, SMT
    <2> QED
      BY <2>2 DEF a, b, c
  <1>5. m["__CODEGEARC_VERSION__"] = n
    BY Carried, SMT
  <1>6. VersionLiterals("Embarcadero", m, l) = EmbarcaderoVersion(m["__CODEGEARC_VERSION__"])
    BY LiteralsOf, SMT
  <1>7. Number(Hex(Bcd(v[1]))) = v[1] /\ Number(Hex(Bcd(v[2]))) = v[2] /\ Number(Dec(v[3])) = v[3]
    BY <1>2, <1>3, HexReadsBack, DecRead
  <1> HIDE DEF n
  <1>8. Numbers(EmbarcaderoVersion(n)) = v
    BY <1>2, <1>4, <1>7, Read3
  <1>9. Version("Embarcadero", m, l) = Numbers(VersionLiterals("Embarcadero", m, l))
    BY VersionIsNumbers, SMT
  <1> QED
    BY <1>5, <1>6, <1>8, <1>9

(* Watcom's numbers, and Open Watcom's, that start at 1100. *)
LEMMA WatcomNumbers ==
    ASSUME NEW v, NEW a \in Nat, a =< Largest, Fits(v, <<a, 9>>) \/ (Fits(v, <<a, 9, 9>>) /\ v[3] > 0)
    PROVE  /\ Numbers(WatcomVersion(WatcomNumber(v), 0)) = v
           /\ Numbers(WatcomVersion(1100 + WatcomNumber(v), 1100)) = v
  <1>1. CASE Fits(v, <<a, 9>>)
    <2>1. v[1] \in Nat /\ v[2] \in Nat /\ v[2] =< 9 /\ Numbers(<<Dec(v[1]), Dec(v[2])>>) = v
      BY <1>1, FitsTwo, SMT DEF Largest
    <2> DEFINE z == 0
    <2>7. z \in Nat /\ z =< 9 /\ z = 0
      BY SMT
    <2> HIDE DEF z
    <2>2. WatcomNumber(v) = Vrp(v[1], v[2], z)
      BY <1>1, <2>7, Fits2, SMT DEF WatcomNumber
    <2> DEFINE x == v[1]
               y == v[2]
    <2>3. x \in Nat /\ y \in Nat /\ y =< 9
      BY <2>1
    <2>4. WatcomNumber(v) = Vrp(x, y, z) /\ Numbers(<<Dec(x), Dec(y)>>) = v
      BY <2>1, <2>2
    <2> HIDE DEF x, y
    <2>5. /\ WatcomVersion(Vrp(x, y, z), 0) = <<Dec(x), Dec(y)>>
          /\ WatcomVersion(1100 + Vrp(x, y, z), 1100) = <<Dec(x), Dec(y)>>
      BY <2>3, <2>7, UnpackWatcom, SMTT(40)
    <2>6. <<Dec(x), Dec(y)>> \o <<>> = <<Dec(x), Dec(y)>>
      BY TwoAlone
    <2> QED
      BY <2>4, <2>5
  <1>2. CASE Fits(v, <<a, 9, 9>>) /\ v[3] > 0
    <2>1. /\ v[1] \in Nat /\ v[2] \in Nat /\ v[2] =< 9 /\ v[3] \in Nat /\ v[3] =< 9
          /\ Numbers(<<Dec(v[1]), Dec(v[2]), Dec(v[3])>>) = v
      BY <1>2, FitsThree, SMT DEF Largest
    <2>2. WatcomNumber(v) = Vrp(v[1], v[2], v[3])
      <3>1. Len(v) = 3
        BY <1>2, Fits3
      <3> QED
        BY <3>1, SMT DEF WatcomNumber
    <2> DEFINE x == v[1]
               y == v[2]
               z == v[3]
    <2>3. x \in Nat /\ y \in Nat /\ y =< 9 /\ z \in Nat /\ z =< 9 /\ z > 0
      BY <1>2, <2>1
    <2>4. WatcomNumber(v) = Vrp(x, y, z) /\ Numbers(<<Dec(x), Dec(y), Dec(z)>>) = v
      BY <2>1, <2>2
    <2> HIDE DEF x, y, z
    <2>5. /\ WatcomVersion(Vrp(x, y, z), 0) = <<Dec(x), Dec(y), Dec(z)>>
          /\ WatcomVersion(1100 + Vrp(x, y, z), 1100) = <<Dec(x), Dec(y), Dec(z)>>
      BY <2>3, UnpackWatcom, SMTT(40)
    <2> QED
      BY <2>4, <2>5
  <1> QED
    BY <1>1, <1>2

LEMMA WatcomRead ==
    ASSUME NEW v, VersionFits("Watcom", v), NEW l \in Languages, NEW m, Carries(m, "Watcom", v, l)
    PROVE  Version("Watcom", m, l) = v
  <1>1. Fits(v, <<11, 9>>) \/ (Fits(v, <<11, 9, 9>>) /\ v[3] > 0)
    BY Room, SMT
  <1>2. Numbers(WatcomVersion(WatcomNumber(v), 0)) = v
    BY <1>1, WatcomNumbers, SMT DEF Largest
  <1>3. m["__WATCOMC__"] = WatcomNumber(v)
    <2>1. /\ "__WATCOMC__" \in DOMAIN OwnMacros("Watcom", v, l)
          /\ OwnMacros("Watcom", v, l)["__WATCOMC__"] = WatcomNumber(v)
      BY SMT DEF OwnMacros
    <2> QED
      BY <2>1 DEF Carries
  <1>4. VersionLiterals("Watcom", m, l) = WatcomVersion(m["__WATCOMC__"], 0)
    BY LiteralsOf, SMT
  <1> QED
    BY <1>2, <1>3, <1>4, VersionIsNumbers, SMT

LEMMA OpenWatcomRead ==
    ASSUME NEW v, VersionFits("OpenWatcom", v), NEW l \in Languages, NEW m, Carries(m, "OpenWatcom", v, l)
    PROVE  Version("OpenWatcom", m, l) = v
  <1>1. Fits(v, <<9999, 9>>) \/ (Fits(v, <<9999, 9, 9>>) /\ v[3] > 0)
    BY Room, SMT
  <1>2. Numbers(WatcomVersion(1100 + WatcomNumber(v), 1100)) = v
    BY <1>1, WatcomNumbers, SMT DEF Largest
  <1>3. m["__WATCOMC__"] = 1100 + WatcomNumber(v)
    <2>1. /\ "__WATCOMC__" \in DOMAIN OwnMacros("OpenWatcom", v, l)
          /\ OwnMacros("OpenWatcom", v, l)["__WATCOMC__"] = 1100 + WatcomNumber(v)
      BY SMT DEF OwnMacros
    <2> QED
      BY <2>1 DEF Carries
  <1>4. VersionLiterals("OpenWatcom", m, l) = WatcomVersion(m["__WATCOMC__"], 1100)
    BY LiteralsOf, SMT
  <1> QED
    BY <1>2, <1>3, <1>4, VersionIsNumbers, SMT

LEMMA IARRead ==
    ASSUME NEW v, VersionFits("IAR", v), NEW l \in Languages, NEW m, Carries(m, "IAR", v, l)
    PROVE  Version("IAR", m, l) = v
  <1>1. "__VER__" \in DOMAIN m => VersionLiterals("IAR", m, l) = IARVersion(m)
    BY LiteralsOf, SMT
  <1>2. Version("IAR", m, l) = Numbers(VersionLiterals("IAR", m, l))
    BY VersionIsNumbers, SMT
  <1>3. /\ "__ICCARM__" \in DOMAIN m <=> v[1] > 6
        /\ DOMAIN m \cap IARSmall = {} <=> v[1] > 6
    BY SMT DEF Carries
  <1>4. CASE v[1] > 6
    <2>1. Fits(v, <<99, 999, 999>>)
      <3>1. Fits(v, <<6, 99, Largest>>) => v[1] \in Nat /\ v[1] =< 6
        BY Fits3, SMT DEF Largest
      <3>2. ~Fits(v, <<6, 99, Largest>>)
        BY <1>4, <3>1, SMT
      <3> QED
        BY <3>2, Room, SMT
    <2>2. /\ v[1] \in Nat /\ v[2] \in Nat /\ v[2] =< 999 /\ v[3] \in Nat /\ v[3] =< 999
          /\ Numbers(<<Dec(v[1]), Dec(v[2]), Dec(v[3])>>) = v
      BY <2>1, FitsThree, SMT DEF Largest
    <2>3. VVVRRRPPP(Vvvrrrppp(v[1], v[2], v[3])) = <<Dec(v[1]), Dec(v[2]), Dec(v[3])>>
      BY <2>2, UnpackVvvrrrppp
    <2>4. "__VER__" \in DOMAIN m /\ m["__VER__"] = Vvvrrrppp(v[1], v[2], v[3])
      BY <1>4, Carried, SMT
    <2>5. IARVersion(m) = VVVRRRPPP(m["__VER__"])
      BY <1>3, <1>4 DEF IARVersion, Defined
    <2> QED
      BY <1>1, <1>2, <2>2, <2>3, <2>4, <2>5
  <1>5. CASE ~(v[1] > 6)
    <2>1. Fits(v, <<6, 99, Largest>>)
      BY <1>5, Room, SMT
    <2>2. /\ v[1] \in Nat /\ v[2] \in Nat /\ v[2] =< 99 /\ v[3] \in Nat
          /\ Numbers(<<Dec(v[1]), Dec(v[2]), Dec(v[3])>>) = v
      BY <2>1, FitsThree, SMT DEF Largest
    <2>3. LET n == Vrr(v[1], v[2]) IN n \div 100 = v[1] /\ n - (n \div 100) * 100 = v[2]
      BY <2>2, UnpackVrr, SMT
    <2>4. /\ "__VER__" \in DOMAIN m /\ m["__VER__"] = Vrr(v[1], v[2])
          /\ "__SUBVERSION__" \in DOMAIN m /\ m["__SUBVERSION__"] = v[3]
      BY <1>5, Carried, SMT
    <2>5. IARVersion(m) =
            <<Dec(m["__VER__"] \div 100), Dec(m["__VER__"] - (m["__VER__"] \div 100) * 100),
              Dec(m["__SUBVERSION__"])>>
      BY <1>3, <1>5 DEF IARVersion, Defined
    <2> QED
      BY <1>1, <1>2, <2>2, <2>3, <2>4, <2>5
  <1> QED
    BY <1>4, <1>5

LEMMA SDCCRead ==
    ASSUME NEW v, VersionFits("SDCC", v), NEW l \in Languages, NEW m, Carries(m, "SDCC", v, l)
    PROVE  Version("SDCC", m, l) = v
  <1> DEFINE macros == <<"__SDCC_VERSION_MAJOR", "__SDCC_VERSION_MINOR", "__SDCC_VERSION_PATCH">>
  <1>1. Version("SDCC", m, l) = Numbers(VersionLiterals("SDCC", m, l))
    BY VersionIsNumbers, SMT
  <1>2. VersionLiterals("SDCC", m, l) =
          IF "__SDCC_VERSION_MAJOR" \in DOMAIN m THEN Given(m, macros) ELSE VRP(m["SDCC"])
    BY LiteralsOf, SMT
  <1>3. CASE v[1] < 3
    <2>1. Fits(v, <<2, 9, 9>>)
      <3>1. Fits(v, <<Largest, Largest, Largest>>) => v[1] \in Nat
        BY Fits3, SMT DEF Largest
      <3> QED
        BY <1>3, <3>1, Room, SMT
    <2>2. /\ v[1] \in Nat /\ v[2] \in Nat /\ v[2] =< 9 /\ v[3] \in Nat /\ v[3] =< 9
          /\ Numbers(<<Dec(v[1]), Dec(v[2]), Dec(v[3])>>) = v
      BY <2>1, FitsThree, SMT DEF Largest
    <2>3. VRP(Vrp(v[1], v[2], v[3])) = <<Dec(v[1]), Dec(v[2]), Dec(v[3])>>
      BY <2>2, UnpackVrp
    <2>4. m["SDCC"] = Vrp(v[1], v[2], v[3]) /\ "__SDCC_VERSION_MAJOR" \notin DOMAIN m
      BY <1>3, Carried, SMT
    <2> QED
      BY <1>1, <1>2, <2>2, <2>3, <2>4
  <1>4. CASE ~(v[1] < 3)
    <2>1. Fits(v, <<Largest, Largest, Largest>>)
      <3>1. Fits(v, <<2, 9, 9>>) => v[1] \in Nat /\ v[1] =< 2
        BY Fits3, SMT
      <3>2. ~Fits(v, <<2, 9, 9>>)
        BY <1>4, <3>1, SMT
      <3>3. Fits(v, <<2, 9, 9>>) \/ (Fits(v, <<Largest, Largest, Largest>>) /\ v[1] >= 3)
        BY Room, SMT
      <3> QED
        BY <3>2, <3>3
    <2>2. v \in Seq(Nat) /\ Len(v) = 3 /\ v[1] =< Largest /\ v[2] =< Largest /\ v[3] =< Largest
      <3>1. Largest \in Nat
        BY SMT DEF Largest
      <3> QED
        BY <2>1, <3>1, Fits3
    <2>3. /\ macros[1] \in DOMAIN m /\ m[macros[1]] = v[1]
          /\ macros[2] \in DOMAIN m /\ m[macros[2]] = v[2]
          /\ macros[3] \in DOMAIN m /\ m[macros[3]] = v[3] /\ Len(macros) = 3
      BY <1>4, Carried, SMT
    <2>4. "__SDCC_VERSION_MAJOR" \in DOMAIN m
      BY <1>4, Carried, SMT
    <2> HIDE DEF macros
    <2>5. \A i \in 1 .. Len(v) : macros[i] \in DOMAIN m /\ m[macros[i]] = v[i] /\ v[i] =< Largest
      <3>1. \A i \in 1 .. 3 : i = 1 \/ i = 2 \/ i = 3
        BY SMT
      <3> QED
        BY <2>2, <2>3, <3>1
    <2>6. Numbers(Given(m, macros)) = v
      BY <2>2, <2>3, <2>5, ReadGiven
    <2> QED
      BY <1>1, <1>2, <2>4, <2>6
  <1> QED
    BY <1>3, <1>4

LEMMA FujitsuRead ==
    ASSUME NEW v, VersionFits("Fujitsu", v), NEW l \in Languages, NEW m, Carries(m, "Fujitsu", v, l)
    PROVE  Version("Fujitsu", m, l) = v
  <1>1. FujitsuFits(v)
    BY Room, SMT
  <1>2. CASE v[1] < 4
    <2>1. /\ "__FCC_version__" \in DOMAIN OwnMacros("Fujitsu", v, l)
          /\ OwnMacros("Fujitsu", v, l)["__FCC_version__"] = v
      BY <1>2, SMT DEF OwnMacros, FujitsuMacros
    <2>2. "__FCC_version__" \in DOMAIN m /\ m["__FCC_version__"] = v
      BY <2>1, Zenon DEF Carries
    <2> QED
      BY <2>2 DEF Version, Defined
  <1>3. CASE ~(v[1] < 4)
    <2>1. v[1] >= 4
      BY <1>1, <1>3 DEF FujitsuFits
    <2> QED
      BY <2>1, ComponentsRead, SMT DEF Components
  <1> QED
    BY <1>2, <1>3

(* Where Microsoft's patch is in the full version. *)
LEMMA FullVersion ==
    ASSUME NEW a \in Nat, NEW b \in Nat, NEW c \in Nat, b =< 99
    PROVE  /\ Vrr(a, b) >= 1400 <=> a >= 14
           /\ a < 14 /\ c =< 9999 => (Vrr(a, b) * 10000 + c) % 10000 = c
           /\ c =< 99999 => (Vrr(a, b) * 100000 + c) % 100000 = c
  <1>1. Vrr(a, b) \in Nat /\ (Vrr(a, b) >= 1400 <=> a >= 14)
    BY SMT DEF Vrr
  <1> DEFINE n == Vrr(a, b)
  <1>2. n \in Nat
    BY <1>1
  <1> HIDE DEF n
  <1>3. c =< 9999 => (n * 10000 + c) % 10000 = c
    BY <1>2, SMT
  <1>4. c =< 99999 => (n * 100000 + c) % 100000 = c
    BY <1>2, SMT
  <1> QED
    BY <1>1, <1>3, <1>4, SMT DEF n

(* What Microsoft's macros say. *)
LEMMA MSVCCarried ==
    ASSUME NEW v, NEW l \in Languages, NEW m, Carries(m, "MSVC", v, l)
    PROVE  LET n == Vrr(v[1], v[2]) IN
           /\ m["_MSC_VER"] = n
           /\ Len(v) > 2 => "_MSC_FULL_VER" \in DOMAIN m
                  /\ m["_MSC_FULL_VER"] = n * (IF v[1] < 14 THEN 10000 ELSE 100000) + v[3]
           /\ ~(Len(v) > 2) => "_MSC_FULL_VER" \notin DOMAIN m
           /\ Len(v) > 3 => "_MSC_BUILD" \in DOMAIN m /\ m["_MSC_BUILD"] = v[4]
           /\ ~(Len(v) > 3) => "_MSC_BUILD" \notin DOMAIN m
  <1> DEFINE own == OwnMacros("MSVC", v, l)
             n == Vrr(v[1], v[2])
  <1>1. own = MSVCMacros(v)
    BY SMT DEF OwnMacros
  <1>2. /\ "_MSC_VER" \in DOMAIN own /\ own["_MSC_VER"] = n
        /\ Len(v) > 2 => "_MSC_FULL_VER" \in DOMAIN own
               /\ own["_MSC_FULL_VER"] = n * (IF v[1] < 14 THEN 10000 ELSE 100000) + v[3]
        /\ ~(Len(v) > 2) => "_MSC_FULL_VER" \notin DOMAIN own
        /\ Len(v) > 3 => "_MSC_BUILD" \in DOMAIN own /\ own["_MSC_BUILD"] = v[4]
        /\ ~(Len(v) > 3) => "_MSC_BUILD" \notin DOMAIN own
    <2> DEFINE build == IF v[1] < 14 THEN 10000 ELSE 100000
               f == [_MSC_VER |-> n]
               g == IF Len(v) > 2 THEN [_MSC_FULL_VER |-> n * build + v[3]] ELSE Flags({})
               h == IF Len(v) > 3 THEN [_MSC_BUILD |-> v[4]] ELSE Flags({})
    <2>1. own = (f ++ g) ++ h
      BY <1>1 DEF MSVCMacros
    <2>2. DOMAIN f = {"_MSC_VER"} /\ f["_MSC_VER"] = n
      BY SMT
    <2>3. /\ Len(v) > 2 => DOMAIN g = {"_MSC_FULL_VER"} /\ g["_MSC_FULL_VER"] = n * build + v[3]
          /\ ~(Len(v) > 2) => DOMAIN g = {}
      BY SMT DEF Flags
    <2>4. /\ Len(v) > 3 => DOMAIN h = {"_MSC_BUILD"} /\ h["_MSC_BUILD"] = v[4]
          /\ ~(Len(v) > 3) => DOMAIN h = {}
      BY SMT DEF Flags
    <2> DEFINE full == n * build + v[3]
    <2> HIDE DEF f, g, h, full, own, n, build
    <2> QED
      BY <2>1, <2>2, <2>3, <2>4, Merge, SMT DEF full, build
  <1>3. /\ \A x \in DOMAIN own : x \in DOMAIN m /\ m[x] = own[x]
        /\ \A x \in Optional : x \in DOMAIN m => x \in DOMAIN own
    BY Zenon DEF Carries
  <1>4. "_MSC_FULL_VER" \in Optional /\ "_MSC_BUILD" \in Optional
    BY SMT DEF Optional
  <1> HIDE DEF own, n
  <1> QED
    BY <1>2, <1>3, <1>4, SMT DEF n

(* DEC literals of a version of four components. *)
LEMMA FitsFour ==
    ASSUME NEW v, NEW a \in Nat, NEW b \in Nat, NEW c \in Nat, NEW d \in Nat,
           a =< Largest, b =< Largest, c =< Largest, d =< Largest, Fits(v, <<a, b, c, d>>)
    PROVE  /\ Len(v) = 4
           /\ v[1] \in Nat /\ v[1] =< a /\ v[2] \in Nat /\ v[2] =< b /\ v[3] \in Nat /\ v[3] =< c
           /\ Numbers(<<Dec(v[1]), Dec(v[2]), Dec(v[3]), Dec(v[4])>>) = v
  <1>1. /\ v \in Seq(Nat) /\ Len(v) = 4
        /\ v[1] \in Nat /\ v[1] =< a /\ v[2] \in Nat /\ v[2] =< b
        /\ v[3] \in Nat /\ v[3] =< c /\ v[4] \in Nat /\ v[4] =< d
    BY Fits4
  <1>2. /\ Number(Dec(v[1])) = v[1] /\ Number(Dec(v[2])) = v[2]
        /\ Number(Dec(v[3])) = v[3] /\ Number(Dec(v[4])) = v[4]
    <2>1. Largest \in Nat
      BY SMT DEF Largest
    <2> DEFINE x == v[1]
               y == v[2]
               z == v[3]
               w == v[4]
    <2>2. x \in Nat /\ x =< a /\ y \in Nat /\ y =< b /\ z \in Nat /\ z =< c /\ w \in Nat /\ w =< d
      BY <1>1
    <2> HIDE DEF x, y, z, w
    <2>3. x =< Largest /\ y =< Largest /\ z =< Largest /\ w =< Largest
      BY <2>1, <2>2, SMT
    <2>4. Number(Dec(x)) = x /\ Number(Dec(y)) = y /\ Number(Dec(z)) = z /\ Number(Dec(w)) = w
      BY <2>2, <2>3, DecRead, Zenon
    <2> QED
      BY <2>4 DEF x, y, z, w
  <1> QED
    BY <1>1, <1>2, Read4, Zenon

(* In what Microsoft's macros say, the patch comes after the version once more. *)
LEMMA MSVCPatch ==
    ASSUME NEW v, v[1] \in Nat, v[2] \in Nat, v[2] =< 99, v[3] \in Nat,
           v[3] =< 9999 \/ (v[1] >= 14 /\ v[3] =< 99999), NEW m,
           m["_MSC_VER"] = Vrr(v[1], v[2]),
           m["_MSC_FULL_VER"] = Vrr(v[1], v[2]) * (IF v[1] < 14 THEN 10000 ELSE 100000) + v[3]
    PROVE  m["_MSC_FULL_VER"] % (IF m["_MSC_VER"] >= 1400 THEN 100000 ELSE 10000) = v[3]
  <1> DEFINE a == v[1]
             b == v[2]
             c == v[3]
  <1>1. /\ a \in Nat /\ b \in Nat /\ b =< 99 /\ c \in Nat
        /\ c =< 9999 \/ (a >= 14 /\ c =< 99999)
        /\ m["_MSC_VER"] = Vrr(a, b)
        /\ m["_MSC_FULL_VER"] = Vrr(a, b) * (IF a < 14 THEN 10000 ELSE 100000) + c
    OBVIOUS
  <1>2. v[3] = c
    OBVIOUS
  <1> HIDE DEF a, b, c
  <1>3. CASE a >= 14
    BY <1>1, <1>2, <1>3, FullVersion, SMT
  <1>4. CASE ~(a >= 14)
    BY <1>1, <1>2, <1>4, FullVersion, SMT
  <1> QED
    BY <1>3, <1>4

(* What the probe writes for them. *)
LEMMA MSVCLiterals ==
    ASSUME NEW m, NEW n, m["_MSC_VER"] = n, NEW patch,
           patch = m["_MSC_FULL_VER"] % (IF n >= 1400 THEN 100000 ELSE 10000)
    PROVE  /\ "_MSC_FULL_VER" \notin DOMAIN m => MSVCVersion(m) = <<Dec(n \div 100), Dec(n % 100)>>
           /\ "_MSC_FULL_VER" \in DOMAIN m =>
                MSVCVersion(m) =
                    <<Dec(n \div 100), Dec(n % 100)>> \o (<<Dec(patch)>> \o Given(m, <<"_MSC_BUILD">>))
  <1> DEFINE version == <<Dec(n \div 100), Dec(n % 100)>>
  <1>1. "_MSC_FULL_VER" \notin DOMAIN m => MSVCVersion(m) = version \o <<>>
    BY SMT DEF MSVCVersion, Defined
  <1>2. version \o <<>> = version
    BY TwoAlone
  <1>3. "_MSC_FULL_VER" \in DOMAIN m =>
          MSVCVersion(m) = version \o (<<Dec(patch)>> \o Given(m, <<"_MSC_BUILD">>))
    BY SMT DEF MSVCVersion, Defined
  <1> QED
    BY <1>1, <1>2, <1>3

LEMMA MSVCRead ==
    ASSUME NEW v, VersionFits("MSVC", v), NEW l \in Languages, NEW m, Carries(m, "MSVC", v, l)
    PROVE  Version("MSVC", m, l) = v
  <1>1. Version("MSVC", m, l) = Numbers(MSVCVersion(m))
    BY LiteralsOf, VersionIsNumbers, SMT
  <1>2. MSVCFits(v)
    BY Room, SMT
  <1> DEFINE n == Vrr(v[1], v[2])
             build == IF v[1] < 14 THEN 10000 ELSE 100000
             patch == m["_MSC_FULL_VER"] % (IF n >= 1400 THEN 100000 ELSE 10000)
             head == <<Dec(n \div 100), Dec(n % 100)>>
             Patched == v[3] =< 9999 \/ (v[1] >= 14 /\ v[3] =< 99999)
  <1>3. /\ m["_MSC_VER"] = n
        /\ Len(v) > 2 => "_MSC_FULL_VER" \in DOMAIN m /\ m["_MSC_FULL_VER"] = n * build + v[3]
        /\ ~(Len(v) > 2) => "_MSC_FULL_VER" \notin DOMAIN m
        /\ Len(v) > 3 => "_MSC_BUILD" \in DOMAIN m /\ m["_MSC_BUILD"] = v[4]
        /\ ~(Len(v) > 3) => "_MSC_BUILD" \notin DOMAIN m
    BY MSVCCarried
  <1>4. /\ "_MSC_FULL_VER" \notin DOMAIN m => MSVCVersion(m) = head
        /\ "_MSC_FULL_VER" \in DOMAIN m =>
             MSVCVersion(m) = head \o (<<Dec(patch)>> \o Given(m, <<"_MSC_BUILD">>))
    BY <1>3, MSVCLiterals, SMT
  <1>6. ASSUME v[1] \in Nat, v[2] \in Nat, v[2] =< 99
        PROVE  n \div 100 = v[1] /\ n % 100 = v[2]
    BY <1>6, UnpackVrr
  <1>7. ASSUME v[1] \in Nat, v[2] \in Nat, v[2] =< 99, v[3] \in Nat, Len(v) > 2, Patched
        PROVE  /\ patch = v[3]
               /\ MSVCVersion(m) = <<Dec(v[1]), Dec(v[2])>> \o (<<Dec(v[3])>> \o Given(m, <<"_MSC_BUILD">>))
    <2>1. m["_MSC_FULL_VER"] = n * build + v[3] /\ m["_MSC_VER"] = n /\ "_MSC_FULL_VER" \in DOMAIN m
      BY <1>3, <1>7
    <2>2. m["_MSC_FULL_VER"] % (IF m["_MSC_VER"] >= 1400 THEN 100000 ELSE 10000) = v[3]
      BY <1>7, <2>1, MSVCPatch
    <2>3. patch = v[3]
      BY <2>1, <2>2
    <2>4. head = <<Dec(v[1]), Dec(v[2])>>
      BY <1>6, <1>7
    <2> HIDE DEF head, patch, n
    <2> QED
      BY <1>4, <2>1, <2>3, <2>4
  <1>8. ASSUME Fits(v, <<99, 99>>)
        PROVE  Numbers(MSVCVersion(m)) = v
    <2>1. Len(v) = 2 /\ v[1] \in Nat /\ v[2] \in Nat /\ v[2] =< 99
      BY <1>8, Fits2
    <2>2. Numbers(<<Dec(v[1]), Dec(v[2])>>) = v
      BY <1>8, FitsTwo, SMT DEF Largest
    <2>3. ~(Len(v) > 2)
      BY <2>1, SMT
    <2>4. head = <<Dec(v[1]), Dec(v[2])>>
      BY <1>6, <2>1
    <2> HIDE DEF head, n, build, patch
    <2> QED
      BY <1>3, <1>4, <2>2, <2>3, <2>4, Zenon
  <1>9. ASSUME v \in Seq(Nat), Len(v) = 3, v[1] \in Nat, v[2] \in Nat, v[2] =< 99, v[3] \in Nat, Patched,
               Numbers(<<Dec(v[1]), Dec(v[2]), Dec(v[3])>>) = v
        PROVE  Numbers(MSVCVersion(m)) = v
    <2>1. Len(v) > 2 /\ ~(Len(v) > 3)
      BY <1>9, SMT
    <2>2. MSVCVersion(m) = <<Dec(v[1]), Dec(v[2])>> \o (<<Dec(v[3])>> \o Given(m, <<"_MSC_BUILD">>))
      BY <1>7, <1>9, <2>1
    <2>3. Given(m, <<"_MSC_BUILD">>) = <<>>
      BY <1>3, <2>1, GivenOne
    <2>4. MSVCVersion(m) = <<Dec(v[1]), Dec(v[2]), Dec(v[3])>>
      BY <2>2, <2>3, OneAlone, TwoAndOne
    <2> QED
      BY <1>9, <2>4
  <1>10. ASSUME Fits(v, <<13, 99, 9999>>)
         PROVE  Numbers(MSVCVersion(m)) = v
    <2>1. v \in Seq(Nat) /\ Len(v) = 3 /\ v[1] \in Nat /\ v[2] \in Nat /\ v[2] =< 99
              /\ v[3] \in Nat /\ v[3] =< 9999
      BY <1>10, Fits3
    <2>2. Numbers(<<Dec(v[1]), Dec(v[2]), Dec(v[3])>>) = v
      BY <1>10, FitsThree, SMT DEF Largest
    <2> QED
      BY <1>9, <2>1, <2>2
  <1>11. ASSUME v[1] >= 14, Fits(v, <<99, 99, 99999>>)
         PROVE  Numbers(MSVCVersion(m)) = v
    <2>1. v \in Seq(Nat) /\ Len(v) = 3 /\ v[1] \in Nat /\ v[2] \in Nat /\ v[2] =< 99
              /\ v[3] \in Nat /\ v[3] =< 99999
      BY <1>11, Fits3, SMT
    <2>2. Numbers(<<Dec(v[1]), Dec(v[2]), Dec(v[3])>>) = v
      BY <1>11, FitsThree, SMT DEF Largest
    <2>3. Patched
      BY <1>11, <2>1
    <2> HIDE DEF Patched
    <2> QED
      BY <1>9, <2>1, <2>2, <2>3
  <1>12. ASSUME v[1] >= 14, Fits(v, <<99, 99, 99999, Largest>>)
         PROVE  Numbers(MSVCVersion(m)) = v
    <2>1. /\ Len(v) = 4 /\ v[1] \in Nat /\ v[2] \in Nat /\ v[2] =< 99 /\ v[3] \in Nat /\ v[3] =< 99999
          /\ Numbers(<<Dec(v[1]), Dec(v[2]), Dec(v[3]), Dec(v[4])>>) = v
      BY <1>12, FitsFour, SMT DEF Largest
    <2>2. Len(v) > 2 /\ Len(v) > 3
      BY <2>1, SMT
    <2>3. Patched
      BY <1>12, <2>1
    <2>4. MSVCVersion(m) = <<Dec(v[1]), Dec(v[2])>> \o (<<Dec(v[3])>> \o Given(m, <<"_MSC_BUILD">>))
      BY <1>7, <2>1, <2>2, <2>3
    <2>5. Given(m, <<"_MSC_BUILD">>) = <<Dec(v[4])>>
      BY <1>3, <2>2, GivenOne
    <2>6. <<Dec(v[3])>> \o <<Dec(v[4])>> = <<Dec(v[3]), Dec(v[4])>>
      BY OneAndOne
    <2>7. MSVCVersion(m) = <<Dec(v[1]), Dec(v[2])>> \o <<Dec(v[3]), Dec(v[4])>>
      BY <2>4, <2>5, <2>6
    <2>8. MSVCVersion(m) = <<Dec(v[1]), Dec(v[2]), Dec(v[3]), Dec(v[4])>>
      BY <2>7, TwoAndTwo
    <2> QED
      BY <2>1, <2>8
  <1>13. Numbers(MSVCVersion(m)) = v
    BY <1>2, <1>8, <1>10, <1>11, <1>12, SMT DEF MSVCFits
  <1> QED
    BY <1>1, <1>13

(* What the probe writes for Intel's macros. *)
LEMMA IntelLiterals ==
    ASSUME NEW m, NEW n, m["__INTEL_COMPILER"] = n
    PROVE  /\ OneDigitEach(n) /\ "__INTEL_COMPILER_UPDATE" \notin DOMAIN m =>
                IntelVersion(m) = VRP(n) \o Given(m, <<"__INTEL_COMPILER_BUILD_DATE">>)
           /\ ~OneDigitEach(n) =>
                IntelVersion(m) = <<Dec(n), Dec(m["__INTEL_COMPILER_UPDATE"]), Dec(0)>>
                                  \o Given(m, <<"__INTEL_COMPILER_BUILD_DATE">>)
  BY Zenon DEF IntelVersion, Defined

(* What Intel's macros say. *)
LEMMA IntelCarried ==
    ASSUME NEW v, NEW l \in Languages, NEW m, Carries(m, "Intel", v, l)
    PROVE  LET old == v[1] < 2021 \/ v \in {<<2021, 1, 0>>, <<2021, 1, 1>>} IN
           /\ old => /\ m["__INTEL_COMPILER"] = Vrp(v[1], v[2], v[3])
                     /\ "__INTEL_COMPILER_UPDATE" \notin DOMAIN m
           /\ ~old => /\ m["__INTEL_COMPILER"] = v[1] /\ m["__INTEL_COMPILER_UPDATE"] = v[2]
           /\ old /\ Len(v) > 3 =>
                "__INTEL_COMPILER_BUILD_DATE" \in DOMAIN m /\ m["__INTEL_COMPILER_BUILD_DATE"] = v[4]
           /\ ~(old /\ Len(v) > 3) => "__INTEL_COMPILER_BUILD_DATE" \notin DOMAIN m
  <1> DEFINE own == OwnMacros("Intel", v, l)
             old == v[1] < 2021 \/ v \in {<<2021, 1, 0>>, <<2021, 1, 1>>}
             n == Vrp(v[1], v[2], v[3])
             f == [__INTEL_COMPILER |-> n]
             g == IF Len(v) > 3 THEN [__INTEL_COMPILER_BUILD_DATE |-> v[4]] ELSE Flags({})
             h == [__INTEL_COMPILER |-> v[1], __INTEL_COMPILER_UPDATE |-> v[2]]
  <1>1. own = IntelMacros(v)
    BY SMT DEF OwnMacros
  <1>2. (old => own = f ++ g) /\ (~old => own = h)
    BY <1>1 DEF IntelMacros
  <1>3. /\ DOMAIN f = {"__INTEL_COMPILER"} /\ f["__INTEL_COMPILER"] = n
        /\ DOMAIN h = {"__INTEL_COMPILER", "__INTEL_COMPILER_UPDATE"}
        /\ h["__INTEL_COMPILER"] = v[1] /\ h["__INTEL_COMPILER_UPDATE"] = v[2]
    BY SMT
  <1>4. /\ Len(v) > 3 => DOMAIN g = {"__INTEL_COMPILER_BUILD_DATE"} /\ g["__INTEL_COMPILER_BUILD_DATE"] = v[4]
        /\ ~(Len(v) > 3) => DOMAIN g = {}
    BY SMT DEF Flags
  <1>5. /\ \A x \in DOMAIN own : x \in DOMAIN m /\ m[x] = own[x]
        /\ \A x \in Optional : x \in DOMAIN m => x \in DOMAIN own
    BY Zenon DEF Carries
  <1>6. "__INTEL_COMPILER_UPDATE" \in Optional /\ "__INTEL_COMPILER_BUILD_DATE" \in Optional
    BY SMT DEF Optional
  <1> HIDE DEF own, old, n, f, g, h
  <1>7. /\ old => /\ m["__INTEL_COMPILER"] = n
                  /\ "__INTEL_COMPILER_UPDATE" \notin DOMAIN m
        /\ ~old => /\ m["__INTEL_COMPILER"] = v[1] /\ m["__INTEL_COMPILER_UPDATE"] = v[2]
        /\ old /\ Len(v) > 3 =>
             "__INTEL_COMPILER_BUILD_DATE" \in DOMAIN m /\ m["__INTEL_COMPILER_BUILD_DATE"] = v[4]
        /\ ~(old /\ Len(v) > 3) => "__INTEL_COMPILER_BUILD_DATE" \notin DOMAIN m
    BY <1>2, <1>3, <1>4, <1>5, <1>6, Merge, SMT
  <1> QED
    BY <1>7 DEF old, n

(* Which of Intel's numbers have one digit each. *)
LEMMA ThreeDigits ==
    ASSUME NEW a \in Nat, NEW b \in Nat, NEW c \in Nat
    PROVE  /\ a =< 19 /\ b =< 9 /\ c =< 9 => OneDigitEach(Vrp(a, b, c)) /\ a < 2021
           /\ OneDigitEach(Vrp(2021, 1, 0)) /\ OneDigitEach(Vrp(2021, 1, 1))
           /\ a >= 2021 /\ a =< 9999 => ~OneDigitEach(a) /\ ~(a < 2021)
  BY SMT DEF Vrp, OneDigitEach

LEMMA IntelRead ==
    ASSUME NEW v, VersionFits("Intel", v), NEW l \in Languages, NEW m, Carries(m, "Intel", v, l)
    PROVE  Version("Intel", m, l) = v
  <1>1. Version("Intel", m, l) = Numbers(IntelVersion(m))
    BY LiteralsOf, VersionIsNumbers, SMT
  <1>2. IntelFits(v)
    BY Room, SMT
  <1> DEFINE First == v \in {<<2021, 1, 0>>, <<2021, 1, 1>>}
             old == v[1] < 2021 \/ First
             n == Vrp(v[1], v[2], v[3])
             date == Given(m, <<"__INTEL_COMPILER_BUILD_DATE">>)
  <1>3. /\ old => /\ m["__INTEL_COMPILER"] = n
                  /\ "__INTEL_COMPILER_UPDATE" \notin DOMAIN m
        /\ ~old => /\ m["__INTEL_COMPILER"] = v[1] /\ m["__INTEL_COMPILER_UPDATE"] = v[2]
        /\ old /\ Len(v) > 3 =>
             "__INTEL_COMPILER_BUILD_DATE" \in DOMAIN m /\ m["__INTEL_COMPILER_BUILD_DATE"] = v[4]
        /\ ~(old /\ Len(v) > 3) => "__INTEL_COMPILER_BUILD_DATE" \notin DOMAIN m
    BY IntelCarried
  <1>4. ASSUME v[1] \in Nat, v[2] \in Nat, v[3] \in Nat, v[2] =< 9, v[3] =< 9, old,
               OneDigitEach(n)
        PROVE  IntelVersion(m) = <<Dec(v[1]), Dec(v[2]), Dec(v[3])>> \o date
    <2>0. v[1] \in Nat /\ v[2] \in Nat /\ v[3] \in Nat /\ v[2] =< 9 /\ v[3] =< 9
      BY <1>4
    <2>1. VRP(n) = <<Dec(v[1]), Dec(v[2]), Dec(v[3])>>
      BY <2>0, UnpackVrp
    <2>4. OneDigitEach(n)
      BY <1>4
    <2>2. m["__INTEL_COMPILER"] = n /\ "__INTEL_COMPILER_UPDATE" \notin DOMAIN m
      BY <1>3, <1>4
    <2>3. IntelVersion(m) = VRP(n) \o date
      <3> HIDE DEF n
      <3> QED
        BY <2>2, <2>4, IntelLiterals, Zenon
    <2> QED
      BY <2>1, <2>3
  <1>5. ASSUME Fits(v, <<19, 9, 9>>)
        PROVE  Numbers(IntelVersion(m)) = v
    <2>1. Len(v) = 3 /\ v[1] \in Nat /\ v[1] =< 19 /\ v[2] \in Nat /\ v[2] =< 9 /\ v[3] \in Nat /\ v[3] =< 9
      BY <1>5, Fits3
    <2>2. Numbers(<<Dec(v[1]), Dec(v[2]), Dec(v[3])>>) = v
      BY <1>5, FitsThree, SMT DEF Largest
    <2>3. OneDigitEach(n) /\ v[1] < 2021
      BY <2>1, ThreeDigits
    <2>4. ~(Len(v) > 3)
      BY <2>1, SMT
    <2>5. IntelVersion(m) = <<Dec(v[1]), Dec(v[2]), Dec(v[3])>> \o date
      BY <1>4, <2>1, <2>3
    <2>6. date = <<>>
      BY <1>3, <2>4, GivenOne
    <2> QED
      BY <2>2, <2>5, <2>6, ThreeAlone
  <1>6. ASSUME Fits(v, <<19, 9, 9, Largest>>)
        PROVE  Numbers(IntelVersion(m)) = v
    <2>1. /\ Len(v) = 4 /\ v[1] \in Nat /\ v[1] =< 19 /\ v[2] \in Nat /\ v[2] =< 9 /\ v[3] \in Nat
                 /\ v[3] =< 9
          /\ Numbers(<<Dec(v[1]), Dec(v[2]), Dec(v[3]), Dec(v[4])>>) = v
      BY <1>6, FitsFour, SMT DEF Largest
    <2>2. OneDigitEach(n) /\ v[1] < 2021
      BY <2>1, ThreeDigits
    <2>3. Len(v) > 3
      BY <2>1, SMT
    <2>4. IntelVersion(m) = <<Dec(v[1]), Dec(v[2]), Dec(v[3])>> \o date
      BY <1>4, <2>1, <2>2
    <2>5. date = <<Dec(v[4])>>
      BY <1>3, <2>2, <2>3, GivenOne
    <2> QED
      BY <2>1, <2>4, <2>5, ThreeAndOne
  <1>7. ASSUME First
        PROVE  Numbers(IntelVersion(m)) = v
    <2> DEFINE Of(u) == u \in Seq(Nat) /\ Len(u) = 3 /\ u[1] = 2021 /\ u[2] = 1 /\ u[3] \in {0, 1}
    <2>0. Of(<<2021, 1, 0>>) /\ Of(<<2021, 1, 1>>)
      BY SMT
    <2>1. v \in Seq(Nat) /\ Len(v) = 3 /\ v[1] = 2021 /\ v[2] = 1 /\ v[3] \in {0, 1}
      <3> HIDE DEF Of
      <3>1. Of(v)
        BY <1>7, <2>0
      <3> QED
        BY <3>1 DEF Of
    <2>2. OneDigitEach(n)
      BY <2>1, ThreeDigits, SMT
    <2>3. v[1] \in Nat /\ v[2] \in Nat /\ v[3] \in Nat /\ v[2] =< 9 /\ v[3] =< 9
      BY <2>1, SMT
    <2>4. IntelVersion(m) = <<Dec(v[1]), Dec(v[2]), Dec(v[3])>> \o date
      BY <1>4, <1>7, <2>2, <2>3
    <2>5. ~(Len(v) > 3)
      BY <2>1, SMT
    <2>6. date = <<>>
      BY <1>3, <2>5, GivenOne
    <2>7. Number(Dec(v[1])) = v[1] /\ Number(Dec(v[2])) = v[2] /\ Number(Dec(v[3])) = v[3]
      <3>1. 2021 =< Largest /\ 1 =< Largest /\ 0 =< Largest
        BY SMT DEF Largest
      <3> QED
        BY <2>1, <3>1, DecRead, SMT
    <2>8. Numbers(<<Dec(v[1]), Dec(v[2]), Dec(v[3])>>) = v
      <3> DEFINE a == Dec(v[1])
                 b == Dec(v[2])
                 c == Dec(v[3])
      <3>1. Number(a) = v[1] /\ Number(b) = v[2] /\ Number(c) = v[3] /\ v \in Seq(Nat) /\ Len(v) = 3
        BY <2>1, <2>7
      <3> HIDE DEF a, b, c
      <3>2. Numbers(<<a, b, c>>) = v
        BY <3>1, Read3
      <3> QED
        BY <3>2 DEF a, b, c
    <2> QED
      BY <2>4, <2>6, <2>8, ThreeAlone
  <1>8. ASSUME ~First, Fits(v, <<9999, Largest, 0>>), v[1] >= 2021
        PROVE  Numbers(IntelVersion(m)) = v
    <2>1. 9999 \in Nat /\ Largest \in Nat /\ 0 \in Nat /\ 9999 =< Largest /\ Largest =< Largest
              /\ 0 =< Largest
      BY SMT DEF Largest
    <2>2. /\ v[1] \in Nat /\ v[1] =< 9999 /\ v[2] \in Nat /\ v[3] \in Nat /\ v[3] =< 0
          /\ Numbers(<<Dec(v[1]), Dec(v[2]), Dec(v[3])>>) = v
      BY <1>8, <2>1, FitsThree
    <2>3. v[3] = 0 /\ ~(v[1] < 2021) /\ ~OneDigitEach(v[1])
      BY <1>8, <2>2, ThreeDigits, SMT
    <2>4. ~old
      BY <1>8, <2>3
    <2>5. m["__INTEL_COMPILER"] = v[1] /\ m["__INTEL_COMPILER_UPDATE"] = v[2] /\ date = <<>>
      BY <1>3, <2>4, GivenOne
    <2>7. ~OneDigitEach(v[1])
      BY <2>3
    <2>6. IntelVersion(m) = <<Dec(v[1]), Dec(v[2]), Dec(0)>> \o date
      BY <2>5, <2>7, IntelLiterals, Zenon
    <2> QED
      BY <2>2, <2>3, <2>5, <2>6, ThreeAlone
  <1>9. Numbers(IntelVersion(m)) = v
    BY <1>2, <1>5, <1>6, <1>7, <1>8, SMT DEF IntelFits
  <1> QED
    BY <1>1, <1>9

(* Every vendor's version is read back, however it is packed. *)
LEMMA VersionRead ==
    ASSUME NEW vendor \in Vendors, NEW v, VersionFits(vendor, v), NEW l \in Languages,
           NEW m, Carries(m, vendor, v, l)
    PROVE  Version(vendor, m, l) = v
  <1> DEFINE Reads(name) == VersionFits(name, v) /\ Carries(m, name, v, l) => Version(name, m, l) = v
  <1>1. /\ Reads("Comeau") /\ Reads("Intel") /\ Reads("IntelLLVM") /\ Reads("Embarcadero")
        /\ Reads("Borland") /\ Reads("Watcom") /\ Reads("OpenWatcom") /\ Reads("SunPro")
        /\ Reads("Compaq") /\ Reads("TI") /\ Reads("Fujitsu") /\ Reads("ARMCC") /\ Reads("ARMClang")
        /\ Reads("MSVC") /\ Reads("ADSP") /\ Reads("IAR") /\ Reads("SDCC")
    BY ComeauRead, IntelRead, IntelLLVMRead, EmbarcaderoRead, BorlandRead, WatcomRead,
       OpenWatcomRead,
       SunProRead, CompaqRead, TIRead, FujitsuRead, ARMCCRead, ARMClangRead, MSVCRead, ADSPRead,
       IARRead, SDCCRead
  <1>2. Reads("zOS") /\ Reads("XL") /\ Reads("VisualAge") /\ Reads("GHS")
    BY Packed3, SMT
  <1>3. /\ Reads("PathScale") /\ Reads("XLClang") /\ Reads("NVHPC") /\ Reads("PGI") /\ Reads("Cray")
        /\ Reads("FujitsuClang") /\ Reads("AppleClang") /\ Reads("Clang") /\ Reads("GNU")
    BY ComponentsRead, SMT DEF Components
  <1>4. Reads("HP")
    <2>1. CASE v = <<>>
      BY <2>1, SilentRead, SMT
    <2>2. CASE v # <<>>
      BY <2>2, HPNamedRead
    <2> QED
      BY <2>1, <2>2
  <1>5. Reads("TinyCC") /\ Reads("Bruce") /\ Reads("SCO")
    <2>1. /\ VersionFits("TinyCC", v) => v = <<>>
          /\ VersionFits("Bruce", v) => v = <<>>
          /\ VersionFits("SCO", v) => v = <<>>
      BY Room, SMT
    <2>2. \A name \in {"TinyCC", "Bruce", "SCO"} : Carries(m, name, <<>>, l) => Version(name, m, l) = <<>>
      BY SilentRead, SMT
    <2> QED
      BY <2>1, <2>2, SMT
  <1> HIDE DEF Reads
  <1>6. Reads(vendor)
    BY <1>1, <1>2, <1>3, <1>4, <1>5, SMT DEF Vendors
  <1> QED
    BY <1>6 DEF Reads

-----------------------------------------------------------------------------
(* Identification: names and cascades.                                     *)

(* The names in the cascades that are one vendor's alone. *)
Marks ==
    {"__COMO__", "__INTEL_COMPILER", "__ICC", "__INTEL_CLANG_COMPILER", "__INTEL_LLVM_COMPILER",
     "__PATHCC__", "__BORLANDC__", "__CODEGEARC_VERSION__", "__WATCOMC__", "__SUNPRO_C",
     "__SUNPRO_CC", "__HP_cc", "__HP_aCC", "__DECC", "__DECCXX", "__IBMC__", "__IBMCPP__",
     "__COMPILER_VER__", "__ibmxl__", "__NVCOMPILER", "__PGI", "_CRAYC", "__TI_COMPILER_VERSION__",
     "__CLANG_FUJITSU", "__FUJITSU", "__ghs__", "__TINYC__", "__BCC__", "__SCO_VERSION__",
     "__ARMCC_VERSION", "__apple_build_version__", "__ARMCOMPILER_VERSION", "__VISUALDSPVERSION__",
     "__ADSPBLACKFIN__", "__ADSPTS__", "__ADSP21000__", "__IAR_SYSTEMS_ICC__", "__IAR_SYSTEMS_ICC",
     "__SDCC_VERSION_MAJOR", "SDCC"}

(* The names in the probes that several vendors, the language or the probe
   itself define. *)
Shared ==
    {"__clang__", "__clang_major__", "__clang_minor__", "__clang_patchlevel__",
     "__GNUC__", "__GNUC_MINOR__", "__GNUC_PATCHLEVEL__", "__GNUG__", "_MSC_VER", "_MSC_FULL_VER",
     "_MSC_BUILD", "_MSVC_LANG", "__cplusplus", "__STDC__", "__STDC_VERSION__", "__STRICT_ANSI__", "__hpua",
     "__INTEL_COMPILER_UPDATE", "__INTEL_COMPILER_BUILD_DATE", "__FCC_version__",
     "WATCOM_BELOW_1200", "IBM_FROM_800"}

(* The macros of a target built by Target. *)
LEMMA TargetMacros ==
    ASSUME NEW p, NEW a, NEW s PROVE DOMAIN Target(p, a, s).macros = s
  BY DEF Target, Flags

(* No target defines what tells compilers apart. *)
LEMMA PlatformsApart ==
    ASSUME NEW x \in Marks \cup Shared, NEW target \in Platforms
    PROVE  x \notin DOMAIN target.macros
  BY TargetMacros, SMT DEF Marks, Shared, Platforms, Platform, Plain

LEMMA WindowsApart ==
    ASSUME NEW x \in Marks \cup Shared, NEW target \in WindowsTargets
    PROVE  x \notin DOMAIN target.macros
  BY SMT DEF Marks, Shared, WindowsTargets, Windows, WindowsArm, Target, Flags

LEMMA WatcomApart ==
    ASSUME NEW x \in Marks \cup Shared, NEW target \in WatcomTargets
    PROVE  x \notin DOMAIN target.macros
  BY TargetMacros, SMT DEF Marks, Shared, WatcomTargets, WatcomPlatforms

LEMMA OthersApart ==
    ASSUME NEW x \in Marks \cup Shared,
           NEW target \in GHSTargets \cup TITargets \cup IARTargets
                            \cup {IARArm, Plain, Platform("HP-UX", {"__hpux"})}
    PROVE  x \notin DOMAIN target.macros
  BY TargetMacros, SMT DEF Marks, Shared, GHSTargets, TITargets, IARTargets, IARArm, Plain, Platform

(* The marks of each vendor. *)
Signs(vendor, v, l) ==
    CASE vendor = "Comeau" -> {"__COMO__"}
      [] vendor = "Intel" -> {"__INTEL_COMPILER"}
      [] vendor = "IntelLLVM" -> {"__INTEL_LLVM_COMPILER"}
      [] vendor = "PathScale" -> {"__PATHCC__"}
      [] vendor = "Embarcadero" -> {"__BORLANDC__", "__CODEGEARC_VERSION__"}
      [] vendor = "Borland" -> {"__BORLANDC__"}
      [] vendor = "Watcom" -> {"__WATCOMC__"}
      [] vendor = "OpenWatcom" -> {"__WATCOMC__"}
      [] vendor = "SunPro" -> {Spelling("__SUNPRO_C", l)}
      [] vendor = "HP" -> IF v = <<>> THEN {} ELSE {Spelling("__HP_cc", l)}
      [] vendor = "Compaq" -> {Spelling("__DECC", l)}
      [] vendor = "zOS" -> {Spelling("__IBMC__", l), "__COMPILER_VER__"}
      [] vendor = "XLClang" -> {"__ibmxl__"}
      [] vendor = "XL" -> {Spelling("__IBMC__", l)}
      [] vendor = "VisualAge" -> {Spelling("__IBMC__", l)}
      [] vendor = "NVHPC" -> {"__NVCOMPILER", "__PGI"}
      [] vendor = "PGI" -> {"__PGI"}
      [] vendor = "Cray" -> {"_CRAYC"}
      [] vendor = "TI" -> {"__TI_COMPILER_VERSION__"}
      [] vendor = "FujitsuClang" -> {"__CLANG_FUJITSU"}
      [] vendor = "Fujitsu" -> {"__FUJITSU"}
      [] vendor = "GHS" -> {"__ghs__"}
      [] vendor = "TinyCC" -> {"__TINYC__"}
      [] vendor = "Bruce" -> {"__BCC__"}
      [] vendor = "SCO" -> {"__SCO_VERSION__"}
      [] vendor = "ARMCC" -> {"__ARMCC_VERSION"}
      [] vendor = "AppleClang" -> {"__apple_build_version__"}
      [] vendor = "ARMClang" -> {"__ARMCC_VERSION", "__ARMCOMPILER_VERSION"}
      [] vendor = "Clang" -> {}
      [] vendor = "GNU" -> {}
      [] vendor = "MSVC" -> {}
      [] vendor = "ADSP" -> {"__VISUALDSPVERSION__"}
      [] vendor = "IAR" -> {"__IAR_SYSTEMS_ICC__"}
      [] vendor = "SDCC" -> IF v[1] < 3 THEN {"SDCC"} ELSE {"__SDCC_VERSION_MAJOR"}

(* A vendor's own macros have its marks and no others. *)
LEMMA OwnSigns ==
    ASSUME NEW vendor \in Vendors, NEW v, NEW l \in Languages, NEW x \in Marks
    PROVE  x \in DOMAIN OwnMacros(vendor, v, l) <=> x \in Signs(vendor, v, l)
  <1> DEFINE Same(name) == x \in DOMAIN OwnMacros(name, v, l) <=> x \in Signs(name, v, l)
  <1>1. /\ Same("Comeau") /\ Same("Intel") /\ Same("IntelLLVM") /\ Same("PathScale") /\ Same("Embarcadero")
        /\ Same("Borland") /\ Same("Watcom") /\ Same("OpenWatcom") /\ Same("SunPro") /\ Same("HP")
        /\ Same("Compaq") /\ Same("zOS") /\ Same("XLClang") /\ Same("XL") /\ Same("VisualAge")
        /\ Same("NVHPC") /\ Same("PGI") /\ Same("Cray") /\ Same("TI") /\ Same("FujitsuClang")
        /\ Same("Fujitsu") /\ Same("GHS") /\ Same("TinyCC") /\ Same("Bruce") /\ Same("SCO")
        /\ Same("ARMCC") /\ Same("AppleClang") /\ Same("ARMClang") /\ Same("Clang") /\ Same("GNU")
        /\ Same("MSVC") /\ Same("ADSP") /\ Same("IAR") /\ Same("SDCC")
    BY SMT DEF Signs, OwnMacros, Marks, Shared, Languages, Spelling, IntelMacros, MSVCMacros,
       FujitsuMacros,
         IARMacros, ClangMacros, GNUMacros, Macro, Flags, ++
  <1> HIDE DEF Same
  <1>2. Same(vendor)
    BY <1>1, SMT DEF Vendors
  <1> QED
    BY <1>2 DEF Same

(* Nor does the target of a toolchain. *)
LEMMA TargetApart ==
    ASSUME NEW t, WellFormed(t), NEW x \in Marks \cup Shared
    PROVE  x \notin DOMAIN t.target.macros
  BY PlatformsApart, WindowsApart, WatcomApart, OthersApart, SMT DEF WellFormed, TargetsOf

(* What the language defines. *)
LEMMA LanguageNames ==
    ASSUME NEW t, NEW l \in Languages, NEW x \in Marks \cup Shared
    PROVE  x \in DOMAIN LanguageMacros(t, l) <=>
             \/ l = "CXX" /\ x = "__cplusplus"
             \/ l = "C" /\ x = "__STDC_VERSION__"
             \/ x = "__STDC__"
             \/ l = "CXX" /\ t.strict /\ x = "__STRICT_ANSI__"
             \/ l = "CXX" /\ "GNU" \in {t.pretends, t.vendor} /\ x = "__GNUG__"
             \/ l = "CXX" /\ "MSVC" \in {t.pretends, t.vendor} /\ x = "_MSVC_LANG"
  BY SMT DEF LanguageMacros, Languages, Flags, ++

(* What the pretended vendor defines. *)
LEMMA PretendedNames ==
    ASSUME NEW t, NEW x
    PROVE  x \in DOMAIN PretendedMacros(t) <=>
             \/ t.pretends = "GNU" /\ x \in {"__GNUC__", "__GNUC_MINOR__", "__GNUC_PATCHLEVEL__"}
             \/ t.pretends = "MSVC" /\ x = "_MSC_VER"
  BY SMT DEF PretendedMacros, GNUMacros, MSVCMacros, MsvcPretended, Flags, ++

(* A branch that is taken when no earlier one is, is the one. *)
LEMMA FirstIs ==
    ASSUME NEW branches, NEW facts, Len(branches) \in Nat, NEW k \in 1 .. Len(branches),
           Taken(branches[k], facts), \A i \in 1 .. k - 1 : ~Taken(branches[i], facts)
    PROVE  FirstTaken(branches, facts) = branches[k].id
  <1> DEFINE I == {i \in 1 .. Len(branches) : Taken(branches[i], facts)}
  <1>1. k \in I /\ I \subseteq Int /\ \A i \in I : k =< i
    BY SMT
  <1>2. \A x \in I : (\A y \in I : x =< y) => x = k
    BY <1>1, SMT
  <1>3. Min(I) = k
    BY <1>1, <1>2 DEF Min
  <1>4. FirstTaken(branches, facts) = branches[Min(I)].id
    BY <1>1 DEF FirstTaken
  <1> QED
    BY <1>3, <1>4

(* When the branches of the cascades are taken. *)
LEMMA ByTaken ==
    ASSUME NEW id, NEW a, NEW b, NEW facts
    PROVE  /\ Taken(By(id, a), facts) <=> a \in facts
           /\ By(id, a).id = id
  BY DEF Taken, By, Branch

LEMMA PairTaken ==
    ASSUME NEW id, NEW a, NEW b, NEW facts
    PROVE  /\ Taken(Either(id, a, b), facts) <=> a \in facts \/ b \in facts
           /\ Taken(Both(id, a, b), facts) <=> a \in facts /\ b \in facts
           /\ Either(id, a, b).id = id /\ Both(id, a, b).id = id
  BY Zenon DEF Taken, Either, Both, Branch

(* The cascade of the C probe, branch by branch. *)
LEMMA CBranchesTaken ==
    ASSUME NEW F
    PROVE
      /\ Taken(CBranches[1], F) <=> "__INTEL_COMPILER" \in F \/ "__ICC" \in F
      /\ Taken(CBranches[2], F) <=>
             {"__clang__", "__INTEL_CLANG_COMPILER"} \subseteq F \/ "__INTEL_LLVM_COMPILER" \in F
      /\ Taken(CBranches[3], F) <=> "__PATHCC__" \in F
      /\ Taken(CBranches[4], F) <=> {"__BORLANDC__", "__CODEGEARC_VERSION__"} \subseteq F
      /\ Taken(CBranches[5], F) <=> "__BORLANDC__" \in F
      /\ Taken(CBranches[6], F) <=> {"__WATCOMC__", "WATCOM_BELOW_1200"} \subseteq F
      /\ Taken(CBranches[7], F) <=> "__WATCOMC__" \in F
      /\ Taken(CBranches[8], F) <=> "__SUNPRO_C" \in F
      /\ Taken(CBranches[9], F) <=> "__HP_cc" \in F
      /\ Taken(CBranches[10], F) <=> "__DECC" \in F
      /\ Taken(CBranches[11], F) <=> {"__IBMC__", "__COMPILER_VER__"} \subseteq F
      /\ Taken(CBranches[12], F) <=> {"__ibmxl__", "__clang__"} \subseteq F
      /\ Taken(CBranches[13], F) <=> {"__IBMC__", "IBM_FROM_800"} \subseteq F /\ "__COMPILER_VER__" \notin F
      /\ Taken(CBranches[14], F) <=> "__IBMC__" \in F /\ {"__COMPILER_VER__", "IBM_FROM_800"} \cap F = {}
      /\ Taken(CBranches[15], F) <=> "__NVCOMPILER" \in F
      /\ Taken(CBranches[16], F) <=> "__PGI" \in F
      /\ Taken(CBranches[17], F) <=> "_CRAYC" \in F
      /\ Taken(CBranches[18], F) <=> "__TI_COMPILER_VERSION__" \in F
      /\ Taken(CBranches[19], F) <=> "__CLANG_FUJITSU" \in F
      /\ Taken(CBranches[20], F) <=> "__FUJITSU" \in F
      /\ Taken(CBranches[21], F) <=> "__ghs__" \in F
      /\ Taken(CBranches[22], F) <=> "__TINYC__" \in F
      /\ Taken(CBranches[23], F) <=> "__BCC__" \in F
      /\ Taken(CBranches[24], F) <=> "__SCO_VERSION__" \in F
      /\ Taken(CBranches[25], F) <=> "__ARMCC_VERSION" \in F /\ "__clang__" \notin F
      /\ Taken(CBranches[26], F) <=> {"__clang__", "__apple_build_version__"} \subseteq F
      /\ Taken(CBranches[27], F) <=> {"__clang__", "__ARMCOMPILER_VERSION"} \subseteq F
      /\ Taken(CBranches[28], F) <=> "__clang__" \in F
      /\ Taken(CBranches[29], F) <=> "__GNUC__" \in F
      /\ Taken(CBranches[30], F) <=> "_MSC_VER" \in F
      /\ Taken(CBranches[31], F) <=>
             {"__VISUALDSPVERSION__", "__ADSPBLACKFIN__", "__ADSPTS__", "__ADSP21000__"} \cap F # {}
      /\ Taken(CBranches[32], F) <=> "__IAR_SYSTEMS_ICC__" \in F \/ "__IAR_SYSTEMS_ICC" \in F
      /\ Taken(CBranches[33], F) <=> "__SDCC_VERSION_MAJOR" \in F \/ "SDCC" \in F
      /\ Taken(CBranches[34], F) <=> "__hpux" \in F \/ "__hpua" \in F
  <1>1. Taken(Branch("IntelLLVM",
            {{"__clang__", "__INTEL_CLANG_COMPILER"}, {"__INTEL_LLVM_COMPILER"}}, {}), F)
        <=> {"__clang__", "__INTEL_CLANG_COMPILER"} \subseteq F \/ "__INTEL_LLVM_COMPILER" \in F
    BY Zenon DEF Taken, Branch
  <1>2. Taken(Branch("XL", {{"__IBMC__", "IBM_FROM_800"}}, {"__COMPILER_VER__"}), F)
        <=> {"__IBMC__", "IBM_FROM_800"} \subseteq F /\ "__COMPILER_VER__" \notin F
    BY Zenon DEF Taken, Branch
  <1>3. Taken(Branch("VisualAge", {{"__IBMC__"}}, {"__COMPILER_VER__", "IBM_FROM_800"}), F)
        <=> "__IBMC__" \in F /\ {"__COMPILER_VER__", "IBM_FROM_800"} \cap F = {}
    BY Zenon DEF Taken, Branch
  <1>4. Taken(ArmBranch, F) <=> "__ARMCC_VERSION" \in F /\ "__clang__" \notin F
    BY Zenon DEF Taken, Branch, ArmBranch
  <1>5. Taken(Branch("ADSP", {{"__VISUALDSPVERSION__"}, {"__ADSPBLACKFIN__"}, {"__ADSPTS__"},
                             {"__ADSP21000__"}}, {}), F)
        <=> {"__VISUALDSPVERSION__", "__ADSPBLACKFIN__", "__ADSPTS__", "__ADSP21000__"} \cap F # {}
    BY Zenon DEF Taken, Branch
  <1> QED
    BY <1>1, <1>2, <1>3, <1>4, <1>5, ByTaken, PairTaken, SMT
    DEF CBranches, CXXBranches, DesktopBranches, UnixBranches, ClangBranches, EmbeddedBranches,
       Guessed, Spelling

(* The cascade of the C++ probe, branch by branch. *)
LEMMA CXXBranchesTaken ==
    ASSUME NEW F
    PROVE
      /\ Taken(CXXBranches[1], F) <=> "__COMO__" \in F
      /\ Taken(CXXBranches[2], F) <=> "__INTEL_COMPILER" \in F \/ "__ICC" \in F
      /\ Taken(CXXBranches[3], F) <=>
             {"__clang__", "__INTEL_CLANG_COMPILER"} \subseteq F \/ "__INTEL_LLVM_COMPILER" \in F
      /\ Taken(CXXBranches[4], F) <=> "__PATHCC__" \in F
      /\ Taken(CXXBranches[5], F) <=> {"__BORLANDC__", "__CODEGEARC_VERSION__"} \subseteq F
      /\ Taken(CXXBranches[6], F) <=> "__BORLANDC__" \in F
      /\ Taken(CXXBranches[7], F) <=> {"__WATCOMC__", "WATCOM_BELOW_1200"} \subseteq F
      /\ Taken(CXXBranches[8], F) <=> "__WATCOMC__" \in F
      /\ Taken(CXXBranches[9], F) <=> "__SUNPRO_CC" \in F
      /\ Taken(CXXBranches[10], F) <=> "__HP_aCC" \in F
      /\ Taken(CXXBranches[11], F) <=> "__DECCXX" \in F
      /\ Taken(CXXBranches[12], F) <=> {"__IBMCPP__", "__COMPILER_VER__"} \subseteq F
      /\ Taken(CXXBranches[13], F) <=> {"__ibmxl__", "__clang__"} \subseteq F
      /\ Taken(CXXBranches[14], F) <=>
             {"__IBMCPP__", "IBM_FROM_800"} \subseteq F /\ "__COMPILER_VER__" \notin F
      /\ Taken(CXXBranches[15], F) <=> "__IBMCPP__" \in F /\ {"__COMPILER_VER__", "IBM_FROM_800"} \cap F = {}
      /\ Taken(CXXBranches[16], F) <=> "__NVCOMPILER" \in F
      /\ Taken(CXXBranches[17], F) <=> "__PGI" \in F
      /\ Taken(CXXBranches[18], F) <=> "_CRAYC" \in F
      /\ Taken(CXXBranches[19], F) <=> "__TI_COMPILER_VERSION__" \in F
      /\ Taken(CXXBranches[20], F) <=> "__CLANG_FUJITSU" \in F
      /\ Taken(CXXBranches[21], F) <=> "__FUJITSU" \in F
      /\ Taken(CXXBranches[22], F) <=> "__ghs__" \in F
      /\ Taken(CXXBranches[23], F) <=> "__SCO_VERSION__" \in F
      /\ Taken(CXXBranches[24], F) <=> "__ARMCC_VERSION" \in F /\ "__clang__" \notin F
      /\ Taken(CXXBranches[25], F) <=> {"__clang__", "__apple_build_version__"} \subseteq F
      /\ Taken(CXXBranches[26], F) <=> {"__clang__", "__ARMCOMPILER_VERSION"} \subseteq F
      /\ Taken(CXXBranches[27], F) <=> "__clang__" \in F
      /\ Taken(CXXBranches[28], F) <=> "__GNUC__" \in F \/ "__GNUG__" \in F
      /\ Taken(CXXBranches[29], F) <=> "_MSC_VER" \in F
      /\ Taken(CXXBranches[30], F) <=>
             {"__VISUALDSPVERSION__", "__ADSPBLACKFIN__", "__ADSPTS__", "__ADSP21000__"} \cap F # {}
      /\ Taken(CXXBranches[31], F) <=> "__IAR_SYSTEMS_ICC__" \in F \/ "__IAR_SYSTEMS_ICC" \in F
      /\ Taken(CXXBranches[32], F) <=> "__hpux" \in F \/ "__hpua" \in F
  <1>1. Taken(Branch("IntelLLVM",
            {{"__clang__", "__INTEL_CLANG_COMPILER"}, {"__INTEL_LLVM_COMPILER"}}, {}), F)
        <=> {"__clang__", "__INTEL_CLANG_COMPILER"} \subseteq F \/ "__INTEL_LLVM_COMPILER" \in F
    BY Zenon DEF Taken, Branch
  <1>2. Taken(Branch("XL", {{"__IBMCPP__", "IBM_FROM_800"}}, {"__COMPILER_VER__"}), F)
        <=> {"__IBMCPP__", "IBM_FROM_800"} \subseteq F /\ "__COMPILER_VER__" \notin F
    BY Zenon DEF Taken, Branch
  <1>3. Taken(Branch("VisualAge", {{"__IBMCPP__"}}, {"__COMPILER_VER__", "IBM_FROM_800"}), F)
        <=> "__IBMCPP__" \in F /\ {"__COMPILER_VER__", "IBM_FROM_800"} \cap F = {}
    BY Zenon DEF Taken, Branch
  <1>4. Taken(ArmBranch, F) <=> "__ARMCC_VERSION" \in F /\ "__clang__" \notin F
    BY Zenon DEF Taken, Branch, ArmBranch
  <1>5. Taken(Branch("ADSP", {{"__VISUALDSPVERSION__"}, {"__ADSPBLACKFIN__"}, {"__ADSPTS__"},
                             {"__ADSP21000__"}}, {}), F)
        <=> {"__VISUALDSPVERSION__", "__ADSPBLACKFIN__", "__ADSPTS__", "__ADSP21000__"} \cap F # {}
    BY Zenon DEF Taken, Branch
  <1> QED
    BY <1>1, <1>2, <1>3, <1>4, <1>5, ByTaken, PairTaken, SMT
    DEF CBranches, CXXBranches, DesktopBranches, UnixBranches, ClangBranches, EmbeddedBranches,
       Guessed, Spelling

(* Whom the branches name. *)
LEMMA CBranchesIds ==
  /\ Len(CBranches) = 34
  /\ CBranches[1].id = "Intel" /\ CBranches[2].id = "IntelLLVM"
  /\ CBranches[3].id = "PathScale" /\ CBranches[4].id = "Embarcadero"
  /\ CBranches[5].id = "Borland" /\ CBranches[6].id = "Watcom"
  /\ CBranches[7].id = "OpenWatcom" /\ CBranches[8].id = "SunPro"
  /\ CBranches[9].id = "HP" /\ CBranches[10].id = "Compaq"
  /\ CBranches[11].id = "zOS" /\ CBranches[12].id = "XLClang"
  /\ CBranches[13].id = "XL" /\ CBranches[14].id = "VisualAge"
  /\ CBranches[15].id = "NVHPC" /\ CBranches[16].id = "PGI"
  /\ CBranches[17].id = "Cray" /\ CBranches[18].id = "TI"
  /\ CBranches[19].id = "FujitsuClang" /\ CBranches[20].id = "Fujitsu"
  /\ CBranches[21].id = "GHS" /\ CBranches[22].id = "TinyCC"
  /\ CBranches[23].id = "Bruce" /\ CBranches[24].id = "SCO"
  /\ CBranches[25].id = "ARMCC" /\ CBranches[26].id = "AppleClang"
  /\ CBranches[27].id = "ARMClang" /\ CBranches[28].id = "Clang"
  /\ CBranches[29].id = "GNU" /\ CBranches[30].id = "MSVC"
  /\ CBranches[31].id = "ADSP" /\ CBranches[32].id = "IAR"
  /\ CBranches[33].id = "SDCC" /\ CBranches[34].id = "HP"
  BY SMT DEF CBranches, CXXBranches, DesktopBranches, UnixBranches, ArmBranch, ClangBranches,
     EmbeddedBranches, Guessed, By, Either, Both, Branch

(* Whom they name in the C++ probe. *)
LEMMA CXXBranchesIds ==
  /\ Len(CXXBranches) = 32
  /\ CXXBranches[1].id = "Comeau" /\ CXXBranches[2].id = "Intel"
  /\ CXXBranches[3].id = "IntelLLVM" /\ CXXBranches[4].id = "PathScale"
  /\ CXXBranches[5].id = "Embarcadero" /\ CXXBranches[6].id = "Borland"
  /\ CXXBranches[7].id = "Watcom" /\ CXXBranches[8].id = "OpenWatcom"
  /\ CXXBranches[9].id = "SunPro" /\ CXXBranches[10].id = "HP"
  /\ CXXBranches[11].id = "Compaq" /\ CXXBranches[12].id = "zOS"
  /\ CXXBranches[13].id = "XLClang" /\ CXXBranches[14].id = "XL"
  /\ CXXBranches[15].id = "VisualAge" /\ CXXBranches[16].id = "NVHPC"
  /\ CXXBranches[17].id = "PGI" /\ CXXBranches[18].id = "Cray"
  /\ CXXBranches[19].id = "TI" /\ CXXBranches[20].id = "FujitsuClang"
  /\ CXXBranches[21].id = "Fujitsu" /\ CXXBranches[22].id = "GHS"
  /\ CXXBranches[23].id = "SCO" /\ CXXBranches[24].id = "ARMCC"
  /\ CXXBranches[25].id = "AppleClang" /\ CXXBranches[26].id = "ARMClang"
  /\ CXXBranches[27].id = "Clang" /\ CXXBranches[28].id = "GNU"
  /\ CXXBranches[29].id = "MSVC" /\ CXXBranches[30].id = "ADSP"
  /\ CXXBranches[31].id = "IAR" /\ CXXBranches[32].id = "HP"
  BY SMT DEF CBranches, CXXBranches, DesktopBranches, UnixBranches, ArmBranch, ClangBranches,
     EmbeddedBranches, Guessed, By, Either, Both, Branch

(* Where a macro a compiler defines comes from. *)
LEMMA MacroNames ==
    ASSUME NEW t, WellFormed(t), NEW l \in Languages, t.compiles[l] = l, NEW x \in Marks \cup Shared
    PROVE  x \in DOMAIN Macros(t, l) <=>
             \/ x \in DOMAIN OwnMacros(t.vendor, t.version, l)
             \/ x = "__clang__" /\ t.vendor \in ClangBased
             \/ x \in DOMAIN PretendedMacros(t)
             \/ x \in DOMAIN LanguageMacros(t, l)
  <1>1. x \notin DOMAIN t.target.macros
    BY TargetApart
  <1> QED
    BY <1>1, SMT DEF Macros, ++, Flags

(* A vendor's own macros prevail over everything else. *)
LEMMA OwnValue ==
    ASSUME NEW t, NEW l, t.compiles[l] = l, NEW x, x \in DOMAIN OwnMacros(t.vendor, t.version, l)
    PROVE  /\ x \in DOMAIN Macros(t, l)
           /\ Macros(t, l)[x] = OwnMacros(t.vendor, t.version, l)[x]
  BY SMT DEF Macros, ++

(* The facts the cascades look at: macros, and two comparisons of values. *)
LEMMA FactNames ==
    ASSUME NEW m, NEW l
    PROVE /\ \A x : x \notin {"WATCOM_BELOW_1200", "IBM_FROM_800"} => (x \in Facts(m, l) <=> x \in DOMAIN m)
          /\ "WATCOM_BELOW_1200" \notin DOMAIN m => ("WATCOM_BELOW_1200" \in Facts(m, l) <=>
                 "__WATCOMC__" \in DOMAIN m /\ m["__WATCOMC__"] < 1200)
          /\ "IBM_FROM_800" \notin DOMAIN m => ("IBM_FROM_800" \in Facts(m, l) <=>
                 Spelling("__IBMC__", l) \in DOMAIN m /\ m[Spelling("__IBMC__", l)] >= 800)
  BY SMT DEF Facts, Defined

(* What the facts F say of a compiler in so far as the cascades ask: the marks
   are its own, what is shared is as its vendor has it, and the two comparisons
   come out as its version says. *)
Tells(F, vendor, version, l) ==
    /\ \A x \in Marks : x \in F <=> x \in Signs(vendor, version, l)
    /\ vendor = "Watcom" => "WATCOM_BELOW_1200" \in F
    /\ vendor = "OpenWatcom" => "WATCOM_BELOW_1200" \notin F
    /\ vendor = "XL" => "IBM_FROM_800" \in F
    /\ vendor = "VisualAge" => "IBM_FROM_800" \notin F
    /\ "__clang__" \in F <=> vendor \in ClangBased
    /\ "__GNUC__" \in F => vendor \notin {"MSVC", "ADSP", "IAR", "SDCC"}
    /\ "__GNUG__" \in F => "__GNUC__" \in F
    /\ "__GNUC__" \in F \/ vendor # "GNU"
    /\ "_MSC_VER" \in F => vendor \notin {"ADSP", "IAR", "SDCC"}
    /\ "_MSC_VER" \in F \/ vendor # "MSVC"
    /\ vendor = "HP" /\ version = <<>> =>
          "__hpux" \in F /\ {"__GNUC__", "__GNUG__", "_MSC_VER"} \cap F = {}

(* The first branch of the C probe that is taken. *)
LEMMA FirstC ==
    ASSUME NEW F, NEW k \in 1 .. 34, Taken(CBranches[k], F), \A i \in 1 .. k - 1 : ~Taken(CBranches[i], F)
    PROVE  FirstTaken(CBranches, F) = CBranches[k].id
  <1>1. Len(CBranches) \in Nat /\ k \in 1 .. Len(CBranches)
    BY CBranchesIds, SMT
  <1> QED
    BY <1>1, FirstIs, Zenon

(* Where each vendor is in the C probe: a compiler that tells about itself
   takes none of the branches before. *)
LEMMA PositionC ==
    ASSUME NEW vendor \in Vendors \ {"Comeau"}, NEW version, NEW F, Tells(F, vendor, version, "C")
    PROVE  FirstTaken(CBranches, F) = vendor
  <1>0. /\ "__clang__" \in F <=> vendor \in ClangBased
        /\ "__GNUC__" \in F => vendor \notin {"MSVC", "ADSP", "IAR", "SDCC"}
        /\ "__GNUG__" \in F => "__GNUC__" \in F
        /\ "__GNUC__" \in F \/ vendor # "GNU"
        /\ "_MSC_VER" \in F => vendor \notin {"ADSP", "IAR", "SDCC"}
        /\ "_MSC_VER" \in F \/ vendor # "MSVC"
        /\ vendor = "Watcom" => "WATCOM_BELOW_1200" \in F
        /\ vendor = "OpenWatcom" => "WATCOM_BELOW_1200" \notin F
        /\ vendor = "XL" => "IBM_FROM_800" \in F
        /\ vendor = "VisualAge" => "IBM_FROM_800" \notin F
    BY DEF Tells
  <1>1. CASE vendor \notin {"HP", "SDCC"}
    <2>1. ASSUME NEW x \in Marks
          PROVE  /\ x \in Signs("Intel", version, "C") <=> x \in {"__INTEL_COMPILER"}
                 /\ x \in Signs("IntelLLVM", version, "C") <=> x \in {"__INTEL_LLVM_COMPILER"}
                 /\ x \in Signs("PathScale", version, "C") <=> x \in {"__PATHCC__"}
                 /\ x \in Signs("Embarcadero", version, "C") <=>
                        x \in {"__BORLANDC__", "__CODEGEARC_VERSION__"}
                 /\ x \in Signs("Borland", version, "C") <=> x \in {"__BORLANDC__"}
                 /\ x \in Signs("Watcom", version, "C") <=> x \in {"__WATCOMC__"}
                 /\ x \in Signs("OpenWatcom", version, "C") <=> x \in {"__WATCOMC__"}
                 /\ x \in Signs("SunPro", version, "C") <=> x \in {"__SUNPRO_C"}
                 /\ x \in Signs("Compaq", version, "C") <=> x \in {"__DECC"}
                 /\ x \in Signs("zOS", version, "C") <=> x \in {"__IBMC__", "__COMPILER_VER__"}
                 /\ x \in Signs("XLClang", version, "C") <=> x \in {"__ibmxl__"}
                 /\ x \in Signs("XL", version, "C") <=> x \in {"__IBMC__"}
                 /\ x \in Signs("VisualAge", version, "C") <=> x \in {"__IBMC__"}
                 /\ x \in Signs("NVHPC", version, "C") <=> x \in {"__NVCOMPILER", "__PGI"}
                 /\ x \in Signs("PGI", version, "C") <=> x \in {"__PGI"}
                 /\ x \in Signs("Cray", version, "C") <=> x \in {"_CRAYC"}
                 /\ x \in Signs("TI", version, "C") <=> x \in {"__TI_COMPILER_VERSION__"}
                 /\ x \in Signs("FujitsuClang", version, "C") <=> x \in {"__CLANG_FUJITSU"}
                 /\ x \in Signs("Fujitsu", version, "C") <=> x \in {"__FUJITSU"}
                 /\ x \in Signs("GHS", version, "C") <=> x \in {"__ghs__"}
                 /\ x \in Signs("TinyCC", version, "C") <=> x \in {"__TINYC__"}
                 /\ x \in Signs("Bruce", version, "C") <=> x \in {"__BCC__"}
                 /\ x \in Signs("SCO", version, "C") <=> x \in {"__SCO_VERSION__"}
                 /\ x \in Signs("ARMCC", version, "C") <=> x \in {"__ARMCC_VERSION"}
                 /\ x \in Signs("AppleClang", version, "C") <=> x \in {"__apple_build_version__"}
                 /\ x \in Signs("ARMClang", version, "C") <=>
                        x \in {"__ARMCC_VERSION", "__ARMCOMPILER_VERSION"}
                 /\ x \in Signs("Clang", version, "C") <=> x \in {}
                 /\ x \in Signs("GNU", version, "C") <=> x \in {}
                 /\ x \in Signs("MSVC", version, "C") <=> x \in {}
                 /\ x \in Signs("ADSP", version, "C") <=> x \in {"__VISUALDSPVERSION__"}
                 /\ x \in Signs("IAR", version, "C") <=> x \in {"__IAR_SYSTEMS_ICC__"}
      BY SMT DEF Marks, Signs, Spelling
    <2>2. ASSUME NEW x \in Marks
          PROVE  /\ vendor = "Intel" => (x \in F <=> x \in {"__INTEL_COMPILER"})
                 /\ vendor = "IntelLLVM" => (x \in F <=> x \in {"__INTEL_LLVM_COMPILER"})
                 /\ vendor = "PathScale" => (x \in F <=> x \in {"__PATHCC__"})
                 /\ vendor = "Embarcadero" => (x \in F <=> x \in {"__BORLANDC__", "__CODEGEARC_VERSION__"})
                 /\ vendor = "Borland" => (x \in F <=> x \in {"__BORLANDC__"})
                 /\ vendor = "Watcom" => (x \in F <=> x \in {"__WATCOMC__"})
                 /\ vendor = "OpenWatcom" => (x \in F <=> x \in {"__WATCOMC__"})
                 /\ vendor = "SunPro" => (x \in F <=> x \in {"__SUNPRO_C"})
                 /\ vendor = "Compaq" => (x \in F <=> x \in {"__DECC"})
                 /\ vendor = "zOS" => (x \in F <=> x \in {"__IBMC__", "__COMPILER_VER__"})
                 /\ vendor = "XLClang" => (x \in F <=> x \in {"__ibmxl__"})
                 /\ vendor = "XL" => (x \in F <=> x \in {"__IBMC__"})
                 /\ vendor = "VisualAge" => (x \in F <=> x \in {"__IBMC__"})
                 /\ vendor = "NVHPC" => (x \in F <=> x \in {"__NVCOMPILER", "__PGI"})
                 /\ vendor = "PGI" => (x \in F <=> x \in {"__PGI"})
                 /\ vendor = "Cray" => (x \in F <=> x \in {"_CRAYC"})
                 /\ vendor = "TI" => (x \in F <=> x \in {"__TI_COMPILER_VERSION__"})
                 /\ vendor = "FujitsuClang" => (x \in F <=> x \in {"__CLANG_FUJITSU"})
                 /\ vendor = "Fujitsu" => (x \in F <=> x \in {"__FUJITSU"})
                 /\ vendor = "GHS" => (x \in F <=> x \in {"__ghs__"})
                 /\ vendor = "TinyCC" => (x \in F <=> x \in {"__TINYC__"})
                 /\ vendor = "Bruce" => (x \in F <=> x \in {"__BCC__"})
                 /\ vendor = "SCO" => (x \in F <=> x \in {"__SCO_VERSION__"})
                 /\ vendor = "ARMCC" => (x \in F <=> x \in {"__ARMCC_VERSION"})
                 /\ vendor = "AppleClang" => (x \in F <=> x \in {"__apple_build_version__"})
                 /\ vendor = "ARMClang" => (x \in F <=> x \in {"__ARMCC_VERSION", "__ARMCOMPILER_VERSION"})
                 /\ vendor = "Clang" => (x \in F <=> x \in {})
                 /\ vendor = "GNU" => (x \in F <=> x \in {})
                 /\ vendor = "MSVC" => (x \in F <=> x \in {})
                 /\ vendor = "ADSP" => (x \in F <=> x \in {"__VISUALDSPVERSION__"})
                 /\ vendor = "IAR" => (x \in F <=> x \in {"__IAR_SYSTEMS_ICC__"})
      BY <2>1, SMT DEF Tells, Marks
    <2>3. /\ vendor = "Intel" => Taken(CBranches[1], F)
          /\ vendor = "IntelLLVM" => Taken(CBranches[2], F) /\ \A i \in 1 .. 1 : ~Taken(CBranches[i], F)
          /\ vendor = "PathScale" => Taken(CBranches[3], F) /\ \A i \in 1 .. 2 : ~Taken(CBranches[i], F)
          /\ vendor = "Embarcadero" => Taken(CBranches[4], F) /\ \A i \in 1 .. 3 : ~Taken(CBranches[i], F)
          /\ vendor = "Borland" => Taken(CBranches[5], F) /\ \A i \in 1 .. 4 : ~Taken(CBranches[i], F)
          /\ vendor = "Watcom" => Taken(CBranches[6], F) /\ \A i \in 1 .. 5 : ~Taken(CBranches[i], F)
          /\ vendor = "OpenWatcom" => Taken(CBranches[7], F) /\ \A i \in 1 .. 6 : ~Taken(CBranches[i], F)
          /\ vendor = "SunPro" => Taken(CBranches[8], F) /\ \A i \in 1 .. 7 : ~Taken(CBranches[i], F)
          /\ vendor = "Compaq" => Taken(CBranches[10], F) /\ \A i \in 1 .. 9 : ~Taken(CBranches[i], F)
          /\ vendor = "zOS" => Taken(CBranches[11], F) /\ \A i \in 1 .. 10 : ~Taken(CBranches[i], F)
          /\ vendor = "XLClang" => Taken(CBranches[12], F) /\ \A i \in 1 .. 11 : ~Taken(CBranches[i], F)
          /\ vendor = "XL" => Taken(CBranches[13], F) /\ \A i \in 1 .. 12 : ~Taken(CBranches[i], F)
          /\ vendor = "VisualAge" => Taken(CBranches[14], F) /\ \A i \in 1 .. 13 : ~Taken(CBranches[i], F)
          /\ vendor = "NVHPC" => Taken(CBranches[15], F) /\ \A i \in 1 .. 14 : ~Taken(CBranches[i], F)
          /\ vendor = "PGI" => Taken(CBranches[16], F) /\ \A i \in 1 .. 15 : ~Taken(CBranches[i], F)
          /\ vendor = "Cray" => Taken(CBranches[17], F) /\ \A i \in 1 .. 16 : ~Taken(CBranches[i], F)
          /\ vendor = "TI" => Taken(CBranches[18], F) /\ \A i \in 1 .. 17 : ~Taken(CBranches[i], F)
          /\ vendor = "FujitsuClang" => Taken(CBranches[19], F) /\ \A i \in 1 .. 18 : ~Taken(CBranches[i], F)
          /\ vendor = "Fujitsu" => Taken(CBranches[20], F) /\ \A i \in 1 .. 19 : ~Taken(CBranches[i], F)
          /\ vendor = "GHS" => Taken(CBranches[21], F) /\ \A i \in 1 .. 20 : ~Taken(CBranches[i], F)
          /\ vendor = "TinyCC" => Taken(CBranches[22], F) /\ \A i \in 1 .. 21 : ~Taken(CBranches[i], F)
          /\ vendor = "Bruce" => Taken(CBranches[23], F) /\ \A i \in 1 .. 22 : ~Taken(CBranches[i], F)
          /\ vendor = "SCO" => Taken(CBranches[24], F) /\ \A i \in 1 .. 23 : ~Taken(CBranches[i], F)
          /\ vendor = "ARMCC" => Taken(CBranches[25], F) /\ \A i \in 1 .. 24 : ~Taken(CBranches[i], F)
          /\ vendor = "AppleClang" => Taken(CBranches[26], F) /\ \A i \in 1 .. 25 : ~Taken(CBranches[i], F)
          /\ vendor = "ARMClang" => Taken(CBranches[27], F) /\ \A i \in 1 .. 26 : ~Taken(CBranches[i], F)
          /\ vendor = "Clang" => Taken(CBranches[28], F) /\ \A i \in 1 .. 27 : ~Taken(CBranches[i], F)
          /\ vendor = "GNU" => Taken(CBranches[29], F) /\ \A i \in 1 .. 28 : ~Taken(CBranches[i], F)
          /\ vendor = "MSVC" => Taken(CBranches[30], F) /\ \A i \in 1 .. 29 : ~Taken(CBranches[i], F)
          /\ vendor = "ADSP" => Taken(CBranches[31], F) /\ \A i \in 1 .. 30 : ~Taken(CBranches[i], F)
          /\ vendor = "IAR" => Taken(CBranches[32], F) /\ \A i \in 1 .. 31 : ~Taken(CBranches[i], F)
      BY <1>0, <2>2, CBranchesTaken, SMT DEF Marks, ClangBased
    <2> QED
      BY <1>1, <2>3, FirstC, CBranchesIds, SMT DEF Vendors
  <1>2. CASE vendor = "HP" /\ version # <<>>
    <2>1. vendor = "HP"
      BY <1>2, SMT DEF Tells, ClangBased
    <2>2. \A x \in Marks : x \in F <=> x = "__HP_cc"
      BY <1>2, SMT DEF Tells, Marks, Signs, Spelling
    <2>3. Taken(CBranches[9], F) /\ \A i \in 1 .. 8 : ~Taken(CBranches[i], F)
      BY <1>0, <2>1, <2>2, CBranchesTaken, SMT DEF Marks, ClangBased
    <2> QED
      BY <2>1, <2>3, FirstC, CBranchesIds, SMT
  <1>3. CASE vendor = "HP" /\ version = <<>>
    <2>1. vendor = "HP" /\ "__hpux" \in F /\ "__GNUC__" \notin F /\ "_MSC_VER" \notin F
              /\ "__GNUG__" \notin F /\ "__clang__" \notin F
      BY <1>3, SMT DEF Tells, ClangBased
    <2>2. \A x \in Marks : x \in F <=> FALSE
      BY <1>3, SMT DEF Tells, Marks, Signs, Spelling
    <2>3. Taken(CBranches[34], F) /\ \A i \in 1 .. 33 : ~Taken(CBranches[i], F)
      BY <1>0, <2>1, <2>2, CBranchesTaken, SMT DEF Marks, ClangBased
    <2> QED
      BY <2>1, <2>3, FirstC, CBranchesIds, SMT
  <1>4. CASE vendor = "SDCC" /\ version[1] < 3
    <2>1. vendor = "SDCC"
      BY <1>4, SMT DEF Tells, ClangBased
    <2>2. \A x \in Marks : x \in F <=> x = "SDCC"
      BY <1>4, SMT DEF Tells, Marks, Signs, Spelling
    <2>3. Taken(CBranches[33], F) /\ \A i \in 1 .. 32 : ~Taken(CBranches[i], F)
      BY <1>0, <2>1, <2>2, CBranchesTaken, SMT DEF Marks, ClangBased
    <2> QED
      BY <2>1, <2>3, FirstC, CBranchesIds, SMT
  <1>5. CASE vendor = "SDCC" /\ ~(version[1] < 3)
    <2>1. vendor = "SDCC"
      BY <1>5, SMT DEF Tells, ClangBased
    <2>2. \A x \in Marks : x \in F <=> x = "__SDCC_VERSION_MAJOR"
      BY <1>5, SMT DEF Tells, Marks, Signs, Spelling
    <2>3. Taken(CBranches[33], F) /\ \A i \in 1 .. 32 : ~Taken(CBranches[i], F)
      BY <1>0, <2>1, <2>2, CBranchesTaken, SMT DEF Marks, ClangBased
    <2> QED
      BY <2>1, <2>3, FirstC, CBranchesIds, SMT
  <1> QED
    BY <1>1, <1>2, <1>3, <1>4, <1>5, SMT DEF Vendors

(* The first branch of the C++ probe that is taken. *)
LEMMA FirstCXX ==
    ASSUME NEW F, NEW k \in 1 .. 32, Taken(CXXBranches[k], F), \A i \in 1 .. k - 1 : ~Taken(CXXBranches[i], F)
    PROVE  FirstTaken(CXXBranches, F) = CXXBranches[k].id
  <1>1. Len(CXXBranches) \in Nat /\ k \in 1 .. Len(CXXBranches)
    BY CXXBranchesIds, SMT
  <1> QED
    BY <1>1, FirstIs, Zenon

(* Where each vendor is in the C++ probe. *)
LEMMA PositionCXX ==
    ASSUME NEW vendor \in Vendors \ {"TinyCC", "Bruce", "SDCC"}, NEW version, NEW F,
               Tells(F, vendor, version, "CXX")
    PROVE  FirstTaken(CXXBranches, F) = vendor
  <1>0. /\ "__clang__" \in F <=> vendor \in ClangBased
        /\ "__GNUC__" \in F => vendor \notin {"MSVC", "ADSP", "IAR", "SDCC"}
        /\ "__GNUG__" \in F => "__GNUC__" \in F
        /\ "__GNUC__" \in F \/ vendor # "GNU"
        /\ "_MSC_VER" \in F => vendor \notin {"ADSP", "IAR", "SDCC"}
        /\ "_MSC_VER" \in F \/ vendor # "MSVC"
        /\ vendor = "Watcom" => "WATCOM_BELOW_1200" \in F
        /\ vendor = "OpenWatcom" => "WATCOM_BELOW_1200" \notin F
        /\ vendor = "XL" => "IBM_FROM_800" \in F
        /\ vendor = "VisualAge" => "IBM_FROM_800" \notin F
    BY DEF Tells
  <1>1. CASE vendor \notin {"HP", "SDCC"}
    <2>1. ASSUME NEW x \in Marks
          PROVE  /\ x \in Signs("Comeau", version, "CXX") <=> x \in {"__COMO__"}
                 /\ x \in Signs("Intel", version, "CXX") <=> x \in {"__INTEL_COMPILER"}
                 /\ x \in Signs("IntelLLVM", version, "CXX") <=> x \in {"__INTEL_LLVM_COMPILER"}
                 /\ x \in Signs("PathScale", version, "CXX") <=> x \in {"__PATHCC__"}
                 /\ x \in Signs("Embarcadero", version, "CXX") <=>
                        x \in {"__BORLANDC__", "__CODEGEARC_VERSION__"}
                 /\ x \in Signs("Borland", version, "CXX") <=> x \in {"__BORLANDC__"}
                 /\ x \in Signs("Watcom", version, "CXX") <=> x \in {"__WATCOMC__"}
                 /\ x \in Signs("OpenWatcom", version, "CXX") <=> x \in {"__WATCOMC__"}
                 /\ x \in Signs("SunPro", version, "CXX") <=> x \in {"__SUNPRO_CC"}
                 /\ x \in Signs("Compaq", version, "CXX") <=> x \in {"__DECCXX"}
                 /\ x \in Signs("zOS", version, "CXX") <=> x \in {"__IBMCPP__", "__COMPILER_VER__"}
                 /\ x \in Signs("XLClang", version, "CXX") <=> x \in {"__ibmxl__"}
                 /\ x \in Signs("XL", version, "CXX") <=> x \in {"__IBMCPP__"}
                 /\ x \in Signs("VisualAge", version, "CXX") <=> x \in {"__IBMCPP__"}
                 /\ x \in Signs("NVHPC", version, "CXX") <=> x \in {"__NVCOMPILER", "__PGI"}
                 /\ x \in Signs("PGI", version, "CXX") <=> x \in {"__PGI"}
                 /\ x \in Signs("Cray", version, "CXX") <=> x \in {"_CRAYC"}
                 /\ x \in Signs("TI", version, "CXX") <=> x \in {"__TI_COMPILER_VERSION__"}
                 /\ x \in Signs("FujitsuClang", version, "CXX") <=> x \in {"__CLANG_FUJITSU"}
                 /\ x \in Signs("Fujitsu", version, "CXX") <=> x \in {"__FUJITSU"}
                 /\ x \in Signs("GHS", version, "CXX") <=> x \in {"__ghs__"}
                 /\ x \in Signs("SCO", version, "CXX") <=> x \in {"__SCO_VERSION__"}
                 /\ x \in Signs("ARMCC", version, "CXX") <=> x \in {"__ARMCC_VERSION"}
                 /\ x \in Signs("AppleClang", version, "CXX") <=> x \in {"__apple_build_version__"}
                 /\ x \in Signs("ARMClang", version, "CXX") <=>
                        x \in {"__ARMCC_VERSION", "__ARMCOMPILER_VERSION"}
                 /\ x \in Signs("Clang", version, "CXX") <=> x \in {}
                 /\ x \in Signs("GNU", version, "CXX") <=> x \in {}
                 /\ x \in Signs("MSVC", version, "CXX") <=> x \in {}
                 /\ x \in Signs("ADSP", version, "CXX") <=> x \in {"__VISUALDSPVERSION__"}
                 /\ x \in Signs("IAR", version, "CXX") <=> x \in {"__IAR_SYSTEMS_ICC__"}
      BY SMT DEF Marks, Signs, Spelling
    <2>2. ASSUME NEW x \in Marks
          PROVE  /\ vendor = "Comeau" => (x \in F <=> x \in {"__COMO__"})
                 /\ vendor = "Intel" => (x \in F <=> x \in {"__INTEL_COMPILER"})
                 /\ vendor = "IntelLLVM" => (x \in F <=> x \in {"__INTEL_LLVM_COMPILER"})
                 /\ vendor = "PathScale" => (x \in F <=> x \in {"__PATHCC__"})
                 /\ vendor = "Embarcadero" => (x \in F <=> x \in {"__BORLANDC__", "__CODEGEARC_VERSION__"})
                 /\ vendor = "Borland" => (x \in F <=> x \in {"__BORLANDC__"})
                 /\ vendor = "Watcom" => (x \in F <=> x \in {"__WATCOMC__"})
                 /\ vendor = "OpenWatcom" => (x \in F <=> x \in {"__WATCOMC__"})
                 /\ vendor = "SunPro" => (x \in F <=> x \in {"__SUNPRO_CC"})
                 /\ vendor = "Compaq" => (x \in F <=> x \in {"__DECCXX"})
                 /\ vendor = "zOS" => (x \in F <=> x \in {"__IBMCPP__", "__COMPILER_VER__"})
                 /\ vendor = "XLClang" => (x \in F <=> x \in {"__ibmxl__"})
                 /\ vendor = "XL" => (x \in F <=> x \in {"__IBMCPP__"})
                 /\ vendor = "VisualAge" => (x \in F <=> x \in {"__IBMCPP__"})
                 /\ vendor = "NVHPC" => (x \in F <=> x \in {"__NVCOMPILER", "__PGI"})
                 /\ vendor = "PGI" => (x \in F <=> x \in {"__PGI"})
                 /\ vendor = "Cray" => (x \in F <=> x \in {"_CRAYC"})
                 /\ vendor = "TI" => (x \in F <=> x \in {"__TI_COMPILER_VERSION__"})
                 /\ vendor = "FujitsuClang" => (x \in F <=> x \in {"__CLANG_FUJITSU"})
                 /\ vendor = "Fujitsu" => (x \in F <=> x \in {"__FUJITSU"})
                 /\ vendor = "GHS" => (x \in F <=> x \in {"__ghs__"})
                 /\ vendor = "SCO" => (x \in F <=> x \in {"__SCO_VERSION__"})
                 /\ vendor = "ARMCC" => (x \in F <=> x \in {"__ARMCC_VERSION"})
                 /\ vendor = "AppleClang" => (x \in F <=> x \in {"__apple_build_version__"})
                 /\ vendor = "ARMClang" => (x \in F <=> x \in {"__ARMCC_VERSION", "__ARMCOMPILER_VERSION"})
                 /\ vendor = "Clang" => (x \in F <=> x \in {})
                 /\ vendor = "GNU" => (x \in F <=> x \in {})
                 /\ vendor = "MSVC" => (x \in F <=> x \in {})
                 /\ vendor = "ADSP" => (x \in F <=> x \in {"__VISUALDSPVERSION__"})
                 /\ vendor = "IAR" => (x \in F <=> x \in {"__IAR_SYSTEMS_ICC__"})
      BY <2>1, SMT DEF Tells, Marks
    <2>3. /\ vendor = "Comeau" => Taken(CXXBranches[1], F)
          /\ vendor = "Intel" => Taken(CXXBranches[2], F) /\ \A i \in 1 .. 1 : ~Taken(CXXBranches[i], F)
          /\ vendor = "IntelLLVM" => Taken(CXXBranches[3], F) /\ \A i \in 1 .. 2 : ~Taken(CXXBranches[i], F)
          /\ vendor = "PathScale" => Taken(CXXBranches[4], F) /\ \A i \in 1 .. 3 : ~Taken(CXXBranches[i], F)
          /\ vendor = "Embarcadero" => Taken(CXXBranches[5], F) /\ \A i \in 1 .. 4 : ~Taken(CXXBranches[i], F)
          /\ vendor = "Borland" => Taken(CXXBranches[6], F) /\ \A i \in 1 .. 5 : ~Taken(CXXBranches[i], F)
          /\ vendor = "Watcom" => Taken(CXXBranches[7], F) /\ \A i \in 1 .. 6 : ~Taken(CXXBranches[i], F)
          /\ vendor = "OpenWatcom" => Taken(CXXBranches[8], F) /\ \A i \in 1 .. 7 : ~Taken(CXXBranches[i], F)
          /\ vendor = "SunPro" => Taken(CXXBranches[9], F) /\ \A i \in 1 .. 8 : ~Taken(CXXBranches[i], F)
          /\ vendor = "Compaq" => Taken(CXXBranches[11], F) /\ \A i \in 1 .. 10 : ~Taken(CXXBranches[i], F)
          /\ vendor = "zOS" => Taken(CXXBranches[12], F) /\ \A i \in 1 .. 11 : ~Taken(CXXBranches[i], F)
          /\ vendor = "XLClang" => Taken(CXXBranches[13], F) /\ \A i \in 1 .. 12 : ~Taken(CXXBranches[i], F)
          /\ vendor = "XL" => Taken(CXXBranches[14], F) /\ \A i \in 1 .. 13 : ~Taken(CXXBranches[i], F)
          /\ vendor = "VisualAge" => Taken(CXXBranches[15], F) /\ \A i \in 1 .. 14 : ~Taken(CXXBranches[i], F)
          /\ vendor = "NVHPC" => Taken(CXXBranches[16], F) /\ \A i \in 1 .. 15 : ~Taken(CXXBranches[i], F)
          /\ vendor = "PGI" => Taken(CXXBranches[17], F) /\ \A i \in 1 .. 16 : ~Taken(CXXBranches[i], F)
          /\ vendor = "Cray" => Taken(CXXBranches[18], F) /\ \A i \in 1 .. 17 : ~Taken(CXXBranches[i], F)
          /\ vendor = "TI" => Taken(CXXBranches[19], F) /\ \A i \in 1 .. 18 : ~Taken(CXXBranches[i], F)
          /\ vendor = "FujitsuClang" =>
                 Taken(CXXBranches[20], F) /\ \A i \in 1 .. 19 : ~Taken(CXXBranches[i], F)
          /\ vendor = "Fujitsu" => Taken(CXXBranches[21], F) /\ \A i \in 1 .. 20 : ~Taken(CXXBranches[i], F)
          /\ vendor = "GHS" => Taken(CXXBranches[22], F) /\ \A i \in 1 .. 21 : ~Taken(CXXBranches[i], F)
          /\ vendor = "SCO" => Taken(CXXBranches[23], F) /\ \A i \in 1 .. 22 : ~Taken(CXXBranches[i], F)
          /\ vendor = "ARMCC" => Taken(CXXBranches[24], F) /\ \A i \in 1 .. 23 : ~Taken(CXXBranches[i], F)
          /\ vendor = "AppleClang" =>
                 Taken(CXXBranches[25], F) /\ \A i \in 1 .. 24 : ~Taken(CXXBranches[i], F)
          /\ vendor = "ARMClang" => Taken(CXXBranches[26], F) /\ \A i \in 1 .. 25 : ~Taken(CXXBranches[i], F)
          /\ vendor = "Clang" => Taken(CXXBranches[27], F) /\ \A i \in 1 .. 26 : ~Taken(CXXBranches[i], F)
          /\ vendor = "GNU" => Taken(CXXBranches[28], F) /\ \A i \in 1 .. 27 : ~Taken(CXXBranches[i], F)
          /\ vendor = "MSVC" => Taken(CXXBranches[29], F) /\ \A i \in 1 .. 28 : ~Taken(CXXBranches[i], F)
          /\ vendor = "ADSP" => Taken(CXXBranches[30], F) /\ \A i \in 1 .. 29 : ~Taken(CXXBranches[i], F)
          /\ vendor = "IAR" => Taken(CXXBranches[31], F) /\ \A i \in 1 .. 30 : ~Taken(CXXBranches[i], F)
      BY <1>0, <2>2, CXXBranchesTaken, SMT DEF Marks, ClangBased
    <2> QED
      BY <1>1, <2>3, FirstCXX, CXXBranchesIds, SMT DEF Vendors
  <1>2. CASE vendor = "HP" /\ version # <<>>
    <2>1. vendor = "HP"
      BY <1>2, SMT DEF Tells, ClangBased
    <2>2. \A x \in Marks : x \in F <=> x = "__HP_aCC"
      BY <1>2, SMT DEF Tells, Marks, Signs, Spelling
    <2>3. Taken(CXXBranches[10], F) /\ \A i \in 1 .. 9 : ~Taken(CXXBranches[i], F)
      BY <1>0, <2>1, <2>2, CXXBranchesTaken, SMT DEF Marks, ClangBased
    <2> QED
      BY <2>1, <2>3, FirstCXX, CXXBranchesIds, SMT
  <1>3. CASE vendor = "HP" /\ version = <<>>
    <2>1. vendor = "HP" /\ "__hpux" \in F /\ "__GNUC__" \notin F /\ "_MSC_VER" \notin F
              /\ "__GNUG__" \notin F /\ "__clang__" \notin F
      BY <1>3, SMT DEF Tells, ClangBased
    <2>2. \A x \in Marks : x \in F <=> FALSE
      BY <1>3, SMT DEF Tells, Marks, Signs, Spelling
    <2>3. Taken(CXXBranches[32], F) /\ \A i \in 1 .. 31 : ~Taken(CXXBranches[i], F)
      BY <1>0, <2>1, <2>2, CXXBranchesTaken, SMT DEF Marks, ClangBased
    <2> QED
      BY <2>1, <2>3, FirstCXX, CXXBranchesIds, SMT
  <1> QED
    BY <1>1, <1>2, <1>3, SMT DEF Vendors

-----------------------------------------------------------------------------
(* Identification: what toolchains define.                                 *)

(* The shared names that identification depends on. *)
Asked == {"__clang__", "__GNUC__", "__GNUG__", "_MSC_VER", "__cplusplus", "__STRICT_ANSI__",
          "WATCOM_BELOW_1200", "IBM_FROM_800"}

(* Which of them vendors define themselves. *)
LEMMA OwnAsked ==
    ASSUME NEW vendor \in Vendors, NEW v, NEW l \in Languages, NEW x \in Asked
    PROVE  x \in DOMAIN OwnMacros(vendor, v, l) <=>
             (vendor = "GNU" /\ x = "__GNUC__") \/ (vendor = "MSVC" /\ x = "_MSC_VER")
  <1> DEFINE Same(name) == x \in DOMAIN OwnMacros(name, v, l) <=>
             (name = "GNU" /\ x = "__GNUC__") \/ (name = "MSVC" /\ x = "_MSC_VER")
  <1>1. /\ Same("Comeau") /\ Same("Intel") /\ Same("IntelLLVM") /\ Same("PathScale")
        /\ Same("Embarcadero") /\ Same("Borland") /\ Same("Watcom") /\ Same("OpenWatcom")
        /\ Same("SunPro") /\ Same("HP") /\ Same("Compaq") /\ Same("zOS") /\ Same("XLClang")
        /\ Same("XL") /\ Same("VisualAge") /\ Same("NVHPC") /\ Same("PGI") /\ Same("Cray")
        /\ Same("TI") /\ Same("FujitsuClang") /\ Same("Fujitsu") /\ Same("GHS") /\ Same("TinyCC")
        /\ Same("Bruce") /\ Same("SCO") /\ Same("ARMCC") /\ Same("AppleClang") /\ Same("ARMClang")
        /\ Same("Clang") /\ Same("GNU") /\ Same("MSVC") /\ Same("ADSP") /\ Same("IAR") /\ Same("SDCC")
    BY SMT DEF OwnMacros, Asked, Languages, Spelling, IntelMacros, MSVCMacros, FujitsuMacros,
         IARMacros, ClangMacros, GNUMacros, Macro, Flags, ++
  <1> HIDE DEF Same
  <1>2. Same(vendor)
    BY <1>1, SMT DEF Vendors
  <1> QED
    BY <1>2 DEF Same

(* Which of them a compiler defines. *)
LEMMA AskedNames ==
    ASSUME NEW t, WellFormed(t), NEW l \in Languages, t.compiles[l] = l
    PROVE  LET m == Macros(t, l) IN
           /\ "__clang__" \in DOMAIN m <=> t.vendor \in ClangBased
           /\ "__GNUC__" \in DOMAIN m <=> "GNU" \in {t.pretends, t.vendor}
           /\ "__GNUG__" \in DOMAIN m <=> l = "CXX" /\ "GNU" \in {t.pretends, t.vendor}
           /\ "_MSC_VER" \in DOMAIN m <=> "MSVC" \in {t.pretends, t.vendor}
           /\ "__cplusplus" \in DOMAIN m <=> l = "CXX"
           /\ "WATCOM_BELOW_1200" \notin DOMAIN m /\ "IBM_FROM_800" \notin DOMAIN m
  <1> DEFINE m == Macros(t, l)
  <1>1. t.vendor \in Vendors
    BY DEF WellFormed
  <1>2. ASSUME NEW x \in Asked
        PROVE  x \in DOMAIN m <=>
             \/ (t.vendor = "GNU" /\ x = "__GNUC__") \/ (t.vendor = "MSVC" /\ x = "_MSC_VER")
             \/ x = "__clang__" /\ t.vendor \in ClangBased
             \/ x \in DOMAIN PretendedMacros(t)
             \/ x \in DOMAIN LanguageMacros(t, l)
    <2>1. x \in Marks \cup Shared
      BY SMT DEF Asked, Marks, Shared
    <2> QED
      BY <1>1, <2>1, MacroNames, OwnAsked
  <1>3. ASSUME NEW x \in Asked
        PROVE  /\ x \in DOMAIN LanguageMacros(t, l) <=>
                   \/ l = "CXX" /\ x = "__cplusplus"
                   \/ l = "CXX" /\ t.strict /\ x = "__STRICT_ANSI__"
                   \/ l = "CXX" /\ "GNU" \in {t.pretends, t.vendor} /\ x = "__GNUG__"
               /\ x \in DOMAIN PretendedMacros(t) <=>
                   \/ t.pretends = "GNU" /\ x = "__GNUC__"
                   \/ t.pretends = "MSVC" /\ x = "_MSC_VER"
    <2>1. x \in Marks \cup Shared
      BY SMT DEF Asked, Marks, Shared
    <2> QED
      BY <2>1, LanguageNames, PretendedNames, SMT DEF Asked
  <1> HIDE DEF m
  <1>4. /\ "__clang__" \in DOMAIN m <=> t.vendor \in ClangBased
        /\ "__GNUC__" \in DOMAIN m <=> "GNU" \in {t.pretends, t.vendor}
        /\ "__GNUG__" \in DOMAIN m <=> l = "CXX" /\ "GNU" \in {t.pretends, t.vendor}
        /\ "_MSC_VER" \in DOMAIN m <=> "MSVC" \in {t.pretends, t.vendor}
        /\ "__cplusplus" \in DOMAIN m <=> l = "CXX"
        /\ "WATCOM_BELOW_1200" \notin DOMAIN m /\ "IBM_FROM_800" \notin DOMAIN m
    BY <1>2, <1>3, SMT DEF Asked
  <1> QED
    BY <1>4 DEF m

(* The marks a compiler defines are its own. *)
LEMMA MarkNames ==
    ASSUME NEW t, WellFormed(t), NEW l \in Languages, t.compiles[l] = l, NEW x \in Marks
    PROVE  x \in DOMAIN Macros(t, l) <=> x \in Signs(t.vendor, t.version, l)
  <1>1. t.vendor \in Vendors /\ x \in Marks \cup Shared
    BY DEF WellFormed
  <1>2. x \notin DOMAIN LanguageMacros(t, l) /\ x \notin DOMAIN PretendedMacros(t) /\ x # "__clang__"
    BY <1>1, LanguageNames, PretendedNames, SMT DEF Marks
  <1> QED
    BY <1>1, <1>2, MacroNames, OwnSigns

(* The macros of a toolchain carry its version. *)
LEMMA CarriesOwn ==
    ASSUME NEW t, WellFormed(t), NEW l \in Languages, t.compiles[l] = l
    PROVE  Carries(Macros(t, l), t.vendor, t.version, l)
  <1> DEFINE own == OwnMacros(t.vendor, t.version, l)
             m == Macros(t, l)
             v == t.version
  <1>1. ASSUME NEW x \in DOMAIN own
        PROVE  x \in DOMAIN m /\ m[x] = own[x]
    BY OwnValue
  <1>2. ASSUME NEW x \in Optional, x \in DOMAIN m
        PROVE  x \in DOMAIN own
    <2>1. x \in Marks \cup Shared
      BY SMT DEF Optional, Marks, Shared
    <2>2. x # "__clang__" /\ x \notin DOMAIN LanguageMacros(t, l) /\ x \notin DOMAIN PretendedMacros(t)
      BY <2>1, LanguageNames, PretendedNames, SMT DEF Optional
    <2> QED
      BY <1>2, <2>1, <2>2, MacroNames
  <1>3. ASSUME t.vendor = "IAR"
        PROVE  /\ "__ICCARM__" \in DOMAIN m <=> v[1] > 6
               /\ DOMAIN m \cap IARSmall = {} <=> v[1] > 6
    <2> DEFINE Sorts == IARSmall \cup {"__ICCARM__"}
    <2>1. t.target \in (IF v[1] > 6 THEN {IARArm} ELSE IARTargets)
      BY <1>3, SMT DEF WellFormed, TargetsOf
    <2>2. /\ DOMAIN IARArm.macros = {"__ICCARM__"}
          /\ \A target \in IARTargets : \E x \in IARSmall : DOMAIN target.macros = {x}
      BY TargetMacros, SMT DEF IARArm, IARTargets, IARSmall
    <2>3. \A x \in Sorts : x \in DOMAIN m <=> x \in DOMAIN t.target.macros
      <3>1. \A x \in Sorts : x \notin DOMAIN own
        BY <1>3, SMT DEF OwnMacros, IARMacros, IARSmall
      <3>2. \A x \in Sorts : x \notin DOMAIN PretendedMacros(t) /\ x # "__clang__"
        BY PretendedNames, SMT DEF IARSmall
      <3>3. \A x \in Sorts : x \notin DOMAIN LanguageMacros(t, l)
        BY SMT DEF LanguageMacros, IARSmall, Flags, ++
      <3> QED
        BY <3>1, <3>2, <3>3, SMT DEF Macros, ++, Flags
    <2>4. "__ICCARM__" \notin IARSmall
      BY SMT DEF IARSmall
    <2> HIDE DEF m, v
    <2> QED
      BY <2>1, <2>2, <2>3, <2>4
  <1> QED
    BY <1>1, <1>2, <1>3 DEF Carries

(* The two thresholds of the cascade separate the versions of two vendors each. *)
LEMMA ThresholdsKept ==
    ASSUME NEW v
    PROVE  /\ VersionFits("Watcom", v) => WatcomNumber(v) < 1200
           /\ VersionFits("OpenWatcom", v) => ~(1100 + WatcomNumber(v) < 1200)
           /\ VersionFits("XL", v) => Vrp(v[1], v[2], v[3]) >= 800
           /\ VersionFits("VisualAge", v) => ~(Vrp(v[1], v[2], v[3]) >= 800)
  <1>1. ASSUME NEW a \in Nat, NEW b \in Nat, NEW c \in Nat, b =< 9, c =< 9
        PROVE  /\ a =< 11 => Vrp(a, b, c) < 1200
               /\ a > 0 => ~(1100 + Vrp(a, b, c) < 1200)
               /\ Vrp(a, b, c) >= 800 <=> a >= 8
    BY <1>1, SMT DEF Vrp
  <1>2. ASSUME NEW a \in Nat, Fits(v, <<a, 9>>) \/ Fits(v, <<a, 9, 9>>)
        PROVE  /\ v[1] \in Nat /\ v[1] =< a
               /\ a =< 11 => WatcomNumber(v) < 1200
               /\ v[1] > 0 => ~(1100 + WatcomNumber(v) < 1200)
    <2>1. CASE Fits(v, <<a, 9>>)
      <3>1. Len(v) = 2 /\ v[1] \in Nat /\ v[1] =< a /\ v[2] \in Nat /\ v[2] =< 9
        BY <2>1, Fits2
      <3>2. WatcomNumber(v) = Vrp(v[1], v[2], 0)
        BY <3>1 DEF WatcomNumber
      <3> DEFINE x == v[1]
                 y == v[2]
      <3>3. x \in Nat /\ x =< a /\ y \in Nat /\ y =< 9
        BY <3>1
      <3> HIDE DEF x, y
      <3>4. (a =< 11 => Vrp(x, y, 0) < 1200) /\ (x > 0 => ~(1100 + Vrp(x, y, 0) < 1200))
        BY <1>1, <3>3, SMT
      <3> QED
        BY <3>1, <3>2, <3>4 DEF x, y
    <2>2. CASE Fits(v, <<a, 9, 9>>)
      <3>1. Len(v) = 3 /\ v[1] \in Nat /\ v[1] =< a /\ v[2] \in Nat /\ v[2] =< 9 /\ v[3] \in Nat /\ v[3] =< 9
        BY <2>2, Fits3
      <3>2. WatcomNumber(v) = Vrp(v[1], v[2], v[3])
        BY <3>1 DEF WatcomNumber
      <3> DEFINE x == v[1]
                 y == v[2]
                 z == v[3]
      <3>3. x \in Nat /\ x =< a /\ y \in Nat /\ y =< 9 /\ z \in Nat /\ z =< 9
        BY <3>1
      <3> HIDE DEF x, y, z
      <3>4. (a =< 11 => Vrp(x, y, z) < 1200) /\ (x > 0 => ~(1100 + Vrp(x, y, z) < 1200))
        BY <1>1, <3>3, SMT
      <3> QED
        BY <3>1, <3>2, <3>4 DEF x, y, z
    <2> QED
      BY <1>2, <2>1, <2>2
  <1>3. ASSUME NEW a \in Nat, Fits(v, <<a, 9, 9>>)
        PROVE  v[1] \in Nat /\ v[1] =< a /\ (Vrp(v[1], v[2], v[3]) >= 800 <=> v[1] >= 8)
    <2>1. v[1] \in Nat /\ v[1] =< a /\ v[2] \in Nat /\ v[2] =< 9 /\ v[3] \in Nat /\ v[3] =< 9
      BY <1>3, Fits3
    <2> QED
      BY <1>1, <2>1
  <1>4. VersionFits("Watcom", v) => WatcomNumber(v) < 1200
    <2>1. VersionFits("Watcom", v) => Fits(v, <<11, 9>>) \/ Fits(v, <<11, 9, 9>>)
      BY Room, SMT
    <2> QED
      BY <1>2, <2>1, SMT
  <1>5. VersionFits("OpenWatcom", v) => ~(1100 + WatcomNumber(v) < 1200)
    <2>1. VersionFits("OpenWatcom", v) =>
            (Fits(v, <<9999, 9>>) \/ Fits(v, <<9999, 9, 9>>)) /\ v[1] > 0
      BY Room, SMT
    <2> QED
      BY <1>2, <2>1, SMT
  <1>6. VersionFits("XL", v) => Vrp(v[1], v[2], v[3]) >= 800
    <2>1. VersionFits("XL", v) => Fits(v, <<9999, 9, 9>>) /\ v[1] >= 8
      BY Room, SMT
    <2> QED
      BY <1>3, <2>1, SMT
  <1>7. VersionFits("VisualAge", v) => ~(Vrp(v[1], v[2], v[3]) >= 800)
    <2>1. VersionFits("VisualAge", v) => Fits(v, <<7, 9, 9>>)
      BY Room, SMT
    <2> QED
      BY <1>3, <2>1, SMT
  <1> QED
    BY <1>4, <1>5, <1>6, <1>7

(* What Watcom's macro says, for the comparison. *)
LEMMA WatcomCarried ==
    ASSUME NEW v, NEW l \in Languages, NEW m
    PROVE  /\ Carries(m, "Watcom", v, l) => "__WATCOMC__" \in DOMAIN m /\ m["__WATCOMC__"] = WatcomNumber(v)
           /\ Carries(m, "OpenWatcom", v, l) => m["__WATCOMC__"] = 1100 + WatcomNumber(v)
  <1>1. /\ "__WATCOMC__" \in DOMAIN OwnMacros("Watcom", v, l)
        /\ OwnMacros("Watcom", v, l)["__WATCOMC__"] = WatcomNumber(v)
        /\ "__WATCOMC__" \in DOMAIN OwnMacros("OpenWatcom", v, l)
        /\ OwnMacros("OpenWatcom", v, l)["__WATCOMC__"] = 1100 + WatcomNumber(v)
    BY SMT DEF OwnMacros
  <1> QED
    BY <1>1 DEF Carries

(* What IBM's macro says, for the comparison. *)
LEMMA IbmCarried ==
    ASSUME NEW vendor \in {"XL", "VisualAge"}, NEW v, NEW l \in Languages, NEW m, Carries(m, vendor, v, l)
    PROVE  Spelling("__IBMC__", l) \in DOMAIN m /\ m[Spelling("__IBMC__", l)] = Vrp(v[1], v[2], v[3])
  <1> DEFINE ibm == Spelling("__IBMC__", l)
             Own(name) == ibm \in DOMAIN OwnMacros(name, v, l)
                 /\ OwnMacros(name, v, l)[ibm] = Vrp(v[1], v[2], v[3])
  <1>1. Own("XL") /\ Own("VisualAge")
    BY SMT DEF OwnMacros, Macro
  <1> HIDE DEF ibm, Own
  <1>2. Own(vendor)
    BY <1>1
  <1>3. ibm \in DOMAIN m /\ m[ibm] = Vrp(v[1], v[2], v[3])
    BY <1>2 DEF Own, Carries
  <1> QED
    BY <1>3 DEF ibm

(* A toolchain tells about itself, whoever else it pretends to be. *)
LEMMA TellsOwn ==
    ASSUME NEW t, WellFormed(t), NEW l \in Languages, t.compiles[l] = l
    PROVE  Tells(Facts(Macros(t, l), l), t.vendor, t.version, l)
  <1> DEFINE m == Macros(t, l)
             F == Facts(m, l)
             v == t.version
  <1>1. /\ t.vendor \in Vendors /\ VersionFits(t.vendor, v) /\ t.pretends \in MayPretend(t)
        /\ t.target \in TargetsOf(t)
    BY DEF WellFormed
  <1>2. Carries(m, t.vendor, v, l)
    BY CarriesOwn
  <1>3. /\ "__clang__" \in DOMAIN m <=> t.vendor \in ClangBased
        /\ "__GNUC__" \in DOMAIN m <=> "GNU" \in {t.pretends, t.vendor}
        /\ "__GNUG__" \in DOMAIN m <=> l = "CXX" /\ "GNU" \in {t.pretends, t.vendor}
        /\ "_MSC_VER" \in DOMAIN m <=> "MSVC" \in {t.pretends, t.vendor}
        /\ "__cplusplus" \in DOMAIN m <=> l = "CXX"
        /\ "WATCOM_BELOW_1200" \notin DOMAIN m /\ "IBM_FROM_800" \notin DOMAIN m
    BY AskedNames
  <1>4. /\ \A x : x \notin {"WATCOM_BELOW_1200", "IBM_FROM_800"} => (x \in F <=> x \in DOMAIN m)
        /\ "WATCOM_BELOW_1200" \in F <=> "__WATCOMC__" \in DOMAIN m /\ m["__WATCOMC__"] < 1200
        /\ "IBM_FROM_800" \in F <=> Spelling("__IBMC__", l) \in DOMAIN m /\ m[Spelling("__IBMC__", l)] >= 800
    BY <1>3, FactNames
  <1>5. \A x \in Marks : x \in F <=> x \in Signs(t.vendor, v, l)
    <2>1. \A x \in Marks : x \notin {"WATCOM_BELOW_1200", "IBM_FROM_800"}
      BY SMT DEF Marks
    <2>2. \A x \in Marks : x \in DOMAIN m <=> x \in Signs(t.vendor, v, l)
      BY MarkNames
    <2> HIDE DEF m, F, v
    <2> QED
      BY <1>4, <2>1, <2>2
  <1>6. /\ t.vendor = "Watcom" => "WATCOM_BELOW_1200" \in F
        /\ t.vendor = "OpenWatcom" => "WATCOM_BELOW_1200" \notin F
    <2>1. /\ t.vendor = "Watcom" => "__WATCOMC__" \in DOMAIN m /\ m["__WATCOMC__"] = WatcomNumber(v)
          /\ t.vendor = "OpenWatcom" => m["__WATCOMC__"] = 1100 + WatcomNumber(v)
      <3> HIDE DEF m, v
      <3> QED
        BY <1>2, WatcomCarried
    <2> HIDE DEF m, F, v
    <2> QED
      BY <1>1, <1>4, <2>1, ThresholdsKept
  <1>7. /\ t.vendor = "XL" => "IBM_FROM_800" \in F
        /\ t.vendor = "VisualAge" => "IBM_FROM_800" \notin F
    <2>1. t.vendor \in {"XL", "VisualAge"} =>
            Spelling("__IBMC__", l) \in DOMAIN m /\ m[Spelling("__IBMC__", l)] = Vrp(v[1], v[2], v[3])
      BY <1>2, IbmCarried
    <2> HIDE DEF m, F, v
    <2> QED
      BY <1>1, <1>4, <2>1, ThresholdsKept
  <1>8. /\ "__clang__" \in F <=> "__clang__" \in DOMAIN m
        /\ "__GNUC__" \in F <=> "__GNUC__" \in DOMAIN m
        /\ "__GNUG__" \in F <=> "__GNUG__" \in DOMAIN m
        /\ "_MSC_VER" \in F <=> "_MSC_VER" \in DOMAIN m
        /\ "__hpux" \in F <=> "__hpux" \in DOMAIN m
    <2> HIDE DEF m, F
    <2> QED
      BY <1>4, SMT
  <1>9. t.vendor = "HP" /\ v = <<>> => "__hpux" \in DOMAIN m
    <2>1. t.vendor = "HP" /\ v = <<>> => "__hpux" \in DOMAIN OwnMacros(t.vendor, v, l)
      BY SMT DEF OwnMacros, Flags
    <2> QED
      BY <2>1, OwnValue
  <1>10. /\ t.vendor \in {"GNU", "MSVC", "ADSP", "IAR", "SDCC"} \/ (t.vendor = "HP" /\ v = <<>>) =>
                t.pretends = "none"
         /\ t.pretends \in {"GNU", "MSVC", "none"}
    BY <1>1, SMT DEF MayPretend
  <1>11. /\ "__GNUC__" \in F => t.vendor \notin {"MSVC", "ADSP", "IAR", "SDCC"}
         /\ "__GNUG__" \in F => "__GNUC__" \in F
         /\ "__GNUC__" \in F \/ t.vendor # "GNU"
         /\ "_MSC_VER" \in F => t.vendor \notin {"ADSP", "IAR", "SDCC"}
         /\ "_MSC_VER" \in F \/ t.vendor # "MSVC"
         /\ t.vendor = "HP" /\ v = <<>> =>
              "__hpux" \in F /\ {"__GNUC__", "__GNUG__", "_MSC_VER"} \cap F = {}
    <2> HIDE DEF m, F, v
    <2> QED
      BY <1>3, <1>8, <1>9, <1>10, SMT
  <1> HIDE DEF m, F, v
  <1>12. Tells(F, t.vendor, v, l)
    BY <1>3, <1>5, <1>6, <1>7, <1>8, <1>11 DEF Tells
  <1> QED
    BY <1>12 DEF m, F, v

(* The probe of a language names the vendor. *)
LEMMA Identified ==
    ASSUME NEW t, WellFormed(t), NEW l \in Languages, l \in DOMAIN t.compiles, t.compiles[l] = l
    PROVE  CompilerId(Macros(t, l), l) = t.vendor
  <1> DEFINE F == Facts(Macros(t, l), l)
  <1>1. Tells(F, t.vendor, t.version, l)
    BY TellsOwn
  <1>2. t.vendor \in Vendors /\ l \in LanguagesOf(t.vendor)
    BY DEF WellFormed
  <1> HIDE DEF F
  <1>3. CASE l = "C"
    <2>1. t.vendor # "Comeau"
      BY <1>2, <1>3, SMT DEF LanguagesOf
    <2>2. FirstTaken(CBranches, F) = t.vendor
      BY <1>1, <1>2, <1>3, <2>1, PositionC
    <2> QED
      BY <1>3, <2>2 DEF CompilerId, F
  <1>4. CASE l = "CXX"
    <2>1. t.vendor \notin {"TinyCC", "Bruce", "SDCC"}
      BY <1>2, <1>4, SMT DEF LanguagesOf
    <2>2. FirstTaken(CXXBranches, F) = t.vendor
      BY <1>1, <1>2, <1>4, <2>1, PositionCXX
    <2> QED
      BY <1>4, <2>2 DEF CompilerId, F
  <1> QED
    BY <1>3, <1>4 DEF Languages

(* ... and its version. *)
LEMMA Versioned ==
    ASSUME NEW t, WellFormed(t), NEW l \in Languages, t.compiles[l] = l
    PROVE  Version(t.vendor, Macros(t, l), l) = t.version
  <1>1. t.vendor \in Vendors /\ VersionFits(t.vendor, t.version)
            /\ Carries(Macros(t, l), t.vendor, t.version, l)
    BY CarriesOwn DEF WellFormed
  <1> QED
    BY <1>1, VersionRead

(* The version of the vendor a compiler pretends to be. *)
LEMMA PretendedValues ==
    ASSUME NEW t, t.vendor \in {"Intel", "IntelLLVM", "AppleClang", "Clang"}, NEW l \in Languages,
               t.compiles[l] = l
    PROVE  LET m == Macros(t, l) IN
           /\ t.vendor \in {"Intel", "IntelLLVM"} /\ t.pretends = "GNU" =>
                /\ "__GNUC__" \in DOMAIN m /\ m["__GNUC__"] = 4
                /\ "__GNUC_MINOR__" \in DOMAIN m /\ m["__GNUC_MINOR__"] = 2
                /\ "__GNUC_PATCHLEVEL__" \in DOMAIN m /\ m["__GNUC_PATCHLEVEL__"] = 1
           /\ t.pretends = "MSVC" => "_MSC_VER" \in DOMAIN m /\ m["_MSC_VER"] = Vrr(19, 29)
  <1> DEFINE own == OwnMacros(t.vendor, t.version, l)
             clang == Flags(IF t.vendor \in ClangBased THEN {"__clang__"} ELSE {})
             pretended == PretendedMacros(t)
             m == Macros(t, l)
  <1>1. m = (((own ++ clang) ++ pretended) ++ LanguageMacros(t, l)) ++ t.target.macros
    BY DEF Macros
  <1>2. ASSUME NEW x, x \in DOMAIN pretended, x \notin DOMAIN own, x # "__clang__"
        PROVE  x \in DOMAIN m /\ m[x] = pretended[x]
    <2>1. x \notin DOMAIN clang
      BY <1>2 DEF Flags
    <2> HIDE DEF own, clang, pretended, m
    <2> QED
      BY <1>1, <1>2, <2>1, Merge, SMT
  <1>3. /\ t.pretends = "GNU" => /\ pretended["__GNUC__"] = 4 /\ pretended["__GNUC_MINOR__"] = 2
                                 /\ pretended["__GNUC_PATCHLEVEL__"] = 1
        /\ t.pretends = "MSVC" => pretended["_MSC_VER"] = Vrr(19, 29)
    BY SMT DEF PretendedMacros, GNUMacros, MSVCMacros, GnuPretended, MsvcPretended, Flags, ++
  <1>4. /\ t.pretends = "GNU" =>
               {"__GNUC__", "__GNUC_MINOR__", "__GNUC_PATCHLEVEL__"} \subseteq DOMAIN pretended
        /\ t.pretends = "MSVC" => "_MSC_VER" \in DOMAIN pretended
    BY PretendedNames, SMT
  <1>5. /\ t.vendor \in {"Intel", "IntelLLVM"} =>
             {"__GNUC__", "__GNUC_MINOR__", "__GNUC_PATCHLEVEL__"} \cap DOMAIN own = {}
        /\ "_MSC_VER" \notin DOMAIN own
    <2> DEFINE Free(name) == {"__GNUC__", "__GNUC_MINOR__", "__GNUC_PATCHLEVEL__", "_MSC_VER"}
                               \cap DOMAIN OwnMacros(name, t.version, l) = {}
    <2>1. Free("Intel") /\ Free("IntelLLVM") /\ Free("AppleClang") /\ Free("Clang")
      BY SMT DEF OwnMacros, IntelMacros, ClangMacros, Flags, ++
    <2> HIDE DEF Free
    <2>2. Free(t.vendor)
      BY <2>1
    <2> QED
      BY <2>2, SMT DEF Free
  <1> HIDE DEF own, clang, pretended, m
  <1>6. /\ t.vendor \in {"Intel", "IntelLLVM"} /\ t.pretends = "GNU" =>
                /\ "__GNUC__" \in DOMAIN m /\ m["__GNUC__"] = 4
                /\ "__GNUC_MINOR__" \in DOMAIN m /\ m["__GNUC_MINOR__"] = 2
                /\ "__GNUC_PATCHLEVEL__" \in DOMAIN m /\ m["__GNUC_PATCHLEVEL__"] = 1
        /\ t.pretends = "MSVC" => "_MSC_VER" \in DOMAIN m /\ m["_MSC_VER"] = Vrr(19, 29)
    BY <1>2, <1>3, <1>4, <1>5, SMT
  <1> QED
    BY <1>6 DEF m

(* Whom it pretends to be, where CMake asks. *)
LEMMA SimulatedRead ==
    ASSUME NEW t, WellFormed(t), NEW l \in Languages, t.compiles[l] = l
    PROVE  Simulated(t.vendor, Macros(t, l)) =
             IF t.vendor \in {"Intel", "IntelLLVM"} /\ t.pretends = "GNU"
             THEN [id |-> "GNU", version |-> GnuPretended]
             ELSE IF t.vendor \in {"Intel", "IntelLLVM", "AppleClang", "Clang"} /\ t.pretends = "MSVC"
             THEN [id |-> "MSVC", version |-> MsvcPretended]
             ELSE [id |-> "none", version |-> <<>>]
  <1> DEFINE m == Macros(t, l)
             gnu == <<"__GNUC__", "__GNUC_MINOR__", "__GNUC_PATCHLEVEL__">>
  <1>1. /\ "__GNUC__" \in DOMAIN m <=> "GNU" \in {t.pretends, t.vendor}
        /\ "_MSC_VER" \in DOMAIN m <=> "MSVC" \in {t.pretends, t.vendor}
    BY AskedNames
  <1>2. ASSUME t.vendor \in {"Intel", "IntelLLVM"}, t.pretends = "GNU"
        PROVE  Numbers(Given(m, gnu)) = GnuPretended
    <2> DEFINE v == GnuPretended
    <2>1. v \in Seq(Nat) /\ Len(v) = 3 /\ v[1] = 4 /\ v[2] = 2 /\ v[3] = 1
      BY SMT DEF GnuPretended
    <2>2. Len(gnu) = 3 /\ gnu[1] = "__GNUC__" /\ gnu[2] = "__GNUC_MINOR__" /\ gnu[3] = "__GNUC_PATCHLEVEL__"
      BY SMT
    <2>3. /\ "__GNUC__" \in DOMAIN m /\ m["__GNUC__"] = 4
          /\ "__GNUC_MINOR__" \in DOMAIN m /\ m["__GNUC_MINOR__"] = 2
          /\ "__GNUC_PATCHLEVEL__" \in DOMAIN m /\ m["__GNUC_PATCHLEVEL__"] = 1
      BY <1>2, PretendedValues
    <2>4. 4 =< Largest /\ 2 =< Largest /\ 1 =< Largest
      BY SMT DEF Largest
    <2> HIDE DEF v, gnu, m
    <2>5. \A i \in 1 .. Len(v) : gnu[i] \in DOMAIN m /\ m[gnu[i]] = v[i] /\ v[i] =< Largest
      BY <2>1, <2>2, <2>3, <2>4, SMT
    <2>6. Numbers(Given(m, gnu)) = v
      BY <2>1, <2>2, <2>5, ReadGiven
    <2> QED
      BY <2>6 DEF v
  <1>3. ASSUME t.vendor \in {"Intel", "IntelLLVM", "AppleClang", "Clang"}, t.pretends = "MSVC"
        PROVE  Numbers(<<Dec(m["_MSC_VER"] \div 100), Dec(m["_MSC_VER"] % 100)>>) = MsvcPretended
    <2>1. m["_MSC_VER"] = Vrr(19, 29)
      BY <1>3, PretendedValues
    <2>2. Vrr(19, 29) \div 100 = 19 /\ Vrr(19, 29) % 100 = 29
      BY UnpackVrr
    <2> DEFINE v == MsvcPretended
    <2>3. v \in Seq(Nat) /\ Len(v) = 2 /\ v[1] = 19 /\ v[2] = 29
      BY SMT DEF MsvcPretended
    <2>4. Number(Dec(19)) = 19 /\ Number(Dec(29)) = 29
      <3>1. 19 =< Largest /\ 29 =< Largest
        BY SMT DEF Largest
      <3> QED
        BY <3>1, DecRead
    <2> DEFINE a == Dec(19)
               b == Dec(29)
    <2>5. Number(a) = v[1] /\ Number(b) = v[2]
      BY <2>3, <2>4
    <2> HIDE DEF v, a, b
    <2>6. Numbers(<<a, b>>) = v
      BY <2>3, <2>5, Read2
    <2> QED
      BY <2>1, <2>2, <2>6 DEF v, a, b
  <1>4. t.pretends \in {"GNU", "MSVC", "none"} /\ (t.vendor \in {"Intel", "IntelLLVM",
            "AppleClang", "Clang"} => t.vendor \notin {"GNU", "MSVC"})
    BY SMT DEF WellFormed, MayPretend
  <1> DEFINE asGnu == Numbers(Given(m, gnu))
             asMsvc == Numbers(<<Dec(m["_MSC_VER"] \div 100), Dec(m["_MSC_VER"] % 100)>>)
  <1>5. Simulated(t.vendor, m) =
          IF t.vendor \in {"Intel", "IntelLLVM"} /\ "__GNUC__" \in DOMAIN m
          THEN [id |-> "GNU", version |-> asGnu]
          ELSE IF t.vendor \in {"Intel", "IntelLLVM", "AppleClang", "Clang"} /\ "_MSC_VER" \in DOMAIN m
          THEN [id |-> "MSVC", version |-> asMsvc]
          ELSE [id |-> "none", version |-> <<>>]
    BY DEF Simulated, Defined
  <1>6. /\ t.vendor \in {"Intel", "IntelLLVM"} => ("__GNUC__" \in DOMAIN m <=> t.pretends = "GNU")
        /\ t.vendor \in {"Intel", "IntelLLVM", "AppleClang", "Clang"} =>
               ("_MSC_VER" \in DOMAIN m <=> t.pretends = "MSVC")
    <2> HIDE DEF m
    <2> QED
      BY <1>1, <1>4
  <1>7. /\ t.vendor \in {"Intel", "IntelLLVM"} /\ t.pretends = "GNU" => asGnu = GnuPretended
        /\ t.vendor \in {"Intel", "IntelLLVM", "AppleClang", "Clang"} /\ t.pretends = "MSVC" =>
               asMsvc = MsvcPretended
    BY <1>2, <1>3
  <1> HIDE DEF asGnu, asMsvc, m, gnu
  <1>8. Simulated(t.vendor, m) =
             IF t.vendor \in {"Intel", "IntelLLVM"} /\ t.pretends = "GNU"
             THEN [id |-> "GNU", version |-> GnuPretended]
             ELSE IF t.vendor \in {"Intel", "IntelLLVM", "AppleClang", "Clang"} /\ t.pretends = "MSVC"
             THEN [id |-> "MSVC", version |-> MsvcPretended]
             ELSE [id |-> "none", version |-> <<>>]
    BY <1>5, <1>6, <1>7
  <1> QED
    BY <1>8 DEF m

-----------------------------------------------------------------------------
(* The probes.                                                             *)

(* What the probe of a language has to say of the toolchain. *)
Probed(language) ==
    LET m == Macros(toolchain, language) IN
    IF Defined(m, "__cplusplus") <=> language = "CXX" THEN Verdict(m, language) ELSE Refused

(* The inductive invariant: the toolchain is one there is, and every verdict so
   far is what the probe says of its macros.  The properties need no more, because
   what they say of a verdict follows from the toolchain alone. *)
AsProbed ==
    /\ toolchain \in Toolchains
    /\ DOMAIN verdicts \subseteq DOMAIN toolchain.compiles
    /\ \A language \in DOMAIN verdicts : verdicts[language] = Probed(language)

(* Verdicts are what the probes say of the toolchain, of all of a run. *)
THEOREM ProbedThroughout == Spec => []AsProbed
  <1>1. Init => AsProbed
    BY SMT DEF Init, AsProbed
  <1>2. AsProbed /\ [Next]_vars => AsProbed'
    <2> SUFFICES ASSUME AsProbed, [Next]_vars
                 PROVE  AsProbed'
      OBVIOUS
    <2>1. toolchain' = toolchain
      BY DEF Next, ProbeC, ProbeCXX, vars
    <2>2. ASSUME NEW language \in {"C", "CXX"}
          PROVE  Probed(language)' = Probed(language)
      BY <2>1 DEF Probed
    <2>3. CASE ProbeC
      <3>1. /\ DOMAIN (verdicts') = {"C"} /\ "C" \in DOMAIN toolchain.compiles
            /\ verdicts'["C"] = IF Defined(Macros(toolchain, "C"), "__cplusplus") THEN Refused
                                ELSE Verdict(Macros(toolchain, "C"), "C")
        BY <2>3 DEF ProbeC, Macro
      <3>2. verdicts'["C"] = Probed("C")
        BY <3>1 DEF Probed
      <3> QED
        BY <2>1, <2>2, <3>1, <3>2 DEF AsProbed
    <2>4. CASE ProbeCXX
      <3> DEFINE said == IF Defined(Macros(toolchain, "CXX"), "__cplusplus")
                         THEN Verdict(Macros(toolchain, "CXX"), "CXX") ELSE Refused
      <3>1. /\ verdicts' = verdicts ++ Macro("CXX", said)
            /\ "CXX" \in DOMAIN toolchain.compiles /\ "CXX" \notin DOMAIN verdicts
        BY <2>4 DEF ProbeCXX
      <3>2. said = Probed("CXX")
        BY DEF Probed
      <3> HIDE DEF said
      <3>3. /\ DOMAIN (verdicts') = DOMAIN verdicts \cup {"CXX"}
            /\ verdicts'["CXX"] = said
            /\ \A language \in DOMAIN verdicts : verdicts'[language] = verdicts[language]
        BY <3>1 DEF Macro, ++
      <3>4. DOMAIN verdicts \subseteq {"C", "CXX"}
        BY ToolchainsAssumption DEF AsProbed, WellFormed
      <3> QED
        BY <2>1, <2>2, <3>1, <3>2, <3>3, <3>4 DEF AsProbed
    <2>5. CASE UNCHANGED vars
      <3>1. verdicts' = verdicts
        BY <2>5 DEF vars
      <3>2. DOMAIN verdicts \subseteq {"C", "CXX"}
        BY ToolchainsAssumption DEF AsProbed, WellFormed
      <3> QED
        BY <2>1, <2>2, <3>1, <3>2 DEF AsProbed
    <2> QED
      BY <2>3, <2>4, <2>5 DEF Next
  <1> QED
    BY <1>1, <1>2, PTL DEF Spec

(* __cplusplus tells which language a compiler really compiles. *)
LEMMA LanguageOf ==
    ASSUME NEW t, WellFormed(t), NEW called \in DOMAIN t.compiles
    PROVE  /\ called \in Languages /\ t.compiles[called] \in Languages
           /\ "__cplusplus" \in DOMAIN Macros(t, called) <=> t.compiles[called] = "CXX"
  <1> DEFINE l == t.compiles[called]
             x == "__cplusplus"
  <1>1. called \in Languages /\ l \in Languages /\ t.vendor \in Vendors
    BY SMT DEF WellFormed, LanguagesOf, Languages
  <1>2. x \in Asked /\ x \in Shared /\ x # "__clang__"
    BY SMT DEF Asked, Shared
  <1>3. x \notin DOMAIN OwnMacros(t.vendor, t.version, l)
    BY <1>1, <1>2, OwnAsked
  <1>4. x \notin DOMAIN PretendedMacros(t) /\ (x \in DOMAIN LanguageMacros(t, l) <=> l = "CXX")
    BY <1>1, <1>2, PretendedNames, LanguageNames, SMT
  <1>5. x \notin DOMAIN t.target.macros
    BY <1>2, TargetApart
  <1>6. x \notin DOMAIN Flags(IF t.vendor \in ClangBased THEN {"__clang__"} ELSE {})
    BY <1>2 DEF Flags
  <1> HIDE DEF x
  <1>7. x \in DOMAIN Macros(t, called) <=> l = "CXX"
    BY <1>3, <1>4, <1>5, <1>6, Merge, SMT DEF Macros
  <1> QED
    BY <1>1, <1>7 DEF x

(* What an honest probe says. *)
LEMMA ProbedRightly ==
    ASSUME AsProbed, NEW language \in DOMAIN verdicts
    PROVE  /\ WellFormed(toolchain) /\ language \in Languages /\ language \in DOMAIN toolchain.compiles
           /\ Rightly(language) => verdicts[language] = Verdict(Macros(toolchain, language), language)
           /\ ~Rightly(language) => verdicts[language] = Refused
  <1>1. WellFormed(toolchain) /\ language \in DOMAIN toolchain.compiles
    BY ToolchainsAssumption DEF AsProbed
  <1>2. /\ language \in Languages /\ toolchain.compiles[language] \in Languages
        /\ "__cplusplus" \in DOMAIN Macros(toolchain, language) <=> toolchain.compiles[language] = "CXX"
    BY <1>1, LanguageOf
  <1>3. (Defined(Macros(toolchain, language), "__cplusplus") <=> language = "CXX") <=> Rightly(language)
    BY <1>2, SMT DEF Defined, Rightly, Languages
  <1>4. verdicts[language] = Probed(language)
    BY DEF AsProbed
  <1> QED
    BY <1>1, <1>2, <1>3, <1>4 DEF Probed

(* Whatever toolchain CMake is pointed to, a probe names its vendor and
   whom it pretends to be (CMakeCCompilerId.c:22-374, CMakeCXXCompilerId.cpp:22-366),
   and refuses one of the other language. *)
THEOREM IdentifiesCompilerAlways == Spec => []IdentifiesCompiler
  <1>1. ASSUME AsProbed, NEW language \in DOMAIN verdicts, Rightly(language)
        PROVE  /\ verdicts[language].id = toolchain.vendor
               /\ verdicts[language].simulated.id =
                    IF \/ toolchain.vendor \in {"Intel", "IntelLLVM"} /\ toolchain.pretends # "none"
                       \/ toolchain.vendor \in {"AppleClang", "Clang"} /\ toolchain.pretends = "MSVC"
                    THEN toolchain.pretends ELSE "none"
    <2> DEFINE m == Macros(toolchain, language)
    <2>1. /\ WellFormed(toolchain) /\ language \in Languages /\ language \in DOMAIN toolchain.compiles
          /\ toolchain.compiles[language] = language
          /\ verdicts[language] = Verdict(m, language)
      BY <1>1, ProbedRightly DEF Rightly
    <2>2. CompilerId(m, language) = toolchain.vendor
      BY <2>1, Identified
    <2>3. Simulated(toolchain.vendor, m) =
             IF toolchain.vendor \in {"Intel", "IntelLLVM"} /\ toolchain.pretends = "GNU"
             THEN [id |-> "GNU", version |-> GnuPretended]
             ELSE IF toolchain.vendor \in {"Intel", "IntelLLVM", "AppleClang", "Clang"}
                 /\ toolchain.pretends = "MSVC"
             THEN [id |-> "MSVC", version |-> MsvcPretended]
             ELSE [id |-> "none", version |-> <<>>]
      BY <2>1, SimulatedRead
    <2>4. toolchain.pretends \in {"GNU", "MSVC", "none"}
      BY <2>1, SMT DEF WellFormed, MayPretend
    <2>5. verdicts[language].id = toolchain.vendor
              /\ verdicts[language].simulated = Simulated(toolchain.vendor, m)
      BY <2>1, <2>2 DEF Verdict
    <2> HIDE DEF m
    <2> QED
      BY <2>3, <2>4, <2>5
  <1>2. AsProbed => IdentifiesCompiler
    BY <1>1, ProbedRightly DEF IdentifiesCompiler
  <1> QED
    BY <1>2, ProbedThroughout, PTL

(* Every version that fits its vendor's macros is read back from the
   digits of the probe, and so is the version of the simulated compiler. *)
THEOREM VersionReadBackAlways == Spec => []VersionReadBack
  <1>1. ASSUME AsProbed, NEW language \in DOMAIN verdicts, Rightly(language)
        PROVE  /\ verdicts[language].version = toolchain.version
               /\ verdicts[language].simulated.version =
                    CASE verdicts[language].simulated.id = "GNU" -> GnuPretended
                      [] verdicts[language].simulated.id = "MSVC" -> MsvcPretended
                      [] OTHER -> <<>>
    <2> DEFINE m == Macros(toolchain, language)
    <2>1. /\ WellFormed(toolchain) /\ language \in Languages /\ language \in DOMAIN toolchain.compiles
          /\ toolchain.compiles[language] = language
          /\ verdicts[language] = Verdict(m, language)
      BY <1>1, ProbedRightly DEF Rightly
    <2>2. CompilerId(m, language) = toolchain.vendor
      BY <2>1, Identified
    <2>3. Simulated(toolchain.vendor, m) =
             IF toolchain.vendor \in {"Intel", "IntelLLVM"} /\ toolchain.pretends = "GNU"
             THEN [id |-> "GNU", version |-> GnuPretended]
             ELSE IF toolchain.vendor \in {"Intel", "IntelLLVM", "AppleClang", "Clang"}
                 /\ toolchain.pretends = "MSVC"
             THEN [id |-> "MSVC", version |-> MsvcPretended]
             ELSE [id |-> "none", version |-> <<>>]
      BY <2>1, SimulatedRead
    <2>4. Version(toolchain.vendor, m, language) = toolchain.version
      BY <2>1, Versioned
    <2>5. /\ verdicts[language].version = Version(toolchain.vendor, m, language)
          /\ verdicts[language].simulated = Simulated(toolchain.vendor, m)
      BY <2>1, <2>2 DEF Verdict
    <2> DEFINE s == Simulated(toolchain.vendor, m)
    <2>6. s.version = CASE s.id = "GNU" -> GnuPretended [] s.id = "MSVC" -> MsvcPretended [] OTHER -> <<>>
      <3> HIDE DEF m
      <3>1. \/ s = [id |-> "GNU", version |-> GnuPretended]
            \/ s = [id |-> "MSVC", version |-> MsvcPretended]
            \/ s = [id |-> "none", version |-> <<>>]
        BY <2>3
      <3> HIDE DEF s
      <3> QED
        BY <3>1, SMT
    <2> HIDE DEF m
    <2> QED
      BY <2>4, <2>5, <2>6
  <1>2. AsProbed => VersionReadBack
    BY <1>1 DEF VersionReadBack
  <1> QED
    BY <1>2, ProbedThroughout, PTL

-----------------------------------------------------------------------------
(* The target: platforms.                                                  *)

(* The names the probes ask for to tell platforms apart. *)
PlatformNames ==
    {"__linux", "__linux__", "linux", "__MSYS__", "__CYGWIN__", "__MINGW32__", "__APPLE__",
     "_WIN32", "__WIN32__", "WIN32", "__FreeBSD__", "__FreeBSD", "__NetBSD__", "__NetBSD",
     "__OpenBSD__", "__OPENBSD", "__sun", "sun", "_AIX", "__AIX", "__AIX__", "__aix", "__aix__",
     "__hpux", "__hpux__", "__HAIKU__", "__BeOS", "__BEOS__", "_BEOS", "__QNX__", "__QNXNTO__",
     "__tru64", "_tru64", "__TRU64__", "__riscos", "__riscos__", "__sinix", "__sinix__",
     "__SINIX__", "__UNIX_SV__", "__bsdos__", "_MPRAS", "MPRAS", "__osf", "__osf__", "_SCO_SV",
     "SCO_SV", "sco_sv", "__ultrix", "__ultrix__", "_ULTRIX", "__XENIX__", "_XENIX", "XENIX",
     "__LINUX__", "__DOS__", "__OS2__", "__WINDOWS__", "__VXWORKS__", "__INTEGRITY", "INT_178B"}

(* A branch with alternatives. *)
LEMMA NamedTaken ==
    ASSUME NEW id, NEW macros, NEW facts
    PROVE  /\ Taken(Named(id, macros), facts) <=> macros \cap facts # {}
           /\ Named(id, macros).id = id
  <1> DEFINE branch == Named(id, macros)
  <1>1. branch.when = {{macro} : macro \in macros} /\ branch.unless = {} /\ branch.id = id
    BY DEF Named, Branch
  <1> HIDE DEF branch
  <1>2. ASSUME Taken(branch, facts)
        PROVE  macros \cap facts # {}
    <2>1. PICK found \in branch.when : found \subseteq facts
      BY <1>2 DEF Taken
    <2>2. PICK macro \in macros : found = {macro}
      BY <1>1, <2>1
    <2> QED
      BY <2>1, <2>2
  <1>3. ASSUME NEW macro \in macros, macro \in facts
        PROVE  Taken(branch, facts)
    <2>1. {macro} \in branch.when /\ {macro} \subseteq facts
      BY <1>1, <1>3
    <2> QED
      BY <1>1, <2>1 DEF Taken
  <1> QED
    BY <1>1, <1>2, <1>3 DEF branch

(* The platforms, branch by branch. *)
LEMMA PlatformBranchesTaken ==
    ASSUME NEW F
    PROVE
      /\ Taken(PlatformBranches[1], F) <=> {"__linux", "__linux__", "linux"} \cap F # {}
      /\ Taken(PlatformBranches[2], F) <=> "__MSYS__" \in F
      /\ Taken(PlatformBranches[3], F) <=> "__CYGWIN__" \in F
      /\ Taken(PlatformBranches[4], F) <=> "__MINGW32__" \in F
      /\ Taken(PlatformBranches[5], F) <=> "__APPLE__" \in F
      /\ Taken(PlatformBranches[6], F) <=> {"_WIN32", "__WIN32__", "WIN32"} \cap F # {}
      /\ Taken(PlatformBranches[7], F) <=> {"__FreeBSD__", "__FreeBSD"} \cap F # {}
      /\ Taken(PlatformBranches[8], F) <=> {"__NetBSD__", "__NetBSD"} \cap F # {}
      /\ Taken(PlatformBranches[9], F) <=> {"__OpenBSD__", "__OPENBSD"} \cap F # {}
      /\ Taken(PlatformBranches[10], F) <=> {"__sun", "sun"} \cap F # {}
      /\ Taken(PlatformBranches[11], F) <=> {"_AIX", "__AIX", "__AIX__", "__aix", "__aix__"} \cap F # {}
      /\ Taken(PlatformBranches[12], F) <=> {"__hpux", "__hpux__"} \cap F # {}
      /\ Taken(PlatformBranches[13], F) <=> "__HAIKU__" \in F
      /\ Taken(PlatformBranches[14], F) <=> {"__BeOS", "__BEOS__", "_BEOS"} \cap F # {}
      /\ Taken(PlatformBranches[15], F) <=> {"__QNX__", "__QNXNTO__"} \cap F # {}
      /\ Taken(PlatformBranches[16], F) <=> {"__tru64", "_tru64", "__TRU64__"} \cap F # {}
      /\ Taken(PlatformBranches[17], F) <=> {"__riscos", "__riscos__"} \cap F # {}
      /\ Taken(PlatformBranches[18], F) <=> {"__sinix", "__sinix__", "__SINIX__"} \cap F # {}
      /\ Taken(PlatformBranches[19], F) <=> "__UNIX_SV__" \in F
      /\ Taken(PlatformBranches[20], F) <=> "__bsdos__" \in F
      /\ Taken(PlatformBranches[21], F) <=> {"_MPRAS", "MPRAS"} \cap F # {}
      /\ Taken(PlatformBranches[22], F) <=> {"__osf", "__osf__"} \cap F # {}
      /\ Taken(PlatformBranches[23], F) <=> {"_SCO_SV", "SCO_SV", "sco_sv"} \cap F # {}
      /\ Taken(PlatformBranches[24], F) <=> {"__ultrix", "__ultrix__", "_ULTRIX"} \cap F # {}
      /\ Taken(PlatformBranches[25], F) <=> {"__XENIX__", "_XENIX", "XENIX"} \cap F # {}
      /\ Taken(PlatformBranches[26], F) <=> "__WATCOMC__" \in F /\ "__LINUX__" \in F
      /\ Taken(PlatformBranches[27], F) <=> "__WATCOMC__" \in F /\ "__DOS__" \in F
      /\ Taken(PlatformBranches[28], F) <=> "__WATCOMC__" \in F /\ "__OS2__" \in F
      /\ Taken(PlatformBranches[29], F) <=> "__WATCOMC__" \in F /\ "__WINDOWS__" \in F
      /\ Taken(PlatformBranches[30], F) <=> "__WATCOMC__" \in F /\ "__VXWORKS__" \in F
      /\ Taken(PlatformBranches[31], F) <=> "__WATCOMC__" \in F
      /\ Taken(PlatformBranches[32], F) <=> "__INTEGRITY" \in F /\ "INT_178B" \in F
      /\ Taken(PlatformBranches[33], F) <=> "__INTEGRITY" \in F
  <1>1.
      /\ Taken(PlatformBranches[1], F) <=> {"__linux", "__linux__", "linux"} \cap F # {}
      /\ Taken(PlatformBranches[2], F) <=> "__MSYS__" \in F
      /\ Taken(PlatformBranches[3], F) <=> "__CYGWIN__" \in F
      /\ Taken(PlatformBranches[4], F) <=> "__MINGW32__" \in F
      /\ Taken(PlatformBranches[5], F) <=> "__APPLE__" \in F
      /\ Taken(PlatformBranches[6], F) <=> {"_WIN32", "__WIN32__", "WIN32"} \cap F # {}
      /\ Taken(PlatformBranches[7], F) <=> {"__FreeBSD__", "__FreeBSD"} \cap F # {}
      /\ Taken(PlatformBranches[8], F) <=> {"__NetBSD__", "__NetBSD"} \cap F # {}
      /\ Taken(PlatformBranches[9], F) <=> {"__OpenBSD__", "__OPENBSD"} \cap F # {}
      /\ Taken(PlatformBranches[10], F) <=> {"__sun", "sun"} \cap F # {}
      /\ Taken(PlatformBranches[11], F) <=> {"_AIX", "__AIX", "__AIX__", "__aix", "__aix__"} \cap F # {}
    <2>1.
      /\ PlatformBranches[1] = Named("Linux", {"__linux", "__linux__", "linux"})
      /\ PlatformBranches[2] = By("MSYS", "__MSYS__")
      /\ PlatformBranches[3] = By("Cygwin", "__CYGWIN__")
      /\ PlatformBranches[4] = By("MinGW", "__MINGW32__")
      /\ PlatformBranches[5] = By("Darwin", "__APPLE__")
      /\ PlatformBranches[6] = Named("Windows", {"_WIN32", "__WIN32__", "WIN32"})
      /\ PlatformBranches[7] = Named("FreeBSD", {"__FreeBSD__", "__FreeBSD"})
      /\ PlatformBranches[8] = Named("NetBSD", {"__NetBSD__", "__NetBSD"})
      /\ PlatformBranches[9] = Named("OpenBSD", {"__OpenBSD__", "__OPENBSD"})
      /\ PlatformBranches[10] = Named("SunOS", {"__sun", "sun"})
      /\ PlatformBranches[11] = Named("AIX", {"_AIX", "__AIX", "__AIX__", "__aix", "__aix__"})
      BY SMT DEF PlatformBranches
    <2> QED
      BY <2>1, NamedTaken, ByTaken, PairTaken, SMT
  <1>2.
      /\ Taken(PlatformBranches[12], F) <=> {"__hpux", "__hpux__"} \cap F # {}
      /\ Taken(PlatformBranches[13], F) <=> "__HAIKU__" \in F
      /\ Taken(PlatformBranches[14], F) <=> {"__BeOS", "__BEOS__", "_BEOS"} \cap F # {}
      /\ Taken(PlatformBranches[15], F) <=> {"__QNX__", "__QNXNTO__"} \cap F # {}
      /\ Taken(PlatformBranches[16], F) <=> {"__tru64", "_tru64", "__TRU64__"} \cap F # {}
      /\ Taken(PlatformBranches[17], F) <=> {"__riscos", "__riscos__"} \cap F # {}
      /\ Taken(PlatformBranches[18], F) <=> {"__sinix", "__sinix__", "__SINIX__"} \cap F # {}
      /\ Taken(PlatformBranches[19], F) <=> "__UNIX_SV__" \in F
      /\ Taken(PlatformBranches[20], F) <=> "__bsdos__" \in F
      /\ Taken(PlatformBranches[21], F) <=> {"_MPRAS", "MPRAS"} \cap F # {}
      /\ Taken(PlatformBranches[22], F) <=> {"__osf", "__osf__"} \cap F # {}
    <2>1.
      /\ PlatformBranches[12] = Named("HP-UX", {"__hpux", "__hpux__"})
      /\ PlatformBranches[13] = By("Haiku", "__HAIKU__")
      /\ PlatformBranches[14] = Named("BeOS", {"__BeOS", "__BEOS__", "_BEOS"})
      /\ PlatformBranches[15] = Named("QNX", {"__QNX__", "__QNXNTO__"})
      /\ PlatformBranches[16] = Named("Tru64", {"__tru64", "_tru64", "__TRU64__"})
      /\ PlatformBranches[17] = Named("RISCos", {"__riscos", "__riscos__"})
      /\ PlatformBranches[18] = Named("SINIX", {"__sinix", "__sinix__", "__SINIX__"})
      /\ PlatformBranches[19] = By("UNIX_SV", "__UNIX_SV__")
      /\ PlatformBranches[20] = By("BSDOS", "__bsdos__")
      /\ PlatformBranches[21] = Named("MP-RAS", {"_MPRAS", "MPRAS"})
      /\ PlatformBranches[22] = Named("OSF1", {"__osf", "__osf__"})
      BY SMT DEF PlatformBranches
    <2> QED
      BY <2>1, NamedTaken, ByTaken, PairTaken, SMT
  <1>3.
      /\ Taken(PlatformBranches[23], F) <=> {"_SCO_SV", "SCO_SV", "sco_sv"} \cap F # {}
      /\ Taken(PlatformBranches[24], F) <=> {"__ultrix", "__ultrix__", "_ULTRIX"} \cap F # {}
      /\ Taken(PlatformBranches[25], F) <=> {"__XENIX__", "_XENIX", "XENIX"} \cap F # {}
      /\ Taken(PlatformBranches[26], F) <=> "__WATCOMC__" \in F /\ "__LINUX__" \in F
      /\ Taken(PlatformBranches[27], F) <=> "__WATCOMC__" \in F /\ "__DOS__" \in F
      /\ Taken(PlatformBranches[28], F) <=> "__WATCOMC__" \in F /\ "__OS2__" \in F
      /\ Taken(PlatformBranches[29], F) <=> "__WATCOMC__" \in F /\ "__WINDOWS__" \in F
      /\ Taken(PlatformBranches[30], F) <=> "__WATCOMC__" \in F /\ "__VXWORKS__" \in F
      /\ Taken(PlatformBranches[31], F) <=> "__WATCOMC__" \in F
      /\ Taken(PlatformBranches[32], F) <=> "__INTEGRITY" \in F /\ "INT_178B" \in F
      /\ Taken(PlatformBranches[33], F) <=> "__INTEGRITY" \in F
    <2>1.
      /\ PlatformBranches[23] = Named("SCO_SV", {"_SCO_SV", "SCO_SV", "sco_sv"})
      /\ PlatformBranches[24] = Named("ULTRIX", {"__ultrix", "__ultrix__", "_ULTRIX"})
      /\ PlatformBranches[25] = Named("Xenix", {"__XENIX__", "_XENIX", "XENIX"})
      /\ PlatformBranches[26] = Both("Linux", "__WATCOMC__", "__LINUX__")
      /\ PlatformBranches[27] = Both("DOS", "__WATCOMC__", "__DOS__")
      /\ PlatformBranches[28] = Both("OS2", "__WATCOMC__", "__OS2__")
      /\ PlatformBranches[29] = Both("Windows3x", "__WATCOMC__", "__WINDOWS__")
      /\ PlatformBranches[30] = Both("VxWorks", "__WATCOMC__", "__VXWORKS__")
      /\ PlatformBranches[31] = By("none", "__WATCOMC__")
      /\ PlatformBranches[32] = Both("Integrity178", "__INTEGRITY", "INT_178B")
      /\ PlatformBranches[33] = By("Integrity", "__INTEGRITY")
      BY SMT DEF PlatformBranches
    <2> QED
      BY <2>1, NamedTaken, ByTaken, PairTaken, SMT
  <1> QED
    BY <1>1, <1>2, <1>3

(* Which they are. *)
LEMMA PlatformBranchesIds ==
  /\ Len(PlatformBranches) = 33
  /\ PlatformBranches[1].id = "Linux" /\ PlatformBranches[2].id = "MSYS"
  /\ PlatformBranches[3].id = "Cygwin" /\ PlatformBranches[4].id = "MinGW"
  /\ PlatformBranches[5].id = "Darwin" /\ PlatformBranches[6].id = "Windows"
  /\ PlatformBranches[7].id = "FreeBSD" /\ PlatformBranches[8].id = "NetBSD"
  /\ PlatformBranches[9].id = "OpenBSD" /\ PlatformBranches[10].id = "SunOS"
  /\ PlatformBranches[11].id = "AIX" /\ PlatformBranches[12].id = "HP-UX"
  /\ PlatformBranches[13].id = "Haiku" /\ PlatformBranches[14].id = "BeOS"
  /\ PlatformBranches[15].id = "QNX" /\ PlatformBranches[16].id = "Tru64"
  /\ PlatformBranches[17].id = "RISCos" /\ PlatformBranches[18].id = "SINIX"
  /\ PlatformBranches[19].id = "UNIX_SV" /\ PlatformBranches[20].id = "BSDOS"
  /\ PlatformBranches[21].id = "MP-RAS" /\ PlatformBranches[22].id = "OSF1"
  /\ PlatformBranches[23].id = "SCO_SV" /\ PlatformBranches[24].id = "ULTRIX"
  /\ PlatformBranches[25].id = "Xenix" /\ PlatformBranches[26].id = "Linux"
  /\ PlatformBranches[27].id = "DOS" /\ PlatformBranches[28].id = "OS2"
  /\ PlatformBranches[29].id = "Windows3x" /\ PlatformBranches[30].id = "VxWorks"
  /\ PlatformBranches[31].id = "none" /\ PlatformBranches[32].id = "Integrity178"
  /\ PlatformBranches[33].id = "Integrity"
  BY SMT DEF PlatformBranches, By, Named, Both, Branch

(* Of the names that tell platforms apart, F has those in S. *)
OnlyPlatform(F, S) == \A x \in PlatformNames : x \in F <=> x \in S

(* The first that is taken. *)
LEMMA FirstPlatform ==
    ASSUME NEW F, NEW k \in 1 .. 33, Taken(PlatformBranches[k], F),
           \A i \in 1 .. k - 1 : ~Taken(PlatformBranches[i], F)
    PROVE  FirstTaken(PlatformBranches, F) = PlatformBranches[k].id
  <1>1. Len(PlatformBranches) \in Nat /\ k \in 1 .. Len(PlatformBranches)
    BY PlatformBranchesIds, SMT
  <1> QED
    BY <1>1, FirstIs, Zenon

(* No branch is taken. *)
LEMMA NoneTaken ==
    ASSUME NEW branches, NEW F, \A i \in 1 .. Len(branches) : ~Taken(branches[i], F)
    PROVE  FirstTaken(branches, F) = "none"
  <1>1. {i \in 1 .. Len(branches) : Taken(branches[i], F)} = {}
    OBVIOUS
  <1> QED
    BY <1>1, Zenon DEF FirstTaken

(* No platform is found. *)
LEMMA NoPlatform ==
    ASSUME NEW F, \A i \in 1 .. 33 : ~Taken(PlatformBranches[i], F)
    PROVE  FirstTaken(PlatformBranches, F) = "none"
  <1>1. Len(PlatformBranches) = 33
    BY PlatformBranchesIds
  <1> QED
    BY <1>1, NoneTaken, SMTT(60)

(* What the probes take for the platform, whose macros are S and no others
   of these names. *)
LEMMA PlatformsFound ==
    ASSUME NEW F, "__WATCOMC__" \notin F
    PROVE
      /\ OnlyPlatform(F, {}) => FirstTaken(PlatformBranches, F) = "none"
      /\ OnlyPlatform(F, {"_WIN32"}) => FirstTaken(PlatformBranches, F) = "Windows"
      /\ OnlyPlatform(F, {"__linux__", "__linux"}) => FirstTaken(PlatformBranches, F) = "Linux"
      /\ OnlyPlatform(F, {"__linux__", "__ANDROID__", "__aarch64__"}) =>
             FirstTaken(PlatformBranches, F) = "Linux"
      /\ OnlyPlatform(F, {"__MSYS__", "__CYGWIN__"}) => FirstTaken(PlatformBranches, F) = "MSYS"
      /\ OnlyPlatform(F, {"__CYGWIN__"}) => FirstTaken(PlatformBranches, F) = "Cygwin"
      /\ OnlyPlatform(F, {"__MINGW32__", "_WIN32", "WIN32"}) => FirstTaken(PlatformBranches, F) = "MinGW"
      /\ OnlyPlatform(F, {"__APPLE__"}) => FirstTaken(PlatformBranches, F) = "Darwin"
      /\ OnlyPlatform(F, {"__FreeBSD__"}) => FirstTaken(PlatformBranches, F) = "FreeBSD"
      /\ OnlyPlatform(F, {"__NetBSD__"}) => FirstTaken(PlatformBranches, F) = "NetBSD"
      /\ OnlyPlatform(F, {"__OpenBSD__"}) => FirstTaken(PlatformBranches, F) = "OpenBSD"
      /\ OnlyPlatform(F, {"__sun", "sun"}) => FirstTaken(PlatformBranches, F) = "SunOS"
      /\ OnlyPlatform(F, {"_AIX"}) => FirstTaken(PlatformBranches, F) = "AIX"
      /\ OnlyPlatform(F, {"__hpux", "__hpux__"}) => FirstTaken(PlatformBranches, F) = "HP-UX"
      /\ OnlyPlatform(F, {"__hpux"}) => FirstTaken(PlatformBranches, F) = "HP-UX"
      /\ OnlyPlatform(F, {"__HAIKU__", "__BEOS__"}) => FirstTaken(PlatformBranches, F) = "Haiku"
      /\ OnlyPlatform(F, {"__BEOS__"}) => FirstTaken(PlatformBranches, F) = "BeOS"
      /\ OnlyPlatform(F, {"__QNX__", "__QNXNTO__"}) => FirstTaken(PlatformBranches, F) = "QNX"
      /\ OnlyPlatform(F, {"__tru64"}) => FirstTaken(PlatformBranches, F) = "Tru64"
      /\ OnlyPlatform(F, {"__riscos"}) => FirstTaken(PlatformBranches, F) = "RISCos"
      /\ OnlyPlatform(F, {"__sinix"}) => FirstTaken(PlatformBranches, F) = "SINIX"
      /\ OnlyPlatform(F, {"__UNIX_SV__"}) => FirstTaken(PlatformBranches, F) = "UNIX_SV"
      /\ OnlyPlatform(F, {"__bsdos__"}) => FirstTaken(PlatformBranches, F) = "BSDOS"
      /\ OnlyPlatform(F, {"_MPRAS"}) => FirstTaken(PlatformBranches, F) = "MP-RAS"
      /\ OnlyPlatform(F, {"__osf__"}) => FirstTaken(PlatformBranches, F) = "OSF1"
      /\ OnlyPlatform(F, {"_SCO_SV"}) => FirstTaken(PlatformBranches, F) = "SCO_SV"
      /\ OnlyPlatform(F, {"__ultrix"}) => FirstTaken(PlatformBranches, F) = "ULTRIX"
      /\ OnlyPlatform(F, {"_XENIX"}) => FirstTaken(PlatformBranches, F) = "Xenix"
      /\ OnlyPlatform(F, {"__INTEGRITY"}) => FirstTaken(PlatformBranches, F) = "Integrity"
      /\ OnlyPlatform(F, {"__INTEGRITY", "INT_178B"}) => FirstTaken(PlatformBranches, F) = "Integrity178"
  <1>1.
      /\ OnlyPlatform(F, {}) => \A i \in 1 .. 33 : ~Taken(PlatformBranches[i], F)
      /\ OnlyPlatform(F, {"_WIN32"}) => /\ Taken(PlatformBranches[6], F)
                                        /\ \A i \in 1 .. 5 : ~Taken(PlatformBranches[i], F)
      /\ OnlyPlatform(F, {"__linux__", "__linux"}) => /\ Taken(PlatformBranches[1], F)
                                                      /\ \A i \in 1 .. 0 : ~Taken(PlatformBranches[i], F)
      /\ OnlyPlatform(F, {"__linux__", "__ANDROID__", "__aarch64__"}) => /\ Taken(PlatformBranches[1], F)
                                                                         /\ \A i \in 1 .. 0 : ~Taken(PlatformBranches[i], F)
      /\ OnlyPlatform(F, {"__MSYS__", "__CYGWIN__"}) => /\ Taken(PlatformBranches[2], F)
                                                        /\ \A i \in 1 .. 1 : ~Taken(PlatformBranches[i], F)
      /\ OnlyPlatform(F, {"__CYGWIN__"}) => /\ Taken(PlatformBranches[3], F)
                                            /\ \A i \in 1 .. 2 : ~Taken(PlatformBranches[i], F)
      /\ OnlyPlatform(F, {"__MINGW32__", "_WIN32", "WIN32"}) => /\ Taken(PlatformBranches[4], F)
                                                                /\ \A i \in 1 .. 3 : ~Taken(PlatformBranches[i], F)
    BY PlatformBranchesTaken, SMTT(60) DEF OnlyPlatform, PlatformNames
  <1>2.
      /\ OnlyPlatform(F, {"__APPLE__"}) => /\ Taken(PlatformBranches[5], F)
                                           /\ \A i \in 1 .. 4 : ~Taken(PlatformBranches[i], F)
      /\ OnlyPlatform(F, {"__FreeBSD__"}) => /\ Taken(PlatformBranches[7], F)
                                             /\ \A i \in 1 .. 6 : ~Taken(PlatformBranches[i], F)
      /\ OnlyPlatform(F, {"__NetBSD__"}) => /\ Taken(PlatformBranches[8], F)
                                            /\ \A i \in 1 .. 7 : ~Taken(PlatformBranches[i], F)
      /\ OnlyPlatform(F, {"__OpenBSD__"}) => /\ Taken(PlatformBranches[9], F)
                                             /\ \A i \in 1 .. 8 : ~Taken(PlatformBranches[i], F)
      /\ OnlyPlatform(F, {"__sun", "sun"}) => /\ Taken(PlatformBranches[10], F)
                                              /\ \A i \in 1 .. 9 : ~Taken(PlatformBranches[i], F)
      /\ OnlyPlatform(F, {"_AIX"}) => /\ Taken(PlatformBranches[11], F)
                                      /\ \A i \in 1 .. 10 : ~Taken(PlatformBranches[i], F)
      /\ OnlyPlatform(F, {"__hpux", "__hpux__"}) => /\ Taken(PlatformBranches[12], F)
                                                    /\ \A i \in 1 .. 11 : ~Taken(PlatformBranches[i], F)
    BY PlatformBranchesTaken, SMTT(60) DEF OnlyPlatform, PlatformNames
  <1>3.
      /\ OnlyPlatform(F, {"__hpux"}) => /\ Taken(PlatformBranches[12], F)
                                        /\ \A i \in 1 .. 11 : ~Taken(PlatformBranches[i], F)
      /\ OnlyPlatform(F, {"__HAIKU__", "__BEOS__"}) => /\ Taken(PlatformBranches[13], F)
                                                       /\ \A i \in 1 .. 12 : ~Taken(PlatformBranches[i], F)
      /\ OnlyPlatform(F, {"__BEOS__"}) => /\ Taken(PlatformBranches[14], F)
                                          /\ \A i \in 1 .. 13 : ~Taken(PlatformBranches[i], F)
      /\ OnlyPlatform(F, {"__QNX__", "__QNXNTO__"}) => /\ Taken(PlatformBranches[15], F)
                                                       /\ \A i \in 1 .. 14 : ~Taken(PlatformBranches[i], F)
      /\ OnlyPlatform(F, {"__tru64"}) => /\ Taken(PlatformBranches[16], F)
                                         /\ \A i \in 1 .. 15 : ~Taken(PlatformBranches[i], F)
      /\ OnlyPlatform(F, {"__riscos"}) => /\ Taken(PlatformBranches[17], F)
                                          /\ \A i \in 1 .. 16 : ~Taken(PlatformBranches[i], F)
      /\ OnlyPlatform(F, {"__sinix"}) => /\ Taken(PlatformBranches[18], F)
                                         /\ \A i \in 1 .. 17 : ~Taken(PlatformBranches[i], F)
    BY PlatformBranchesTaken, SMTT(60) DEF OnlyPlatform, PlatformNames
  <1>4.
      /\ OnlyPlatform(F, {"__UNIX_SV__"}) => /\ Taken(PlatformBranches[19], F)
                                             /\ \A i \in 1 .. 18 : ~Taken(PlatformBranches[i], F)
      /\ OnlyPlatform(F, {"__bsdos__"}) => /\ Taken(PlatformBranches[20], F)
                                           /\ \A i \in 1 .. 19 : ~Taken(PlatformBranches[i], F)
      /\ OnlyPlatform(F, {"_MPRAS"}) => /\ Taken(PlatformBranches[21], F)
                                        /\ \A i \in 1 .. 20 : ~Taken(PlatformBranches[i], F)
      /\ OnlyPlatform(F, {"__osf__"}) => /\ Taken(PlatformBranches[22], F)
                                         /\ \A i \in 1 .. 21 : ~Taken(PlatformBranches[i], F)
      /\ OnlyPlatform(F, {"_SCO_SV"}) => /\ Taken(PlatformBranches[23], F)
                                         /\ \A i \in 1 .. 22 : ~Taken(PlatformBranches[i], F)
      /\ OnlyPlatform(F, {"__ultrix"}) => /\ Taken(PlatformBranches[24], F)
                                          /\ \A i \in 1 .. 23 : ~Taken(PlatformBranches[i], F)
      /\ OnlyPlatform(F, {"_XENIX"}) => /\ Taken(PlatformBranches[25], F)
                                        /\ \A i \in 1 .. 24 : ~Taken(PlatformBranches[i], F)
    BY PlatformBranchesTaken, SMTT(60) DEF OnlyPlatform, PlatformNames
  <1>5.
      /\ OnlyPlatform(F, {"__INTEGRITY"}) => /\ Taken(PlatformBranches[33], F)
                                             /\ \A i \in 1 .. 32 : ~Taken(PlatformBranches[i], F)
      /\ OnlyPlatform(F, {"__INTEGRITY", "INT_178B"}) => /\ Taken(PlatformBranches[32], F)
                                                         /\ \A i \in 1 .. 31 : ~Taken(PlatformBranches[i], F)
    BY PlatformBranchesTaken, SMTT(60) DEF OnlyPlatform, PlatformNames
  <1> QED
    BY <1>1, <1>2, <1>3, <1>4, <1>5, FirstPlatform, NoPlatform, PlatformBranchesIds, SMT

(* Watcom's platforms. *)
LEMMA WatcomPlatformsFound ==
    ASSUME NEW F, "__WATCOMC__" \in F
    PROVE
      /\ OnlyPlatform(F, {"__LINUX__"}) => FirstTaken(PlatformBranches, F) = "Linux"
      /\ OnlyPlatform(F, {"__DOS__"}) => FirstTaken(PlatformBranches, F) = "DOS"
      /\ OnlyPlatform(F, {"__OS2__"}) => FirstTaken(PlatformBranches, F) = "OS2"
      /\ OnlyPlatform(F, {}) => FirstTaken(PlatformBranches, F) = "none"
      /\ OnlyPlatform(F, {"__WINDOWS__"}) => FirstTaken(PlatformBranches, F) = "Windows3x"
      /\ OnlyPlatform(F, {"__VXWORKS__"}) => FirstTaken(PlatformBranches, F) = "VxWorks"
  <1>1.
      /\ OnlyPlatform(F, {"__LINUX__"}) => /\ Taken(PlatformBranches[26], F)
                                           /\ \A i \in 1 .. 25 : ~Taken(PlatformBranches[i], F)
      /\ OnlyPlatform(F, {"__DOS__"}) => /\ Taken(PlatformBranches[27], F)
                                         /\ \A i \in 1 .. 26 : ~Taken(PlatformBranches[i], F)
      /\ OnlyPlatform(F, {"__OS2__"}) => /\ Taken(PlatformBranches[28], F)
                                         /\ \A i \in 1 .. 27 : ~Taken(PlatformBranches[i], F)
      /\ OnlyPlatform(F, {}) => /\ Taken(PlatformBranches[31], F)
                                /\ \A i \in 1 .. 30 : ~Taken(PlatformBranches[i], F)
      /\ OnlyPlatform(F, {"__WINDOWS__"}) => /\ Taken(PlatformBranches[29], F)
                                             /\ \A i \in 1 .. 28 : ~Taken(PlatformBranches[i], F)
      /\ OnlyPlatform(F, {"__VXWORKS__"}) => /\ Taken(PlatformBranches[30], F)
                                             /\ \A i \in 1 .. 29 : ~Taken(PlatformBranches[i], F)
    BY PlatformBranchesTaken, SMTT(60) DEF OnlyPlatform, PlatformNames
  <1> QED
    BY <1>1, FirstPlatform, NoPlatform, PlatformBranchesIds, SMT

(* The names the probes ask for to tell architectures apart. *)
ArchitectureNames ==
    {"_M_IA64", "_M_ARM64EC", "_M_X64", "_M_AMD64", "_M_IX86", "_M_ARM64", "_M_ARM", "_M_MIPS", "_M_SH",
     "_M_I86", "__ICCARM__", "__ICCRX__", "__ICCRH850__", "__ICCRL78__", "__ICCRISCV__", "__ICCAVR__",
     "__ICC430__", "__ICCV850__", "__ICC8051__", "__ICCSTM8__", "__PPC64__", "__ppc__", "__ARM__",
     "__x86_64__", "__i386__", "__TI_ARM__", "__MSP430__", "__TMS320C28XX__", "__TMS320C6X__", "_TMS320C6X"}

(* All names by which a target tells. *)
TargetNames == PlatformNames \cup ArchitectureNames

(* No vendor defines one itself, but HP's compiler without a name. *)
LEMMA OwnTarget ==
    ASSUME NEW vendor \in Vendors, NEW v, NEW l \in Languages, NEW x \in TargetNames
    PROVE  x \in DOMAIN OwnMacros(vendor, v, l) <=> vendor = "HP" /\ v = <<>> /\ x = "__hpux"
  <1> DEFINE Same(name) == x \in DOMAIN OwnMacros(name, v, l) <=> name = "HP" /\ v = <<>> /\ x = "__hpux"
  <1>1. /\ Same("Comeau") /\ Same("Intel") /\ Same("IntelLLVM") /\ Same("PathScale")
        /\ Same("Embarcadero") /\ Same("Borland") /\ Same("Watcom") /\ Same("OpenWatcom")
        /\ Same("SunPro") /\ Same("HP") /\ Same("Compaq") /\ Same("zOS") /\ Same("XLClang")
    BY SMT DEF OwnMacros, TargetNames, PlatformNames, ArchitectureNames, Languages, Spelling,
       IntelMacros,
         Macro, Flags, ++
  <1>2. /\ Same("XL") /\ Same("VisualAge") /\ Same("NVHPC") /\ Same("PGI") /\ Same("Cray")
        /\ Same("TI") /\ Same("FujitsuClang") /\ Same("Fujitsu") /\ Same("GHS") /\ Same("TinyCC")
        /\ Same("Bruce") /\ Same("SCO") /\ Same("ARMCC")
    BY SMT DEF OwnMacros, TargetNames, PlatformNames, ArchitectureNames, Languages, Spelling,
       FujitsuMacros,
         Macro, Flags, ++
  <1>3. /\ Same("AppleClang") /\ Same("ARMClang") /\ Same("Clang") /\ Same("GNU") /\ Same("MSVC")
        /\ Same("ADSP") /\ Same("IAR") /\ Same("SDCC")
    BY SMT DEF OwnMacros, TargetNames, PlatformNames, ArchitectureNames, MSVCMacros,
         IARMacros, ClangMacros, GNUMacros, Macro, Flags, ++
  <1> HIDE DEF Same
  <1>4. Same(vendor)
    BY <1>1, <1>2, <1>3, SMT DEF Vendors
  <1> QED
    BY <1>4 DEF Same

(* What a toolchain defines of these names is its target's. *)
LEMMA TargetNamed ==
    ASSUME NEW t, WellFormed(t), NEW l \in Languages, t.compiles[l] = l, NEW x \in TargetNames
    PROVE  /\ x \in DOMAIN Macros(t, l) <=> x \in DOMAIN t.target.macros
           /\ x = "_M_ARM" /\ x \in DOMAIN t.target.macros => Macros(t, l)[x] = t.target.macros[x]
  <1> DEFINE own == OwnMacros(t.vendor, t.version, l)
             clang == Flags(IF t.vendor \in ClangBased THEN {"__clang__"} ELSE {})
             pretended == PretendedMacros(t)
             language == LanguageMacros(t, l)
             m == Macros(t, l)
  <1>1. m = (((own ++ clang) ++ pretended) ++ language) ++ t.target.macros
    BY DEF Macros
  <1>2. x # "__clang__" /\ x \notin DOMAIN pretended
    BY PretendedNames, SMT DEF TargetNames, PlatformNames, ArchitectureNames
  <1>3. x \notin DOMAIN language
    BY SMT DEF TargetNames, PlatformNames, ArchitectureNames, LanguageMacros, Flags, ++
  <1>4. x \notin DOMAIN clang
    BY <1>2 DEF Flags
  <1>5. t.vendor \in Vendors /\ t.target \in TargetsOf(t)
    BY DEF WellFormed
  <1>6. x \in DOMAIN own <=> t.vendor = "HP" /\ t.version = <<>> /\ x = "__hpux"
    BY <1>5, OwnTarget
  <1>7. t.vendor = "HP" /\ t.version = <<>> => DOMAIN t.target.macros = {"__hpux"}
    BY <1>5, TargetMacros, SMT DEF TargetsOf, Platform
  <1> HIDE DEF own, clang, pretended, language, m
  <1>8. x \in DOMAIN m <=> x \in DOMAIN t.target.macros
    BY <1>1, <1>2, <1>3, <1>4, <1>6, <1>7, Merge, SMT
  <1>9. x = "_M_ARM" /\ x \in DOMAIN t.target.macros => m[x] = t.target.macros[x]
    BY <1>1, <1>2, <1>3, <1>4, <1>6, Merge, SMT
  <1> QED
    BY <1>8, <1>9 DEF m

(* Platforms are told by the target alone. *)
LEMMA TargetOnly ==
    ASSUME NEW t, WellFormed(t), NEW l \in Languages, t.compiles[l] = l, NEW S,
           \A x \in PlatformNames : x \in DOMAIN t.target.macros <=> x \in S
    PROVE  OnlyPlatform(DOMAIN Macros(t, l), S)
  BY TargetNamed DEF OnlyPlatform, TargetNames

(* The same for a target built by Platform. *)
LEMMA PlatformOnly ==
    ASSUME NEW t, WellFormed(t), NEW l \in Languages, t.compiles[l] = l, NEW id, NEW S,
           t.target = Platform(id, S)
    PROVE  OnlyPlatform(DOMAIN Macros(t, l), S) /\ t.target.platform = id
  <1>1. DOMAIN t.target.macros = S /\ t.target.platform = id
    BY DEF Platform, Target, Flags
  <1> QED
    BY <1>1, TargetOnly

(* Only Watcom's compilers say they are. *)
LEMMA WatcomNamed ==
    ASSUME NEW t, WellFormed(t), NEW l \in Languages, t.compiles[l] = l
    PROVE  "__WATCOMC__" \in DOMAIN Macros(t, l) <=> t.vendor \in {"Watcom", "OpenWatcom"}
  <1>1. "__WATCOMC__" \in Marks
    BY SMT DEF Marks
  <1>2. ASSUME NEW vendor \in Vendors
        PROVE  "__WATCOMC__" \in Signs(vendor, t.version, l) <=> vendor \in {"Watcom", "OpenWatcom"}
    BY SMT DEF Signs, Vendors, Spelling
  <1> QED
    BY <1>1, <1>2, MarkNames DEF WellFormed

(* The probes name the platform of the target. *)
LEMMA PlatformIdentified ==
    ASSUME NEW t, WellFormed(t), NEW l \in Languages, t.compiles[l] = l
    PROVE  PlatformId(Macros(t, l)) = t.target.platform
  <1> DEFINE F == DOMAIN Macros(t, l)
             id == FirstTaken(PlatformBranches, F)
  <1> SUFFICES id = t.target.platform
    BY DEF PlatformId
  <1>1. t.vendor \in Vendors /\ t.target \in TargetsOf(t)
    BY DEF WellFormed
  <1>2. "__WATCOMC__" \in F <=> t.vendor \in {"Watcom", "OpenWatcom"}
    BY WatcomNamed
  <1>3. ASSUME NEW platform, NEW S, t.target = Platform(platform, S)
        PROVE  OnlyPlatform(F, S) /\ t.target.platform = platform
    BY <1>3, PlatformOnly
  <1>4. ASSUME NEW S, \A x \in PlatformNames : x \in DOMAIN t.target.macros <=> x \in S
        PROVE  OnlyPlatform(F, S)
    BY <1>4, TargetOnly
  <1>5. ASSUME t.target = Plain
        PROVE  t.target.platform = "none" /\ OnlyPlatform(F, {})
    <2>1. t.target.platform = "none" /\ DOMAIN t.target.macros = {}
      BY <1>5 DEF Plain, Target, Flags
    <2> QED
      BY <1>4, <2>1
  <1>6. CASE "__WATCOMC__" \notin F /\ t.target \in Platforms
    <2> HIDE DEF F
    <2>1. CASE t.target = Plain
      BY <1>5, <1>6, <2>1, PlatformsFound
    <2>2. CASE t.target # Plain
      BY <1>3, <1>6, <2>2, PlatformsFound, SMT DEF Platforms
    <2> QED
      BY <2>1, <2>2
  <1>7. CASE "__WATCOMC__" \notin F /\ t.target \in WindowsTargets
    <2>1. \A target \in WindowsTargets :
            /\ target.platform = "Windows"
            /\ \A x \in PlatformNames : x \in DOMAIN target.macros <=> x \in {"_WIN32"}
      BY SMT DEF WindowsTargets, Windows, WindowsArm, Target, Flags, PlatformNames
    <2>2. OnlyPlatform(F, {"_WIN32"}) /\ t.target.platform = "Windows"
      BY <1>4, <1>7, <2>1
    <2> HIDE DEF F
    <2> QED
      BY <1>7, <2>2, PlatformsFound
  <1>8. CASE "__WATCOMC__" \notin F /\ t.target \in GHSTargets \cup TITargets \cup IARTargets \cup {IARArm}
    <2>1. \A target \in TITargets \cup IARTargets \cup {IARArm} :
            /\ target.platform = "none"
            /\ \A x \in PlatformNames : x \in DOMAIN target.macros <=> x \in {}
      BY SMT DEF TITargets, IARTargets, IARArm, Target, Flags, PlatformNames
    <2>2. \A target \in GHSTargets :
            \/ /\ target.platform = "none"
               /\ \A x \in PlatformNames : x \in DOMAIN target.macros <=> x \in {}
            \/ /\ target.platform = "Integrity"
               /\ \A x \in PlatformNames : x \in DOMAIN target.macros <=> x \in {"__INTEGRITY"}
      BY SMT DEF GHSTargets, Target, Flags, PlatformNames
    <2>3. \/ OnlyPlatform(F, {}) /\ t.target.platform = "none"
          \/ OnlyPlatform(F, {"__INTEGRITY"}) /\ t.target.platform = "Integrity"
      BY <1>4, <1>8, <2>1, <2>2
    <2> HIDE DEF F
    <2> QED
      BY <1>8, <2>3, PlatformsFound
  <1>9. CASE "__WATCOMC__" \in F
    <2>1. t.target \in WatcomTargets \cup {Plain}
      BY <1>1, <1>2, <1>9, SMT DEF TargetsOf
    <2> DEFINE Row(S, name) == OnlyPlatform(F, S) /\ t.target.platform = name
    <2>2. t.target \in WatcomTargets =>
            \E p \in WatcomPlatforms :
              /\ t.target.platform = p.id
              /\ \A x \in PlatformNames : x \in DOMAIN t.target.macros <=> x \in {p.macro} \ {"__QNX86__"}
      <3>1. ASSUME NEW p \in WatcomPlatforms, NEW architecture, NEW S \in SUBSET {"_M_I86", "_M_IX86"}
            PROVE  LET target == Target(p.id, architecture, {p.macro} \cup S) IN
                   /\ target.platform = p.id
                   /\ \A x \in PlatformNames : x \in DOMAIN target.macros <=> x \in {p.macro} \ {"__QNX86__"}
        <4>1. \A x \in PlatformNames : x \notin {"_M_I86", "_M_IX86", "__QNX86__"}
          BY SMT DEF PlatformNames
        <4> QED
          BY <4>1 DEF Target, Flags
      <3>2. ASSUME t.target \in WatcomTargets
            PROVE  \E p \in WatcomPlatforms, architecture \in {"I86", "X86", "none"},
                       S \in SUBSET {"_M_I86", "_M_IX86"} :
                     t.target = Target(p.id, architecture, {p.macro} \cup S)
        <4>1. \/ \E p \in WatcomPlatforms : t.target = Target(p.id, "I86", {p.macro, "_M_I86"})
              \/ \E p \in WatcomPlatforms : t.target = Target(p.id, "X86", {p.macro, "_M_IX86"})
              \/ \E p \in WatcomPlatforms : t.target = Target(p.id, "none", {p.macro})
          BY <3>2, Zenon DEF WatcomTargets
        <4>2. \A a : {a} \cup {"_M_I86"} = {a, "_M_I86"} /\ {a} \cup {"_M_IX86"} = {a, "_M_IX86"}
                  /\ {a} \cup {} = {a}
          OBVIOUS
        <4> QED
          BY <4>1, <4>2
      <3>3. ASSUME t.target \in WatcomTargets
            PROVE  \E p \in WatcomPlatforms :
              /\ t.target.platform = p.id
              /\ \A x \in PlatformNames : x \in DOMAIN t.target.macros <=> x \in {p.macro} \ {"__QNX86__"}
        <4>1. PICK p \in WatcomPlatforms, architecture \in {"I86", "X86", "none"},
                  S \in SUBSET {"_M_I86", "_M_IX86"} :
                     t.target = Target(p.id, architecture, {p.macro} \cup S)
          BY <3>2, <3>3
        <4> DEFINE target == Target(p.id, architecture, {p.macro} \cup S)
        <4>2. /\ target.platform = p.id
              /\ \A x \in PlatformNames : x \in DOMAIN target.macros <=> x \in {p.macro} \ {"__QNX86__"}
          BY <3>1
        <4>3. t.target = target
          BY <4>1
        <4> HIDE DEF target
        <4> QED
          BY <4>2, <4>3
      <3> QED
        BY <3>3
    <2>3. \/ Row({"__LINUX__"}, "Linux") \/ Row({"__DOS__"}, "DOS") \/ Row({"__OS2__"}, "OS2")
          \/ Row({}, "none") \/ Row({"__WINDOWS__"}, "Windows3x") \/ Row({"__VXWORKS__"}, "VxWorks")
      <3>1. CASE t.target = Plain
        BY <1>5, <3>1
      <3>2. CASE t.target \in WatcomTargets
        <4>1. PICK p \in WatcomPlatforms :
                /\ t.target.platform = p.id
                /\ OnlyPlatform(F, {p.macro} \ {"__QNX86__"})
          BY <1>4, <2>2, <3>2
        <4> HIDE DEF F
        <4> QED
          BY <4>1, SMT DEF WatcomPlatforms, OnlyPlatform
      <3> QED
        BY <2>1, <3>1, <3>2
    <2> HIDE DEF F
    <2> QED
      BY <1>9, <2>3, WatcomPlatformsFound
  <1>10. "__WATCOMC__" \notin F =>
           t.target \in Platforms \cup WindowsTargets \cup GHSTargets \cup TITargets \cup
               IARTargets \cup {IARArm}
    <2>1. Plain \in Platforms /\ Platform("HP-UX", {"__hpux"}) \in Platforms
      BY DEF Platforms
    <2> HIDE DEF F
    <2> QED
      BY <1>1, <1>2, <2>1, SMT DEF TargetsOf
  <1> QED
    BY <1>6, <1>7, <1>8, <1>9, <1>10

-----------------------------------------------------------------------------
(* The target: architectures.                                              *)

(* Of the names that tell architectures apart, F has those in S. *)
OnlyArchitecture(F, S) == \A x \in ArchitectureNames : x \in F <=> x \in S

(* The architectures of Microsoft's compilers, branch by branch. *)
LEMMA MSVCArchitecturesTaken ==
    ASSUME NEW F
    PROVE
      /\ Taken(MSVCArchitectures[1], F) <=> "_M_IA64" \in F
      /\ Taken(MSVCArchitectures[2], F) <=> "_M_ARM64EC" \in F
      /\ Taken(MSVCArchitectures[3], F) <=> {"_M_X64", "_M_AMD64"} \cap F # {}
      /\ Taken(MSVCArchitectures[4], F) <=> "_M_IX86" \in F
      /\ Taken(MSVCArchitectures[5], F) <=> "_M_ARM64" \in F
      /\ Taken(MSVCArchitectures[6], F) <=> "_M_ARM" \in F
      /\ Taken(MSVCArchitectures[7], F) <=> "_M_MIPS" \in F
      /\ Taken(MSVCArchitectures[8], F) <=> "_M_SH" \in F
  <1>1.
      /\ MSVCArchitectures[1] = By("IA64", "_M_IA64")
      /\ MSVCArchitectures[2] = By("ARM64EC", "_M_ARM64EC")
      /\ MSVCArchitectures[3] = Named("x64", {"_M_X64", "_M_AMD64"})
      /\ MSVCArchitectures[4] = By("X86", "_M_IX86")
      /\ MSVCArchitectures[5] = By("ARM64", "_M_ARM64")
      /\ MSVCArchitectures[6] = By("ARMV", "_M_ARM")
      /\ MSVCArchitectures[7] = By("MIPS", "_M_MIPS")
      /\ MSVCArchitectures[8] = By("SHx", "_M_SH")
    BY SMT DEF MSVCArchitectures
  <1> QED
    BY <1>1, NamedTaken, ByTaken, PairTaken, SMT

(* Which they are. *)
LEMMA MSVCArchitecturesIds ==
  /\ Len(MSVCArchitectures) = 8
  /\ MSVCArchitectures[1].id = "IA64" /\ MSVCArchitectures[2].id = "ARM64EC"
  /\ MSVCArchitectures[3].id = "x64" /\ MSVCArchitectures[4].id = "X86"
  /\ MSVCArchitectures[5].id = "ARM64" /\ MSVCArchitectures[6].id = "ARMV"
  /\ MSVCArchitectures[7].id = "MIPS" /\ MSVCArchitectures[8].id = "SHx"
  BY SMT DEF MSVCArchitectures, By, Named, Both, Branch

(* The first that is taken. *)
LEMMA MSVCArchitecturesFirst ==
    ASSUME NEW F
    PROVE  /\ \A k \in 1 .. 8 :
                Taken(MSVCArchitectures[k], F) /\ (\A i \in 1 .. k - 1 : ~Taken(MSVCArchitectures[i], F)) =>
                  FirstTaken(MSVCArchitectures, F) = MSVCArchitectures[k].id
           /\ (\A i \in 1 .. 8 : ~Taken(MSVCArchitectures[i], F)) => FirstTaken(MSVCArchitectures, F) = "none"
  <1> DEFINE branches == MSVCArchitectures
  <1>1. Len(branches) = 8
    BY MSVCArchitecturesIds
  <1> HIDE DEF branches
  <1>2. ASSUME NEW k \in 1 .. 8, Taken(branches[k], F), \A i \in 1 .. k - 1 : ~Taken(branches[i], F)
        PROVE  FirstTaken(branches, F) = branches[k].id
    <2>1. Len(branches) \in Nat /\ k \in 1 .. Len(branches)
      BY <1>1, SMT
    <2> QED
      BY <1>2, <2>1, FirstIs, Zenon
  <1>3. ASSUME \A i \in 1 .. 8 : ~Taken(branches[i], F)
        PROVE  FirstTaken(branches, F) = "none"
    BY <1>1, <1>3, NoneTaken
  <1> QED
    BY <1>2, <1>3, Zenon DEF branches

(* What is taken for the architecture. *)
LEMMA MSVCArchitecturesFound ==
    ASSUME NEW F
    PROVE
      /\ OnlyArchitecture(F, {}) => FirstTaken(MSVCArchitectures, F) = "none"
      /\ OnlyArchitecture(F, {"_M_IA64"}) => FirstTaken(MSVCArchitectures, F) = "IA64"
      /\ OnlyArchitecture(F, {"_M_X64", "_M_AMD64"}) => FirstTaken(MSVCArchitectures, F) = "x64"
      /\ OnlyArchitecture(F, {"_M_ARM64EC", "_M_X64", "_M_AMD64"}) =>
             FirstTaken(MSVCArchitectures, F) = "ARM64EC"
      /\ OnlyArchitecture(F, {"_M_IX86"}) => FirstTaken(MSVCArchitectures, F) = "X86"
      /\ OnlyArchitecture(F, {"_M_ARM64"}) => FirstTaken(MSVCArchitectures, F) = "ARM64"
      /\ OnlyArchitecture(F, {"_M_MIPS"}) => FirstTaken(MSVCArchitectures, F) = "MIPS"
      /\ OnlyArchitecture(F, {"_M_SH"}) => FirstTaken(MSVCArchitectures, F) = "SHx"
      /\ OnlyArchitecture(F, {"_M_ARM"}) => FirstTaken(MSVCArchitectures, F) = "ARMV"
  <1>1.
      /\ OnlyArchitecture(F, {}) => \A i \in 1 .. 8 : ~Taken(MSVCArchitectures[i], F)
      /\ OnlyArchitecture(F, {"_M_IA64"}) => /\ Taken(MSVCArchitectures[1], F)
                                             /\ \A i \in 1 .. 0 : ~Taken(MSVCArchitectures[i], F)
      /\ OnlyArchitecture(F, {"_M_X64", "_M_AMD64"}) => /\ Taken(MSVCArchitectures[3], F)
                                                        /\ \A i \in 1 .. 2 : ~Taken(MSVCArchitectures[i], F)
      /\ OnlyArchitecture(F, {"_M_ARM64EC", "_M_X64", "_M_AMD64"}) => /\ Taken(MSVCArchitectures[2], F)
                                                                      /\ \A i \in 1 .. 1 : ~Taken(MSVCArchitectures[i], F)
      /\ OnlyArchitecture(F, {"_M_IX86"}) => /\ Taken(MSVCArchitectures[4], F)
                                             /\ \A i \in 1 .. 3 : ~Taken(MSVCArchitectures[i], F)
      /\ OnlyArchitecture(F, {"_M_ARM64"}) => /\ Taken(MSVCArchitectures[5], F)
                                              /\ \A i \in 1 .. 4 : ~Taken(MSVCArchitectures[i], F)
      /\ OnlyArchitecture(F, {"_M_MIPS"}) => /\ Taken(MSVCArchitectures[7], F)
                                             /\ \A i \in 1 .. 6 : ~Taken(MSVCArchitectures[i], F)
      /\ OnlyArchitecture(F, {"_M_SH"}) => /\ Taken(MSVCArchitectures[8], F)
                                           /\ \A i \in 1 .. 7 : ~Taken(MSVCArchitectures[i], F)
      /\ OnlyArchitecture(F, {"_M_ARM"}) => /\ Taken(MSVCArchitectures[6], F)
                                            /\ \A i \in 1 .. 5 : ~Taken(MSVCArchitectures[i], F)
    BY MSVCArchitecturesTaken, SMTT(60) DEF OnlyArchitecture, ArchitectureNames
  <1> QED
    BY <1>1, MSVCArchitecturesFirst, MSVCArchitecturesIds, SMT

(* The same for IAR. *)
LEMMA IARArchitecturesTaken ==
    ASSUME NEW F
    PROVE
      /\ Taken(IARArchitectures[1], F) <=> "__ICCARM__" \in F
      /\ Taken(IARArchitectures[2], F) <=> "__ICCRX__" \in F
      /\ Taken(IARArchitectures[3], F) <=> "__ICCRH850__" \in F
      /\ Taken(IARArchitectures[4], F) <=> "__ICCRL78__" \in F
      /\ Taken(IARArchitectures[5], F) <=> "__ICCRISCV__" \in F
      /\ Taken(IARArchitectures[6], F) <=> "__ICCAVR__" \in F
      /\ Taken(IARArchitectures[7], F) <=> "__ICC430__" \in F
      /\ Taken(IARArchitectures[8], F) <=> "__ICCV850__" \in F
      /\ Taken(IARArchitectures[9], F) <=> "__ICC8051__" \in F
      /\ Taken(IARArchitectures[10], F) <=> "__ICCSTM8__" \in F
  <1>1.
      /\ IARArchitectures[1] = By("ARM", "__ICCARM__")
      /\ IARArchitectures[2] = By("RX", "__ICCRX__")
      /\ IARArchitectures[3] = By("RH850", "__ICCRH850__")
      /\ IARArchitectures[4] = By("RL78", "__ICCRL78__")
      /\ IARArchitectures[5] = By("RISCV", "__ICCRISCV__")
      /\ IARArchitectures[6] = By("AVR", "__ICCAVR__")
      /\ IARArchitectures[7] = By("MSP430", "__ICC430__")
      /\ IARArchitectures[8] = By("V850", "__ICCV850__")
      /\ IARArchitectures[9] = By("8051", "__ICC8051__")
      /\ IARArchitectures[10] = By("STM8", "__ICCSTM8__")
    BY SMT DEF IARArchitectures
  <1> QED
    BY <1>1, NamedTaken, ByTaken, PairTaken, SMT

LEMMA IARArchitecturesIds ==
  /\ Len(IARArchitectures) = 10
  /\ IARArchitectures[1].id = "ARM" /\ IARArchitectures[2].id = "RX"
  /\ IARArchitectures[3].id = "RH850" /\ IARArchitectures[4].id = "RL78"
  /\ IARArchitectures[5].id = "RISCV" /\ IARArchitectures[6].id = "AVR"
  /\ IARArchitectures[7].id = "MSP430" /\ IARArchitectures[8].id = "V850"
  /\ IARArchitectures[9].id = "8051" /\ IARArchitectures[10].id = "STM8"
  BY SMT DEF IARArchitectures, By, Named, Both, Branch

LEMMA IARArchitecturesFirst ==
    ASSUME NEW F
    PROVE  /\ \A k \in 1 .. 10 :
                Taken(IARArchitectures[k], F) /\ (\A i \in 1 .. k - 1 : ~Taken(IARArchitectures[i], F)) =>
                  FirstTaken(IARArchitectures, F) = IARArchitectures[k].id
           /\ (\A i \in 1 .. 10 : ~Taken(IARArchitectures[i], F)) => FirstTaken(IARArchitectures, F) = "none"
  <1> DEFINE branches == IARArchitectures
  <1>1. Len(branches) = 10
    BY IARArchitecturesIds
  <1> HIDE DEF branches
  <1>2. ASSUME NEW k \in 1 .. 10, Taken(branches[k], F), \A i \in 1 .. k - 1 : ~Taken(branches[i], F)
        PROVE  FirstTaken(branches, F) = branches[k].id
    <2>1. Len(branches) \in Nat /\ k \in 1 .. Len(branches)
      BY <1>1, SMT
    <2> QED
      BY <1>2, <2>1, FirstIs, Zenon
  <1>3. ASSUME \A i \in 1 .. 10 : ~Taken(branches[i], F)
        PROVE  FirstTaken(branches, F) = "none"
    BY <1>1, <1>3, NoneTaken
  <1> QED
    BY <1>2, <1>3, Zenon DEF branches

LEMMA IARArchitecturesFound ==
    ASSUME NEW F
    PROVE
      /\ OnlyArchitecture(F, {"__ICCARM__"}) => FirstTaken(IARArchitectures, F) = "ARM"
      /\ OnlyArchitecture(F, {"__ICCRX__"}) => FirstTaken(IARArchitectures, F) = "RX"
      /\ OnlyArchitecture(F, {"__ICCRH850__"}) => FirstTaken(IARArchitectures, F) = "RH850"
      /\ OnlyArchitecture(F, {"__ICCRL78__"}) => FirstTaken(IARArchitectures, F) = "RL78"
      /\ OnlyArchitecture(F, {"__ICCRISCV__"}) => FirstTaken(IARArchitectures, F) = "RISCV"
      /\ OnlyArchitecture(F, {"__ICCAVR__"}) => FirstTaken(IARArchitectures, F) = "AVR"
      /\ OnlyArchitecture(F, {"__ICC430__"}) => FirstTaken(IARArchitectures, F) = "MSP430"
      /\ OnlyArchitecture(F, {"__ICCV850__"}) => FirstTaken(IARArchitectures, F) = "V850"
      /\ OnlyArchitecture(F, {"__ICC8051__"}) => FirstTaken(IARArchitectures, F) = "8051"
      /\ OnlyArchitecture(F, {"__ICCSTM8__"}) => FirstTaken(IARArchitectures, F) = "STM8"
  <1>1.
      /\ OnlyArchitecture(F, {"__ICCARM__"}) => /\ Taken(IARArchitectures[1], F)
                                                /\ \A i \in 1 .. 0 : ~Taken(IARArchitectures[i], F)
      /\ OnlyArchitecture(F, {"__ICCRX__"}) => /\ Taken(IARArchitectures[2], F)
                                               /\ \A i \in 1 .. 1 : ~Taken(IARArchitectures[i], F)
      /\ OnlyArchitecture(F, {"__ICCRH850__"}) => /\ Taken(IARArchitectures[3], F)
                                                  /\ \A i \in 1 .. 2 : ~Taken(IARArchitectures[i], F)
      /\ OnlyArchitecture(F, {"__ICCRL78__"}) => /\ Taken(IARArchitectures[4], F)
                                                 /\ \A i \in 1 .. 3 : ~Taken(IARArchitectures[i], F)
      /\ OnlyArchitecture(F, {"__ICCRISCV__"}) => /\ Taken(IARArchitectures[5], F)
                                                  /\ \A i \in 1 .. 4 : ~Taken(IARArchitectures[i], F)
      /\ OnlyArchitecture(F, {"__ICCAVR__"}) => /\ Taken(IARArchitectures[6], F)
                                                /\ \A i \in 1 .. 5 : ~Taken(IARArchitectures[i], F)
      /\ OnlyArchitecture(F, {"__ICC430__"}) => /\ Taken(IARArchitectures[7], F)
                                                /\ \A i \in 1 .. 6 : ~Taken(IARArchitectures[i], F)
      /\ OnlyArchitecture(F, {"__ICCV850__"}) => /\ Taken(IARArchitectures[8], F)
                                                 /\ \A i \in 1 .. 7 : ~Taken(IARArchitectures[i], F)
      /\ OnlyArchitecture(F, {"__ICC8051__"}) => /\ Taken(IARArchitectures[9], F)
                                                 /\ \A i \in 1 .. 8 : ~Taken(IARArchitectures[i], F)
      /\ OnlyArchitecture(F, {"__ICCSTM8__"}) => /\ Taken(IARArchitectures[10], F)
                                                 /\ \A i \in 1 .. 9 : ~Taken(IARArchitectures[i], F)
    BY IARArchitecturesTaken, SMTT(60) DEF OnlyArchitecture, ArchitectureNames
  <1> QED
    BY <1>1, IARArchitecturesFirst, IARArchitecturesIds, SMT

(* The same for Green Hills. *)
LEMMA GHSArchitecturesTaken ==
    ASSUME NEW F
    PROVE
      /\ Taken(GHSArchitectures[1], F) <=> "__PPC64__" \in F
      /\ Taken(GHSArchitectures[2], F) <=> "__ppc__" \in F
      /\ Taken(GHSArchitectures[3], F) <=> "__ARM__" \in F
      /\ Taken(GHSArchitectures[4], F) <=> "__x86_64__" \in F
      /\ Taken(GHSArchitectures[5], F) <=> "__i386__" \in F
  <1>1.
      /\ GHSArchitectures[1] = By("PPC64", "__PPC64__")
      /\ GHSArchitectures[2] = By("PPC", "__ppc__")
      /\ GHSArchitectures[3] = By("ARM", "__ARM__")
      /\ GHSArchitectures[4] = By("x64", "__x86_64__")
      /\ GHSArchitectures[5] = By("X86", "__i386__")
    BY SMT DEF GHSArchitectures
  <1> QED
    BY <1>1, NamedTaken, ByTaken, PairTaken, SMT

LEMMA GHSArchitecturesIds ==
  /\ Len(GHSArchitectures) = 5
  /\ GHSArchitectures[1].id = "PPC64" /\ GHSArchitectures[2].id = "PPC"
  /\ GHSArchitectures[3].id = "ARM" /\ GHSArchitectures[4].id = "x64"
  /\ GHSArchitectures[5].id = "X86"
  BY SMT DEF GHSArchitectures, By, Named, Both, Branch

LEMMA GHSArchitecturesFirst ==
    ASSUME NEW F
    PROVE  /\ \A k \in 1 .. 5 :
                Taken(GHSArchitectures[k], F) /\ (\A i \in 1 .. k - 1 : ~Taken(GHSArchitectures[i], F)) =>
                  FirstTaken(GHSArchitectures, F) = GHSArchitectures[k].id
           /\ (\A i \in 1 .. 5 : ~Taken(GHSArchitectures[i], F)) => FirstTaken(GHSArchitectures, F) = "none"
  <1> DEFINE branches == GHSArchitectures
  <1>1. Len(branches) = 5
    BY GHSArchitecturesIds
  <1> HIDE DEF branches
  <1>2. ASSUME NEW k \in 1 .. 5, Taken(branches[k], F), \A i \in 1 .. k - 1 : ~Taken(branches[i], F)
        PROVE  FirstTaken(branches, F) = branches[k].id
    <2>1. Len(branches) \in Nat /\ k \in 1 .. Len(branches)
      BY <1>1, SMT
    <2> QED
      BY <1>2, <2>1, FirstIs, Zenon
  <1>3. ASSUME \A i \in 1 .. 5 : ~Taken(branches[i], F)
        PROVE  FirstTaken(branches, F) = "none"
    BY <1>1, <1>3, NoneTaken
  <1> QED
    BY <1>2, <1>3, Zenon DEF branches

LEMMA GHSArchitecturesFound ==
    ASSUME NEW F
    PROVE
      /\ OnlyArchitecture(F, {}) => FirstTaken(GHSArchitectures, F) = "none"
      /\ OnlyArchitecture(F, {"__PPC64__", "__ppc__"}) => FirstTaken(GHSArchitectures, F) = "PPC64"
      /\ OnlyArchitecture(F, {"__ppc__"}) => FirstTaken(GHSArchitectures, F) = "PPC"
      /\ OnlyArchitecture(F, {"__ARM__"}) => FirstTaken(GHSArchitectures, F) = "ARM"
      /\ OnlyArchitecture(F, {"__x86_64__"}) => FirstTaken(GHSArchitectures, F) = "x64"
      /\ OnlyArchitecture(F, {"__i386__"}) => FirstTaken(GHSArchitectures, F) = "X86"
  <1>1.
      /\ OnlyArchitecture(F, {}) => \A i \in 1 .. 5 : ~Taken(GHSArchitectures[i], F)
      /\ OnlyArchitecture(F, {"__PPC64__", "__ppc__"}) => /\ Taken(GHSArchitectures[1], F)
                                                          /\ \A i \in 1 .. 0 : ~Taken(GHSArchitectures[i], F)
      /\ OnlyArchitecture(F, {"__ppc__"}) => /\ Taken(GHSArchitectures[2], F)
                                             /\ \A i \in 1 .. 1 : ~Taken(GHSArchitectures[i], F)
      /\ OnlyArchitecture(F, {"__ARM__"}) => /\ Taken(GHSArchitectures[3], F)
                                             /\ \A i \in 1 .. 2 : ~Taken(GHSArchitectures[i], F)
      /\ OnlyArchitecture(F, {"__x86_64__"}) => /\ Taken(GHSArchitectures[4], F)
                                                /\ \A i \in 1 .. 3 : ~Taken(GHSArchitectures[i], F)
      /\ OnlyArchitecture(F, {"__i386__"}) => /\ Taken(GHSArchitectures[5], F)
                                              /\ \A i \in 1 .. 4 : ~Taken(GHSArchitectures[i], F)
    BY GHSArchitecturesTaken, SMTT(60) DEF OnlyArchitecture, ArchitectureNames
  <1> QED
    BY <1>1, GHSArchitecturesFirst, GHSArchitecturesIds, SMT

(* The same for Texas Instruments. *)
LEMMA TIArchitecturesTaken ==
    ASSUME NEW F
    PROVE
      /\ Taken(TIArchitectures[1], F) <=> "__TI_ARM__" \in F
      /\ Taken(TIArchitectures[2], F) <=> "__MSP430__" \in F
      /\ Taken(TIArchitectures[3], F) <=> "__TMS320C28XX__" \in F
      /\ Taken(TIArchitectures[4], F) <=> {"__TMS320C6X__", "_TMS320C6X"} \cap F # {}
  <1>1.
      /\ TIArchitectures[1] = By("ARM", "__TI_ARM__")
      /\ TIArchitectures[2] = By("MSP430", "__MSP430__")
      /\ TIArchitectures[3] = By("TMS320C28x", "__TMS320C28XX__")
      /\ TIArchitectures[4] = Named("TMS320C6x", {"__TMS320C6X__", "_TMS320C6X"})
    BY SMT DEF TIArchitectures
  <1> QED
    BY <1>1, NamedTaken, ByTaken, PairTaken, SMT

LEMMA TIArchitecturesIds ==
  /\ Len(TIArchitectures) = 4
  /\ TIArchitectures[1].id = "ARM" /\ TIArchitectures[2].id = "MSP430"
  /\ TIArchitectures[3].id = "TMS320C28x" /\ TIArchitectures[4].id = "TMS320C6x"
  BY SMT DEF TIArchitectures, By, Named, Both, Branch

LEMMA TIArchitecturesFirst ==
    ASSUME NEW F
    PROVE  /\ \A k \in 1 .. 4 :
                Taken(TIArchitectures[k], F) /\ (\A i \in 1 .. k - 1 : ~Taken(TIArchitectures[i], F)) =>
                  FirstTaken(TIArchitectures, F) = TIArchitectures[k].id
           /\ (\A i \in 1 .. 4 : ~Taken(TIArchitectures[i], F)) => FirstTaken(TIArchitectures, F) = "none"
  <1> DEFINE branches == TIArchitectures
  <1>1. Len(branches) = 4
    BY TIArchitecturesIds
  <1> HIDE DEF branches
  <1>2. ASSUME NEW k \in 1 .. 4, Taken(branches[k], F), \A i \in 1 .. k - 1 : ~Taken(branches[i], F)
        PROVE  FirstTaken(branches, F) = branches[k].id
    <2>1. Len(branches) \in Nat /\ k \in 1 .. Len(branches)
      BY <1>1, SMT
    <2> QED
      BY <1>2, <2>1, FirstIs, Zenon
  <1>3. ASSUME \A i \in 1 .. 4 : ~Taken(branches[i], F)
        PROVE  FirstTaken(branches, F) = "none"
    BY <1>1, <1>3, NoneTaken
  <1> QED
    BY <1>2, <1>3, Zenon DEF branches

LEMMA TIArchitecturesFound ==
    ASSUME NEW F
    PROVE
      /\ OnlyArchitecture(F, {}) => FirstTaken(TIArchitectures, F) = "none"
      /\ OnlyArchitecture(F, {"__TI_ARM__"}) => FirstTaken(TIArchitectures, F) = "ARM"
      /\ OnlyArchitecture(F, {"__MSP430__"}) => FirstTaken(TIArchitectures, F) = "MSP430"
      /\ OnlyArchitecture(F, {"__TMS320C28XX__"}) => FirstTaken(TIArchitectures, F) = "TMS320C28x"
      /\ OnlyArchitecture(F, {"_TMS320C6X"}) => FirstTaken(TIArchitectures, F) = "TMS320C6x"
  <1>1.
      /\ OnlyArchitecture(F, {}) => \A i \in 1 .. 4 : ~Taken(TIArchitectures[i], F)
      /\ OnlyArchitecture(F, {"__TI_ARM__"}) => /\ Taken(TIArchitectures[1], F)
                                                /\ \A i \in 1 .. 0 : ~Taken(TIArchitectures[i], F)
      /\ OnlyArchitecture(F, {"__MSP430__"}) => /\ Taken(TIArchitectures[2], F)
                                                /\ \A i \in 1 .. 1 : ~Taken(TIArchitectures[i], F)
      /\ OnlyArchitecture(F, {"__TMS320C28XX__"}) => /\ Taken(TIArchitectures[3], F)
                                                     /\ \A i \in 1 .. 2 : ~Taken(TIArchitectures[i], F)
      /\ OnlyArchitecture(F, {"_TMS320C6X"}) => /\ Taken(TIArchitectures[4], F)
                                                /\ \A i \in 1 .. 3 : ~Taken(TIArchitectures[i], F)
    BY TIArchitecturesTaken, SMTT(60) DEF OnlyArchitecture, ArchitectureNames
  <1> QED
    BY <1>1, TIArchitecturesFirst, TIArchitecturesIds, SMT

(* Watcom's two architectures. *)
WatcomArchitectures == <<By("I86", "_M_I86"), By("X86", "_M_IX86")>>

(* What is taken for it. *)
LEMMA WatcomArchitecturesFound ==
    ASSUME NEW F
    PROVE
      /\ OnlyArchitecture(F, {}) => FirstTaken(WatcomArchitectures, F) = "none"
      /\ OnlyArchitecture(F, {"_M_I86"}) => FirstTaken(WatcomArchitectures, F) = "I86"
      /\ OnlyArchitecture(F, {"_M_IX86"}) => FirstTaken(WatcomArchitectures, F) = "X86"
  <1> DEFINE branches == WatcomArchitectures
  <1>1. /\ Len(branches) = 2 /\ branches[1] = By("I86", "_M_I86") /\ branches[2] = By("X86", "_M_IX86")
        /\ branches[1].id = "I86" /\ branches[2].id = "X86"
    BY SMT DEF WatcomArchitectures, By, Branch
  <1>2. Taken(branches[1], F) <=> "_M_I86" \in F
    BY <1>1, ByTaken
  <1>3. Taken(branches[2], F) <=> "_M_IX86" \in F
    BY <1>1, ByTaken
  <1> HIDE DEF branches
  <1>4. \A k \in 1 .. 2 :
          Taken(branches[k], F) /\ (\A i \in 1 .. k - 1 : ~Taken(branches[i], F)) =>
            FirstTaken(branches, F) = branches[k].id
    <2>1. ASSUME NEW k \in 1 .. 2, Taken(branches[k], F), \A i \in 1 .. k - 1 : ~Taken(branches[i], F)
          PROVE  FirstTaken(branches, F) = branches[k].id
      <3>1. Len(branches) \in Nat /\ k \in 1 .. Len(branches)
        BY <1>1, SMT
      <3> QED
        BY <2>1, <3>1, FirstIs, Zenon
    <2> QED
      BY <2>1
  <1>5. (\A i \in 1 .. 2 : ~Taken(branches[i], F)) => FirstTaken(branches, F) = "none"
    BY <1>1, NoneTaken
  <1>6. /\ OnlyArchitecture(F, {}) => FirstTaken(branches, F) = "none"
        /\ OnlyArchitecture(F, {"_M_I86"}) => FirstTaken(branches, F) = "I86"
        /\ OnlyArchitecture(F, {"_M_IX86"}) => FirstTaken(branches, F) = "X86"
    BY <1>1, <1>2, <1>3, <1>4, <1>5, SMT DEF OnlyArchitecture, ArchitectureNames
  <1> QED
    BY <1>6 DEF branches

(* Architectures are told by the target alone. *)
LEMMA ArchitectureOnly ==
    ASSUME NEW t, WellFormed(t), NEW l \in Languages, t.compiles[l] = l, NEW S,
           \A x \in ArchitectureNames : x \in DOMAIN t.target.macros <=> x \in S
    PROVE  OnlyArchitecture(DOMAIN Macros(t, l), S)
  BY TargetNamed DEF OnlyArchitecture, TargetNames

(* The same for a target built by Target. *)
LEMMA TargetArchitecture ==
    ASSUME NEW t, WellFormed(t), NEW l \in Languages, t.compiles[l] = l, NEW platform, NEW id, NEW S,
           t.target = Target(platform, id, S), NEW A,
           \A x \in ArchitectureNames : x \in S <=> x \in A
    PROVE  OnlyArchitecture(DOMAIN Macros(t, l), A) /\ t.target.architecture = id
  <1>1. DOMAIN t.target.macros = S /\ t.target.architecture = id
    BY DEF Target, Flags
  <1> QED
    BY <1>1, ArchitectureOnly

(* The questions that decide which cascade is asked. *)
LEMMA ArchitectureAsked ==
    ASSUME NEW t, WellFormed(t), NEW l \in Languages, t.compiles[l] = l
    PROVE  LET F == DOMAIN Macros(t, l) IN
           /\ "__WATCOMC__" \in F <=> t.vendor \in {"Watcom", "OpenWatcom"}
           /\ "__IAR_SYSTEMS_ICC__" \in F <=> t.vendor = "IAR"
           /\ "__IAR_SYSTEMS_ICC" \notin F
           /\ "__ghs__" \in F <=> t.vendor = "GHS"
           /\ "__TI_COMPILER_VERSION__" \in F <=> t.vendor = "TI"
           /\ "_MSC_VER" \in F <=> "MSVC" \in {t.pretends, t.vendor}
           /\ "_WIN32" \in F <=> "_WIN32" \in DOMAIN t.target.macros
  <1>1. {"__IAR_SYSTEMS_ICC__", "__IAR_SYSTEMS_ICC", "__ghs__", "__TI_COMPILER_VERSION__"} \subseteq Marks
    BY SMT DEF Marks
  <1>2. ASSUME NEW vendor \in Vendors
        PROVE  /\ "__IAR_SYSTEMS_ICC__" \in Signs(vendor, t.version, l) <=> vendor = "IAR"
               /\ "__IAR_SYSTEMS_ICC" \notin Signs(vendor, t.version, l)
               /\ "__ghs__" \in Signs(vendor, t.version, l) <=> vendor = "GHS"
               /\ "__TI_COMPILER_VERSION__" \in Signs(vendor, t.version, l) <=> vendor = "TI"
    <2>1. "__IAR_SYSTEMS_ICC__" \in Signs(vendor, t.version, l) <=> vendor = "IAR"
      BY SMT DEF Signs, Vendors, Spelling
    <2>2. "__IAR_SYSTEMS_ICC" \notin Signs(vendor, t.version, l)
      BY SMT DEF Signs, Vendors, Spelling
    <2>3. "__ghs__" \in Signs(vendor, t.version, l) <=> vendor = "GHS"
      BY SMT DEF Signs, Vendors, Spelling
    <2>4. "__TI_COMPILER_VERSION__" \in Signs(vendor, t.version, l) <=> vendor = "TI"
      BY SMT DEF Signs, Vendors, Spelling
    <2> QED
      BY <2>1, <2>2, <2>3, <2>4
  <1>3. "_WIN32" \in TargetNames
    BY SMT DEF TargetNames, PlatformNames
  <1> DEFINE F == DOMAIN Macros(t, l)
  <1>4. t.vendor \in Vendors
    BY DEF WellFormed
  <1>5. /\ "__IAR_SYSTEMS_ICC__" \in F <=> t.vendor = "IAR"
        /\ "__IAR_SYSTEMS_ICC" \notin F
        /\ "__ghs__" \in F <=> t.vendor = "GHS"
        /\ "__TI_COMPILER_VERSION__" \in F <=> t.vendor = "TI"
    BY <1>1, <1>2, <1>4, MarkNames
  <1>6. "_MSC_VER" \in F <=> "MSVC" \in {t.pretends, t.vendor}
    BY AskedNames
  <1>7. "_WIN32" \in F <=> "_WIN32" \in DOMAIN t.target.macros
    BY <1>3, TargetNamed
  <1> QED
    BY <1>5, <1>6, <1>7, WatcomNamed

(* The architectures of Windows. *)
LEMMA WindowsArchitecture ==
    ASSUME NEW t, WellFormed(t), NEW l \in Languages, t.compiles[l] = l,
           t.target \in WindowsTargets
    PROVE  MSVCArchitecture(Macros(t, l)) = t.target.architecture
  <1> DEFINE m == Macros(t, l)
             F == DOMAIN m
             Row(S, id) == OnlyArchitecture(F, S) /\ t.target.architecture = id
  <1>1. ASSUME NEW id, NEW macros, t.target = Windows(id, macros)
        PROVE  Row(macros, id)
    <2>1. "_WIN32" \notin ArchitectureNames
      BY SMT DEF ArchitectureNames
    <2> QED
      BY <1>1, <2>1, TargetArchitecture DEF Windows
  <1>2. ASSUME NEW id, NEW level, t.target = WindowsArm(id, level)
        PROVE  Row({"_M_ARM"}, id) /\ m["_M_ARM"] = level
    <2>1. /\ DOMAIN t.target.macros = {"_WIN32", "_M_ARM"} /\ t.target.macros["_M_ARM"] = level
          /\ t.target.architecture = id
      BY <1>2, SMT DEF WindowsArm
    <2>2. "_WIN32" \notin ArchitectureNames /\ "_M_ARM" \in TargetNames
      BY SMT DEF ArchitectureNames, TargetNames
    <2>3. OnlyArchitecture(F, {"_M_ARM"})
      BY <2>1, <2>2, ArchitectureOnly
    <2>4. m["_M_ARM"] = level
      BY <2>1, <2>2, TargetNamed
    <2> QED
      BY <2>1, <2>3, <2>4
  <1> DEFINE ArmRow(id, level) == Row({"_M_ARM"}, id) /\ m["_M_ARM"] = level
  <1>3. \/ Row({"_M_IA64"}, "IA64") \/ Row({"_M_X64", "_M_AMD64"}, "x64")
        \/ Row({"_M_ARM64EC", "_M_X64", "_M_AMD64"}, "ARM64EC") \/ Row({"_M_IX86"}, "X86")
        \/ Row({"_M_ARM64"}, "ARM64") \/ Row({"_M_MIPS"}, "MIPS") \/ Row({"_M_SH"}, "SHx")
        \/ Row({}, "none") \/ ArmRow("ARMV4I", 4) \/ ArmRow("ARMV5I", 5) \/ ArmRow("ARMV" \o ToString(7), 7)
    <2> HIDE DEF m, F, Row
    <2> QED
      BY <1>1, <1>2, Zenon DEF WindowsTargets
  <1> DEFINE id == FirstTaken(MSVCArchitectures, F)
  <1>4. \/ id = t.target.architecture /\ id # "ARMV"
        \/ id = "ARMV" /\ \/ t.target.architecture = "ARMV4I" /\ m["_M_ARM"] = 4
                          \/ t.target.architecture = "ARMV5I" /\ m["_M_ARM"] = 5
                          \/ t.target.architecture = "ARMV" \o ToString(7) /\ m["_M_ARM"] = 7
    <2> DEFINE arm7 == "ARMV" \o ToString(7)
    <2> SUFFICES
        \/ id = t.target.architecture /\ id # "ARMV"
        \/ id = "ARMV" /\ \/ t.target.architecture = "ARMV4I" /\ m["_M_ARM"] = 4
                          \/ t.target.architecture = "ARMV5I" /\ m["_M_ARM"] = 5
                          \/ t.target.architecture = arm7 /\ m["_M_ARM"] = 7
      OBVIOUS
    <2>1. \/ Row({"_M_IA64"}, "IA64") \/ Row({"_M_X64", "_M_AMD64"}, "x64")
          \/ Row({"_M_ARM64EC", "_M_X64", "_M_AMD64"}, "ARM64EC") \/ Row({"_M_IX86"}, "X86")
          \/ Row({"_M_ARM64"}, "ARM64") \/ Row({"_M_MIPS"}, "MIPS") \/ Row({"_M_SH"}, "SHx")
          \/ Row({}, "none") \/ ArmRow("ARMV4I", 4) \/ ArmRow("ARMV5I", 5) \/ ArmRow(arm7, 7)
      BY <1>3
    <2> HIDE DEF m, F, arm7
    <2> QED
      BY <2>1, MSVCArchitecturesFound
  <1>5. MSVCArchitecture(m) =
          IF id # "ARMV" THEN id
          ELSE CASE m["_M_ARM"] = 4 -> "ARMV4I" [] m["_M_ARM"] = 5 -> "ARMV5I"
                 [] OTHER -> "ARMV" \o ToString(m["_M_ARM"])
    BY DEF MSVCArchitecture
  <1> HIDE DEF m, id
  <1>6. CASE id = t.target.architecture /\ id # "ARMV"
    BY <1>5, <1>6 DEF m
  <1>7. CASE id = "ARMV" /\ t.target.architecture = "ARMV4I" /\ m["_M_ARM"] = 4
    BY <1>5, <1>7 DEF m
  <1>8. CASE id = "ARMV" /\ t.target.architecture = "ARMV5I" /\ m["_M_ARM"] = 5
    BY <1>5, <1>8 DEF m
  <1>9. CASE id = "ARMV" /\ t.target.architecture = "ARMV" \o ToString(7) /\ m["_M_ARM"] = 7
    BY <1>5, <1>9 DEF m
  <1> QED
    BY <1>4, <1>6, <1>7, <1>8, <1>9

(* The other platforms do not tell the architecture. *)
LEMMA OthersArchitectures ==
    ASSUME NEW target \in Platforms
    PROVE  /\ target.architecture = "none"
           /\ \A x \in ArchitectureNames : x \in DOMAIN target.macros <=> x \in {}
  BY TargetMacros, SMT DEF Platforms, Platform, Plain, Target, ArchitectureNames

(* The probes name the architecture of the target, where they ask. *)
LEMMA ArchitectureIdentified ==
    ASSUME NEW t, WellFormed(t), NEW l \in Languages, t.compiles[l] = l
    PROVE  ArchitectureId(Macros(t, l)) = t.target.architecture
  <1> DEFINE m == Macros(t, l)
             F == DOMAIN m
             Row(S, id) == OnlyArchitecture(F, S) /\ t.target.architecture = id
  <1>1. t.vendor \in Vendors /\ t.target \in TargetsOf(t) /\ t.pretends \in MayPretend(t)
    BY DEF WellFormed
  <1>2. /\ "__WATCOMC__" \in F <=> t.vendor \in {"Watcom", "OpenWatcom"}
        /\ "__IAR_SYSTEMS_ICC__" \in F <=> t.vendor = "IAR"
        /\ "__IAR_SYSTEMS_ICC" \notin F
        /\ "__ghs__" \in F <=> t.vendor = "GHS"
        /\ "__TI_COMPILER_VERSION__" \in F <=> t.vendor = "TI"
        /\ "_MSC_VER" \in F <=> "MSVC" \in {t.pretends, t.vendor}
        /\ "_WIN32" \in F <=> "_WIN32" \in DOMAIN t.target.macros
    BY ArchitectureAsked
  <1>3. ArchitectureId(m) =
          CASE {"_WIN32", "_MSC_VER"} \subseteq F -> MSVCArchitecture(m)
            [] "__WATCOMC__" \in F -> FirstTaken(WatcomArchitectures, F)
            [] "__IAR_SYSTEMS_ICC__" \in F \/ "__IAR_SYSTEMS_ICC" \in F -> FirstTaken(IARArchitectures, F)
            [] "__ghs__" \in F -> FirstTaken(GHSArchitectures, F)
            [] "__TI_COMPILER_VERSION__" \in F -> FirstTaken(TIArchitectures, F)
            [] OTHER -> "none"
    BY DEF ArchitectureId, Defined, WatcomArchitectures
  <1>4. ASSUME NEW platform, NEW id, NEW S, t.target = Target(platform, id, S)
        PROVE  /\ DOMAIN t.target.macros = S
               /\ \A A : (\A x \in ArchitectureNames : x \in S <=> x \in A) => Row(A, id)
    BY <1>4, TargetMacros, TargetArchitecture
  <1>5. t.target = Plain => Row({}, "none") /\ "_WIN32" \notin DOMAIN t.target.macros
    BY <1>4 DEF Plain
  <1>6. CASE t.vendor \in {"Watcom", "OpenWatcom"}
    <2>1. \A p \in WatcomPlatforms : p.macro \notin ArchitectureNames /\ p.macro # "_WIN32"
      BY SMT DEF WatcomPlatforms, ArchitectureNames
    <2>2. CASE t.target \in WatcomTargets
      <3>1. \E p \in WatcomPlatforms :
              \/ t.target = Target(p.id, "I86", {p.macro, "_M_I86"})
              \/ t.target = Target(p.id, "X86", {p.macro, "_M_IX86"})
              \/ t.target = Target(p.id, "none", {p.macro})
        BY <2>2, Zenon DEF WatcomTargets
      <3>2. PICK p \in WatcomPlatforms :
              \/ t.target = Target(p.id, "I86", {p.macro, "_M_I86"})
              \/ t.target = Target(p.id, "X86", {p.macro, "_M_IX86"})
              \/ t.target = Target(p.id, "none", {p.macro})
        BY <3>1
      <3>3. CASE t.target = Target(p.id, "I86", {p.macro, "_M_I86"})
        <4>0. \A x \in ArchitectureNames : x \in {p.macro, "_M_I86"} <=> x \in {"_M_I86"}
          BY <2>1
        <4>2. DOMAIN t.target.macros = {p.macro, "_M_I86"}
          BY <3>3, TargetMacros
        <4>3. Row({"_M_I86"}, "I86")
          <5> DEFINE S == {p.macro, "_M_I86"}
                     A == {"_M_I86"}
          <5>1. t.target = Target(p.id, "I86", S) /\ \A x \in ArchitectureNames : x \in S <=> x \in A
            BY <3>3, <4>0
          <5> HIDE DEF S, A
          <5>2. OnlyArchitecture(DOMAIN Macros(t, l), A) /\ t.target.architecture = "I86"
            BY <5>1, TargetArchitecture
          <5> QED
            BY <5>2 DEF A
        <4>1. DOMAIN t.target.macros = {p.macro, "_M_I86"} /\ Row({"_M_I86"}, "I86")
          BY <4>2, <4>3
        <4> HIDE DEF m
        <4> QED
          BY <1>2, <1>3, <1>6, <2>1, <4>1, WatcomArchitecturesFound DEF m
      <3>4. CASE t.target = Target(p.id, "X86", {p.macro, "_M_IX86"})
        <4>0. \A x \in ArchitectureNames : x \in {p.macro, "_M_IX86"} <=> x \in {"_M_IX86"}
          BY <2>1
        <4>2. DOMAIN t.target.macros = {p.macro, "_M_IX86"}
          BY <3>4, TargetMacros
        <4>3. Row({"_M_IX86"}, "X86")
          <5> DEFINE S == {p.macro, "_M_IX86"}
                     A == {"_M_IX86"}
          <5>1. t.target = Target(p.id, "X86", S) /\ \A x \in ArchitectureNames : x \in S <=> x \in A
            BY <3>4, <4>0
          <5> HIDE DEF S, A
          <5>2. OnlyArchitecture(DOMAIN Macros(t, l), A) /\ t.target.architecture = "X86"
            BY <5>1, TargetArchitecture
          <5> QED
            BY <5>2 DEF A
        <4>1. DOMAIN t.target.macros = {p.macro, "_M_IX86"} /\ Row({"_M_IX86"}, "X86")
          BY <4>2, <4>3
        <4> HIDE DEF m
        <4> QED
          BY <1>2, <1>3, <1>6, <2>1, <4>1, WatcomArchitecturesFound DEF m
      <3>5. CASE t.target = Target(p.id, "none", {p.macro})
        <4>0. \A x \in ArchitectureNames : x \in {p.macro} <=> x \in {}
          BY <2>1
        <4>2. DOMAIN t.target.macros = {p.macro}
          BY <3>5, TargetMacros
        <4>3. Row({}, "none")
          <5> DEFINE S == {p.macro}
                     A == {}
          <5>1. t.target = Target(p.id, "none", S) /\ \A x \in ArchitectureNames : x \in S <=> x \in A
            BY <3>5, <4>0
          <5> HIDE DEF S, A
          <5>2. OnlyArchitecture(DOMAIN Macros(t, l), A) /\ t.target.architecture = "none"
            BY <5>1, TargetArchitecture
          <5> QED
            BY <5>2 DEF A
        <4>1. DOMAIN t.target.macros = {p.macro} /\ Row({}, "none")
          BY <4>2, <4>3
        <4> HIDE DEF m
        <4> QED
          BY <1>2, <1>3, <1>6, <2>1, <4>1, WatcomArchitecturesFound DEF m
      <3> QED
        BY <3>2, <3>3, <3>4, <3>5
    <2>3. CASE t.target = Plain
      <3> HIDE DEF m
      <3> QED
        BY <1>2, <1>3, <1>5, <1>6, <2>3, WatcomArchitecturesFound DEF m
    <2> QED
      BY <1>1, <1>6, <2>2, <2>3, SMT DEF TargetsOf
  <1>7. CASE t.vendor = "IAR"
    <2>1. t.target = IARArm \/ t.target \in IARTargets
      BY <1>1, <1>7, SMT DEF TargetsOf
    <2>2. /\ "_WIN32" \notin DOMAIN t.target.macros
          /\ \/ Row({"__ICCARM__"}, "ARM") \/ Row({"__ICCAVR__"}, "AVR") \/ Row({"__ICCRX__"}, "RX")
             \/ Row({"__ICCRH850__"}, "RH850") \/ Row({"__ICCRL78__"}, "RL78")
             \/ Row({"__ICCRISCV__"}, "RISCV") \/ Row({"__ICC430__"}, "MSP430")
             \/ Row({"__ICCV850__"}, "V850") \/ Row({"__ICC8051__"}, "8051") \/ Row({"__ICCSTM8__"}, "STM8")
      <3> HIDE DEF Row
      <3> QED
        BY <1>4, <2>1, SMT DEF IARArm, IARTargets
    <2> HIDE DEF m
    <2>3. FirstTaken(IARArchitectures, F) = t.target.architecture
      BY <2>2, IARArchitecturesFound
    <2> QED
      BY <1>2, <1>3, <1>7, <2>2, <2>3 DEF m
  <1>8. CASE t.vendor = "GHS"
    <2>1. t.target = Plain \/ t.target \in GHSTargets
      BY <1>1, <1>8, SMT DEF TargetsOf
    <2>2. t.target \in GHSTargets =>
          /\ "_WIN32" \notin DOMAIN t.target.macros
          /\ \/ Row({"__PPC64__", "__ppc__"}, "PPC64") \/ Row({"__ppc__"}, "PPC") \/ Row({"__ARM__"}, "ARM")
             \/ Row({"__x86_64__"}, "x64") \/ Row({"__i386__"}, "X86")
      <3>1. "__INTEGRITY" \notin ArchitectureNames
        BY SMT DEF ArchitectureNames
      <3>2. \A x \in ArchitectureNames : x \in {"__i386__", "__INTEGRITY"} <=> x \in {"__i386__"}
        BY <3>1
      <3> HIDE DEF Row
      <3> QED
        BY <1>4, <3>2, SMT DEF GHSTargets
    <2> HIDE DEF m
    <2>3. FirstTaken(GHSArchitectures, F) = t.target.architecture
      BY <1>5, <2>1, <2>2, GHSArchitecturesFound
    <2> QED
      BY <1>2, <1>3, <1>5, <1>8, <2>1, <2>2, <2>3 DEF m
  <1>9. CASE t.vendor = "TI"
    <2>1. t.target = Plain \/ t.target \in TITargets
      BY <1>1, <1>9, SMT DEF TargetsOf
    <2>2. t.target \in TITargets =>
          /\ "_WIN32" \notin DOMAIN t.target.macros
          /\ \/ Row({"__TI_ARM__"}, "ARM") \/ Row({"__MSP430__"}, "MSP430")
             \/ Row({"__TMS320C28XX__"}, "TMS320C28x") \/ Row({"_TMS320C6X"}, "TMS320C6x")
      <3> HIDE DEF Row
      <3> QED
        BY <1>4, SMT DEF TITargets
    <2> HIDE DEF m
    <2>3. FirstTaken(TIArchitectures, F) = t.target.architecture
      BY <1>5, <2>1, <2>2, TIArchitecturesFound
    <2> QED
      BY <1>2, <1>3, <1>5, <1>9, <2>1, <2>2, <2>3 DEF m
  <1>10. CASE t.vendor \notin {"Watcom", "OpenWatcom", "IAR", "GHS", "TI"}
    <2>1. CASE t.target \in Platforms
      <3>1. Row({}, "none")
        BY <2>1, OthersArchitectures, ArchitectureOnly
      <3>2. MSVCArchitecture(m) = "none"
        <4> HIDE DEF m
        <4>1. FirstTaken(MSVCArchitectures, F) = "none"
          BY <3>1, MSVCArchitecturesFound
        <4> QED
          BY <4>1 DEF MSVCArchitecture
      <3> HIDE DEF m
      <3> QED
        BY <1>2, <1>3, <1>10, <3>1, <3>2 DEF m
    <2>2. CASE t.target \in WindowsTargets /\ "MSVC" \in {t.pretends, t.vendor}
      <3>1. MSVCArchitecture(m) = t.target.architecture
        BY <2>2, WindowsArchitecture
      <3>2. "_WIN32" \in DOMAIN t.target.macros
        BY <2>2, TargetMacros, SMT DEF WindowsTargets, Windows, WindowsArm
      <3>3. {"_WIN32", "_MSC_VER"} \subseteq F
        BY <1>2, <2>2, <3>2
      <3>4. ArchitectureId(m) = MSVCArchitecture(m)
        <4> HIDE DEF m
        <4> QED
          BY <1>2, <1>3, <1>10, <3>3
      <3> QED
        BY <3>1, <3>4
    <2>3. Platform("HP-UX", {"__hpux"}) \in Platforms
      BY DEF Platforms
    <2>4. t.target \in Platforms \/ (t.target \in WindowsTargets /\ "MSVC" \in {t.pretends, t.vendor})
      BY <1>1, <1>10, <2>3, SMT DEF TargetsOf
    <2> QED
      BY <2>1, <2>2, <2>4
  <1> QED
    BY <1>6, <1>7, <1>8, <1>9, <1>10

(* Platform and architecture are the target's, whatever compatible ones it
   also names (CMakeCCompilerId.c:397-667). *)
THEOREM IdentifiesTargetAlways == Spec => []IdentifiesTarget
  <1>1. ASSUME AsProbed, NEW language \in DOMAIN verdicts, Rightly(language)
        PROVE  /\ verdicts[language].platform = toolchain.target.platform
               /\ verdicts[language].architecture = toolchain.target.architecture
    <2> DEFINE m == Macros(toolchain, language)
    <2>1. /\ WellFormed(toolchain) /\ language \in Languages
          /\ toolchain.compiles[language] = language
          /\ verdicts[language] = Verdict(m, language)
      BY <1>1, ProbedRightly DEF Rightly
    <2>2. PlatformId(m) = toolchain.target.platform /\ ArchitectureId(m) = toolchain.target.architecture
      BY <2>1, PlatformIdentified, ArchitectureIdentified
    <2> HIDE DEF m
    <2> QED
      BY <2>1, <2>2 DEF Verdict
  <1>2. AsProbed => IdentifiesTarget
    BY <1>1 DEF IdentifiesTarget
  <1> QED
    BY <1>2, ProbedThroughout, PTL

-----------------------------------------------------------------------------
(* The NDK.                                                                *)

(* The first threshold that is reached. *)
LEMMA StandardIs ==
    ASSUME NEW number \in Int, NEW thresholds, NEW n \in Nat, Len(thresholds) = n, NEW k \in 1 .. n,
           \A i \in 1 .. n : thresholds[i].from \in Int,
           number >= thresholds[k].from, \A i \in 1 .. k - 1 : ~(number >= thresholds[i].from)
    PROVE  StandardOf(number, thresholds) = thresholds[k].standard
  <1> DEFINE I == {i \in 1 .. Len(thresholds) : number >= thresholds[i].from}
  <1>1. k \in I /\ I \subseteq Int /\ \A i \in I : k =< i
    BY SMT
  <1>2. \A x \in I : (\A y \in I : x =< y) => x = k
    BY <1>1, SMT
  <1> HIDE DEF I
  <1>3. Min(I) = k
    BY <1>1, <1>2 DEF Min
  <1> QED
    BY <1>3 DEF StandardOf, I

(* The macros of the language. *)
LEMMA LanguageRead ==
    ASSUME NEW t, WellFormed(t), NEW l \in Languages, t.compiles[l] = l
    PROVE  LET m == Macros(t, l) IN
           /\ "__STDC__" \in DOMAIN m
           /\ l = "C" => "__STDC_VERSION__" \in DOMAIN m /\ m["__STDC_VERSION__"] = 201710
           /\ l = "CXX" => m["__cplusplus"] = 201703
           /\ "__STRICT_ANSI__" \in DOMAIN m <=> l = "CXX" /\ t.strict
  <1> DEFINE m == Macros(t, l)
             own == OwnMacros(t.vendor, t.version, l)
             clang == Flags(IF t.vendor \in ClangBased THEN {"__clang__"} ELSE {})
             pretended == PretendedMacros(t)
             language == LanguageMacros(t, l)
             Words == {"__STDC__", "__STDC_VERSION__", "__cplusplus", "__STRICT_ANSI__"}
  <1>1. m = (((own ++ clang) ++ pretended) ++ language) ++ t.target.macros
    BY DEF Macros
  <1>2. t.vendor \in Vendors /\ (l = "C" \/ l = "CXX")
    BY DEF WellFormed, Languages
  <1>3. ASSUME NEW x \in Words
        PROVE  /\ x \notin DOMAIN own /\ x \notin DOMAIN clang /\ x \notin DOMAIN pretended
               /\ x \notin DOMAIN t.target.macros
               /\ x \in DOMAIN language <=> \/ l = "CXX" /\ x = "__cplusplus"
                                            \/ l = "C" /\ x = "__STDC_VERSION__"
                                            \/ x = "__STDC__"
                                            \/ l = "CXX" /\ t.strict /\ x = "__STRICT_ANSI__"
    <2>1. x \in Shared /\ x # "__clang__" /\ x \notin {"__GNUC__", "__GNUC_MINOR__",
              "__GNUC_PATCHLEVEL__", "_MSC_VER", "__GNUG__", "_MSVC_LANG"}
      BY SMT DEF Shared
    <2>2. x \notin DOMAIN clang
      BY <2>1 DEF Flags
    <2>3. x \notin DOMAIN t.target.macros
      BY <2>1, TargetApart
    <2>4. x \notin DOMAIN pretended
      BY <2>1, PretendedNames
    <2>5. x \in DOMAIN language <=> \/ l = "CXX" /\ x = "__cplusplus"
                                    \/ l = "C" /\ x = "__STDC_VERSION__"
                                    \/ x = "__STDC__"
                                    \/ l = "CXX" /\ t.strict /\ x = "__STRICT_ANSI__"
      <3>1. x \in Marks \cup Shared
        BY <2>1
      <3>2. x # "__GNUG__" /\ x # "_MSVC_LANG"
        BY <2>1
      <3> QED
        BY <3>1, <3>2, LanguageNames
    <2>6. x \notin DOMAIN own
      <3> DEFINE Not(name) == x \notin DOMAIN OwnMacros(name, t.version, l)
      <3>1. /\ Not("Comeau") /\ Not("Intel") /\ Not("IntelLLVM") /\ Not("PathScale")
        /\ Not("Embarcadero") /\ Not("Borland") /\ Not("Watcom") /\ Not("OpenWatcom")
        /\ Not("SunPro") /\ Not("HP") /\ Not("Compaq") /\ Not("zOS") /\ Not("XLClang")
        /\ Not("XL") /\ Not("VisualAge") /\ Not("NVHPC") /\ Not("PGI") /\ Not("Cray")
        /\ Not("TI") /\ Not("FujitsuClang") /\ Not("Fujitsu") /\ Not("GHS") /\ Not("TinyCC")
        /\ Not("Bruce") /\ Not("SCO") /\ Not("ARMCC") /\ Not("AppleClang") /\ Not("ARMClang")
        /\ Not("Clang") /\ Not("GNU") /\ Not("MSVC") /\ Not("ADSP") /\ Not("IAR") /\ Not("SDCC")
        BY SMT DEF OwnMacros, Languages, Spelling, IntelMacros, MSVCMacros, FujitsuMacros,
         IARMacros, ClangMacros, GNUMacros, Macro, Flags, ++
      <3> HIDE DEF Not
      <3>2. Not(t.vendor)
        BY <1>2, <3>1, SMT DEF Vendors
      <3> QED
        BY <3>2 DEF Not
    <2> HIDE DEF own, clang, pretended, language
    <2> QED
      BY <2>2, <2>3, <2>4, <2>5, <2>6, Zenon
  <1>4. /\ l = "C" => language["__STDC_VERSION__"] = 201710
        /\ l = "CXX" => language["__cplusplus"] = 201703
    BY <1>2, SMT DEF LanguageMacros, Flags, ++
  <1> HIDE DEF own, clang, pretended, language, m
  <1>5. ASSUME NEW x \in Words
        PROVE  /\ x \in DOMAIN m <=> x \in DOMAIN language
               /\ x \in DOMAIN language => m[x] = language[x]
    BY <1>1, <1>3, Merge
  <1>6. /\ "__STDC__" \in DOMAIN m
        /\ l = "C" => "__STDC_VERSION__" \in DOMAIN m /\ m["__STDC_VERSION__"] = 201710
        /\ l = "CXX" => m["__cplusplus"] = 201703
        /\ "__STRICT_ANSI__" \in DOMAIN m <=> l = "CXX" /\ t.strict
    <2>1. "__STDC__" \in DOMAIN m
      BY <1>3, <1>5
    <2>2. l = "C" => "__STDC_VERSION__" \in DOMAIN m /\ m["__STDC_VERSION__"] = language["__STDC_VERSION__"]
      BY <1>3, <1>5
    <2>3. l = "CXX" => m["__cplusplus"] = language["__cplusplus"]
      BY <1>3, <1>5
    <2>4. "__STRICT_ANSI__" \in DOMAIN m <=> l = "CXX" /\ t.strict
      BY <1>3, <1>5, SMT
    <2> QED
      BY <1>4, <2>1, <2>2, <2>3, <2>4, SMT
  <1> QED
    BY <1>6 DEF m

(* C++17 and C17, of a Clang that pretends to be GCC. *)
LEMMA NdkStandards ==
    ASSUME NEW t, WellFormed(t), NEW l \in Languages, t.compiles[l] = l,
           t.vendor = "Clang", t.pretends = "GNU"
    PROVE  (IF l = "C" THEN CStandard(Macros(t, l)) ELSE CXXStandard(Macros(t, l))) = "17"
  <1> DEFINE m == Macros(t, l)
             c == <<From(201711, "23"), From(201710, "17"), From(201000, "11"),
                    From(199901, "99"), From(0, "90")>>
             cxx == <<From(202003, "23"), From(201704, "20"), From(201703, "17"), From(201402, "14"),
                      From(201103, "11"), From(0, "98")>>
  <1>1. /\ "__STDC__" \in DOMAIN m
        /\ l = "C" => "__STDC_VERSION__" \in DOMAIN m /\ m["__STDC_VERSION__"] = 201710
        /\ l = "CXX" => m["__cplusplus"] = 201703
    BY LanguageRead
  <1>2. "_MSC_VER" \notin DOMAIN m
    BY AskedNames
  <1>3. "__INTEL_COMPILER" \notin DOMAIN m
    <2>1. "__INTEL_COMPILER" \in Marks /\ "__INTEL_COMPILER" \notin Signs("Clang", t.version, l)
      BY SMT DEF Marks, Signs
    <2> QED
      BY <2>1, MarkNames
  <1>4. StandardOf(201710, c) = "17"
    <2>0. Len(c) = 5 /\ \A i \in 1 .. 5 : c[i].from \in Int
      BY SMT DEF From
    <2>1. /\ 201710 >= c[2].from /\ ~(201710 >= c[1].from) /\ c[2].standard = "17"
      BY SMT DEF From
    <2>2. \A i \in 1 .. 2 - 1 : ~(201710 >= c[i].from)
      BY <2>1, SMT
    <2> DEFINE number == 201710
    <2>3. /\ number \in Int /\ 5 \in Nat /\ 2 \in 1 .. 5
          /\ number >= c[2].from /\ \A i \in 1 .. 2 - 1 : ~(number >= c[i].from)
      BY <2>1, <2>2, SMT
    <2> HIDE DEF c, number
    <2>4. StandardOf(number, c) = c[2].standard
      BY <2>0, <2>3, StandardIs
    <2> QED
      BY <2>1, <2>4 DEF number
  <1>5. StandardOf(201703, cxx) = "17"
    <2>0. Len(cxx) = 6 /\ \A i \in 1 .. 6 : cxx[i].from \in Int
      BY SMT DEF From
    <2>1. /\ 201703 >= cxx[3].from /\ ~(201703 >= cxx[1].from) /\ ~(201703 >= cxx[2].from)
          /\ cxx[3].standard = "17"
      BY SMT DEF From
    <2>2. \A i \in 1 .. 3 - 1 : ~(201703 >= cxx[i].from)
      BY <2>1, SMT
    <2> DEFINE number == 201703
    <2>3. /\ number \in Int /\ 6 \in Nat /\ 3 \in 1 .. 6
          /\ number >= cxx[3].from /\ \A i \in 1 .. 3 - 1 : ~(number >= cxx[i].from)
      BY <2>1, <2>2, SMT
    <2> HIDE DEF cxx, number
    <2>4. StandardOf(number, cxx) = cxx[3].standard
      BY <2>0, <2>3, StandardIs
    <2> QED
      BY <2>1, <2>4 DEF number
  <1>6. l = "C" => CStandard(m) = "17"
    <2> HIDE DEF m
    <2> QED
      BY <1>1, <1>4, SMT DEF CStandard, Defined
  <1>7. l = "CXX" => CXXStandard(m) = "17"
    <2> HIDE DEF m
    <2>1. CXXStandardNumber(m) = m["__cplusplus"]
      BY <1>2, <1>3 DEF CXXStandardNumber, Defined
    <2> QED
      BY <1>1, <1>5, <2>1, SMT DEF CXXStandard
  <1> QED
    BY <1>6, <1>7 DEF Languages

(* The NDK's toolchain is one of those the assumption speaks of. *)
LEMMA NdkWellFormed == WellFormed(NdkToolchain)
  <1> DEFINE android == Platform("Linux", {"__linux__", "__ANDROID__", "__aarch64__"})
             ndk == NdkToolchain
  <1>1. /\ ndk.vendor = "Clang" /\ ndk.version = <<19, 0, 1>> /\ ndk.pretends = "GNU" /\ ndk.strict
        /\ ndk.target = android /\ ndk.compiles = [C |-> "C", CXX |-> "CXX"]
    BY DEF NdkToolchain, Toolchain, Platform, Target
  <1>2. android \in Platforms
    BY DEF Platforms
  <1> HIDE DEF android, ndk
  <1>3. VersionFits("Clang", <<19, 0, 1>>)
    <2>1. Fits(<<19, 0, 1>>, <<Largest, Largest, Largest>>)
      BY SMT DEF Fits, Largest
    <2> QED
      BY <2>1, SMT DEF VersionFits
  <1>4. "GNU" \in MayPretend(ndk) /\ LanguagesOf("Clang") = {"C", "CXX"} /\ Platforms \subseteq TargetsOf(ndk)
    BY <1>1 DEF MayPretend, LanguagesOf, TargetsOf
  <1>5. WellFormed(ndk)
    BY <1>1, <1>2, <1>3, <1>4 DEF WellFormed, Vendors
  <1> QED
    BY <1>5 DEF ndk

(* What is kept in the tree of the NDK's compilers is what the probes say
   of them (CMakeCCompiler.cmake:3-18, CMakeCXXCompiler.cmake:3-19). *)
THEOREM NdkAsRecordedAlways == Spec => []NdkAsRecorded
  <1>1. ASSUME AsProbed, toolchain = NdkToolchain, NEW language \in DOMAIN verdicts
        PROVE  verdicts[language] = Recorded(IF language = "C" THEN "ON" ELSE "OFF")
    <2> DEFINE m == Macros(toolchain, language)
    <2>1. /\ toolchain.vendor = "Clang" /\ toolchain.version = <<19, 0, 1>> /\ toolchain.pretends = "GNU"
          /\ toolchain.target.platform = "Linux" /\ toolchain.target.architecture = "none"
          /\ toolchain.strict /\ toolchain.compiles = [C |-> "C", CXX |-> "CXX"]
      BY <1>1 DEF NdkToolchain, Toolchain
    <2>2. WellFormed(toolchain) /\ language \in Languages /\ language \in DOMAIN toolchain.compiles
      BY <1>1, ProbedRightly
    <2>3. toolchain.compiles[language] = language
      BY <2>1, <2>2 DEF Languages
    <2>4. verdicts[language] = Verdict(m, language)
      BY <1>1, <2>3, ProbedRightly DEF Rightly
    <2>5. CompilerId(m, language) = "Clang"
      BY <2>1, <2>2, <2>3, Identified
    <2>6. Version("Clang", m, language) = <<19, 0, 1>>
      BY <2>1, <2>2, <2>3, Versioned
    <2>7. Simulated("Clang", m) = [id |-> "none", version |-> <<>>]
      BY <2>1, <2>2, <2>3, SimulatedRead
    <2>8. PlatformId(m) = "Linux" /\ ArchitectureId(m) = "none"
      BY <2>1, <2>2, <2>3, PlatformIdentified, ArchitectureIdentified
    <2>9. (IF language = "C" THEN CStandard(m) ELSE CXXStandard(m)) = "17"
      BY <2>1, <2>2, <2>3, NdkStandards
    <2>10. Extensions(m) = IF language = "C" THEN "ON" ELSE "OFF"
      <3>1. "__STRICT_ANSI__" \in DOMAIN m <=> language = "CXX"
        BY <2>1, <2>2, <2>3, LanguageRead
      <3>2. "_MSC_VER" \notin DOMAIN m /\ "__GNUC__" \in DOMAIN m
        BY <2>1, <2>2, <2>3, AskedNames
      <3>3. language = "C" <=> language # "CXX"
        BY <2>2 DEF Languages
      <3> HIDE DEF m
      <3> QED
        BY <3>1, <3>2, <3>3 DEF Extensions
    <2> HIDE DEF m
    <2> QED
      BY <2>4, <2>5, <2>6, <2>7, <2>8, <2>9, <2>10 DEF Verdict, Recorded
  <1>2. AsProbed => NdkAsRecorded
    BY <1>1 DEF NdkAsRecorded
  <1> QED
    BY <1>2, ProbedThroughout, PTL
=============================================================================
