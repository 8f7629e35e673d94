----------------------------- MODULE VersionDigits -----------------------------
(***************************************************************************)
(* The macros DEC and HEX of CMake's compiler probes, which write a number *)
(* as eight digits with divisions and shifts alone, because a probe for a  *)
(* foreign target is compiled but never run.                               *)
(***************************************************************************)
EXTENDS Integers

Tens == <<10000000, 1000000, 100000, 10000, 1000, 100, 10, 1>>
Sixteens == <<268435456, 16777216, 1048576, 65536, 4096, 256, 16, 1>>

DecOfSeven(n) == [i \in 1 .. 8 |-> IF i = 1 THEN 0 ELSE (n \div Tens[i]) % 10]

(* n, at most eight digits of it: what is above is lost. *)
Dec(n) == [i \in 1 .. 8 |-> (n \div Tens[i]) % 10]

(* '0' + 10 is not a digit: HEX is meant for digits in BCD. *)
Hex(n) == [i \in 1 .. 8 |-> (n \div Sixteens[i]) % 16]

(* CMake reads the digits back, leading zeros and all. *)
Number(d) ==
    d[8] + 10 * (d[7] + 10 * (d[6] + 10 * (d[5] + 10 * (d[4] + 10 * (d[3] + 10 * (d[2]
         + 10 * d[1]))))))
=============================================================================
