-------------------------- MODULE PackedResult_proofs --------------------------
(***************************************************************************)
(* Pointers and lengths survive the ABI for every width of an address.     *)
(***************************************************************************)
EXTENDS PackedResult, TLAPS

(* Reading a word as signed and back gives the word. *)
LEMMA SignRoundTrip ==
    ASSUME NEW size \in Nat, size > 0, NEW n \in 0 .. size - 1
    PROVE  AsSigned(n, size) \in Int /\ AsUnsigned(AsSigned(n, size), size) = n
<1>1. n % size = n
  OBVIOUS
<1>2. (n - size) % size = n
  OBVIOUS
<1> QED
  BY <1>1, <1>2 DEF AsSigned, AsUnsigned

(* Dividing by the word gives the pointer back, the remainder the length. *)
LEMMA DivMod ==
    ASSUME NEW W \in Nat, W > 1, NEW p \in 0 .. W - 1, NEW l \in 0 .. W - 1
    PROVE  /\ p * W + l \in 0 .. W * W - 1
           /\ (p * W + l) \div W = p
           /\ (p * W + l) % W = l
<1>1. p * W \in Nat /\ W * W \in Nat /\ p * W <= (W - 1) * W /\ (W - 1) * W = W * W - W
  OBVIOUS
<1>2. p * W + l \in 0 .. W * W - 1
  BY <1>1
<1>3. (p * W + l) \div W = p
  BY <1>1
<1>4. (p * W + l) % W = l
  BY <1>1
<1> QED
  BY <1>2, <1>3, <1>4

-----------------------------------------------------------------------------
PackInv ==
    /\ pointer \in Addresses /\ len \in Addresses
    /\ at = "abi" => alloc = AsSigned(pointer, Word) /\ packed = Pack(pointer, len)
    /\ RoundTrip

LEMMA PackInductive == PackInv /\ [Next]_vars => PackInv'
<1> SUFFICES ASSUME PackInv, [Next]_vars PROVE PackInv'
  OBVIOUS
<1>0. Word \in Nat /\ Word > 1 /\ Word * Word \in Nat /\ Word * Word > 0
  BY WidthAssumption
<1>1. CASE GuestReturns
  BY <1>1 DEF PackInv, GuestReturns, RoundTrip
<1>2. CASE HostReads
  <2>1. pointer \in 0 .. Word - 1 /\ len \in 0 .. Word - 1
    BY DEF PackInv, Addresses
  <2>2. alloc = AsSigned(pointer, Word) /\ packed = Pack(pointer, len)
    BY <1>2 DEF PackInv, HostReads
  <2>3. requestPtr' = pointer
    BY <1>0, <1>2, <2>1, <2>2, SignRoundTrip DEF HostReads
  <2> DEFINE raw == pointer * Word + len
  <2>4. raw \in 0 .. Word * Word - 1 /\ raw \div Word = pointer /\ raw % Word = len
    BY <1>0, <2>1, DivMod
  <2>5. AsUnsigned(packed, Word * Word) = raw
    BY <1>0, <2>2, <2>4, SignRoundTrip DEF Pack
  <2>6. responsePtr' = pointer % Word /\ responseLen' = len
    BY <1>2, <2>4, <2>5 DEF HostReads, High, Low
  <2>7. pointer % Word = pointer
    BY <1>0, <2>1
  <2> QED
    BY <1>2, <2>1, <2>3, <2>6, <2>7 DEF PackInv, HostReads, RoundTrip, Addresses
<1>3. CASE UNCHANGED vars
  BY <1>3 DEF PackInv, RoundTrip, vars
<1> QED
  BY <1>1, <1>2, <1>3 DEF Next

(* For every width of an address, the host reads back the pointer and the   *)
(* length the guest returned.                                               *)
THEOREM PackingFaithful == Spec => []RoundTrip
<1>1. Init => PackInv
  BY DEF Init, PackInv, RoundTrip
<1>2. PackInv => RoundTrip
  BY DEF PackInv
<1> QED
  BY <1>1, <1>2, PackInductive, PTL DEF Spec
=============================================================================
