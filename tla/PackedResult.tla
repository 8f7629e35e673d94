----------------------------- MODULE PackedResult -----------------------------
(***************************************************************************)
(* How addresses and lengths cross the ABI, which knows signed integers    *)
(* only: wasm_alloc returns a pointer as an i32, evaluate_feature_flag a   *)
(* pointer and a length packed into one i64 (pack_pointer_and_length in    *)
(* shared-core/src/lib.rs), and wm_engine_evaluate reads both back into    *)
(* unsigned integers (wasm_host_runtime.c).  HostBridge passes the pair;   *)
(* here are the bits.                                                      *)
(***************************************************************************)
EXTENDS Integers

CONSTANT Width    \* bits of a guest address: 32

Word == 2 ^ Width

ASSUME WidthAssumption == Width \in Nat \ {0} /\ Word \in Nat /\ Word > 1 /\ Word % 2 = 0

VARIABLES
    at,            \* where the value is: "guest", "abi" or "host"
    pointer, len,  \* the block the guest returns
    alloc, packed, \* what the two exports return of it
    requestPtr, responsePtr, responseLen   \* what the host makes of that

vars == <<at, pointer, len, alloc, packed, requestPtr, responsePtr, responseLen>>

Addresses == 0 .. Word - 1

(* The two's complement reading of an unsigned integer below size. *)
AsSigned(n, size) == IF 2 * n < size THEN n ELSE n - size
AsUnsigned(n, size) == n % size

(* A shift by Width leaves the low bits zero: the | with len adds it. *)
PackWithoutShift(p, l) == AsSigned(p + l, Word * Word)
Pack(p, l) == AsSigned(p * Word + l, Word * Word)

High(raw) == (raw \div Word) % Word
Low(raw) == raw % Word

Init ==
    /\ at = "guest"
    /\ pointer \in Addresses /\ len \in Addresses
    /\ alloc = 0 /\ packed = 0
    /\ requestPtr = 0 /\ responsePtr = 0 /\ responseLen = 0

(* pointer as i32 in wasm_alloc, leak_response. *)
GuestReturns ==
    /\ at = "guest" /\ at' = "abi"
    /\ alloc' = AsSigned(pointer, Word)
    /\ packed' = Pack(pointer, len)
    /\ UNCHANGED <<pointer, len, requestPtr, responsePtr, responseLen>>

(* m3_GetResults into a uint32_t and a uint64_t. *)
HostReads ==
    /\ at = "abi" /\ at' = "host"
    /\ requestPtr' = AsUnsigned(alloc, Word)
    /\ LET raw == AsUnsigned(packed, Word * Word) IN
         responsePtr' = High(raw) /\ responseLen' = Low(raw)
    /\ UNCHANGED <<pointer, len, alloc, packed>>

Next == GuestReturns \/ HostReads

Spec == Init /\ [][Next]_vars

-----------------------------------------------------------------------------
(* The host gets the very block the guest returned, also one whose pointer  *)
(* or length has the sign bit set and one at the last address.              *)
RoundTrip ==
    at = "host" => requestPtr = pointer /\ responsePtr = pointer /\ responseLen = len
=============================================================================
