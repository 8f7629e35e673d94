----------------------------- MODULE MCHostBridge -----------------------------
(***************************************************************************)
(* Addresses of four bits.  The memory has 4 bytes and can grow to 7;      *)
(* requests are empty, of one or two bytes, or of a length whose i32 is    *)
(* negative; responses of one or two bytes.                                *)
(***************************************************************************)
EXTENDS HostBridge

MCMemorySizes == {4, 7}
MCRequestLens == {0, 1, 2, 9}
MCResponseLens == {1, 2}
=============================================================================
