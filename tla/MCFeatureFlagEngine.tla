------------------------- MODULE MCFeatureFlagEngine -------------------------
(***************************************************************************)
(* One object of each platform, two addresses: creation also fails for     *)
(* lack of room, and an address is handed out again while its last owner   *)
(* still holds it in a stale handle.                                       *)
(***************************************************************************)
EXTENDS FeatureFlagEngine

CONSTANTS android, package, app, a1, a2

MCObjects == {android, package, app}
MCAndroid == {android}
MCPackage == {package}
MCAddresses == {a1, a2}
=============================================================================
