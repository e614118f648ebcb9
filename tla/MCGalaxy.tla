------------------------------ MODULE MCGalaxy ------------------------------
(* XEN, one planet near the fence or on it, two of the Empire's heartland.  *)
EXTENDS Galaxy

Xen   == {1}
Fates == <<{0}, {47, 50}, {10}, {20}>>
=============================================================================
