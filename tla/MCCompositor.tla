----------------------------- MODULE MCCompositor -----------------------------
(* TLC instance of Compositor: small channels, so that many sums meet every  *)
(* remainder.                                                                *)
EXTENDS Compositor

BothPrograms == {"compositor", "Compose"}
AllFormats == {"png", "exr"}
OneTwo == {1, 2}
Shades == {0, 3}
=============================================================================
