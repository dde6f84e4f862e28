------------------------ MODULE MCStablePromotion ---------------------------
(* A small instance of StablePromotion: two libraries; "new" and "old" are   *)
(* complete builds, "legacy" has no embedded manifest, "bad" does not load.  *)
EXTENDS StablePromotion

CONSTANTS new, legacy, bad

SmallBuilds == {new, legacy, bad}
SoundBuilds == {new, legacy}
EmbeddedBuilds == {new}
=============================================================================
