----------------------------- MODULE MCVobMtype -----------------------------
(* VobMtype at the feature levels 1..8.  VOB_FEATURE_LEVEL_6 is 6 and the  *)
(* UCM FC mtypes come with feature level 7 (the header's comment: "FL7    *)
(* introduces new mtypes for formerly-CG_ACTIVITY objects").              *)
EXTENDS VobMtype

MCFeatureLevels == 1 .. 8
============================================================================
