CONSTANTS
  VOB_FEATURE_LEVEL_6 = 6
  VOB_FEATURE_LEVEL_UCM_FC_OBJS = 7
  FeatureLevels <- MCFeatureLevels
SPECIFICATION Spec
INVARIANTS CaseLabelsMatch CaseLabelsDistinct MasteringNested VobObjCapabilities FeatureLevelsAgree
