SPECIFICATION Spec
INVARIANTS LinksAgree SurvivesOneLoss
CHECK_DEADLOCK FALSE
