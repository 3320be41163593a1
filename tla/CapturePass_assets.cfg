SPECIFICATION Spec
CONSTANT N = 2
PROPERTY AssetsAreInDoubt
CHECK_DEADLOCK FALSE
