SPECIFICATION DrvSpec
CONSTANT Modules <- ThreeChildren
INVARIANT CleanAfterUnload
CHECK_DEADLOCK FALSE
