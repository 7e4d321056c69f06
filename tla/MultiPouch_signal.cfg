SPECIFICATION Spec
CONSTANT Req = {r1, r2, r3}
CHECK_DEADLOCK FALSE
INVARIANT NoUseAfterFree
