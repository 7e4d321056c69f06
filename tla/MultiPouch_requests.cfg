SPECIFICATION Spec
CONSTANT Req = {r1, r2, r3}
CHECK_DEADLOCK FALSE
INVARIANTS ListIsPending PrivateIsLive NoDoubleFree TimerKept
PROPERTIES RequestsAreAnswered IdleTimerStops
