CONSTANTS
  MaxTargets <- MCMaxTargets
SPECIFICATION Spec
\* A caller that abandons ret leaves the goroutine blocked in its send for
\* good: that stop is real.
CHECK_DEADLOCK FALSE
INVARIANT TypeOK
INVARIANT UnaryDeliversEveryTarget
PROPERTY UnaryNoLeakWhenDrained
