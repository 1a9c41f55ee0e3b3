SPECIFICATION Spec
CONSTANTS
  MaxDepth = 3
  MaxWork = 5
INVARIANTS OnlyDurableWorkHasEffects EffectsRunOnce
CHECK_DEADLOCK FALSE
