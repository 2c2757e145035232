\* A Legacy version, or none, and two versions after it.
CONSTANTS
  Last = 3
SPECIFICATION Spec
INVARIANTS TypeOK OnStaysOn RunsInstalledCode
PROPERTIES OffStaysOff LiftsToInstalledDefault
