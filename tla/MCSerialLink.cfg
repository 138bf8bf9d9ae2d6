\* Three packets, FIFOs of two bytes, one byte lost or garbled.
SPECIFICATION Spec
CONSTANTS
  Base = 7
  Requests <- MCRequests
  HwSize = 2
  Trigger = 2
  SwSize = 2
  MaxSent = 3
  MaxDamage = 1
INVARIANTS TypeOK Faithful DamageIsLocal
PROPERTIES Drains
