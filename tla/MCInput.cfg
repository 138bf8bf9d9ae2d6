\* Two keys at once, a mouse with a wheel, one byte damaged.
SPECIFICATION Spec
CONSTANTS
  Keys <- MCKeys
  MaxHeld = 2
  PacketSize = 4
  MaxDamage = 1
INVARIANTS TypeOK ModifiersFollowKeys
PROPERTIES EachPressTyped ClickPerPress Resyncs
CHECK_DEADLOCK FALSE
