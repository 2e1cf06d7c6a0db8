SPECIFICATION Spec
CONSTANTS
  Messages = {"m1", "m2", "r1"}
  Reports = {"r1"}
  Storages = {"SM", "ME"}
  Home = "SM"
  Places = {1, 2}
  MaxFails = 1
INVARIANTS DeletedWasDelivered DeliveredRight
PROPERTY Delivered
CHECK_DEADLOCK FALSE
