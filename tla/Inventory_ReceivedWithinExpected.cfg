SPECIFICATION Spec
CONSTANTS
  w1 = w1
  w2 = w2
  NoItem = NoItem
  NoSlot = NoSlot
  NoLine = NoLine
  Items = {"screws", "motor1"}
  Serials = {"motor1"}
  MaterialOf <- MCMaterialOf
  Slots = {"dock", "rack"}
  LocationOf <- MCLocationOf
  Exclusive = {"rack"}
  Lines = {"screws_line", "motor_line"}
  LineItem <- MCLineItem
  LineSlot <- MCLineSlot
  Expected <- MCExpected
  Quantities = {1}
  MaxBalance = 1
  Workers <- MCWorkers
INVARIANT ReceivedWithinExpected
