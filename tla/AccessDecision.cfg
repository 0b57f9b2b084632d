SPECIFICATION Spec
CONSTANTS
  None = None
  Groups <- MCGroups
  DayLen = 3
  WeekLen = 2
  MaxTime = 5
  Areas <- MCAreas
  Tables <- MCTables
  Holidays <- MCHolidays
INVARIANTS NeverOutside RefusedOnlyOutside
