\* Texts of up to 4 rows in a window of 2 lines.
SPECIFICATION Spec
CONSTANTS
  MaxRows = 4
  VisRows = 2
INVARIANTS TypeOK StaleIsOwed SelectionIsOwed
