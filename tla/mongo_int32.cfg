SPECIFICATION Spec
CONSTANTS
  insert = insert  query = query  resident = resident
  Fields <- MCFields
  SectionOf <- MCSectionOf
  Labelled = {insert, query}
  InMB = {resident}
  MB = 3
  Values <- MCValues
  Missing = Missing
  Absent = Absent
  MaxAnswers = 2
INVARIANT NumbersArePublished
CHECK_DEADLOCK FALSE
