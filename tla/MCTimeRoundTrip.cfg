\* Dates, timestamps and datetimes stored in a text column and read back;
\* the fields of struct tm that strptime does not write hold 0 or 7.
CONSTANTS
  Times <- MCTimes
  Columns = {"text"}
  Garbage = {0, 7}

SPECIFICATION Spec

INVARIANT RoundTrip
