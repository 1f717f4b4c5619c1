SPECIFICATION Spec
CONSTANTS
  Image = {v1, v2}
  Absent = Absent
  Torn = Torn
  Nothing = Nothing


PROPERTY BackupRetained
