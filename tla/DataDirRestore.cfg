SPECIFICATION Spec
CONSTANTS
  Pages = {p}
  Checked = {m}
  Lists = {l}
  Nothing = Nothing
  Retention = 1
  MaxCommits = 1
  MaxStamp = 2
PROPERTY RestoreBringsBack
