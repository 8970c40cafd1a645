CONSTANTS
  Id = {"default", "work"}
  First = "default"
  Text = {"standard", "smooth"}
  Blank = ""
  DefaultOf <- MCDefaultOf
  Missing = Missing
  Garbled = Garbled
  MaxNesting = 3
SPECIFICATION PagesSpec
INVARIANTS
  PageIsCurrent
PROPERTY
  ProfilesKept
