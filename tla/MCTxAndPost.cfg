SPECIFICATION FairSpec
CONSTANTS
  Inputs = {in1, in2}
  Blank = Blank
  MaxSubmissions = 2
  MaxForks = 1
INVARIANTS
  TypeOK
  PostsFollowInclusion
PROPERTIES
  SubmissionsArePosted
CHECK_DEADLOCK FALSE
