CONSTANTS
  c1 = c1
  c2 = c2
  s1 = s1
  s2 = s2
  a1 = a1
  Client = {c1, c2}
  Subject = {s1, s2}
  Address = {a1}
  AddressOf <- MCAddressOf
  SubjectOf <- MCSubjectOf
  Named = {}
  NoOne = NoOne
  ClientCapacity = 1
  SubjectCapacity = 1
  PruneIdle = 2
  MaxAttempts = 2
  MaxTimeouts = 1
  MaxLag = 1
SPECIFICATION Spec
INVARIANT
  OncePerIntent
  SuccessIsTrue
  WithinLimit
  OnlyEntitled
SYMMETRY ClientSymmetry
