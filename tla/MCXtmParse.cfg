\* All documents of up to 6 elements, and associations of up to 13.
SPECIFICATION Spec
CONSTANTS
  Name = {"topicMap", "topic", "subjectIdentity", "instanceOf", "topicRef",
          "subjectIndicatorRef", "resourceRef", "baseName", "baseNameString",
          "occurrence", "resourceData", "association", "member", "roleSpec",
          "property", "variant", "mergeMap"}
  Id = {a, b}
  Ref = {a, b}
  NoId = NoId
  None = None
  MaxElements = 6
  MaxAssociation = 13
  MaxMembers = 6
SYMMETRY IdsAlike
INVARIANTS
  TypeOK
  StackFollowsDocument
  UrisUnique
  TextAsWritten
  AssertionsAsWritten
CHECK_DEADLOCK FALSE
