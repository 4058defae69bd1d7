SPECIFICATION FairSpec
CONSTANT N = 3
INVARIANTS
  TypeOK
  ObjectPrefix
  CompleteObject
  NoSendAfterClose
PROPERTY
  GoroutinesEnd
