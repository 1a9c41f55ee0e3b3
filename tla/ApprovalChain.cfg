SPECIFICATION Spec
CONSTANTS
  author = author
  head = head
  cfo = cfo
  big = big
  small = small
  s1 = s1
  s2 = s2
  s3 = s3
  Documents = {big, small}
  Requests = {q1, q2}
  Submissions = {s1, s2, s3}
  Decisions = {c1, c2, c3}
  DocumentOf <- MCDocumentOf
  Users = {author, head, cfo}
  Author = author
  Steps <- MCSteps
  MaySign <- MCMaySign
  Chain <- MCChain
  NoCall = NoCall
  NoRequest = NoRequest
  NoDocument = NoDocument
INVARIANTS TypeOK PostedOnlyOnAFullChain NumbersHaveNoGap PendingDocumentHasAPendingRequest
PROPERTIES PostedDocumentIsFinal
SYMMETRY Symmetry
CHECK_DEADLOCK FALSE
