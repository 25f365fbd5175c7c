CONSTANTS
  Query <- MCQuery
  RawText <- MCRawText
  Weight <- MCWeight
  Bruteforce = {"now"}
  Sensitive = {"t"}
  RawLength = 5
  RawPieces = 4
SPECIFICATION Spec
INVARIANTS CanonicalPattern LiteralsAgree RiskByReference
\* The analysis of a query ends.
CHECK_DEADLOCK FALSE
