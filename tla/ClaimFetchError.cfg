SPECIFICATION Spec
CONSTANTS
  Image = {"i1", "i2"}
  ProofImage = "i1"
  Payload <- MCPayload
  Terms <- MCTerms
  Expiry = {1}
  MaxProofAge = 1
  MaxTime = 2
INVARIANT ClaimReportedMissingWasMissing
CHECK_DEADLOCK FALSE
