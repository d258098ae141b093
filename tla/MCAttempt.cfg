SPECIFICATION AttemptFairSpec
CONSTANTS
  MaxFilterDepth = 2
  Json <- JsonSet
  Nesting <- Heights
  Nothing <- Undefined
  Verdict <- Evaluate
  Rules <- RuleSet
  Payloads <- PayloadSet
  Codes = {"none", "value", "throws", "loops"}
  Secrets = {"none", "opens", "garbled"}
  EventHeaders = {"type", "authorization", "length", "signature"}
  Statics <- StaticSets
  Urls <- UrlSet
  Addresses <- AddressSet
  Statuses = {200, 302, 500}
  MaxAttempts = 2
INVARIANT ValidRuleDecides
INVARIANT RequestIsOurs
INVARIANT PeerIsApproved
INVARIANT NothingLeftOpen
INVARIANT AcknowledgedIsDelivered
PROPERTY AttemptSettles
