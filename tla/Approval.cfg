SPECIFICATION FairSpec
CONSTANTS
  Proposal = {p1, p2}
  Own = {default}
  Reviewer = {tui, cli}
  Ttl = 1
  None = None
INVARIANTS
  OneDecision
  DecisionsHold
PROPERTIES
  FollowsLifecycle
  ApprovedExpire
