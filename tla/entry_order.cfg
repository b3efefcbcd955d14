SPECIFICATION FairSpec
CONSTANTS
  Plans <- AllPlans
  Modes = {"market", "limit", "adaptive"}
  Smallest = 2
  Fills = {"all", "some"}
  MaxPolls = 1
  Faults = {"reject", "resend", "lost", "noid", "poll", "cancel", "cancelled", "status"}
  MaxFaults = 2
INVARIANTS BudgetKept RowBacked RowIsBought
PROPERTY EntryEnds
