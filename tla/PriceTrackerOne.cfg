\* One poller, two watched products: no decision is ever stale.
CONSTANTS
  milk = milk
  eggs = eggs
  Poller = {p1}
  WatchedIds <- TwoProducts
  Price <- ThreePrices
  None = None
  Absent = Absent
  MaxHistory <- ThreeAndOne
  MaxCrashes = 1
SPECIFICATION Spec
INVARIANTS
  AlertsFall
  StoredWasAnnounced
PROPERTY
  ImplementsLedger
