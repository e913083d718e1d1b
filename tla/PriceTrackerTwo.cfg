\* The two processes of app.run(debug=True), one watched product.
CONSTANTS
  milk = milk
  eggs = eggs
  Poller = {p1, p2}
  WatchedIds <- OneProduct
  Price <- TwoPrices
  None = None
  Absent = Absent
  MaxHistory <- FourRows
  MaxCrashes = 1
SPECIFICATION FairSpec
INVARIANTS
  TypeOK
  CatalogueMatchesHistory
  DiscoveredOnce
  AnnouncedWasRecorded
PROPERTIES
  ImplementsSharedLedger
  FetchedIsSettled
