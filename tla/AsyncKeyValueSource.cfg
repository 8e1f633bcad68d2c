SPECIFICATION FairSpec
CONSTANTS
  Clients = {c1}
  Keys = {k1, k2}
  Uses <- AllUses
  MaxCalls = 5
INVARIANTS NoStranded FetchOnce
PROPERTIES CallbackInvoked RequestCollected StopReturns
