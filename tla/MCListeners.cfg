\* Up to three listeners, any of them a controller or the inter-broker one.
CONSTANTS
  Names <- MCNames
  Orders <- MCOrders
  Protocols = {"PLAINTEXT", "SASL_SSL"}
  AdvHosts = {"host", Unset}
  Unset = Unset
SPECIFICATION Spec
INVARIANTS
  ListenersInv
  ClientListenersServed
  StrippedConsistently
  ReparseStable
CHECK_DEADLOCK FALSE
