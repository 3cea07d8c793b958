SPECIFICATION Spec
CONSTANTS
  N = 2
  AtStart = {1, 2}
  Asked = {1}
  Devices = {0}
  Ask <- OneDevice
  CanPlay = {1, 2}
  MaxStall = 2
  MaxFrame = 3
  MaxLag = 0
  MaxEvents = 2
INVARIANTS DevicesExclusive OnlyKnownNaks ViewsAgree RequestsAnswered DepartureAfterInput StallCanEnd
CHECK_DEADLOCK FALSE
