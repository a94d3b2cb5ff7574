CONSTANTS
  a1 = a1
  a2 = a2
  ann = ann
  r1 = r1
  r2 = r2
  zig = zig
  madison = madison
  hollard = hollard
  key1 = key1
  key2 = key2
  code = code
  None = None
  Attempts = {a1, a2}
  Customers = {ann}
  Requests = {r1, r2}
  Insurers = {zig, madison, hollard}
  Keys = {key1, key2}
  Codes = {code}
  Asks <- MCAsks
  Quotes <- MCQuotes
  Owner <- MCOwner
  CodeOf <- MCCodeOf
  Issuer <- MCIssuer
  Holder <- MCHolder
  Premium <- MCPremium
  Fee <- MCFee
  MaxCharge = 3
  Validity = 1
  MaxTime = 2
  Extendable <- MCExtendable
SPECIFICATION MCSpec
INVARIANTS TypeOK SaleSafe RetriesAgree BoughtWhileOnOffer
PROPERTIES ImplementsSale EveryCallAnswered
CHECK_DEADLOCK FALSE
