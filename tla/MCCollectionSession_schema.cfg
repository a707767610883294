\* Two timeouts before one success.
CONSTANTS
  p = p
  q = q
  Nobody = Nobody
  None = None
  Browser <- One
  MaxRequests = 3
  MaxBegins = 0
  MaxReboots = 0
  MaxRecords = 6
SPECIFICATION Spec
INVARIANT NeverEmitsRejected
