\* Two workers with identities of their own; grants last two ticks.
CONSTANTS
  a = a
  b = b
  c1 = c1
  c2 = c2
  Owners = {a, b}
  NoOwner = NoOwner
  Callers <- Distinct
  OwnerOf <- DistinctOwner
  Ttl = 2
  MaxTime = 5
  MaxVersion = 4
SPECIFICATION Spec
INVARIANT FencingTokenExclusive
INVARIANT AtMostOneLiveHolder
PROPERTY ImplementsFencedLease
\* Callers may simply stop calling.
CHECK_DEADLOCK FALSE
