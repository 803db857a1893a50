\* A query may fail; the request is answered 500 and redelivered.
CONSTANTS
  m1 = m1
  m2 = m2
  m3 = m3
  i1 = i1
  i2 = i2
  r1 = r1
  r2 = r2
  Handlers = {h1, h2, h3}
  RawIds <- RawForms
  Messages = {m1, m2, m3}
  Invalid = Invalid
  Canonical <- Trim
  InboxIds = {i1, i2}
  InboxIdOf <- DerivedInboxId
  RunIds = {r1, r2}
  RunIdOf <- DerivedRunId
  NoRun = NoRun
  Faults = {"query"}
SPECIFICATION Spec
INVARIANT AcceptedIsStarted
