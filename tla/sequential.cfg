\* One call over a bag of ten messages; it may fail anywhere.
SPECIFICATION ReportedSpec
CONSTANTS
  Slots <- SomeSlots
  Passthrough = {"raw"}
  Bag <- SomeBag
  Clouds <- SomeClouds
  Trailing <- SomeTrailing
  None = None
  Failures = {"read", "decode", "write"}
INVARIANTS
  TypeOK
  ResultIsExact
PROPERTIES ImplementsContract ProgressIsTrue
