\* Four byte values and payloads of up to three bytes, with announced lengths up to fifteen.
SPECIFICATION Spec
CONSTANTS
  Base = 4
  H1 = 2
  H2 = 3
  MaxPayload = 3
INVARIANTS BufferSafe Resynced
PROPERTIES Delivers
