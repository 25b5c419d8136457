\* A release of five bytes and three of signature, bodies of up to ten bytes
\* in chunks of up to four, any announced length, up to two redirects.
SPECIFICATION FairSpec
CONSTANTS
  SIGNATURE_SIZE = 3
  BUF_SIZE = 4
  MAX_REDIRECTS = 2
  Genuine = 8
  MaxBody = 10
INVARIANTS SplitExact IntactIsAccepted StagedIsGenuine NothingLeaks
PROPERTY AttemptsEnd
