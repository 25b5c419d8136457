\* The sizes of the firmware; three boots, two resets, one lost link and two
\* failing calls.
SPECIFICATION FairSpec
CONSTANTS
  LWIP_MAX_SOCKETS = 16
  HTTP_LOG_MAX_SOCKETS = 4
  HTTP_API_MAX_SOCKETS = 3
  MaxBoots = 3
  MaxResets = 2
  MaxLinkLosses = 1
  MaxFaults = 2
INVARIANTS NothingUsedUnready OneInstanceEach OtaGetsSocket BootCountHonest
PROPERTIES Reconnects ServersComeUp
\* app_main returns for good when st_conn_init fails: the program really stops.
CHECK_DEADLOCK FALSE
