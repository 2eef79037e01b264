\* The firmware's boot, button and GPIO server.
SPECIFICATION FirmwareSpec
CONSTANTS
  WIFI_STA_FAIL_BEFORE_AP = 3
  MaxBoots = 2
  SHORT_PRESS = 4
  RESET_PRESS = 8
  Window = 2
  MaxLate = 2
  GPIO_TCP_RX_BUF = 4
  Alphabet <- MCAlphabet
  OutputPins = {"out"}
  ButtonPins = {"boot"}
  Led = "works"
  MaxReceived = 5
INVARIANTS
  OutcomeIsOwn
  NoPortalWhileOnline
  ConnectedIsTrue
  GesturesAsDocumented
  CommandsAreLines
PROPERTY BootEnds
\* Once the boot is over and nobody restarts the chip, nothing is left to do.
CHECK_DEADLOCK FALSE
