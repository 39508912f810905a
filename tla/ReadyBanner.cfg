SPECIFICATION LiveSpec
CONSTANTS
  FixedToken = FALSE
  Upsets = {"crash", "reboot", "update"}
  Issues = 7
  Disturbances = 2
INVARIANT FirstBannerIsRight
PROPERTIES
  OldAddressesAreGone
  BannerComes
CHECK_DEADLOCK FALSE
