CONSTANTS
  MAX_DRIVERS = 16
  MAX_DEVICES = 32
  Types = {"DISPLAY", "SERIAL", "RTC", "KEYBOARD"}
  Drivers <- MCDrivers
  Info <- MCInfo
  Ids <- MCIds
  NULL = NULL
  MAX_DRIFT = 0
  VFS_NODE_MAX = 16
  NodeIds = {"DISPLAY", "SERIAL", "RTC", "KBD", "STDOUT", "KBDIN"}
  ConsoleIds = {"STDOUT"}
  Lengths <- MCLengths
  INT_MAX = 32767
  Vga = vga_driver
  Serial = serial_driver
  Rtc = rtc_driver
  Kbd = kbd_driver
SPECIFICATION BootSpec
CHECK_DEADLOCK FALSE
INVARIANT SerialReported
