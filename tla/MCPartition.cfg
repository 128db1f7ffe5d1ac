CONSTANTS
  M = 16
  W = 8
  Growths = {8, 9, 10, 11, 12, 13, 14, 15, 16}
  Devices = {10, 17, 38}
  Releases = {"open"}
  MaxSize = 90
  MaxReleases = 2
SPECIFICATION Spec
INVARIANTS TypeOK HandedOutOnce FsipExact PagesManaged
PROPERTIES GrowthKeepsPages
