SPECIFICATION ImageSpec
CONSTANTS
  Shop = {r1}
  Dish = {d1}
  Image = {i1}
  Editor = {e1}
  NoShop = NoShop
  NoImage = NoImage
  Unsent = Unsent
  ImageFaults = FALSE
PROPERTY SweepSparesMenus
CHECK_DEADLOCK FALSE
