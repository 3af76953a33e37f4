SPECIFICATION BoardSpec
CONSTANTS
  Templates <- MCTemplates
  Sides = {48, 96, 114, 144, 192}
  BoxSides = {192, 288, 360}
  Corners = {96, 136}
  Places = {24, 84}
  MaxOperations = 3
  Grain = 4
  Tenth = 8
  HalfMm = 16
  MaxSide = 720
  MinSide = 48
  MaxBoard = 192
  WallGap = 24
  Reach = 48
  Radius = 12
  PortWidth = 48
  PortHeight = 36
  RailThickness = 24
  Thickness = 24
  Parts = 72
  Post = 36
  ClampTop = 120
  Headroom = 24
  Lip = 36
  Wall = 24
CHECK_DEADLOCK FALSE
INVARIANTS ResizeReturns PortsFaceTheirWall
PROPERTIES FitMakesRoom
