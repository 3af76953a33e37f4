------------------------------ MODULE BoxBoards -----------------------------
(***************************************************************************)
(* A circuit board in the box: resizing it with its holes and ports,       *)
(* mounting, turning and turning it over, pushing it against the walls its *)
(* ports go through, and growing the box around it (packages/box-builder:  *)
(* core/boxBoards.js, core/boxSpec.js, the operations of BoardItem in      *)
(* ui/BoxBuilderSheet.js).                                                 *)
(*                                                                         *)
(* Lengths are halves of a ten-thousandth of a millimetre: a field takes    *)
(* four decimals, so a length that is typed is even and its half is whole.  *)
(* Grain is a thousandth, to which the code rounds what it works out.       *)
(***************************************************************************)
EXTENDS Integers, FiniteSetsExt

CONSTANTS
  Templates,    \* the boards one starts from
  Sides,        \* bound: the sizes asked of a board
  BoxSides,     \* bound: the sizes asked of the box
  Corners,      \* bound: the corner radii asked of the box
  Places,       \* bound: where a board, a port or a hole is moved
  MaxOperations, \* bound: operations on the board and the box
  Grain, Tenth, HalfMm, \* 0.001, 0.1 and 0.5 mm
  MaxSide,      \* the box's largest side, 500 mm
  MinSide,      \* BOARD_MIN_SIZE
  MaxBoard,     \* a board's largest side, 400 mm
  WallGap,      \* BOARD_WALL_GAP
  Reach,        \* PORT_REACH_TOLERANCE
  Radius,       \* of a mounting hole
  PortWidth, PortHeight, RailThickness,
  Thickness,    \* of the board
  Parts,        \* componentHeight
  Post,         \* clampGap and clampDiameter together
  ClampTop,     \* clampHeight and CLAMP_BAR together
  Headroom, Lip, Wall

Edges == {"front", "back", "left", "right"} \* and the walls alike
Rotations == {0, 90, 180, 270}
Even == {n \in Int : n % 2 = 0}

Holes == [x : Int, y : Int]
Ports == [edge : Edges, offset : Int, overhang : Nat, elevation : Int]

ASSUME BoardsAssumption ==
  /\ {MaxSide, MinSide, MaxBoard, WallGap, Reach, Radius, PortWidth, PortHeight,
      RailThickness, Thickness, Parts, Post, ClampTop, Headroom, Lip, Wall} \subseteq Nat
  /\ {MaxSide, MinSide, MaxBoard, PortWidth, RailThickness, Grain, Tenth, HalfMm}
       \cup Sides \cup BoxSides \subseteq Even
  /\ {Grain, Tenth, HalfMm} \subseteq Nat \ {0}
  /\ Radius > 0 /\ PortWidth > 0 /\ MinSide <= MaxBoard
  /\ 5 * Grain <= WallGap /\ WallGap + 2 * Grain <= Reach
  /\ Sides \subseteq 0..MaxBoard /\ BoxSides \subseteq 0..MaxSide /\ Corners \subseteq Nat
  /\ Places \subseteq Nat /\ MaxOperations \in Nat

ASSUME TemplatesAssumption ==
  \A t \in Templates :
    /\ t \in [width : Even, length : Even, holes : SUBSET Holes, ports : SUBSET Ports,
              rail : Nat, clearance : Nat, clamp : BOOLEAN]
    /\ IsFiniteSet(t.holes) /\ IsFiniteSet(t.ports)

VARIABLES
  board, box,
  drawn, \* history: the board when its holes and ports were last drawn
  exact, \* history: nothing was rounded since
  operations

boardVars == <<board, box, drawn, exact, operations>>

-----------------------------------------------------------------------------
(* Geometry: boxSpec.js.  FlippedTurn and the operators named alike below   *)
(* are deliberate mistakes that show what the properties catch.             *)

\* roundMm to a thousandth and to a ten-thousandth; Math.ceil to a step.
Rounded(n) == Grain * ((n + Grain \div 2) \div Grain)
Fine(n) == 2 * ((n + 1) \div 2)
Up(n, step) == step * ((n + step - 1) \div step)

Normal(edge) == CASE edge = "front" -> <<0, -1>> [] edge = "back" -> <<0, 1>>
                  [] edge = "left" -> <<-1, 0>> [] edge = "right" -> <<1, 0>>
Along(v, w) == v[1] * w[1] + v[2] * w[2]

\* turnQuarter
Turn(v, rotation) ==
  CASE rotation = 0 -> v
    [] rotation = 90 -> <<-v[2], v[1]>>
    [] rotation = 180 -> <<-v[1], -v[2]>>
    [] rotation = 270 -> <<v[2], -v[1]>>

\* boardEdgeWall: the wall an edge faces.
UnflippedWall(b, edge) == CHOOSE w \in Edges : Normal(w) = Turn(Normal(edge), b.rotation)
EdgeWall(b, edge) ==
  LET n == Normal(edge)
  IN  CHOOSE w \in Edges :
        Normal(w) = Turn(IF b.flipped THEN <<-n[1], n[2]>> ELSE n, b.rotation)

\* boardPoint: a point of the board, in box coordinates.
Point(b, px, py) ==
  LET v == Turn(<<(IF b.flipped THEN b.width - px ELSE px) - b.width \div 2,
                  py - b.length \div 2>>, b.rotation)
  IN  <<Fine(b.x + v[1]), Fine(b.y + v[2])>>

EdgePoint(b, edge, offset) ==
  CASE edge = "back" -> <<offset, b.length>> [] edge = "left" -> <<0, offset>>
    [] edge = "right" -> <<b.width, offset>> [] edge = "front" -> <<offset, 0>>

LongAxis(b) == IF b.width > b.length THEN "x" ELSE "y"
Long(b) == Max({b.width, b.length})

\* boardOutline: its size along the box's X and Y, clamp posts included.
Outline(b) ==
  LET reach == IF b.clamp THEN 2 * Post ELSE 0
      s == IF LongAxis(b) = "x" THEN <<b.width, b.length + reach>>
                                ELSE <<b.width + reach, b.length>>
  IN  IF b.rotation % 180 = 0 THEN s ELSE <<s[2], s[1]>>

\* boxDimensions: the inside, and the radius of its corners.
Inner(bx) ==
  LET w == IF bx.walls THEN 2 * Wall ELSE 0 IN <<bx.width - w, bx.depth - w>>
InnerCorner(bx) == IF bx.walls THEN Max({bx.corner - Wall, 0}) ELSE bx.corner
InnerHalf(bx, wall) == Inner(bx)[IF wall \in {"front", "back"} THEN 2 ELSE 1] \div 2

Clamp(v, low, high) == Min({Max({v, low}), Max({low, high})})

\* clampBoardPosition
At(bx, b, x, y) ==
  LET limit(i) == Max({(Inner(bx)[i] - Outline(b)[i]) \div 2, 0})
  IN  [b EXCEPT !.x = Rounded(Clamp(x, -limit(1), limit(1))),
                !.y = Rounded(Clamp(y, -limit(2), limit(2)))]

EdgeLength(b, edge) == IF edge \in {"front", "back"} THEN b.width ELSE b.length

\* normalizeBoardHole: a hole stays whole inside the board.
Inside(v, side) == LET inset == Min({Radius, side \div 2}) IN Clamp(v, inset, side - inset)

\* normalizeBoard, which runs after every edit.
Cut(side) == Clamp(side, MinSide, MaxBoard)
Normalized(b) ==
  LET cut == [b EXCEPT !.width = Cut(b.width), !.length = Cut(b.length)]
  IN  [cut EXCEPT
        !.holes = {[h EXCEPT !.x = Inside(h.x, cut.width), !.y = Inside(h.y, cut.length)] :
                     h \in b.holes},
        !.ports = {[p EXCEPT !.offset = Clamp(p.offset, 0, EdgeLength(cut, p.edge))] :
                     p \in b.ports},
        !.rail = Clamp(b.rail, 0, Long(cut)),
        !.clampOffset = Clamp(b.clampOffset, 0, Long(cut))]

\* normalizeBoxSpec: corners no rounder than half the smaller side.
NormalBox(bx) == [bx EXCEPT !.corner = Min({@, bx.width \div 2, bx.depth \div 2})]

-----------------------------------------------------------------------------
(* Resizing: boxBoards.js. *)

EdgeDistance(v, side) == IF 2 * v > side THEN side - v ELSE v
Room(v, side, r) == IF 2 * v = side THEN r ELSE EdgeDistance(v, side) + r

PortsAlong(b, axis) == {p \in b.ports : (p.edge \in {"front", "back"}) = (axis = "x")}

\* boardMinimumSize
MinimumAny(b, axis) == MinSide
Minimum(b, axis) ==
  LET side == IF axis = "x" THEN b.width ELSE b.length
      half == Max({MinSide \div 2}
                  \cup {Room(IF axis = "x" THEN h.x ELSE h.y, side, Radius) : h \in b.holes}
                  \cup {Room(p.offset, side, PortWidth \div 2) : p \in PortsAlong(b, axis)})
  IN  Up(2 * half, Tenth)

\* Keep the distance to the nearer edge, or the middle.
Keep(v, from, to) ==
  Rounded(IF 2 * v = from THEN to \div 2 ELSE IF 2 * v > from THEN to - (from - v) ELSE v)

\* resizeBoard
Resized(bx, b, width, length) ==
  LET w == Max({width, Minimum(b, "x")})
      l == Max({length, Minimum(b, "y")})
      from == IF LongAxis(b) = "x" THEN b.width ELSE b.length
      to == IF LongAxis(b) = "x" THEN w ELSE l
      new == [b EXCEPT
        !.width = w, !.length = l,
        !.holes = {[h EXCEPT !.x = Keep(h.x, b.width, w), !.y = Keep(h.y, b.length, l)] :
                     h \in b.holes},
        !.ports = {[p EXCEPT !.offset =
                      IF p.edge \in {"front", "back"} THEN Keep(p.offset, b.width, w)
                                                      ELSE Keep(p.offset, b.length, l)] :
                     p \in b.ports},
        !.rail = Rounded(Max({Keep(b.rail + RailThickness \div 2, from, to)
                                - RailThickness \div 2, 0})),
        !.clampOffset = Keep(b.clampOffset, from, to)]
  IN  IF b.mounted THEN At(bx, new, b.x, b.y) ELSE new

-----------------------------------------------------------------------------
(* Placing: boxBoards.js. *)

\* boardWallGaps
GapPlain(p) == WallGap
Gap(p) == Max({WallGap, p.overhang - Wall})
PortsAt(b, wall) == {p \in b.ports : EdgeWall(b, p.edge) = wall}
WallGapAt(b, wall) == Max({Gap(p) : p \in PortsAt(b, wall)})

\* placeBoard
Placed(bx, b, keep) ==
  LET against(wall, i) == InnerHalf(bx, wall) - WallGapAt(b, wall) - Outline(b)[i] \div 2
      along(low, high, i, current) ==
        CASE PortsAt(b, low) # {} /\ PortsAt(b, high) # {} -> current
          [] PortsAt(b, high) # {} /\ PortsAt(b, low) = {} -> against(high, i)
          [] PortsAt(b, high) = {} /\ PortsAt(b, low) # {} -> -against(low, i)
          [] OTHER -> current
  IN  At(bx, b, along("left", "right", 1, IF keep THEN b.x ELSE 0),
                along("front", "back", 2, IF keep THEN b.y ELSE 0))

\* mountBoard: the first quarter turn that fits, its own first.
Fits(bx, b, rotation) ==
  \A i \in 1..2 : Outline([b EXCEPT !.rotation = rotation])[i] + 2 * WallGap <= Inner(bx)[i]

Mounted(bx, b) ==
  LET turns == <<b.rotation, 0, 90, 270, 180>>
      fitting == {i \in 1..5 : Fits(bx, b, turns[i])}
      rotation == IF fitting = {} THEN b.rotation ELSE turns[Min(fitting)]
  IN  Placed(bx, [b EXCEPT !.rotation = rotation, !.mounted = TRUE], FALSE)

\* fitBoxToBoard: the box is grown, never shrunk.
Grown(bx, b) ==
  LET gap(wall) == IF PortsAt(b, wall) = {} THEN WallGap ELSE WallGapAt(b, wall)
      inside(i, low, high) == Outline(b)[i] + gap(low) + gap(high) + 2 * Wall
      above == IF b.flipped THEN 0
               ELSE Max({Parts} \cup {p.elevation + PortHeight : p \in b.ports})
      top == Max({b.clearance + Thickness + above, IF b.clamp THEN ClampTop ELSE 0})
      grown(side, needed) == Min({MaxSide, Max({side, Up(needed, HalfMm)})})
  IN  [bx EXCEPT !.walls = TRUE,
                 !.width = grown(bx.width, inside(1, "left", "right")),
                 !.depth = grown(bx.depth, inside(2, "front", "back")),
                 !.height = grown(bx.height, top + Headroom + Lip)]

-----------------------------------------------------------------------------
(* The operations.  Each is one edit of the box's document. *)

\* What a board takes from its template, where it sits in the box.
Drawing(t, at) ==
  [width |-> t.width, length |-> t.length, holes |-> t.holes, ports |-> t.ports,
   rail |-> t.rail, clampOffset |-> Rounded(Long(t) \div 2), clearance |-> t.clearance,
   clamp |-> t.clamp, rotation |-> at.rotation, flipped |-> at.flipped,
   mounted |-> at.mounted, x |-> at.x, y |-> at.y]
Unplaced == [rotation |-> 0, flipped |-> FALSE, mounted |-> FALSE, x |-> 0, y |-> 0]

\* newBoard, which goes straight into the box.
NewBoard(bx, t) == Normalized(Mounted(bx, Drawing(t, Unplaced)))

\* A board on which the code's rounding changes nothing: holes and ports on whole
\* thousandths, and sides on even ones, so that their middles are whole too.
Whole(side) == side % (2 * Grain) = 0
OnGrid(b) ==
  /\ Whole(b.width) /\ Whole(b.length)
  /\ \A h \in b.holes : h.x % Grain = 0 /\ h.y % Grain = 0
  /\ \A p \in b.ports : p.offset % Grain = 0

BoardInit ==
  /\ \E w, d \in BoxSides, r \in Corners :
       box = NormalBox([width |-> w, depth |-> d, height |-> Parts, walls |-> TRUE,
                        corner |-> r])
  /\ board \in {NewBoard(box, t) : t \in Templates}
  /\ drawn = board /\ exact = OnGrid(board)
  /\ operations = 0

Edited(b) ==
  /\ operations < MaxOperations /\ operations' = operations + 1
  /\ board' = Normalized(b)

\* The drawing is the same, or a new one.
SameDrawing == drawn' = drawn /\ exact' = (exact /\ OnGrid(board'))
NewDrawing == drawn' = board' /\ exact' = OnGrid(board')

Resize ==
  /\ \E s \in Sides : \/ Edited(Resized(box, board, s, board.length))
                      \/ Edited(Resized(box, board, board.width, s))
  /\ SameDrawing
  /\ UNCHANGED box

Mount ==
  ~ board.mounted /\ Edited(Mounted(box, board)) /\ SameDrawing /\ UNCHANGED box
Unmount ==
  /\ board.mounted
  /\ Edited([board EXCEPT !.mounted = FALSE])
  /\ SameDrawing
  /\ UNCHANGED box

Rotate ==
  /\ board.mounted
  /\ \E r \in Rotations \ {board.rotation} :
       Edited(Placed(box, [board EXCEPT !.rotation = r], FALSE))
  /\ SameDrawing
  /\ UNCHANGED box

\* flipBoard also raises it until the parts below clear the floor.
Flip ==
  /\ board.mounted
  /\ LET flipped == ~ board.flipped
         raised == IF flipped /\ board.clearance < Parts THEN Up(Parts, HalfMm)
                                                         ELSE board.clearance
     IN  Edited(Placed(box, [board EXCEPT !.flipped = flipped, !.clearance = raised], FALSE))
  /\ SameDrawing
  /\ UNCHANGED box

Snap ==
  /\ board.mounted /\ board.ports # {}
  /\ Edited(Placed(box, board, TRUE))
  /\ SameDrawing
  /\ UNCHANGED box

Fit ==
  /\ board.mounted
  /\ box' = NormalBox(Grown(box, board))
  /\ Edited(Placed(Grown(box, board), board, FALSE))
  /\ SameDrawing

\* Moved with the pointer, the keys or the fields.
Move ==
  /\ board.mounted
  /\ \E x, y \in Places \cup {-p : p \in Places} : Edited(At(box, board, x, y))
  /\ SameDrawing
  /\ UNCHANGED box

\* A field of the board or of one of its holes and ports.
Draw ==
  /\ \/ \E h \in board.holes, x, y \in Places :
          Edited([board EXCEPT !.holes = (@ \ {h}) \cup {[h EXCEPT !.x = x, !.y = y]}])
     \/ \E p \in board.ports, e \in Edges, o \in Places :
          Edited([board EXCEPT !.ports = (@ \ {p}) \cup {[p EXCEPT !.edge = e, !.offset = o]}])
     \/ Edited([board EXCEPT !.clamp = ~ @])
  /\ NewDrawing
  /\ UNCHANGED box

\* applyTemplate: the template's drawing where the board sits.
FollowTemplate ==
  /\ \E t \in Templates :
       LET new == Normalized(Drawing(t, board))
       IN  Edited(IF board.mounted THEN Placed(box, new, TRUE) ELSE new)
  /\ NewDrawing
  /\ UNCHANGED box

\* A field of the box: the board stays where it is.
ResizeBox ==
  /\ Edited(board)
  /\ \/ \E s \in BoxSides : \/ box' = NormalBox([box EXCEPT !.width = s])
                            \/ box' = NormalBox([box EXCEPT !.depth = s])
     \/ \E r \in Corners : box' = NormalBox([box EXCEPT !.corner = r])
     \/ box' = [box EXCEPT !.walls = ~ @]
  /\ SameDrawing

BoardNext ==
  \/ Resize \/ Mount \/ Unmount \/ Rotate \/ Flip \/ Snap \/ Fit \/ Move \/ Draw
  \/ FollowTemplate \/ ResizeBox

BoardSpec == BoardInit /\ [][BoardNext]_boardVars

-----------------------------------------------------------------------------
(* Properties. *)

\* However a board was resized, holes and ports are where they were drawn when
\* its size is again what it was, if there is a size that keeps them on their
\* halves of it and all sizes on the way were even thousandths
\* (boxBoards.js:297-300).
Returned ==
  board.width = drawn.width /\ board.length = drawn.length =>
    board.holes = drawn.holes /\ board.ports = drawn.ports
Possible == Minimum(drawn, "x") <= MaxBoard /\ Minimum(drawn, "y") <= MaxBoard
ResizeReturns == exact /\ Possible => Returned

\* A port's place on the mounted board, turned and turned over, lies on the side
\* of the board that looks at the wall its cut-out is made in, to the
\* ten-thousandth places are rounded to (boxSpec.js:795-799, 874-894).
PortsFaceTheirWall ==
  \A p \in board.ports :
    LET n == Normal(EdgeWall(board, p.edge))
        q == EdgePoint(board, p.edge, p.offset)
        v == Point([board EXCEPT !.x = 0, !.y = 0], q[1], q[2])
        side == IF p.edge \in {"front", "back"} THEN board.length ELSE board.width
    IN  2 * Along(v, n) \in side - 2..side + 2

\* boardPortCutout, gap: how far a connector's front stops short of the inside of
\* its wall.
FrontGap(bx, b, p) ==
  LET wall == EdgeWall(b, p.edge)
      q == EdgePoint(b, p.edge, p.offset)
  IN  Rounded(InnerHalf(bx, wall) - (Along(Point(b, q[1], q[2]), Normal(wall)) + p.overhang))

Opposite(wall) == CHOOSE w \in Edges : Normal(w) = <<-Normal(wall)[1], -Normal(wall)[2]>>

\* How far the board and its posts stay from the nearer wall, along X and Y.
Spare(bx, b, i) ==
  (Inner(bx)[i] - Outline(b)[i]) \div 2
    - (IF i = 1 THEN Max({b.x, -b.x}) ELSE Max({b.y, -b.y}))

\* The nearest corner of the board with its posts is inside the rounded corner of
\* the box (boxPlan.js:302-309).
CornersClear(bx, b) ==
  LET r == InnerCorner(bx)
      into(i) == Max({r - Spare(bx, b, i), 0})
  IN  into(1) * into(1) + into(2) * into(2) <= r * r

\* Once the box was fitted to a board, the board and its posts are clear of the
\* walls, of the box's rounded corners if these are no rounder than three times
\* the gap to a wall, and its parts of the lid; no connector sticks out of its
\* wall, and where no posts stand between, one at each wall is in reach of a
\* plug.  All to within a thousandth or two, which rounding may take.
\* (Ports at two opposite walls share the room between them.)
WellFitted(bx, b) ==
  /\ \A i \in 1..2 : 2 * Spare(bx, b, i) >= 2 * WallGap - Grain
  /\ InnerCorner(bx) <= 3 * WallGap => CornersClear(bx, b)
  /\ b.clearance + Thickness + (IF b.flipped THEN 0 ELSE Parts) + Lip <= bx.height
  /\ \A wall \in Edges :
       PortsAt(b, wall) # {} /\ PortsAt(b, Opposite(wall)) = {} =>
         /\ \A p \in PortsAt(b, wall) : FrontGap(bx, b, p) >= -Wall - 2 * Grain
         /\ ~ b.clamp => \E p \in PortsAt(b, wall) : FrontGap(bx, b, p) <= Reach
Fitted(bx) == bx.width < MaxSide /\ bx.depth < MaxSide /\ bx.height < MaxSide
FitMakesRoom == [][Fit /\ Fitted(box') => WellFitted(box', board')]_boardVars

\* "shrinking and growing back returns everything where it was"
\* (boxBoards.js:299-300): whatever the sizes on the way, which may have four
\* decimals; whatever the size it would need; ribs and clamp posts too.
AnySizeReturns == OnGrid(drawn) /\ Possible => Returned
AnyDrawingReturns == exact => Returned
RailsReturn ==
  exact /\ board.width = drawn.width /\ board.length = drawn.length =>
    board.rail = drawn.rail /\ board.clampOffset = drawn.clampOffset

\* The same, of the size: a length asked and asked back leaves the board the
\* width it had ("returns everything where it was", boxBoards.js:300).
WidthIsKept ==
  [][Resize => board'.width = board.width \/ board'.length = board.length]_boardVars

\* "so that it ends flush with the outside of the wall" (boxBoards.js:342): for
\* connectors at two opposite walls too.
NoConnectorSticksOut ==
  [][Fit /\ Fitted(box') =>
       \A p \in board'.ports : FrontGap(box', board', p) >= -Wall - 2 * Grain]_boardVars

\* "Grow the box (never shrink it) until the board, its wall gaps and its tallest
\* part fit" (boxBoards.js:442-443): however round its corners are.
RoundCornersClear ==
  [][Fit /\ Fitted(box') /\ ~ board'.clamp => CornersClear(box', board')]_boardVars
=============================================================================
