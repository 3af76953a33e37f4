---------------------------- MODULE MCBoxBoards -----------------------------
EXTENDS BoxBoards

Hole(x, y) == [x |-> x, y |-> y]
Port(edge, offset, overhang) ==
  [edge |-> edge, offset |-> offset, overhang |-> overhang, elevation |-> 0]

\* A screwed board with a connector that sticks out, one clamped by its long
\* sides with connectors at two ends, and one with a hole next to its middle.
MCTemplates ==
  { [width |-> 192, length |-> 144, holes |-> {Hole(24, 24), Hole(168, 120)}, rail |-> 48,
     ports |-> {Port("left", 72, 0), Port("back", 48, 72)}, clearance |-> 48,
     clamp |-> FALSE],
    [width |-> 144, length |-> 192, holes |-> {}, rail |-> 72,
     ports |-> {Port("front", 72, 0), Port("back", 72, 96)}, clearance |-> 24,
     clamp |-> TRUE],
    [width |-> 144, length |-> 144, holes |-> {Hole(60, 72)}, rail |-> 24,
     ports |-> {Port("right", 36, 60)}, clearance |-> 0, clamp |-> FALSE] }
=============================================================================
