------------------------------ MODULE MCViewport ------------------------------
EXTENDS ViewportAssets

\* p0 and p1: two versions of one part; a: an assembly that shares a component.
MCFile == [e \in {"p0", "p1", "a"} |-> IF e = "a" THEN "assembly" ELSE "part"]
MCPackage == [e \in {"p0", "p1", "a"} |->
                IF e = "p0" THEN {"c1"} ELSE IF e = "p1" THEN {"c2"} ELSE {"c1", "c2"}]
MCChord == <<30, 10, 3>>
\* far: every component at level 0; close: c1 wants the finest, c2 the middle level
MCZooms == {[c \in {"c1", "c2"} |-> 1], [c \in {"c1", "c2"} |-> IF c = "c1" THEN 20 ELSE 5]}
=============================================================================
