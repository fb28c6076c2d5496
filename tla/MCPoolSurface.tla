--------------------------- MODULE MCPoolSurface ----------------------------
(* Pool configurations for model checking. *)
EXTENDS PoolSurface

\* NV12 and BGRA pools whose rows lie on both sides of a stride boundary; the
\* broker refuses the P010 pool.
SomeShapes ==
    Shapes({1, 2, 17, 63, 64, 65, 66, 130, 1250, 1280, 1366, 1920},
           {1, 2, 3, 9, 144, 721, 1080}, {"420v"})
    \cup Shapes({16, 32, 1280, 1366, 1920}, {1, 3, 144, 1080}, {"BGRA"})
    \cup Shapes({1280}, {720}, {"x420"})

FewSlots == {1, 2, 3}
=============================================================================
