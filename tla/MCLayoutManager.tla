-------------------------- MODULE MCLayoutManager --------------------------
(* Two apps on up to two screens, the second app with a window that floats *)
(* by default.  Sizes are only told apart, so they are interchangeable.    *)
EXTENDS LayoutManager

CONSTANTS z1, z2

MCApp == {{1, 2}, {3}}
MCX == (1 :> 30) @@ (2 :> 20) @@ (3 :> 10)
MCSymmetry == Permutations({z1, z2})

=============================================================================
