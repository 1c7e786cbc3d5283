--------------------------------- MODULE Maps ---------------------------------
\* Go's maps as functions.

\* All that f and g assign, where both do what f does.
Over(f, g) == [k \in DOMAIN f \cup DOMAIN g |-> IF k \in DOMAIN f THEN f[k] ELSE g[k]]

=============================================================================
