--------------------------- MODULE MCPlaylistBatch ---------------------------
(* Two items of one source, two workers and one slot; each item is static, *)
(* smart or a copy onto its own user.  A sync selection has the title that  *)
(* the first item also writes.                                              *)
EXTENDS PlaylistBatch
CONSTANTS src, sync, x, y, z

MCBatch == {0, 1}
MCKinds == {[c \in {0, 1, sync} |-> IF c = sync THEN "static" ELSE f[c]] :
              f \in [{0, 1} -> {"static", "smart", "same user"}]}
MCSource == [c \in {0, 1, sync} |-> src]
MCKey == [c \in {0, 1, sync} |-> IF c = sync THEN 0 ELSE c]
MCMembers == [c \in {0, 1, sync} |-> CASE c = 0 -> {x, y} [] c = 1 -> {x, z} [] c = sync -> {x}]
=============================================================================
