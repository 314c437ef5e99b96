---------------------------- MODULE MCAdminPublish ----------------------------
(* Two handlers, which are interchangeable, and a few rows of each table:  *)
(* two bundles, or one that is updated.                                    *)
EXTENDS AdminPublish, TLC

Symmetry == Permutations(Handlers)

Bounds ==
  [k \in {"bundle", "content", "assignment", "source", "revision", "time"} |->
     IF k \in {"source", "assignment"} THEN 1 ELSE 2]
=============================================================================
