----------------------------- MODULE MCMpProxy -----------------------------
(* The paths of a session are interchangeable for its safety properties, and data *)
(* go in one direction only. A download is not followed beyond a reset or into a   *)
(* session that was started again: DownloadAccounted says nothing of those, which *)
(* last, and the other invariants are checked there with uploads.                  *)
EXTENDS MpProxy

PathSymmetry == Permutations(Paths)

OneWay ==
  (\E p \in Paths : mp.srv[p].said > 0) =>
    mp.srv["left"].said = 0 /\ OneOriginConnection /\ ~ Reset
=============================================================================
