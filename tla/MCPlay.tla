------------------------------- MODULE MCPlay -------------------------------
(***************************************************************************)
(* Play on a game of two levels of two cells each.  `leap' crosses both    *)
(* levels at once from the first cell and dies from the second, so that a  *)
(* single action completes two levels, and games are lost and reset.       *)
(***************************************************************************)
EXTENDS Play

MCBaselines == <<2, 2>>
MCActions == {"RESET", "right", "leap"}
MCFrames == [cell : {"start", "door", "pit"}, levels : 0..1, status : {"NOT_FINISHED", "GAME_OVER"}]
                \cup [cell : {"start"}, levels : {2}, status : {"WIN"}]
MCFirst == [cell |-> "start", levels |-> 0, status |-> "NOT_FINISHED"]

MCLegal(f) ==
    IF f.status = "WIN" THEN {} ELSE IF f.status = "GAME_OVER" THEN {"RESET"} ELSE MCActions

At(cell, levels) ==
    [cell |-> cell, levels |-> Least(levels, 2),
     status |-> IF cell = "pit" THEN "GAME_OVER" ELSE IF levels >= 2 THEN "WIN" ELSE "NOT_FINISHED"]

MCApply(f, a) ==
    CASE a = "RESET" -> At("start", f.levels)
      [] a = "right" -> IF f.cell = "start" THEN At("door", f.levels) ELSE At("start", f.levels + 1)
      [] a = "leap" -> IF f.cell = "start" THEN At("start", f.levels + 2) ELSE At("pit", f.levels)
=============================================================================
