--------------------------- MODULE MCBotController ---------------------------
(* The instance of BotController that TLC checks: the host may give the      *)
(* clicker's seat of a team to a bot; people hold the other seats.           *)
EXTENDS BotController

MCBotSeat == {<<"red", "clicker">>}
=============================================================================
