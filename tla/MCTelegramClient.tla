--------------------------- MODULE MCTelegramClient ---------------------------
(***************************************************************************)
(* Small instances of TelegramClient for TLC.                              *)
(***************************************************************************)
EXTENDS ClientProperties

Json(status, code, retry_after) ==
  [status |-> status, body |-> "json", ok |-> FALSE, error_code |-> code,
   retry_after |-> retry_after, result |-> "none"]
Text(status) == [Json(status, 0, 0) EXCEPT !.body = "other"]

(* Of Telegram: refused, flood control with and without retry_after, down; *)
(* of a proxy: its own 429 and 502; a body cut off, and an odd result.     *)
MCAnswers ==
  {Json(400, 400, 0), Json(429, 429, FloodWait), Json(429, 429, -1),
   Json(500, 500, 0), Text(429), Text(502),
   [Json(200, 0, 0) EXCEPT !.body = "cut"],
   [Json(200, 0, 0) EXCEPT !.ok = TRUE, !.result = "other"]}

=============================================================================
