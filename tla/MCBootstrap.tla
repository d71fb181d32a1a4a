----------------------------- MODULE MCBootstrap ------------------------------
(***************************************************************************)
(* A small instance of Bootstrap for TLC.                                  *)
(***************************************************************************)
EXTENDS BootstrapProperties

CONSTANTS r1, r2

(* The variable for the token is exported, $PASS is set to something that  *)
(* breaks the JSON, and $WORD is not set.                                  *)
MCEnv == ("$BOT_TOKEN" :> <<"123:abc">> @@ "$PASS" :> <<"x", Quote>>
            @@ "$WORD" :> <<>>)
MCToken == <<"123:abc">>
MCWebhookURL == <<"https://", "legacy">>
MCLatin == {"bot-", "42", "shop"}

(* A bot without a user name, whose full name has usable letters in its    *)
(* second half only (the first is Cyrillic).                               *)
MCBotUser == [username |-> <<>>, full_name |-> <<"(lavka)", "shop">>, id |-> "42"]

Plain == [force |-> FALSE, inline_token |-> FALSE, drop |-> FALSE,
          token |-> MCToken, token_env |-> <<>>, name |-> <<>>,
          backend_url |-> <<>>, secret_token |-> <<"s3cret">>]

MCRequests ==
  {Plain,
   [Plain EXCEPT !.force = TRUE, !.drop = TRUE, !.inline_token = TRUE,
                 !.name = <<"(lavka)">>, !.backend_url = <<"https://", "other">>],
   [Plain EXCEPT !.backend_url = <<" ", "ftp://", "other">>],
   [Plain EXCEPT !.token_env = <<"no name">>, !.token = <<" ">>],
   [Plain EXCEPT !.token_env = <<"$WORD">>, !.name = <<"shop">>],
   [Plain EXCEPT !.secret_token = <<"pa", "$PASS">>, !.force = TRUE]}

(* Configurations by hand: with names missing, doubled or doubled only     *)
(* after the defaults, with strings that are blank or vanish with their    *)
(* variable, and with numbers out of range or too large for a duration.    *)
Bot(name, token) ==
  [name |-> name, token |-> token, backend_url |-> <<"http://", "back", " ">>,
   secret_token |-> <<>>, drop |-> FALSE]
File(numbers, bots) ==
  [state |-> "complete", numbers |-> numbers @@ DefaultNumbers, bots |-> bots]
MCForeign ==
  {Broken,
   File("retry_initial_delay_ms" :> 40000,
        <<Bot(<<" ">>, MCToken), Bot(<<"b">>, <<"$BOT_TOKEN">>)>>),
   File("polling_limit" :> 101 @@ "retry_max_delay_ms" :> -1,
        <<Bot(<<"bot-", "I", "I">>, MCToken), Bot(<<>>, MCToken)>>),
   File("polling_timeout_seconds" :> 90, <<Bot(<<"b">>, <<"$WORD">>)>>),
   File("polling_timeout_seconds" :> 90, <<Bot(<<"b">>, <<"t", "$WORD">>)>>)}

=============================================================================
