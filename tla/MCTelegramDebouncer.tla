------------------------ MODULE MCTelegramDebouncer ------------------------
(***************************************************************************)
(* Two senders of one chat thread and one of another.                      *)
(***************************************************************************)
EXTENDS TelegramDebouncer
CONSTANTS s1, s2, s3

MCSenders == {s1, s2, s3}
MCThreadOf == (s1 :> 1) @@ (s2 :> 1) @@ (s3 :> 2)

==============================================================================
