---------------------------- MODULE MCConnection ----------------------------
(***************************************************************************)
(* Three keys, two of which the venue knows, of two accounts; and what is  *)
(* long enough for the browser and not for the server.                     *)
(***************************************************************************)
EXTENDS ConnectionScreen, MCTexts

CONSTANTS acc1, acc2

MCKeys == {"key1", "key2", "bad1"}
MCAccepted == {"key1", "key2"}
MCAccountOf == ("key1" :> acc1) @@ ("key2" :> acc2) @@ ("bad1" :> acc2)
MCInputs == [api_key : MCKeys \cup {"  k "}, api_secret : {"key1"}]
=============================================================================
