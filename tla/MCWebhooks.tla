------------------------------ MODULE MCWebhooks ------------------------------
(* Instance of Webhooks for TLC: the default endpoint asks for every type,   *)
(* one that may be registered too, and one for messages alone.               *)
EXTENDS Webhooks, TLC

CONSTANTS h1, h2, h3

Asked == h1 :> {"message", "qr"} @@ h2 :> {"message", "qr"} @@ h3 :> {"message"}

OnlyDefault == <<h1>>
=============================================================================
