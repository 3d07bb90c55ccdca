--------------------------- MODULE MCGmailIngress ---------------------------
(* A small instance of the Gmail ingress for TLC.                          *)
EXTENDS GmailIngress

CONSTANTS r1, r2

(* A pull worker beside a poller, two requests of the push server, and each *)
(* way of receiving alone.                                                  *)
SmallDeployments ==
  {[r \in Receivers |-> IF r = r1 THEN m[1] ELSE m[2]] :
     m \in {<<"pull", "poll">>, <<"push", "push">>,
            <<"pull", "off">>, <<"push", "off">>, <<"poll", "off">>}}
=============================================================================
