----------------------------- MODULE MCSmtpMailer -----------------------------
(* SmtpMailer for TLC: two accounts, the first of which is incomplete, and  *)
(* replies of one or two lines.  Beside it, and sharing no state with it,   *)
(* the tunnel whose address is mailed; side tells which of the two runs.    *)
(* Where it is the mail, main is over: no step of the tunnel is enabled, of *)
(* which fairness would require that it is taken.                           *)
EXTENDS SmtpMailer, Tunnel

VARIABLE side

NoticeInit ==
    /\ Init /\ Unstarted
    /\ \/ side = "mail"   /\ main = "over" /\ starter = "off"
       \/ side = "tunnel" /\ TunnelInit /\ ssl

NoticeNext == /\ \/ side = "mail"   /\ Next       /\ UNCHANGED tunnelVars
                 \/ side = "tunnel" /\ TunnelNext /\ UNCHANGED vars
              /\ UNCHANGED side

NoticeSpec == /\ NoticeInit /\ [][NoticeNext]_<<vars, tunnelVars, side>>
              /\ WF_vars(side = "mail" /\ Client) /\ TunnelFairness
===============================================================================
