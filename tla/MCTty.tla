------------------------------- MODULE MCTty -------------------------------
(* A line set for a terminal, and one for raw input with a time-out and no EOF. *)
EXTENDS Tty

Terminal == [canon |-> TRUE, isig |-> TRUE, echo |-> TRUE, echoctl |-> TRUE, icrnl |-> TRUE,
             igncr |-> FALSE, inlcr |-> FALSE, vtime |-> FALSE, vmin |-> 1,
             veof |-> "eof", verase |-> "erase", vkill |-> "kill", vintr |-> "intr"]

MCModes == {Terminal,
            [Terminal EXCEPT !.canon = FALSE, !.isig = FALSE, !.echo = FALSE, !.icrnl = FALSE,
                             !.igncr = TRUE, !.vtime = TRUE, !.vmin = 2, !.veof = "none"]}
=============================================================================
