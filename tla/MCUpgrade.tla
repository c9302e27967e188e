----------------------------- MODULE MCUpgrade -----------------------------
(* Instances of Upgrade for TLC.                                           *)
EXTENDS Upgrade

Good == [get |-> TRUE, http11 |-> TRUE, connection |-> TRUE, upgrade |-> TRUE,
         version |-> TRUE, key |-> 9, decodes |-> TRUE]

\* one that is right, one with an old version, one without a key
MCRequests == {Good, [Good EXCEPT !.version = FALSE], [Good EXCEPT !.key = 0]}

Answer(status, accept) ==
  [status |-> status, connection |-> TRUE, upgrade |-> TRUE, accept |-> accept]

\* redirects, refusals, and answers for this and for earlier runs' keys
MCAnswers(n) ==
  {Answer("Redirect", 0), Answer("Other", 0), Answer("Malformed", 0)}
    \cup {Answer("SwitchingProtocols", k) : k \in 0 .. n}
=============================================================================
