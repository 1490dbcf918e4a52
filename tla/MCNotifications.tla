--------------------------- MODULE MCNotifications ---------------------------
(* A small instance of Notifications. *)
EXTENDS Notifications

CONSTANT EnvValue

\* The environment has an SMTP server with a password, and no Slack token.
SomeEnv == [host |-> EnvValue, password |-> EnvValue, token |-> Blank]

\* A new token, one that is withdrawn, and a form that leaves the secrets.
SomeAsked ==
    {[host |-> TRUE, password |-> "set", token |-> "set"],
     [host |-> FALSE, password |-> "keep", token |-> "clear"],
     [host |-> TRUE, password |-> "keep", token |-> "keep"]}

\* Defaults only; a body of its own on Slack; a name with a placeholder in
\* it; a placeholder that has no value.
SomeRules ==
    {[type |-> "OPEN_ISSUES", channel |-> "email", name |-> <<Words("prod")>>,
      subject |-> <<>>, body |-> <<>>],
     [type |-> "DELIVERY_SUCCESS", channel |-> "slack_dm", name |-> <<Words("prod")>>,
      subject |-> <<>>, body |-> <<Key("limit"), Words("now"), Key("limit")>>],
     [type |-> "UNRESOLVED_TIME", channel |-> "email", name |-> <<Words("over"), Key("limit")>>,
      subject |-> <<>>, body |-> <<>>],
     [type |-> "UNRESOLVED_TIME", channel |-> "slack_dm", name |-> <<Words("prod")>>,
      subject |-> <<Key("owner")>>, body |-> <<>>]}

Symmetry == Permutations(Savers)

=============================================================================
