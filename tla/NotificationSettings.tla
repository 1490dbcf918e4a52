------------------------ MODULE NotificationSettings ------------------------
(***************************************************************************)
(* The row of alert settings an administrator saves in the console, and    *)
(* how it is merged with the environment.  A PUT sends every setting but   *)
(* the secrets, which it keeps unless told otherwise: it reads the row in  *)
(* one statement and replaces it in another.                               *)
(*                                                                         *)
(* Of the plain settings the SMTP host is kept; the others are written and *)
(* merged the same way.  A handler is used once, and what it saves is      *)
(* named after it.  API and worker have the same environment               *)
(* (deploy/docker-compose.yml).                                            *)
(***************************************************************************)
EXTENDS LoginSessions

CONSTANTS
    Savers,         \* goroutines that serve a PUT
    Asked,          \* what they are asked
    Blank,          \* no value
    Env             \* the settings in the environment

Secrets == {"password", "token"}
Settings == {"host"} \cup Secrets
Values == Savers \cup {Blank}

ASSUME SettingsAssumption ==
    /\ Blank \notin Savers
    /\ DOMAIN Env = Settings
    /\ Asked \subseteq [host: BOOLEAN, password: {"keep", "clear", "set"},
                        token: {"keep", "clear", "set"}]

VARIABLES
    settings,       \* the row
    put,            \* the PUT handlers: the login they came with, what they
                    \* are asked, the secrets they are going to save
    wanted,         \* history: what was last asked of each secret
    missed          \* history: secrets of which a PUT in progress was going to
                    \* keep an older value than wanted

settingsVars == <<settings, put, wanted, missed>>

NoPut(pc) == [pc |-> pc, login |-> Blank, asked |-> [host |-> FALSE, password |-> "keep",
              token |-> "keep"], password |-> Blank, token |-> Blank]

SettingsTypeOK ==
    /\ settings \in [Settings -> Values]
    /\ put \in [Savers -> [pc: {"idle", "sent", "in", "read", "done"},
                           login: Logins \cup {Blank},
                           asked: Asked \cup {NoPut("idle").asked},
                           password: Values, token: Values]]
    /\ wanted \in [Secrets -> Values]
    /\ missed \subseteq Secrets

SettingsInit ==
    /\ settings = [f \in Settings |-> Blank]
    /\ put = [h \in Savers |-> NoPut("idle")]
    /\ wanted = [f \in Secrets |-> Blank]
    /\ missed = {}

PutGoes(h, pc) == put' = [put EXCEPT ![h].pc = pc]
PutEnds(h) == put' = [put EXCEPT ![h] = NoPut("done")]

\* The console sends the form with the cookie it has.
PutSend(h, l, asked) ==
    /\ put[h].pc = "idle" /\ l \in cookie
    /\ put' = [put EXCEPT ![h] = [NoPut("sent") EXCEPT !.login = l, !.asked = asked]]
    /\ UNCHANGED <<settings, wanted, missed>>

PutAuth(h) ==
    /\ put[h].pc = "sent"
    /\ GetSession(put[h].login)
    /\ PutGoes(h, "in")
    /\ UNCHANGED <<settings, wanted, missed>>

\* mutant: a secret that is not in the form is cleared
KeptBlank(h, f, current) == IF put[h].asked[f] = "set" THEN h ELSE Blank

\* The value of a secret after the request: clear, set, or as it was read.
Kept(h, f, current) ==
    CASE put[h].asked[f] = "keep"  -> current[f]
      [] put[h].asked[f] = "clear" -> Blank
      [] put[h].asked[f] = "set"   -> h

GetNotificationSettings(h) ==
    /\ put[h].pc = "in"
    /\ put' = [put EXCEPT ![h].pc = "read",
                 ![h].password = Kept(h, "password", settings),
                 ![h].token = Kept(h, "token", settings)]
    /\ UNCHANGED <<settings, wanted, missed>>

\* A saved value wins.
first(console, env) == IF console # Blank THEN console ELSE env

Merge(row) == [f \in Settings |-> first(row[f], Env[f])]

\* mutant: the settings in force are saved, not those of the console
SavedMerged(h) ==
    Merge([host |-> IF put[h].asked.host THEN h ELSE Blank,
           password |-> put[h].password, token |-> put[h].token])

Saved(h) ==
    [host |-> IF put[h].asked.host THEN h ELSE Blank,
     password |-> put[h].password, token |-> put[h].token]

Keepers(f) == {h \in Savers : put[h].pc = "read" /\ put[h].asked[f] = "keep"}

\* Whether it reports an error or not: the reload of the view that follows
\* only decides between 200 and 500.
SaveNotificationSettings(h) ==
    /\ put[h].pc = "read"
    /\ settings' = Saved(h)
    /\ wanted' = [f \in Secrets |->
                    IF put[h].asked[f] = "keep" THEN wanted[f] ELSE put[h][f]]
    /\ missed' = {f \in Secrets : IF put[h].asked[f] = "keep" THEN f \in missed
                                  ELSE Keepers(f) \ {h} # {}}
    /\ PutEnds(h)

\* 401, a refused value, or a statement or an encryption that fails.
PutFails(h) ==
    /\ put[h].pc \in {"sent", "in", "read"}
    /\ PutEnds(h)
    /\ UNCHANGED <<settings, wanted, missed>>

\* EmailEnabled and SlackEnabled.
Enabled(effective, channel) ==
    CASE channel = "email"    -> effective.host # Blank
      [] channel = "slack_dm" -> effective.token # Blank

\* A PUT that keeps a secret (admin_settings.go:55-90) undoes what another one
\* has done to it only when it has read the row before that one saved it:
\* requests that do not overlap never lose a password or a token.
SecretLostOnlyByOverlap ==
    \A f \in Secrets : settings[f] # wanted[f] => f \in missed

=============================================================================
