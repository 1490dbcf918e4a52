---------------------------- MODULE Notifications ----------------------------
(***************************************************************************)
(* The way of an alert's settings: an administrator saves them in the      *)
(* console, createAlertRule accepts a rule only for a channel that is set  *)
(* up, and a worker that sends an alert renders its text, loads the        *)
(* settings and posts it.  When a worker sends, and what it does with an   *)
(* error, is the subject of AlertEvaluator; here it may always send.       *)
(***************************************************************************)
EXTENDS NotificationSettings, Templates

CONSTANTS
    Creators,       \* goroutines that serve a POST of an alert rule
    Rules,          \* the rules they are asked to create
    Workers

ASSUME RulesAssumption ==
    \A r \in Rules : /\ r.channel \in {"email", "slack_dm"}
                     /\ r.type \in DOMAIN registry

VARIABLES
    rules,          \* the rules in the table
    create,         \* the POST handlers
    pass,           \* the rules each worker has listed
    send,           \* each worker's send: the rule, the text, the settings
    withdrawn,      \* history: channels that a save has switched off while a
                    \* rule, a POST that has passed the check, or a pass that
                    \* has listed the rule, relied on it
    overtaken       \* history: workers whose settings were replaced by a save
                    \* that was committed after they loaded them

vars == <<loginVars, settingsVars, rules, create, pass, send, withdrawn, overtaken>>
workerVars == <<pass, send, overtaken>>

NoCreate(pc) == [pc |-> pc, login |-> Blank, rule |-> Blank]
NoSend == [pc |-> "idle", rule |-> Blank, text |-> <<>>, with |-> Env]

\* Every variable keeps its type.
TypeOK ==
    /\ LoginTypeOK /\ SettingsTypeOK
    /\ rules \subseteq Rules
    /\ create \in [Creators -> [pc: {"idle", "sent", "in", "checked", "done"},
                                login: Logins \cup {Blank}, rule: Rules \cup {Blank}]]
    /\ pass \in [Workers -> SUBSET Rules]
    /\ \A w \in Workers :
         /\ send[w].pc \in {"idle", "rendered", "resolved", "sent", "error", "unset"}
         /\ send[w].pc # "idle" => send[w].rule \in Rules
         /\ DOMAIN send[w].with = Settings
    /\ withdrawn \subseteq {"email", "slack_dm"}
    /\ overtaken \subseteq Workers

Init ==
    /\ LoginInit /\ SettingsInit
    /\ rules = {}
    /\ create = [c \in Creators |-> NoCreate("idle")]
    /\ pass = [w \in Workers |-> {}]
    /\ send = [w \in Workers |-> NoSend]
    /\ withdrawn = {} /\ overtaken = {}

-----------------------------------------------------------------------------
(* Logins and saves *)

Session ==
    /\ \/ \E l \in Logins : Login(l) \/ Logout(l)
       \/ SessionTick
    /\ UNCHANGED <<settingsVars, rules, create, workerVars, withdrawn>>

Put(h) ==
    /\ \/ \E l \in Logins, asked \in Asked : PutSend(h, l, asked)
       \/ PutAuth(h)
       \/ GetNotificationSettings(h)
       \/ PutFails(h)
    /\ UNCHANGED <<loginVars, rules, create, workerVars, withdrawn>>

\* The channels of rules in the table, in a worker's list or past the check.
Relying ==
    {r.channel : r \in rules \cup UNION {pass[w] : w \in Workers}} \cup
    {create[c].rule.channel : c \in {x \in Creators : create[x].pc = "checked"}}

Save(h) ==
    /\ SaveNotificationSettings(h)
    /\ withdrawn' = withdrawn \cup
         {ch \in Relying : ~ Enabled(Merge(settings'), ch)}
    /\ overtaken' = {w \in Workers : send[w].pc = "resolved"} \cup overtaken
    /\ UNCHANGED <<loginVars, rules, create, pass, send>>

-----------------------------------------------------------------------------
(* createAlertRule *)

CreateGoes(c, pc) == create' = [create EXCEPT ![c].pc = pc]
CreateEnds(c) == create' = [create EXCEPT ![c] = NoCreate("done")]

CreateSend(c, l, rule) ==
    /\ create[c].pc = "idle" /\ l \in cookie
    /\ create' = [create EXCEPT ![c] = [pc |-> "sent", login |-> l, rule |-> rule]]
    /\ UNCHANGED <<loginVars, settingsVars, rules, workerVars, withdrawn>>

CreateAuth(c) ==
    /\ create[c].pc = "sent"
    /\ GetSession(create[c].login)
    /\ CreateGoes(c, "in")
    /\ UNCHANGED <<loginVars, settingsVars, rules, workerVars, withdrawn>>

\* mutant: only the address is validated, as if either channel would do
CheckChannelEither(c) ==
    /\ create[c].pc = "in"
    /\ \E ch \in {"email", "slack_dm"} : Enabled(Merge(settings), ch)
    /\ CreateGoes(c, "checked")
    /\ UNCHANGED <<loginVars, settingsVars, rules, workerVars, withdrawn>>

CheckChannel(c) ==
    /\ create[c].pc = "in"
    /\ Enabled(Merge(settings), create[c].rule.channel)
    /\ CreateGoes(c, "checked")
    /\ UNCHANGED <<loginVars, settingsVars, rules, workerVars, withdrawn>>

\* CreateAlertRule, whose transaction is that of AlertRules.
InsertRule(c) ==
    /\ create[c].pc = "checked"
    /\ rules' = rules \cup {create[c].rule}
    /\ CreateEnds(c)
    /\ UNCHANGED <<loginVars, settingsVars, workerVars, withdrawn>>

\* 401, a refused request, a channel that is not set up, or an error.
CreateFails(c) ==
    /\ create[c].pc \in {"sent", "in", "checked"}
    /\ CreateEnds(c)
    /\ UNCHANGED <<loginVars, settingsVars, rules, workerVars, withdrawn>>

\* By a handler that has passed auth.
DeleteAlertRule(rule) ==
    /\ rule \in rules
    /\ rules' = rules \ {rule}
    /\ UNCHANGED <<loginVars, settingsVars, create, workerVars, withdrawn>>

-----------------------------------------------------------------------------
(* evaluateOnce, sendNotification, Service.Send, ResolvingSender and ResolvingSlack *)

Quiet(w) == send[w].pc \in {"idle", "sent", "error", "unset"}

ListAlertRules(w) ==
    /\ Quiet(w)
    /\ pass' = [pass EXCEPT ![w] = rules]
    /\ UNCHANGED <<loginVars, settingsVars, rules, create, send, withdrawn, overtaken>>

Render(w, rule) ==
    /\ Quiet(w) /\ rule \in pass[w]
    /\ \E text \in RenderRequest(rule) :
         send' = [send EXCEPT ![w].pc = IF text = ErrMissingVar THEN "error" ELSE "rendered",
                              ![w].rule = rule, ![w].text = text]
    /\ overtaken' = overtaken \ {w}
    /\ UNCHANGED <<loginVars, settingsVars, rules, create, pass, withdrawn>>

\* mutant: the settings are loaded when the worker sends for the first time
ResolveOnce(w) ==
    /\ send[w].pc = "rendered"
    /\ send' = [send EXCEPT ![w].pc = "resolved",
                  ![w].with = IF @ = Env THEN Merge(settings) ELSE @]
    /\ UNCHANGED <<loginVars, settingsVars, rules, create, pass, withdrawn, overtaken>>

\* Load, at send time.
Resolve(w) ==
    /\ send[w].pc = "rendered"
    /\ send' = [send EXCEPT ![w].pc = "resolved", ![w].with = Merge(settings)]
    /\ UNCHANGED <<loginVars, settingsVars, rules, create, pass, withdrawn, overtaken>>

\* Without the setting it needs, the sender refuses; with it the message is
\* sent, or the transport fails.
Posts(w, setting) ==
    /\ \E pc \in IF send[w].with[setting] = Blank THEN {"unset"} ELSE {"sent", "error"} :
         send' = [send EXCEPT ![w].pc = pc]
    /\ UNCHANGED <<loginVars, settingsVars, rules, create, pass, withdrawn, overtaken>>

SMTPSend(w) == send[w].pc = "resolved" /\ send[w].rule.channel = "email" /\ Posts(w, "host")
PostDM(w) == send[w].pc = "resolved" /\ send[w].rule.channel = "slack_dm" /\ Posts(w, "token")

\* The row cannot be read or a secret not be decrypted.
LoadFails(w) ==
    /\ send[w].pc = "rendered"
    /\ send' = [send EXCEPT ![w].pc = "error"]
    /\ UNCHANGED <<loginVars, settingsVars, rules, create, pass, withdrawn, overtaken>>

Next ==
    \/ Session
    \/ \E h \in Savers : Put(h)
    \/ \E h \in Savers : Save(h)
    \/ \E c \in Creators, l \in Logins, rule \in Rules : CreateSend(c, l, rule)
    \/ \E c \in Creators : CreateAuth(c)
    \/ \E c \in Creators : CheckChannel(c)
    \/ \E c \in Creators : InsertRule(c)
    \/ \E c \in Creators : CreateFails(c)
    \/ \E rule \in Rules : DeleteAlertRule(rule)
    \/ \E w \in Workers : ListAlertRules(w)
    \/ \E w \in Workers, rule \in Rules : Render(w, rule)
    \/ \E w \in Workers : Resolve(w)
    \/ \E w \in Workers : SMTPSend(w)
    \/ \E w \in Workers : PostDM(w)
    \/ \E w \in Workers : LoadFails(w)

Spec == Init /\ [][Next]_vars

-----------------------------------------------------------------------------
\* auth (handlers.go:71-90) lets a handler in only while its session lives: a
\* request that was sent with a good cookie and is served after the session
\* has expired, or after a logout that deleted it, does not get past auth.
LetInOnlyLoggedIn ==
    [][/\ \A h \in Savers : put[h].pc = "sent" /\ put'[h].pc = "in" =>
             session[put[h].login].left > 0 /\ put[h].login \notin loggedOut
       /\ \A c \in Creators : create[c].pc = "sent" /\ create'[c].pc = "in" =>
             session[create[c].login].left > 0 /\ create[c].login \notin loggedOut]_vars

\* "A change in Admin applies on the next alert without restarting the worker"
\* (live.go:5-6): what a worker is about to post with are the settings in
\* force, unless they were saved after it loaded them.
AppliesOnNextAlert ==
    \A w \in Workers \ overtaken :
        send[w].pc = "resolved" => send[w].with = Merge(settings)

\* createAlertRule checks the channel once (alert_rules.go:114-126): an alert
\* fails because its channel is not set up only if a save has switched the
\* channel off after that check, while the rule, its POST or a worker that had
\* listed it still relied on the channel.
UnsetOnlyWithdrawn ==
    \A w \in Workers : send[w].pc = "unset" => send[w].rule.channel \in withdrawn

Named(s) == {s[i].name : i \in {j \in DOMAIN s : s[j].key}}

\* Each placeholder replaced by its value, all at once.
AsMeant(rule) ==
    LET t == IF rule.subject = <<>> THEN registry[rule.type].subject ELSE rule.subject
        b == IF rule.body = <<>> THEN registry[rule.type].body ELSE rule.body
        all == t \o b
    IN  FlattenSeq([i \in DOMAIN all |->
          IF all[i].key THEN alertVars(rule)[all[i].name] ELSE <<all[i]>>])

\* Whatever the order in which substitute visits its map (template.go:168-185),
\* the text of an alert is its own template, or the default of its type, with
\* every placeholder replaced, as long as the name of the rule holds no
\* placeholder itself.
TextAsMeant ==
    \A w \in Workers :
        (send[w].pc \in {"rendered", "resolved", "sent"} /\ Named(send[w].rule.name) = {})
            => send[w].text = AsMeant(send[w].rule)

=============================================================================
