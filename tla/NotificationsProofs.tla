------------------------- MODULE NotificationsProofs -------------------------
(***************************************************************************)
(* Alert settings, for any number of saves, logins, rules and workers: a   *)
(* secret is lost only by saves that overlap, a worker posts with the      *)
(* settings in force, an alert finds its channel switched off only if a    *)
(* save did that meanwhile, and auth lets nobody in after the session.     *)
(***************************************************************************)
EXTENDS Notifications, TLAPS

-----------------------------------------------------------------------------
(* Types *)

Form == [host: BOOLEAN, password: {"keep", "clear", "set"}, token: {"keep", "clear", "set"}]

Putting == [pc: {"idle", "sent", "in", "read", "done"}, login: Logins \cup {Blank},
            asked: Asked \cup {NoPut("idle").asked}, password: Values, token: Values]

Creating == [pc: {"idle", "sent", "in", "checked", "done"},
             login: Logins \cup {Blank}, rule: Rules \cup {Blank}]

\* A send is a record; of its text nothing is said here.
SendShape ==
    /\ DOMAIN send = Workers
    /\ send = [w \in Workers |-> send[w]]
    /\ \A w \in Workers :
         send[w] = [pc |-> send[w].pc, rule |-> send[w].rule,
                    text |-> send[w].text, with |-> send[w].with]

\* A POST past auth has a rule.
CreateOK ==
    \A c \in Creators : create[c].pc \in {"sent", "in", "checked"} => create[c].rule \in Rules

TypeInv == TypeOK /\ SendShape /\ CreateOK

OnlyPut(h) == \A o \in Savers \ {h} : put'[o] = put[o]
OnlyCreate(c) == \A o \in Creators \ {c} : create'[o] = create[o]
OnlySend(w) == \A v \in Workers \ {w} : send'[v] = send[v]

\* The local variables of a PUT that has read nothing.
LEMMA NoPutType ==
    ASSUME NEW pc \in {"idle", "sent", "in", "read", "done"}
    PROVE  /\ NoPut(pc) \in Putting /\ NoPut(pc).pc = pc
           /\ NoPut(pc).asked \in Form
BY DEF NoPut, Putting, Values, Form

\* The form of a PUT has its type.
LEMMA FormType ==
    ASSUME NEW x \in Putting
    PROVE  x.asked \in Form
<1>1. NoPut("idle").asked \in Form
    BY NoPutType
<1>2. x.asked \in Asked \cup {NoPut("idle").asked}
    BY DEF Putting
<1> QED
    BY <1>1, <1>2, SettingsAssumption DEF Form

\* The value of a secret is a value, and only one that is kept is an old one.
LEMMA KeptType ==
    ASSUME put \in [Savers -> Putting], settings \in [Settings -> Values],
           NEW h \in Savers, NEW f \in Secrets
    PROVE  /\ Kept(h, f, settings) \in Values
           /\ put[h].asked[f] = "keep" => Kept(h, f, settings) = settings[f]
<1>1. put[h].asked \in Form
    BY FormType
<1>2. put[h].asked[f] \in {"keep", "clear", "set"}
    BY <1>1 DEF Form, Secrets
<1>3. settings[f] \in Values
    BY DEF Settings
<1> QED
    BY <1>2, <1>3 DEF Kept, Values

\* What a save leaves.
LEMMA SavedType ==
    ASSUME put \in [Savers -> Putting], NEW h \in Savers
    PROVE  /\ Saved(h) \in [Settings -> Values]
           /\ \A f \in Secrets : Saved(h)[f] = put[h][f] /\ put[h][f] \in Values
<1>1. put[h] \in Putting
    OBVIOUS
<1>2. put[h].password \in Values /\ put[h].token \in Values
    BY <1>1 DEF Putting
<1> DEFINE x == IF put[h].asked.host THEN h ELSE Blank
<1>3. x \in Values
    BY DEF Values
<1>4. Saved(h) = [host |-> x, password |-> put[h].password, token |-> put[h].token]
    BY DEF Saved
<1> HIDE DEF x
<1> QED
    BY <1>2, <1>3, <1>4 DEF Settings, Secrets

\* The steps of a PUT.
LEMMA PutEffect ==
    ASSUME put \in [Savers -> Putting], settings \in [Settings -> Values], NEW h \in Savers
    PROVE  /\ \A l \in Logins, asked \in Asked : PutSend(h, l, asked) =>
                put' \in [Savers -> Putting] /\ OnlyPut(h) /\ put'[h].pc = "sent"
           /\ PutAuth(h) => put' \in [Savers -> Putting] /\ OnlyPut(h) /\ put'[h].pc = "in"
           /\ PutEnds(h) => put' \in [Savers -> Putting] /\ OnlyPut(h) /\ put'[h].pc = "done"
           /\ GetNotificationSettings(h) =>
                /\ put' \in [Savers -> Putting] /\ OnlyPut(h)
                /\ put'[h].pc = "read" /\ put'[h].asked = put[h].asked
                /\ \A f \in Secrets : put'[h][f] = Kept(h, f, settings)
<1>1. ASSUME NEW l \in Logins, NEW asked \in Asked, PutSend(h, l, asked)
      PROVE  put' \in [Savers -> Putting] /\ OnlyPut(h) /\ put'[h].pc = "sent"
    <2> DEFINE new == [NoPut("sent") EXCEPT !.login = l, !.asked = asked]
    <2>1. new \in Putting /\ new.pc = "sent"
        BY DEF NoPut, Putting, Values
    <2>2. put' = [put EXCEPT ![h] = new]
        BY <1>1 DEF PutSend
    <2> HIDE DEF new
    <2> QED
        BY <2>1, <2>2 DEF OnlyPut
<1>2. ASSUME PutAuth(h)
      PROVE  put' \in [Savers -> Putting] /\ OnlyPut(h) /\ put'[h].pc = "in"
    <2>1. [put[h] EXCEPT !.pc = "in"] \in Putting /\ [put[h] EXCEPT !.pc = "in"].pc = "in"
        BY DEF Putting
    <2> QED
        BY <1>2, <2>1 DEF PutAuth, PutGoes, OnlyPut
<1>3. ASSUME PutEnds(h)
      PROVE  put' \in [Savers -> Putting] /\ OnlyPut(h) /\ put'[h].pc = "done"
    <2>1. NoPut("done") \in Putting /\ NoPut("done").pc = "done"
        BY NoPutType
    <2> QED
        BY <1>3, <2>1 DEF PutEnds, OnlyPut
<1>4. ASSUME GetNotificationSettings(h)
      PROVE  /\ put' \in [Savers -> Putting] /\ OnlyPut(h)
             /\ put'[h].pc = "read" /\ put'[h].asked = put[h].asked
             /\ \A f \in Secrets : put'[h][f] = Kept(h, f, settings)
    <2> DEFINE p == Kept(h, "password", settings)
               t == Kept(h, "token", settings)
    <2>1. p \in Values /\ t \in Values
        BY KeptType DEF Secrets
    <2>2. put' = [put EXCEPT ![h].pc = "read", ![h].password = p, ![h].token = t]
        BY <1>4 DEF GetNotificationSettings
    <2>3. \A f \in Secrets : Kept(h, f, settings) = IF f = "password" THEN p ELSE t
        BY DEF Secrets
    <2> HIDE DEF p, t
    <2>4. put'[h] = [put[h] EXCEPT !.pc = "read", !.password = p, !.token = t] /\ OnlyPut(h)
        BY <2>2 DEF OnlyPut
    <2>5. [put[h] EXCEPT !.pc = "read", !.password = p, !.token = t] \in Putting
        BY <2>1 DEF Putting
    <2>6. put' \in [Savers -> Putting]
        BY <2>2, <2>5
    <2>7. put'[h].pc = "read" /\ put'[h].asked = put[h].asked
          /\ put'[h].password = p /\ put'[h].token = t
        BY <2>4 DEF Putting
    <2> QED
        BY <2>3, <2>4, <2>6, <2>7 DEF Secrets
<1> QED
    BY <1>1, <1>2, <1>3, <1>4

\* The settings a worker loads.
LEMMA MergeType ==
    /\ DOMAIN Merge(settings) = Settings
    /\ \A f \in Settings : Merge(settings)[f] = first(settings[f], Env[f])
BY DEF Merge

Channels == {"email", "slack_dm"}

\* What rules, passes and POSTs rely on are channels.
LEMMA RelyingType ==
    ASSUME TypeInv
    PROVE  Relying \subseteq Channels
<1>1. \A r \in rules \cup UNION {pass[w] : w \in Workers} : r \in Rules
    BY DEF TypeInv, TypeOK
<1>2. \A c \in Creators : create[c].pc = "checked" => create[c].rule \in Rules
    BY DEF TypeInv, CreateOK
<1> QED
    BY <1>1, <1>2, RulesAssumption DEF Relying, Channels

\* Nobody is logged in, and no settings are stored.
LEMMA TypeInit == Init => TypeInv
<1> SUFFICES ASSUME Init PROVE TypeInv
    OBVIOUS
<1>1. LoginTypeOK
    BY LoginAssumption DEF Init, LoginInit, LoginTypeOK
<1>2. put \in [Savers -> Putting]
    BY NoPutType DEF Init, SettingsInit
<1>3. SettingsTypeOK
    BY <1>2 DEF Init, SettingsInit, SettingsTypeOK, Putting, Values
<1>4. create \in [Creators -> Creating] /\ CreateOK
    BY DEF Init, NoCreate, Creating, CreateOK
<1>5. SendShape /\ \A w \in Workers : send[w].pc = "idle" /\ send[w].with = Env
    BY DEF Init, NoSend, SendShape
<1>6. TypeOK
    BY <1>1, <1>3, <1>4, <1>5, SettingsAssumption DEF Init, TypeOK, Creating
<1> QED
    BY <1>4, <1>5, <1>6 DEF TypeInv

\* Logins keep their type; a login that was deleted is not drawn again.
LEMMA SessionType ==
    ASSUME LoginTypeOK, (\E l \in Logins : Login(l) \/ Logout(l)) \/ SessionTick
    PROVE  LoginTypeOK'
<1> DEFINE Row == [drawn: BOOLEAN, row: BOOLEAN, left: 0..SessionTTL]
<1>1. ASSUME NEW l \in Logins, Login(l)
      PROVE  LoginTypeOK'
    <2>1. [drawn |-> TRUE, row |-> TRUE, left |-> SessionTTL] \in Row
        BY LoginAssumption
    <2> QED
        BY <1>1, <2>1 DEF Login, LoginTypeOK
<1>2. ASSUME NEW l \in Logins, Logout(l)
      PROVE  LoginTypeOK'
    <2>1. [session[l] EXCEPT !.row = FALSE] \in Row
        BY DEF LoginTypeOK
    <2> QED
        BY <1>2, <2>1 DEF Logout, LoginTypeOK
<1>3. CASE SessionTick
    <2>1. ASSUME NEW l \in Logins
          PROVE  [session[l] EXCEPT !.left = IF @ > 0 THEN @ - 1 ELSE 0] \in Row
        <3>1. session[l] \in Row /\ session[l].left \in 0..SessionTTL
            BY DEF LoginTypeOK
        <3>2. (IF session[l].left > 0 THEN session[l].left - 1 ELSE 0) \in 0..SessionTTL
            BY <3>1, LoginAssumption
        <3> QED
            BY <3>1, <3>2
    <2>2. session' \in [Logins -> Row]
        BY <1>3, <2>1 DEF SessionTick
    <2> QED
        BY <1>3, <2>2 DEF SessionTick, LoginTypeOK
<1> QED
    BY <1>1, <1>2, <1>3

\* A PUT, up to its save.
LEMMA PutType ==
    ASSUME SettingsTypeOK, NEW h \in Savers,
           \/ \E l \in Logins, asked \in Asked : PutSend(h, l, asked)
           \/ PutAuth(h) \/ GetNotificationSettings(h) \/ PutFails(h)
    PROVE  SettingsTypeOK' /\ OnlyPut(h) /\ UNCHANGED <<settings, wanted, missed>>
<1>1. put \in [Savers -> Putting] /\ settings \in [Settings -> Values]
    BY DEF SettingsTypeOK, Putting
<1>2. UNCHANGED <<settings, wanted, missed>>
    BY DEF PutSend, PutAuth, GetNotificationSettings, PutFails
<1>3. put' \in [Savers -> Putting] /\ OnlyPut(h)
    BY <1>1, PutEffect DEF PutFails
<1> QED
    BY <1>2, <1>3 DEF SettingsTypeOK, Putting

\* What replacing the settings row does.
LEMMA SaveType ==
    ASSUME SettingsTypeOK, NEW h \in Savers, SaveNotificationSettings(h)
    PROVE  /\ SettingsTypeOK' /\ OnlyPut(h) /\ put'[h].pc = "done"
           /\ \A f \in Secrets : settings'[f] = put[h][f]
<1>1. put \in [Savers -> Putting] /\ settings \in [Settings -> Values]
    BY DEF SettingsTypeOK, Putting
<1>2. put' \in [Savers -> Putting] /\ OnlyPut(h) /\ put'[h].pc = "done"
    BY <1>1, PutEffect DEF SaveNotificationSettings
<1>3. settings' \in [Settings -> Values] /\ \A f \in Secrets : settings'[f] = put[h][f]
    BY <1>1, SavedType DEF SaveNotificationSettings
<1>4. wanted' \in [Secrets -> Values] /\ missed' \subseteq Secrets
    BY <1>1, SavedType DEF SaveNotificationSettings, SettingsTypeOK
<1> QED
    BY <1>2, <1>3, <1>4 DEF SettingsTypeOK, Putting

\* A POST of a rule.
LEMMA CreateType ==
    ASSUME TypeInv, NEW c \in Creators,
           \/ \E l \in Logins, rule \in Rules : CreateSend(c, l, rule)
           \/ CreateAuth(c) \/ CheckChannel(c) \/ InsertRule(c) \/ CreateFails(c)
    PROVE  /\ TypeInv' /\ OnlyCreate(c)
           /\ UNCHANGED <<loginVars, settingsVars, workerVars, withdrawn>>
<1>1. create \in [Creators -> Creating] /\ CreateOK
    BY DEF TypeInv, TypeOK, Creating
<1>2. create' \in [Creators -> Creating] /\ CreateOK' /\ OnlyCreate(c)
    <2>1. ASSUME NEW l \in Logins, NEW rule \in Rules, CreateSend(c, l, rule)
          PROVE  create' \in [Creators -> Creating] /\ CreateOK' /\ OnlyCreate(c)
        <3>1. [pc |-> "sent", login |-> l, rule |-> rule] \in Creating
            BY DEF Creating
        <3> QED
            BY <1>1, <2>1, <3>1 DEF CreateSend, CreateOK, OnlyCreate
    <2>2. ASSUME NEW pc \in {"in", "checked"}, create[c].pc \in {"sent", "in"}, CreateGoes(c, pc)
          PROVE  create' \in [Creators -> Creating] /\ CreateOK' /\ OnlyCreate(c)
        <3>1. /\ [create[c] EXCEPT !.pc = pc] \in Creating
              /\ [create[c] EXCEPT !.pc = pc].rule = create[c].rule
            BY <1>1 DEF Creating
        <3> QED
            BY <1>1, <2>2, <3>1 DEF CreateGoes, CreateOK, OnlyCreate
    <2>3. ASSUME CreateEnds(c)
          PROVE  create' \in [Creators -> Creating] /\ CreateOK' /\ OnlyCreate(c)
        <3>1. NoCreate("done") \in Creating /\ NoCreate("done").pc = "done"
            BY DEF NoCreate, Creating
        <3> QED
            BY <1>1, <2>3, <3>1 DEF CreateEnds, CreateOK, OnlyCreate
    <2> QED
        BY <2>1, <2>2, <2>3 DEF CreateAuth, CheckChannel, InsertRule, CreateFails
<1>3. UNCHANGED <<loginVars, settingsVars, workerVars, withdrawn>>
    BY DEF CreateSend, CreateAuth, CheckChannel, InsertRule, CreateFails
<1>4. rules' \subseteq Rules
    BY <1>1 DEF CreateSend, CreateAuth, CheckChannel, InsertRule, CreateFails, TypeInv, TypeOK,
                CreateOK
<1>5. TypeOK'
    BY <1>2, <1>3, <1>4
       DEF TypeInv, TypeOK, Creating, loginVars, settingsVars, workerVars, LoginTypeOK, SettingsTypeOK
<1>6. SendShape'
    BY <1>3 DEF TypeInv, SendShape, workerVars
<1> QED
    BY <1>2, <1>3, <1>5, <1>6 DEF TypeInv

\* A send that moves stays a send.
LEMMA SendKept ==
    ASSUME TypeInv, NEW w \in Workers, NEW x, NEW pc, NEW rule, NEW text, NEW with,
           x = [pc |-> pc, rule |-> rule, text |-> text, with |-> with],
           send' = [send EXCEPT ![w] = x]
    PROVE  SendShape' /\ OnlySend(w) /\ send'[w] = x
<1>1. send'[w] = x /\ OnlySend(w) /\ DOMAIN send' = Workers /\ send' = [v \in Workers |-> send'[v]]
    BY DEF TypeInv, SendShape, OnlySend
<1>2. \A v \in Workers : send'[v] = [pc |-> send'[v].pc, rule |-> send'[v].rule,
                                     text |-> send'[v].text, with |-> send'[v].with]
    <2> TAKE v \in Workers
    <2>1. CASE v = w
        BY <1>1, <2>1
    <2>2. CASE v # w
        BY <1>1, <2>2 DEF OnlySend, TypeInv, SendShape
    <2> QED
        BY <2>1, <2>2
<1> QED
    BY <1>1, <1>2 DEF SendShape

\* What a step of a worker changes that only moves it.
LEMMA SendGoes ==
    ASSUME TypeInv, NEW w \in Workers, NEW pc, send' = [send EXCEPT ![w].pc = pc]
    PROVE  /\ SendShape' /\ OnlySend(w) /\ send'[w].pc = pc
           /\ send'[w].rule = send[w].rule /\ send'[w].with = send[w].with
<1> DEFINE x == [pc |-> pc, rule |-> send[w].rule, text |-> send[w].text, with |-> send[w].with]
<1>1. send[w] = [pc |-> send[w].pc, rule |-> send[w].rule,
                 text |-> send[w].text, with |-> send[w].with]
    BY DEF TypeInv, SendShape
<1>2. [send[w] EXCEPT !.pc = pc] = x
    BY <1>1
<1>3. send' = [send EXCEPT ![w] = x]
    BY <1>2
<1>4. SendShape' /\ OnlySend(w) /\ send'[w] = x
    BY <1>3, SendKept
<1> QED
    BY <1>4

\* The same of a step that renders a rule.
LEMMA SendRenders ==
    ASSUME TypeInv, NEW w \in Workers, NEW pc, NEW rule, NEW text,
           send' = [send EXCEPT ![w].pc = pc, ![w].rule = rule, ![w].text = text]
    PROVE  /\ SendShape' /\ OnlySend(w) /\ send'[w].pc = pc
           /\ send'[w].rule = rule /\ send'[w].with = send[w].with
<1> DEFINE r == send[w]
           x == [pc |-> pc, rule |-> rule, text |-> text, with |-> send[w].with]
           e == [r EXCEPT !.pc = pc]
           f == [e EXCEPT !.rule = rule]
<1>1. r = [pc |-> r.pc, rule |-> r.rule, text |-> r.text, with |-> r.with]
    BY DEF TypeInv, SendShape
<1>2. send' = [send EXCEPT ![w] = [f EXCEPT !.text = text]]
    BY DEF TypeInv, SendShape
<1>3. e = [pc |-> pc, rule |-> r.rule, text |-> r.text, with |-> r.with]
    BY <1>1
<1> HIDE DEF e
<1>4. f = [pc |-> pc, rule |-> rule, text |-> r.text, with |-> r.with]
    BY <1>3
<1> HIDE DEF f
<1>5. [f EXCEPT !.text = text] = x
    BY <1>4
<1>6. send' = [send EXCEPT ![w] = x]
    BY <1>2, <1>5
<1>7. SendShape' /\ OnlySend(w) /\ send'[w] = x
    BY <1>6, SendKept
<1> QED
    BY <1>7

\* The same of a step that loads the settings.
LEMMA SendResolves ==
    ASSUME TypeInv, NEW w \in Workers, NEW pc, NEW with,
           send' = [send EXCEPT ![w].pc = pc, ![w].with = with]
    PROVE  /\ SendShape' /\ OnlySend(w) /\ send'[w].pc = pc
           /\ send'[w].rule = send[w].rule /\ send'[w].with = with
<1> DEFINE r == send[w]
           x == [pc |-> pc, rule |-> send[w].rule, text |-> send[w].text, with |-> with]
           e == [r EXCEPT !.pc = pc]
<1>1. r = [pc |-> r.pc, rule |-> r.rule, text |-> r.text, with |-> r.with]
    BY DEF TypeInv, SendShape
<1>2. send' = [send EXCEPT ![w] = [e EXCEPT !.with = with]]
    BY DEF TypeInv, SendShape
<1>3. e = [pc |-> pc, rule |-> r.rule, text |-> r.text, with |-> r.with]
    BY <1>1
<1> HIDE DEF e
<1>4. [e EXCEPT !.with = with] = x
    BY <1>3
<1>5. send' = [send EXCEPT ![w] = x]
    BY <1>2, <1>4
<1>6. SendShape' /\ OnlySend(w) /\ send'[w] = x
    BY <1>5, SendKept
<1> QED
    BY <1>6

\* What a worker does.
LEMMA WorkerEffect ==
    ASSUME TypeInv, NEW w \in Workers
    PROVE  /\ ListAlertRules(w) => SendShape'
           /\ \A rule \in Rules : Render(w, rule) =>
                /\ SendShape' /\ OnlySend(w) /\ send'[w].pc \in {"error", "rendered"}
                /\ send'[w].rule = rule /\ send'[w].with = send[w].with
           /\ Resolve(w) =>
                /\ SendShape' /\ OnlySend(w) /\ send'[w].pc = "resolved"
                /\ send'[w].rule = send[w].rule /\ send'[w].with = Merge(settings)
           /\ SMTPSend(w) \/ PostDM(w) =>
                /\ SendShape' /\ OnlySend(w)
                /\ send'[w].rule = send[w].rule /\ send'[w].with = send[w].with
                /\ \E f \in {"host", "token"} :
                     /\ send[w].rule.channel = IF f = "host" THEN "email" ELSE "slack_dm"
                     /\ send'[w].pc \in IF send[w].with[f] = Blank THEN {"unset"}
                                        ELSE {"sent", "error"}
           /\ LoadFails(w) =>
                /\ SendShape' /\ OnlySend(w) /\ send'[w].pc = "error"
                /\ send'[w].rule = send[w].rule /\ send'[w].with = send[w].with
<1>1. ListAlertRules(w) => SendShape'
    BY DEF ListAlertRules, TypeInv, SendShape
<1>2. ASSUME NEW rule \in Rules, Render(w, rule)
      PROVE  /\ SendShape' /\ OnlySend(w) /\ send'[w].pc \in {"error", "rendered"}
             /\ send'[w].rule = rule /\ send'[w].with = send[w].with
    <2>1. PICK text : send' = [send EXCEPT
                         ![w].pc = IF text = ErrMissingVar THEN "error" ELSE "rendered",
                         ![w].rule = rule, ![w].text = text]
        BY <1>2 DEF Render
    <2> DEFINE pc == IF text = ErrMissingVar THEN "error" ELSE "rendered"
    <2>2. pc \in {"error", "rendered"}
        OBVIOUS
    <2>3. send' = [send EXCEPT ![w].pc = pc, ![w].rule = rule, ![w].text = text]
        BY <2>1
    <2> HIDE DEF pc
    <2>4. /\ SendShape' /\ OnlySend(w) /\ send'[w].pc = pc
          /\ send'[w].rule = rule /\ send'[w].with = send[w].with
        BY <2>3, SendRenders, Zenon
    <2> QED
        BY <2>2, <2>4
<1>3. ASSUME Resolve(w)
      PROVE  /\ SendShape' /\ OnlySend(w) /\ send'[w].pc = "resolved"
             /\ send'[w].rule = send[w].rule /\ send'[w].with = Merge(settings)
    <2> DEFINE m == Merge(settings)
    <2>1. send' = [send EXCEPT ![w].pc = "resolved", ![w].with = m]
        BY <1>3 DEF Resolve
    <2> HIDE DEF m
    <2>2. /\ SendShape' /\ OnlySend(w) /\ send'[w].pc = "resolved"
          /\ send'[w].rule = send[w].rule /\ send'[w].with = m
        BY <2>1, SendResolves
    <2> QED
        BY <2>2 DEF m
<1>4. ASSUME SMTPSend(w) \/ PostDM(w)
      PROVE  /\ SendShape' /\ OnlySend(w)
             /\ send'[w].rule = send[w].rule /\ send'[w].with = send[w].with
             /\ \E f \in {"host", "token"} :
                  /\ send[w].rule.channel = IF f = "host" THEN "email" ELSE "slack_dm"
                  /\ send'[w].pc \in IF send[w].with[f] = Blank THEN {"unset"}
                                     ELSE {"sent", "error"}
    <2>1. PICK f \in {"host", "token"} :
            /\ send[w].rule.channel = IF f = "host" THEN "email" ELSE "slack_dm"
            /\ \E pc \in IF send[w].with[f] = Blank THEN {"unset"} ELSE {"sent", "error"} :
                 send' = [send EXCEPT ![w].pc = pc]
        BY <1>4 DEF SMTPSend, PostDM, Posts
    <2>2. PICK pc \in IF send[w].with[f] = Blank THEN {"unset"} ELSE {"sent", "error"} :
            send' = [send EXCEPT ![w].pc = pc]
        BY <2>1
    <2>3. /\ SendShape' /\ OnlySend(w) /\ send'[w].pc = pc
          /\ send'[w].rule = send[w].rule /\ send'[w].with = send[w].with
        BY <2>2, SendGoes
    <2> QED
        BY <2>1, <2>2, <2>3
<1>5. ASSUME LoadFails(w)
      PROVE  /\ SendShape' /\ OnlySend(w) /\ send'[w].pc = "error"
             /\ send'[w].rule = send[w].rule /\ send'[w].with = send[w].with
    BY <1>5, SendGoes DEF LoadFails
<1> QED
    BY <1>1, <1>2, <1>3, <1>4, <1>5

\* The steps of a worker keep the types and touch no handler.
LEMMA WorkerType ==
    ASSUME TypeInv, NEW w \in Workers,
           \/ ListAlertRules(w) \/ (\E rule \in Rules : Render(w, rule)) \/ Resolve(w)
           \/ SMTPSend(w) \/ PostDM(w) \/ LoadFails(w)
    PROVE  TypeInv' /\ UNCHANGED <<loginVars, settingsVars, rules, create, withdrawn>>
<1>1. UNCHANGED <<loginVars, settingsVars, rules, create, withdrawn>>
    BY DEF ListAlertRules, Render, Resolve, SMTPSend, PostDM, Posts, LoadFails
<1>2. SendShape'
    BY WorkerEffect
<1>3. CreateOK'
    BY <1>1 DEF TypeInv, CreateOK
<1>4. pass' \in [Workers -> SUBSET Rules] /\ overtaken' \subseteq Workers
    BY DEF ListAlertRules, Render, Resolve, SMTPSend, PostDM, Posts, LoadFails, TypeInv, TypeOK
<1>5. ASSUME NEW v \in Workers
      PROVE  /\ send'[v].pc \in {"idle", "rendered", "resolved", "sent", "error", "unset"}
             /\ send'[v].pc # "idle" => send'[v].rule \in Rules
             /\ DOMAIN send'[v].with = Settings
    <2>1. /\ send[v].pc \in {"idle", "rendered", "resolved", "sent", "error", "unset"}
          /\ send[v].pc # "idle" => send[v].rule \in Rules
          /\ DOMAIN send[v].with = Settings
        BY DEF TypeInv, TypeOK
    <2>2. CASE send'[v] = send[v]
        BY <2>1, <2>2
    <2>3. CASE send'[v] # send[v]
        <3>1. v = w
            BY <2>3, WorkerEffect DEF OnlySend, ListAlertRules
        <3>2. CASE \E rule \in Rules : Render(w, rule)
            BY <2>1, <3>1, <3>2, WorkerEffect
        <3>3. CASE Resolve(w)
            BY <2>1, <3>1, <3>3, WorkerEffect, MergeType DEF Resolve
        <3>4. CASE SMTPSend(w) \/ PostDM(w)
            BY <2>1, <3>1, <3>4, WorkerEffect DEF SMTPSend, PostDM
        <3>5. CASE LoadFails(w)
            BY <2>1, <3>1, <3>5, WorkerEffect DEF LoadFails
        <3> QED
            BY <2>3, <3>2, <3>3, <3>4, <3>5 DEF ListAlertRules
    <2> QED
        BY <2>2, <2>3
<1>6. TypeOK'
    BY <1>1, <1>4, <1>5
       DEF TypeInv, TypeOK, loginVars, settingsVars, LoginTypeOK, SettingsTypeOK
<1> QED
    BY <1>1, <1>2, <1>3, <1>6 DEF TypeInv

\* Each step of a handler or worker, and each tick, keeps the types.
LEMMA TypeStep == TypeInv /\ [Next]_vars => TypeInv'
<1> SUFFICES ASSUME TypeInv, [Next]_vars PROVE TypeInv'
    OBVIOUS
<1>r. ASSUME LoginTypeOK', SettingsTypeOK', rules' \subseteq Rules, UNCHANGED <<create, pass, send>>,
             withdrawn' \subseteq Channels, overtaken' \subseteq Workers
      PROVE  TypeInv'
    BY <1>r DEF TypeInv, TypeOK, SendShape, CreateOK, Channels
<1>t. LoginTypeOK /\ SettingsTypeOK /\ rules \subseteq Rules /\ withdrawn \subseteq Channels
      /\ overtaken \subseteq Workers
    BY DEF TypeInv, TypeOK, Channels
<1>1. CASE Session
    <2>1. LoginTypeOK'
        BY <1>1, <1>t, SessionType DEF Session
    <2>2. SettingsTypeOK'
        BY <1>1, <1>t DEF Session, settingsVars, SettingsTypeOK
    <2> QED
        BY <1>1, <1>r, <1>t, <2>1, <2>2 DEF Session, workerVars
<1>2. ASSUME NEW h \in Savers, Put(h)
      PROVE  TypeInv'
    <2>1. SettingsTypeOK'
        BY <1>2, <1>t, PutType DEF Put
    <2>2. LoginTypeOK'
        BY <1>2, <1>t DEF Put, loginVars, LoginTypeOK
    <2> QED
        BY <1>2, <1>r, <1>t, <2>1, <2>2 DEF Put, workerVars
<1>3. ASSUME NEW h \in Savers, Save(h)
      PROVE  TypeInv'
    <2>1. SettingsTypeOK'
        BY <1>3, <1>t, SaveType DEF Save
    <2>2. LoginTypeOK'
        BY <1>3, <1>t DEF Save, loginVars, LoginTypeOK
    <2>3. withdrawn' \subseteq Channels /\ overtaken' \subseteq Workers
        BY <1>3, <1>t, RelyingType DEF Save
    <2> QED
        BY <1>3, <1>r, <1>t, <2>1, <2>2, <2>3 DEF Save
<1>4. ASSUME NEW rule \in Rules, DeleteAlertRule(rule)
      PROVE  TypeInv'
    <2>1. LoginTypeOK' /\ SettingsTypeOK'
        BY <1>4, <1>t DEF DeleteAlertRule, loginVars, LoginTypeOK, settingsVars, SettingsTypeOK
    <2> QED
        BY <1>4, <1>r, <1>t, <2>1 DEF DeleteAlertRule, workerVars
<1>5. CASE UNCHANGED vars
    <2>1. LoginTypeOK' /\ SettingsTypeOK'
        BY <1>5, <1>t DEF vars, loginVars, LoginTypeOK, settingsVars, SettingsTypeOK
    <2> QED
        BY <1>5, <1>r, <1>t, <2>1 DEF vars
<1> QED
    BY <1>1, <1>2, <1>3, <1>4, <1>5, CreateType, WorkerType DEF Next

\* Every variable keeps its type, whatever handlers, workers and time do.
THEOREM TypesKept == Spec => []TypeOK
<1>1. TypeInv => TypeOK
    BY DEF TypeInv
<1> QED
    BY <1>1, TypeInit, TypeStep, PTL DEF Spec

-----------------------------------------------------------------------------
(* A secret is lost only by saves that overlap *)

\* A PUT that is going to keep an older secret than the one last asked for has
\* been overtaken.
KeepersKnown ==
    \A h \in Savers, f \in Secrets :
        put[h].pc = "read" /\ put[h].asked[f] = "keep" /\ put[h][f] # wanted[f] => f \in missed

SecretInv == TypeInv /\ KeepersKnown /\ SecretLostOnlyByOverlap

\* Nothing is stored and nothing was asked for.
LEMMA SecretInit == Init => SecretInv
<1> SUFFICES ASSUME Init PROVE SecretInv
    OBVIOUS
<1>1. \A h \in Savers : put[h].pc # "read"
    BY DEF Init, SettingsInit, NoPut
<1>2. SecretLostOnlyByOverlap
    BY DEF Init, SettingsInit, SecretLostOnlyByOverlap, Settings
<1> QED
    BY <1>1, <1>2, TypeInit DEF SecretInv, KeepersKnown

\* The steps of a PUT before its save.
LEMMA SecretPut ==
    ASSUME SecretInv, NEW h \in Savers, Put(h)
    PROVE  KeepersKnown' /\ SecretLostOnlyByOverlap'
<1>1. SettingsTypeOK /\ put \in [Savers -> Putting] /\ settings \in [Settings -> Values]
    BY DEF SecretInv, TypeInv, TypeOK, SettingsTypeOK, Putting
<1>2. OnlyPut(h) /\ UNCHANGED <<settings, wanted, missed>>
    BY <1>1, PutType DEF Put
<1>3. SecretLostOnlyByOverlap'
    BY <1>2 DEF SecretInv, SecretLostOnlyByOverlap
<1>4. ASSUME NEW f \in Secrets, put'[h].pc = "read", put'[h].asked[f] = "keep",
             put'[h][f] # wanted[f]
      PROVE  f \in missed
    <2>1. GetNotificationSettings(h)
        BY <1>1, <1>4, PutEffect DEF Put, PutFails
    <2>2. put[h].asked[f] = "keep" /\ put'[h][f] = Kept(h, f, settings)
        BY <1>1, <1>4, <2>1, PutEffect
    <2>3. put'[h][f] = settings[f]
        BY <1>1, <2>2, KeptType
    <2> QED
        BY <1>4, <2>3 DEF SecretInv, SecretLostOnlyByOverlap
<1>5. KeepersKnown'
    <2> SUFFICES ASSUME NEW g \in Savers, NEW f \in Secrets, put'[g].pc = "read",
                        put'[g].asked[f] = "keep", put'[g][f] # wanted'[f]
                 PROVE  f \in missed'
        BY DEF KeepersKnown
    <2>1. CASE g = h
        BY <1>2, <1>4, <2>1
    <2>2. CASE g # h
        BY <1>2, <2>2 DEF OnlyPut, SecretInv, KeepersKnown
    <2> QED
        BY <2>1, <2>2
<1> QED
    BY <1>3, <1>5

\* The save: it replaces what a keeper has read, and says so.
LEMMA SecretSave ==
    ASSUME SecretInv, NEW h \in Savers, SaveNotificationSettings(h)
    PROVE  KeepersKnown' /\ SecretLostOnlyByOverlap'
<1>1. SettingsTypeOK
    BY DEF SecretInv, TypeInv, TypeOK
<1>2. /\ OnlyPut(h) /\ put'[h].pc = "done"
      /\ \A f \in Secrets : settings'[f] = put[h][f]
    BY <1>1, SaveType
<1>3. put[h].pc = "read"
    BY DEF SaveNotificationSettings
<1>4. ASSUME NEW f \in Secrets
      PROVE  IF put[h].asked[f] = "keep"
             THEN wanted'[f] = wanted[f] /\ (f \in missed' <=> f \in missed)
             ELSE wanted'[f] = put[h][f] /\ (f \in missed' <=> Keepers(f) \ {h} # {})
    BY DEF SaveNotificationSettings
<1>5. SecretLostOnlyByOverlap'
    <2> SUFFICES ASSUME NEW f \in Secrets, settings'[f] # wanted'[f]
                 PROVE  f \in missed'
        BY DEF SecretLostOnlyByOverlap
    <2>1. put[h].asked[f] = "keep" /\ put[h][f] # wanted[f]
        BY <1>2, <1>4
    <2>2. f \in missed
        BY <1>3, <2>1 DEF SecretInv, KeepersKnown
    <2> QED
        BY <1>4, <2>1, <2>2
<1>6. KeepersKnown'
    <2> SUFFICES ASSUME NEW g \in Savers, NEW f \in Secrets, put'[g].pc = "read",
                        put'[g].asked[f] = "keep", put'[g][f] # wanted'[f]
                 PROVE  f \in missed'
        BY DEF KeepersKnown
    <2>1. g # h /\ put'[g] = put[g]
        BY <1>2 DEF OnlyPut
    <2>2. CASE put[h].asked[f] = "keep"
        BY <1>4, <2>1, <2>2 DEF SecretInv, KeepersKnown
    <2>3. CASE put[h].asked[f] # "keep"
        <3>1. g \in Keepers(f) \ {h}
            BY <2>1 DEF Keepers
        <3> QED
            BY <1>4, <2>3, <3>1
    <2> QED
        BY <2>2, <2>3
<1> QED
    BY <1>5, <1>6

\* Who keeps a secret has read the row, or is known as a keeper.
LEMMA SecretStep == SecretInv /\ [Next]_vars => SecretInv'
<1> SUFFICES ASSUME SecretInv, [Next]_vars PROVE SecretInv'
    OBVIOUS
<1>1. TypeInv'
    BY TypeStep DEF SecretInv
<1>2. ASSUME NEW h \in Savers, Put(h) \/ Save(h)
      PROVE  SecretInv'
    BY <1>1, <1>2, SecretPut, SecretSave DEF SecretInv, Save
<1>3. CASE UNCHANGED settingsVars
    BY <1>1, <1>3 DEF SecretInv, settingsVars, KeepersKnown, SecretLostOnlyByOverlap
<1> QED
    BY <1>2, <1>3
       DEF Next, Session, CreateSend, CreateAuth, CheckChannel, InsertRule, CreateFails,
           DeleteAlertRule, ListAlertRules, Render, Resolve, SMTPSend, PostDM, Posts, LoadFails, vars

\* putNotificationSettings reads the row and replaces it in two statements
\* (admin_settings.go:55-90).  For any number of PUTs, whatever they ask and
\* however many of them fail: the stored password or token differs from what
\* was last asked for only if a PUT had read the row before the one that asked
\* saved it, and kept what it read.
THEOREM LossNeedsOverlap == Spec => []SecretLostOnlyByOverlap
<1>1. SecretInv => SecretLostOnlyByOverlap
    BY DEF SecretInv
<1> QED
    BY <1>1, SecretInit, SecretStep, PTL DEF Spec

-----------------------------------------------------------------------------
(* A worker posts with the settings in force *)

AppliesInv == TypeInv /\ AppliesOnNextAlert

\* Nobody has loaded.
LEMMA AppliesInit == Init => AppliesInv
<1> SUFFICES ASSUME Init PROVE AppliesInv
    OBVIOUS
<1>1. \A w \in Workers : send[w].pc = "idle"
    BY DEF Init, NoSend
<1> QED
    BY <1>1, TypeInit DEF AppliesInv, AppliesOnNextAlert

\* A save marks the workers it came after.
LEMMA AppliesStep == AppliesInv /\ [Next]_vars => AppliesInv'
<1> SUFFICES ASSUME AppliesInv, [Next]_vars PROVE AppliesInv'
    OBVIOUS
<1>1. TypeInv /\ TypeInv'
    BY TypeStep DEF AppliesInv
<1>2. ASSUME NEW h \in Savers, Save(h)
      PROVE  AppliesInv'
    BY <1>1, <1>2 DEF Save, AppliesInv, AppliesOnNextAlert
<1>3. CASE UNCHANGED <<settings, send, overtaken>>
    BY <1>1, <1>3 DEF AppliesInv, AppliesOnNextAlert, Merge
<1>4. ASSUME NEW w \in Workers, NEW rule \in Rules, Render(w, rule)
      PROVE  AppliesInv'
    <2>1. OnlySend(w) /\ send'[w].pc \in {"error", "rendered"}
        BY <1>1, <1>4, WorkerEffect
    <2> QED
        BY <1>1, <1>4, <2>1
           DEF Render, OnlySend, settingsVars, AppliesInv, AppliesOnNextAlert, Merge
<1>5. ASSUME NEW w \in Workers, Resolve(w)
      PROVE  AppliesInv'
    <2>1. OnlySend(w) /\ send'[w].with = Merge(settings)
        BY <1>1, <1>5, WorkerEffect
    <2> QED
        BY <1>1, <1>5, <2>1
           DEF Resolve, OnlySend, settingsVars, AppliesInv, AppliesOnNextAlert, Merge
<1>6. ASSUME NEW w \in Workers, SMTPSend(w) \/ PostDM(w) \/ LoadFails(w)
      PROVE  AppliesInv'
    <2>1. OnlySend(w) /\ send'[w].pc # "resolved"
        BY <1>1, <1>6, WorkerEffect
    <2> QED
        BY <1>1, <1>6, <2>1
           DEF SMTPSend, PostDM, Posts, LoadFails, OnlySend, settingsVars,
               AppliesInv, AppliesOnNextAlert, Merge
<1>7. ASSUME NEW h \in Savers, Put(h)
      PROVE  UNCHANGED <<settings, send, overtaken>>
    BY <1>7 DEF Put, PutSend, PutAuth, GetNotificationSettings, PutFails, workerVars
<1> QED
    BY <1>2, <1>3, <1>4, <1>5, <1>6, <1>7
       DEF Next, Session, CreateSend, CreateAuth, CheckChannel, InsertRule, CreateFails,
           DeleteAlertRule, ListAlertRules, vars, settingsVars, workerVars

\* ResolvingSender and ResolvingSlack load the settings each time they send
\* (live.go): whatever is saved meanwhile, and however often, a worker posts
\* with the settings in force unless they were saved after it loaded them.
THEOREM SavesApply == Spec => []AppliesOnNextAlert
<1>1. AppliesInv => AppliesOnNextAlert
    BY DEF AppliesInv
<1> QED
    BY <1>1, AppliesInit, AppliesStep, PTL DEF Spec

-----------------------------------------------------------------------------
(* An alert finds its channel switched off only if a save did that *)

\* Whatever rules, POSTs and passes rely on is set up, or a save has withdrawn it.
ReliedOn == \A ch \in Relying : Enabled(Merge(settings), ch) \/ ch \in withdrawn

\* A worker sends a rule of its pass...
SendsListed ==
    \A w \in Workers : send[w].pc \in {"rendered", "resolved"} => send[w].rule \in pass[w]

\* ...with settings that were good for it, or a save has withdrawn the channel.
SendsSetUp ==
    \A w \in Workers : send[w].pc = "resolved" =>
        Enabled(send[w].with, send[w].rule.channel) \/ send[w].rule.channel \in withdrawn

UnsetInv == TypeInv /\ ReliedOn /\ SendsListed /\ SendsSetUp /\ UnsetOnlyWithdrawn

\* Nobody relies on a channel.
LEMMA UnsetInit == Init => UnsetInv
<1> SUFFICES ASSUME Init PROVE UnsetInv
    OBVIOUS
<1>1. \A w \in Workers : send[w].pc = "idle"
    BY DEF Init, NoSend
<1>2. Relying = {}
    BY DEF Init, Relying, NoCreate
<1> QED
    BY <1>1, <1>2, TypeInit DEF UnsetInv, ReliedOn, SendsListed, SendsSetUp, UnsetOnlyWithdrawn

\* The channel of a rule that is in the table, in a pass or past the check.
LEMMA RelyingHas ==
    /\ \A r \in rules : r.channel \in Relying
    /\ \A w \in Workers : \A r \in pass[w] : r.channel \in Relying
    /\ \A c \in Creators : create[c].pc = "checked" => create[c].rule.channel \in Relying
BY DEF Relying

\* Whoever relies on a channel is a rule, a pass or a POST that has checked.
LEMMA RelyingIs ==
    ASSUME NEW ch \in Relying
    PROVE  \/ \E r \in rules : ch = r.channel
           \/ \E w \in Workers : \E r \in pass[w] : ch = r.channel
           \/ \E c \in Creators : create[c].pc = "checked" /\ ch = create[c].rule.channel
BY DEF Relying

\* Nobody relies on a channel that had no reliance, but a POST that has just
\* passed the check.
LEMMA RelyingStep ==
    ASSUME TypeInv, [Next]_vars, NEW ch \in Relying'
    PROVE  ch \in Relying \/ (Enabled(Merge(settings), ch) /\ UNCHANGED <<settings, withdrawn>>)
<1>h. /\ \A r \in rules : r.channel \in Relying
      /\ \A w \in Workers : \A r \in pass[w] : r.channel \in Relying
      /\ \A c \in Creators : create[c].pc = "checked" => create[c].rule.channel \in Relying
    BY RelyingHas
<1>t. create \in [Creators -> Creating] /\ pass \in [Workers -> SUBSET Rules]
    BY DEF TypeInv, TypeOK, Creating
<1>i. \/ \E r \in rules' : ch = r.channel
      \/ \E w \in Workers : \E r \in pass'[w] : ch = r.channel
      \/ \E c \in Creators : create'[c].pc = "checked" /\ ch = create'[c].rule.channel
    BY DEF Relying
<1>1. CASE UNCHANGED <<rules, pass, create>>
    BY <1>1, <1>h, <1>i
<1>2. ASSUME NEW rule \in Rules, DeleteAlertRule(rule)
      PROVE  ch \in Relying
    BY <1>2, <1>h, <1>i DEF DeleteAlertRule, workerVars
<1>3. ASSUME NEW w \in Workers, ListAlertRules(w)
      PROVE  ch \in Relying
    BY <1>3, <1>h, <1>i, <1>t DEF ListAlertRules
<1>4. ASSUME NEW c \in Creators, NEW l \in Logins, NEW rule \in Rules, CreateSend(c, l, rule)
      PROVE  ch \in Relying
    BY <1>4, <1>h, <1>i, <1>t DEF CreateSend, workerVars
<1>5. ASSUME NEW c \in Creators, InsertRule(c) \/ CreateFails(c)
      PROVE  ch \in Relying
    BY <1>5, <1>h, <1>i, <1>t DEF InsertRule, CreateFails, CreateEnds, NoCreate, workerVars
<1>6. ASSUME NEW c \in Creators, NEW pc \in {"in", "checked"}, CreateGoes(c, pc),
             UNCHANGED <<rules, pass>>
      PROVE  ch \in Relying \/ (pc = "checked" /\ ch = create[c].rule.channel)
    BY <1>6, <1>h, <1>i, <1>t DEF CreateGoes, Creating
<1>7. ASSUME NEW c \in Creators, CreateAuth(c)
      PROVE  ch \in Relying
    BY <1>6, <1>7 DEF CreateAuth, workerVars
<1>8. ASSUME NEW c \in Creators, CheckChannel(c)
      PROVE  ch \in Relying \/ (Enabled(Merge(settings), ch) /\ UNCHANGED <<settings, withdrawn>>)
    BY <1>6, <1>8 DEF CheckChannel, workerVars, settingsVars
<1> QED
    BY <1>1, <1>2, <1>3, <1>4, <1>5, <1>7, <1>8
       DEF Next, Session, Put, Save, Render, Resolve, SMTPSend, PostDM, Posts, LoadFails,
           vars, workerVars

\* A channel that was withdrawn stays on record.
LEMMA WithdrawnGrows ==
    ASSUME [Next]_vars
    PROVE  withdrawn \subseteq withdrawn'
BY DEF Next, Session, Put, Save, CreateSend, CreateAuth, CheckChannel, InsertRule, CreateFails,
       DeleteAlertRule, ListAlertRules, Render, Resolve, SMTPSend, PostDM, Posts, LoadFails, vars

\* The settings are replaced by a save only.
LEMMA SettingsKept ==
    ASSUME [Next]_vars, \A h \in Savers : ~ Save(h)
    PROVE  UNCHANGED <<settings, withdrawn>>
<1>1. ASSUME NEW h \in Savers, Put(h)
      PROVE  UNCHANGED <<settings, withdrawn>>
    BY <1>1 DEF Put, PutSend, PutAuth, GetNotificationSettings, PutFails
<1> QED
    BY <1>1
       DEF Next, Session, CreateSend, CreateAuth, CheckChannel, InsertRule, CreateFails,
           DeleteAlertRule, ListAlertRules, Render, Resolve, SMTPSend, PostDM, Posts, LoadFails,
           vars, settingsVars

\* A channel comes to be relied on only while it is set up.
LEMMA ReliedOnStep ==
    ASSUME UnsetInv, [Next]_vars
    PROVE  ReliedOn'
<1> SUFFICES ASSUME NEW ch \in Relying'
             PROVE  Enabled(Merge(settings'), ch) \/ ch \in withdrawn'
    BY DEF ReliedOn, Enabled, Merge
<1>1. ch \in Relying \/ (Enabled(Merge(settings), ch) /\ UNCHANGED <<settings, withdrawn>>)
    BY RelyingStep DEF UnsetInv
<1>2. CASE Enabled(Merge(settings), ch) /\ UNCHANGED <<settings, withdrawn>>
    BY <1>2
<1>3. CASE ch \in Relying
    <2>1. CASE \A h \in Savers : ~ Save(h)
        BY <1>3, <2>1, SettingsKept DEF UnsetInv, ReliedOn
    <2>2. ASSUME NEW h \in Savers, Save(h)
          PROVE  Enabled(Merge(settings'), ch) \/ ch \in withdrawn'
        BY <1>3, <2>2 DEF Save
    <2> QED
        BY <2>1, <2>2
<1> QED
    BY <1>1, <1>2, <1>3

\* A step that is not a worker's leaves passes and sends as they are.
LEMMA WorkersKept ==
    ASSUME [Next]_vars, \A w \in Workers : ~ \/ ListAlertRules(w) \/ Resolve(w) \/ LoadFails(w)
                                             \/ SMTPSend(w) \/ PostDM(w)
                                             \/ \E rule \in Rules : Render(w, rule)
    PROVE  UNCHANGED <<pass, send>>
BY DEF Next, Session, Put, Save, CreateSend, CreateAuth, CheckChannel, InsertRule, CreateFails,
       DeleteAlertRule, vars, workerVars

\* What a worker sends is of the rules it listed.
LEMMA UnsetStep == UnsetInv /\ [Next]_vars => UnsetInv'
<1> SUFFICES ASSUME UnsetInv, [Next]_vars PROVE UnsetInv'
    OBVIOUS
<1>1. TypeInv /\ TypeInv'
    BY TypeStep DEF UnsetInv
<1>2. ReliedOn'
    BY ReliedOnStep
<1>3. withdrawn \subseteq withdrawn'
    BY WithdrawnGrows
<1> DEFINE Good(v) ==
             /\ send'[v].pc \in {"rendered", "resolved"} => send'[v].rule \in pass'[v]
             /\ send'[v].pc = "resolved" => \/ Enabled(send'[v].with, send'[v].rule.channel)
                                            \/ send'[v].rule.channel \in withdrawn'
             /\ send'[v].pc = "unset" => send'[v].rule.channel \in withdrawn'
<1>4. ASSUME NEW v \in Workers, send'[v] = send[v],
             pass'[v] = pass[v] \/ send[v].pc \notin {"rendered", "resolved"}
      PROVE  Good(v)
    BY <1>3, <1>4 DEF UnsetInv, SendsListed, SendsSetUp, UnsetOnlyWithdrawn
<1>5. ASSUME NEW w \in Workers, ListAlertRules(w), NEW v \in Workers
      PROVE  Good(v)
    <2>1. pass'[v] = pass[v] \/ v = w
        BY <1>1, <1>5 DEF ListAlertRules, TypeInv, TypeOK
    <2> QED
        BY <1>4, <1>5, <2>1 DEF ListAlertRules, Quiet
<1>6. ASSUME NEW w \in Workers, OnlySend(w), UNCHANGED pass, Good(w), NEW v \in Workers
      PROVE  Good(v)
    BY <1>4, <1>6 DEF OnlySend
<1>7. ASSUME NEW w \in Workers, NEW rule \in Rules, Render(w, rule)
      PROVE  OnlySend(w) /\ UNCHANGED pass /\ Good(w)
    <2>1. OnlySend(w) /\ send'[w].pc \in {"error", "rendered"} /\ send'[w].rule = rule
        BY <1>1, <1>7, WorkerEffect
    <2> QED
        BY <1>7, <2>1 DEF Render
<1>8. ASSUME NEW w \in Workers, Resolve(w)
      PROVE  OnlySend(w) /\ UNCHANGED pass /\ Good(w)
    <2>1. /\ OnlySend(w) /\ send'[w].pc = "resolved"
          /\ send'[w].rule = send[w].rule /\ send'[w].with = Merge(settings)
        BY <1>1, <1>8, WorkerEffect
    <2>2. send[w].rule \in pass[w]
        BY <1>8 DEF Resolve, UnsetInv, SendsListed
    <2>3. send[w].rule.channel \in Relying
        BY <2>2, RelyingHas
    <2>4. Enabled(Merge(settings), send[w].rule.channel) \/ send[w].rule.channel \in withdrawn
        BY <2>3 DEF UnsetInv, ReliedOn
    <2> QED
        BY <1>3, <1>8, <2>1, <2>2, <2>4 DEF Resolve
<1>9. ASSUME NEW w \in Workers, SMTPSend(w) \/ PostDM(w)
      PROVE  OnlySend(w) /\ UNCHANGED pass /\ Good(w)
    <2>1. PICK f \in {"host", "token"} :
            /\ send[w].rule.channel = IF f = "host" THEN "email" ELSE "slack_dm"
            /\ send'[w].pc \in IF send[w].with[f] = Blank THEN {"unset"} ELSE {"sent", "error"}
        BY <1>1, <1>9, WorkerEffect
    <2>2. OnlySend(w) /\ send'[w].rule = send[w].rule
        BY <1>1, <1>9, WorkerEffect
    <2>3. UNCHANGED pass /\ send[w].pc = "resolved"
        BY <1>9 DEF SMTPSend, PostDM, Posts
    <2>4. \/ Enabled(send[w].with, send[w].rule.channel)
          \/ send[w].rule.channel \in withdrawn
        BY <2>3 DEF UnsetInv, SendsSetUp
    <2>5. send[w].with[f] = Blank => ~ Enabled(send[w].with, send[w].rule.channel)
        BY <2>1 DEF Enabled
    <2> QED
        BY <1>3, <2>1, <2>2, <2>3, <2>4, <2>5
<1>10. ASSUME NEW w \in Workers, LoadFails(w)
       PROVE  OnlySend(w) /\ UNCHANGED pass /\ Good(w)
    BY <1>1, <1>10, WorkerEffect DEF LoadFails
<1> HIDE DEF Good
<1>11. \A v \in Workers : Good(v)
    <2>1. CASE UNCHANGED <<pass, send>>
        BY <1>4, <2>1
    <2> QED
        BY <1>5, <1>6, <1>7, <1>8, <1>9, <1>10, <2>1, WorkersKept
<1> QED
    BY <1>1, <1>2, <1>11 DEF Good, UnsetInv, SendsListed, SendsSetUp, UnsetOnlyWithdrawn

\* createAlertRule checks the channel, and inserts the rule later; a worker
\* lists rules, and loads the settings later (alert_rules.go:114-126).  For any
\* number of them, an alert finds its channel not set up only if a save has
\* switched the channel off while a rule, a POST or a pass relied on it.
THEOREM UnsetNeedsWithdrawal == Spec => []UnsetOnlyWithdrawn
<1>1. UnsetInv => UnsetOnlyWithdrawn
    BY DEF UnsetInv
<1> QED
    BY <1>1, UnsetInit, UnsetStep, PTL DEF Spec

-----------------------------------------------------------------------------
(* Nobody passes auth after the session *)

\* A login that was ended has no row, and its id is not drawn again.
LogoutIsFinal ==
    /\ \A l \in loggedOut : session[l].drawn /\ ~ session[l].row
    /\ \A l \in cookie : session[l].drawn

LoginInv == TypeInv /\ LogoutIsFinal

\* There is no session.
LEMMA LoginStart == Init => LoginInv
<1> SUFFICES ASSUME Init PROVE LoginInv
    OBVIOUS
<1>1. LogoutIsFinal
    BY DEF Init, LoginInit, LogoutIsFinal
<1> QED
    BY <1>1, TypeInit DEF LoginInv

\* Neither a login nor time revives a session that has been deleted.
LEMMA LogoutStep ==
    ASSUME LoginTypeOK, LogoutIsFinal,
           (\E l \in Logins : Login(l) \/ Logout(l)) \/ SessionTick
    PROVE  LogoutIsFinal'
<1>1. ASSUME NEW l \in Logins, Login(l)
      PROVE  LogoutIsFinal'
    BY <1>1 DEF Login, LogoutIsFinal, LoginTypeOK
<1>2. ASSUME NEW l \in Logins, Logout(l)
      PROVE  LogoutIsFinal'
    <2>1. /\ [session[l] EXCEPT !.row = FALSE].drawn = session[l].drawn
          /\ [session[l] EXCEPT !.row = FALSE].row = FALSE
        BY DEF LoginTypeOK
    <2> QED
        BY <1>2, <2>1 DEF Logout, LogoutIsFinal, LoginTypeOK
<1>3. CASE SessionTick
    <2>1. ASSUME NEW l \in Logins
          PROVE  session'[l].drawn = session[l].drawn /\ session'[l].row = session[l].row
        BY <1>3 DEF SessionTick, LoginTypeOK
    <2> QED
        BY <1>3, <2>1 DEF SessionTick, LogoutIsFinal, LoginTypeOK
<1> QED
    BY <1>1, <1>2, <1>3

\* The other handlers change no session.
LEMMA LoginStep == LoginInv /\ [Next]_vars => LoginInv'
<1> SUFFICES ASSUME LoginInv, [Next]_vars PROVE LoginInv'
    OBVIOUS
<1>1. TypeInv' /\ LoginTypeOK
    BY TypeStep DEF LoginInv, TypeInv, TypeOK
<1>2. CASE Session
    BY <1>1, <1>2, LogoutStep DEF Session, LoginInv
<1>3. CASE UNCHANGED loginVars
    BY <1>1, <1>3 DEF LoginInv, loginVars, LogoutIsFinal
<1> QED
    BY <1>2, <1>3
       DEF Next, Put, Save, CreateSend, CreateAuth, CheckChannel, InsertRule, CreateFails,
           DeleteAlertRule, ListAlertRules, Render, Resolve, SMTPSend, PostDM, Posts, LoadFails, vars

\* What a step that lets a handler in has found.
LetIn ==
    /\ \A h \in Savers : put[h].pc = "sent" /\ put'[h].pc = "in" =>
         session[put[h].login].left > 0 /\ put[h].login \notin loggedOut
    /\ \A c \in Creators : create[c].pc = "sent" /\ create'[c].pc = "in" =>
         session[create[c].login].left > 0 /\ create[c].login \notin loggedOut

\* A PUT that gets in has a session at that time.
LEMMA PutLetIn ==
    ASSUME LoginInv, [Next]_vars, NEW h \in Savers, put[h].pc = "sent", put'[h].pc = "in"
    PROVE  GetSession(put[h].login)
<1>1. SettingsTypeOK /\ put \in [Savers -> Putting] /\ settings \in [Settings -> Values]
    BY DEF LoginInv, TypeInv, TypeOK, SettingsTypeOK, Putting
<1>2. put' # put
    OBVIOUS
<1>3. ASSUME NEW g \in Savers, Put(g)
      PROVE  PutAuth(h)
    <2>1. g = h
        BY <1>1, <1>3, PutType DEF Put, OnlyPut
    <2> QED
        BY <1>1, <1>3, <2>1, PutEffect DEF Put, PutFails
<1>4. ASSUME NEW g \in Savers, Save(g)
      PROVE  FALSE
    BY <1>1, <1>4, SaveType DEF Save, OnlyPut
<1>5. \E g \in Savers : Put(g) \/ Save(g)
    BY <1>2
       DEF Next, Session, CreateSend, CreateAuth, CheckChannel, InsertRule, CreateFails,
           DeleteAlertRule, ListAlertRules, Render, Resolve, SMTPSend, PostDM, Posts, LoadFails,
           vars, settingsVars
<1> QED
    BY <1>3, <1>4, <1>5 DEF PutAuth

\* A POST that gets in has a session at that time.
LEMMA CreateLetIn ==
    ASSUME LoginInv, [Next]_vars, NEW c \in Creators, create[c].pc = "sent", create'[c].pc = "in"
    PROVE  GetSession(create[c].login)
<1>1. create \in [Creators -> Creating]
    BY DEF LoginInv, TypeInv, TypeOK, Creating
<1>2. create' # create
    OBVIOUS
<1>3. ASSUME NEW d \in Creators, CreateAuth(d)
      PROVE  d = c
    BY <1>1, <1>3 DEF CreateAuth, CreateGoes
<1>4. ASSUME NEW d \in Creators, CheckChannel(d) \/ InsertRule(d) \/ CreateFails(d)
      PROVE  FALSE
    BY <1>1, <1>4 DEF CheckChannel, InsertRule, CreateFails, CreateGoes, CreateEnds, NoCreate, Creating
<1>5. ASSUME NEW d \in Creators, NEW l \in Logins, NEW rule \in Rules, CreateSend(d, l, rule)
      PROVE  FALSE
    BY <1>1, <1>5 DEF CreateSend
<1>6. \E d \in Creators : CreateAuth(d)
    BY <1>2, <1>4, <1>5
       DEF Next, Session, Put, Save, DeleteAlertRule, ListAlertRules, Render, Resolve, SMTPSend,
           PostDM, Posts, LoadFails, vars
<1> QED
    BY <1>3, <1>6 DEF CreateAuth

\* auth asks for the session at the time it runs (handlers.go:71-90): no PUT
\* and no POST gets past it once the session has expired or a logout has
\* deleted it, however long ago it was sent and whatever others do.
THEOREM AuthIsCurrent == Spec => LetInOnlyLoggedIn
<1>1. ASSUME LoginInv, [Next]_vars
      PROVE  LetIn
    <2>1. \A l : GetSession(l) => session[l].left > 0 /\ l \notin loggedOut
        BY <1>1 DEF GetSession, LoginInv, LogoutIsFinal
    <2> QED
        BY <1>1, <2>1, PutLetIn, CreateLetIn DEF LetIn
<1>2. LoginInv /\ [Next]_vars => [LetIn]_vars
    BY <1>1
<1>3. Spec => [][LetIn]_vars
    BY <1>2, LoginStart, LoginStep, PTL DEF Spec
<1> QED
    BY <1>3, PTL DEF LetInOnlyLoggedIn, LetIn

=============================================================================
