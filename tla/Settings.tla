------------------------------ MODULE Settings ------------------------------
(***************************************************************************)
(* The settings page (internal/server/handlers_settings.go, render.go and  *)
(* settings.html): tabs of one browser that load it, click in its table of *)
(* rules and save its notification forms, over the tables AlertConfig and  *)
(* NotificationConfig.                                                     *)
(*                                                                         *)
(* A channel's form has one secret, its input of type password; its other  *)
(* fields are one text.  A secret is the sequence of its characters.  The  *)
(* session, whose end is in Auth.tla, can be replaced by another login.    *)
(***************************************************************************)
EXTENDS Naturals, Sequences

CONSTANTS
  Channels,   \* a sequence: the page reads them in this order
  Tabs,
  Requests,   \* bound: loads and clicks being answered
  Chars,      \* the characters of a secret; none is the mask's
  Secrets,    \* what is typed into a password input
  Texts,      \* what is typed into the others
  MaxRules, MaxTokens, MaxFaults,   \* bounds: rules created, logins, failing queries
  Nil

ASSUME PartsAssumption == Channels \in Seq(STRING \ {"rules"})
ASSUME SecretsAssumption == "*" \notin Chars /\ Secrets \subseteq Seq(Chars) \ {<<>>}
ASSUME SettingsBounds == {MaxRules, MaxTokens, MaxFaults} \subseteq Nat

VARIABLES
  config,   \* NotificationConfig: channel -> row, or Nil
  rules,    \* AlertConfig, by id: "on", "off" or "gone"
  token,    \* CSRF token of the session that the browser's cookie names
  tab,      \* tab -> the page it shows, or Nil
  req,      \* request -> the queries it has still to make and what it has read, or Nil
  faults    \* queries that have failed

vars == <<config, rules, token, tab, req, faults>>

Channel == {Channels[n] : n \in DOMAIN Channels}
Part == {"rules"} \cup Channel
NoToken == 0
NoText == ""

Fault == faults < MaxFaults /\ faults' = faults + 1

-----------------------------------------------------------------------------
(* The page                                                                *)

\* Variant for the mutation runs: the boundary.
MaskFromFour(s) ==
  IF s = <<>> THEN <<>>
  ELSE IF Len(s) >= 4 THEN [i \in DOMAIN s |-> IF i <= Len(s) - 4 THEN "*" ELSE s[i]]
       ELSE <<"*", "*", "*", "*">>

\* maskNotifConfig, of a field that is a secret by its key.
Mask(s) ==
  IF s = <<>> THEN <<>>
  ELSE IF Len(s) > 4 THEN [i \in DOMAIN s |-> IF i <= Len(s) - 4 THEN "*" ELSE s[i]]
       ELSE <<"*", "*", "*", "*">>

\* The inputs of a form; fresh, read by the properties only, is whether they tell the
\* row as it is.
Form(secret, mask, text, enabled, fresh) ==
  [secret |-> secret, mask |-> mask, text |-> text, enabled |-> enabled, fresh |-> fresh]
Unconfigured == Form(<<>>, <<>>, NoText, FALSE, FALSE)

\* Variants for the mutation runs: the mask as a value, and a box never checked.
FormFilled(row) ==
  IF row = Nil THEN Unconfigured
  ELSE Form(Mask(row.secret), <<>>, row.text, row.enabled, TRUE)
FormUnchecked(row) ==
  IF row = Nil THEN Unconfigured
  ELSE Form(<<>>, Mask(row.secret), row.text, FALSE, TRUE)

\* The secret is left empty, its mask the placeholder.
FormOf(row) ==
  IF row = Nil THEN Unconfigured
  ELSE Form(<<>>, Mask(row.secret), row.text, row.enabled, TRUE)

\* What was read replaces what is shown of it.
Over(read, shown) ==
  [p \in DOMAIN read \cup DOMAIN shown |-> IF p \in DOMAIN read THEN read[p] ELSE shown[p]]

\* A request that is to make these queries (held, read by the properties only, is what
\* the rules have been since, rs now).
Asking(t, queries, rs) ==
  [tab |-> t, csrf |-> token, todo |-> queries, read |-> <<>>, held |-> {rs}]

-----------------------------------------------------------------------------
(* Loading                                                                 *)

\* A tab asks for the page, and drops what it was waiting for.
Load(r, t) ==
  /\ req[r] = Nil
  /\ tab' = [tab EXCEPT ![t] = Nil]
  /\ UNCHANGED <<config, rules, token, faults>>
  /\ req' = [q \in Requests |->
               IF q = r THEN Asking(t, <<"rules">> \o Channels, rules)
               ELSE IF req[q] # Nil /\ req[q].tab = t THEN Nil ELSE req[q]]

\* handleSettings and renderRulesTable go on without what they could not read.
Read(r) ==
  /\ req[r] # Nil
  /\ req[r].todo # <<>>
  /\ LET q == Head(req[r].todo)
         Got(shown, held) ==
           req' = [req EXCEPT ![r] =
                     [tab |-> @.tab, csrf |-> @.csrf, todo |-> Tail(@.todo),
                      read |-> Over([p \in {q} |-> shown], @.read), held |-> @.held \cup held]]
     IN \/ /\ IF q = "rules" THEN Got(rules, {}) ELSE Got(FormOf(config[q]), {})
           /\ UNCHANGED faults
        \/ /\ IF q = "rules" THEN Got(<<>>, {<<>>}) ELSE Got(Unconfigured, {})
           /\ Fault
  /\ UNCHANGED <<config, rules, token, tab>>

\* render reads the session again, for the token of the forms.
ShowPage(r) ==
  /\ req[r] # Nil
  /\ req[r].todo = <<>>
  /\ tab[req[r].tab] = Nil
  /\ \E csrf \in {req[r].csrf, NoToken} :
       /\ IF csrf = NoToken THEN Fault ELSE UNCHANGED faults
       /\ tab' = [tab EXCEPT ![req[r].tab] = [csrf |-> csrf, part |-> req[r].read]]
  /\ req' = [req EXCEPT ![r] = Nil]
  /\ UNCHANGED <<config, rules, token>>

\* The table of an answer replaces the one of the page.
ShowTable(r) ==
  /\ req[r] # Nil
  /\ req[r].todo = <<>>
  /\ tab[req[r].tab] # Nil
  /\ tab' = [tab EXCEPT ![req[r].tab].part = Over(req[r].read, @)]
  /\ req' = [req EXCEPT ![r] = Nil]
  /\ UNCHANGED <<config, rules, token, faults>>

SignIn ==
  /\ token < MaxTokens
  /\ token' = token + 1
  /\ UNCHANGED <<config, rules, tab, req, faults>>

-----------------------------------------------------------------------------
(* Clicks and saves                                                        *)

\* validateCSRF: anything else is refused, and changes nothing.
Accepted(t) == tab[t] # Nil /\ tab[t].csrf = token

Free(r) == r \in {Nil} \cup {q \in Requests : req[q] = Nil}

\* Over a write, of rs or of a channel.
Held(rs) ==
  [q \in Requests |-> IF req[q] = Nil THEN Nil ELSE [req[q] EXCEPT !.held = @ \cup {rs}]]
Stale(parts, c) == IF c \in DOMAIN parts THEN [parts EXCEPT ![c].fresh = FALSE] ELSE parts

\* Variant for the mutation runs: the table is read before the write.
ClickListed(r, t, rs) ==
  /\ rules' = rs
  /\ req' = [q \in Requests |->
               IF q = r THEN [Asking(t, <<>>, rs) EXCEPT !.read = [p \in {"rules"} |-> rules]]
               ELSE Held(rs)[q]]
  /\ UNCHANGED <<config, token, tab, faults>>

\* The rules are written, and renderRulesTable is next.  An answer of which no
\* request is left is lost: the tab was closed, or moved on.
Click(r, t, rs) ==
  /\ rules' = rs
  /\ req' = [q \in Requests |->
               IF q = r THEN Asking(t, <<"rules">>, rs) ELSE Held(rs)[q]]
  /\ UNCHANGED <<config, token, tab, faults>>

\* A form with a threshold, a metric, an operator and a severity that pass.
Create(r, t) ==
  /\ Free(r)
  /\ Accepted(t)
  /\ Len(rules) < MaxRules
  /\ Click(r, t, Append(rules, "on"))

Flipped(e) == CASE e = "on" -> "off" [] e = "off" -> "on" [] OTHER -> e

\* ToggleAlertConfig flips the column, whatever the tab shows of it.
Toggle(r, t, i) ==
  /\ Free(r)
  /\ Accepted(t)
  /\ i \in DOMAIN tab[t].part["rules"]
  /\ tab[t].part["rules"][i] # "gone"
  /\ Click(r, t, [rules EXCEPT ![i] = Flipped(@)])

Delete(r, t, i) ==
  /\ Free(r)
  /\ Accepted(t)
  /\ i \in DOMAIN tab[t].part["rules"]
  /\ tab[t].part["rules"][i] # "gone"
  /\ Click(r, t, [rules EXCEPT ![i] = "gone"])

\* handleNotificationSave stores every input of the form, the empty ones too; the tab
\* keeps its inputs.
Save(t, c, secret, text, enabled) ==
  /\ Accepted(t)
  /\ config' = [config EXCEPT ![c] = [secret |-> secret, text |-> text, enabled |-> enabled]]
  /\ tab' = [u \in Tabs |->
               IF tab[u] = Nil THEN Nil
               ELSE IF u # t THEN [tab[u] EXCEPT !.part = Stale(@, c)]
               ELSE [tab[u] EXCEPT !.part[c] = Form(secret, @.mask, text, enabled, TRUE)]]
  /\ req' = [q \in Requests |->
               IF req[q] = Nil THEN Nil ELSE [req[q] EXCEPT !.read = Stale(@, c)]]
  /\ UNCHANGED <<rules, token, faults>>

\* The secret and the text are typed or left, the box is clicked or left.
Edit(t, c) ==
  LET form == tab[t].part[c]
  IN \E secret \in Secrets \cup {<<>>, form.secret}, text \in Texts \cup {form.text},
        enabled \in BOOLEAN : Save(t, c, secret, text, enabled)

\* A write that fails is answered with an error, which htmx does not show.
WriteFails(t) ==
  /\ Accepted(t)
  /\ Fault
  /\ UNCHANGED <<config, rules, token, tab, req>>

-----------------------------------------------------------------------------
(* Specification                                                           *)

\* Nothing is configured, and the rules there were have been deleted.
Init ==
  /\ config = [c \in Channel |-> Nil]
  /\ rules = <<>>
  /\ token = 1
  /\ tab = [t \in Tabs |-> Nil]
  /\ req = [r \in Requests |-> Nil]
  /\ faults = 0

Next ==
  \/ SignIn
  \/ \E r \in Requests : Read(r) \/ ShowPage(r) \/ ShowTable(r)
  \/ \E r \in Requests, t \in Tabs : Load(r, t)
  \/ \E r \in Requests \cup {Nil}, t \in Tabs :
       \/ Create(r, t)
       \/ \E i \in DOMAIN rules : Toggle(r, t, i) \/ Delete(r, t, i)
  \/ \E t \in Tabs : WriteFails(t)
  \/ \E t \in Tabs, c \in Channel : Accepted(t) /\ Edit(t, c)

Spec == Init /\ [][Next]_vars

-----------------------------------------------------------------------------
(* Properties                                                              *)

Texted == Texts \cup {NoText}
Row == [secret : Seq(Chars), text : Texted, enabled : BOOLEAN]
Inputs == [secret : Seq(Chars), mask : Seq(Chars \cup {"*"}), text : Texted, enabled : BOOLEAN,
           fresh : BOOLEAN]
Table == Seq({"on", "off", "gone"})

\* What is shown of some parts of the page.
Shown(parts) ==
  {f \in [parts -> Table \cup Inputs] :
     \A p \in parts : f[p] \in IF p = "rules" THEN Table ELSE Inputs}
Page == [csrf : Nat, part : Shown(Part)]
Answer == [tab : Tabs, csrf : Nat, todo : Seq(Part), held : SUBSET Table,
           read : UNION {Shown(parts) : parts \in SUBSET Part}]

ASSUME NilAssumption == Nil \notin Page \cup Answer

\* The type of every variable.
TypeOK ==
  /\ config \in [Channel -> {Nil} \cup Row]
  /\ rules \in Table
  /\ token \in Nat
  /\ tab \in [Tabs -> {Nil} \cup Page]
  /\ req \in [Requests -> {Nil} \cup Answer]
  /\ faults \in Nat

\* handlers_settings.go:47-73, 189-203, settings.html:75, 115: what is stored was typed, and
\* never the mask that the page shows in its place, however often the form is loaded
\* and saved.
MaskNeverStored ==
  \A c \in Channel : config[c] # Nil => config[c].secret \in Secrets \cup {<<>>}

\* handlers_settings.go:61-66, US0009-alert-configuration-ui.md:82: no page shows a secret, of
\* whatever length.
SecretsStayMasked ==
  \A t \in Tabs : tab[t] # Nil =>
    \A c \in Channel : tab[t].part[c].mask \notin Secrets

\* handlers_settings.go:28-45, 176-213: a save whose inputs nobody touched, of a form that
\* tells the row as it still is, changes nothing but the secret, which is what its
\* input holds, nothing included.
Untouched(t, c) ==
  LET form == tab[t].part[c] IN Save(t, c, form.secret, form.text, form.enabled)
Current(t, c) == tab[t] # Nil /\ tab[t].part[c].fresh
FreshSavesKeepTheRest ==
  [][\A t \in Tabs, c \in Channel :
       Current(t, c) /\ Untouched(t, c) =>
         config' = [config EXCEPT ![c].secret = tab[t].part[c].secret]]_vars

\* handlers_settings.go:75-173, 220-239: a table that answers a click, or comes with a
\* page, is what the rules were at some moment since, that click included, and
\* empty if its query failed.
TablesTellTheirClick ==
  \A r \in Requests : req[r] # Nil /\ "rules" \in DOMAIN req[r].read =>
    req[r].read["rules"] \in req[r].held
=============================================================================
