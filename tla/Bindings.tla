------------------------------ MODULE Bindings ------------------------------
(***************************************************************************)
(* Telegram and Google accounts bound to users, through which users log    *)
(* in, and the notification preferences that go with a Telegram binding.   *)
(*                                                                         *)
(* A binding is a row that is active until it is unbound; partial unique   *)
(* indexes cover the active rows.  Handlers look for active rows, await,   *)
(* and write what they changed of the row they found.  An inactive row is  *)
(* never looked at again, so the model has no other rows than active ones; *)
(* an identity is not used again while a handler remembers it.             *)
(***************************************************************************)

CONSTANTS
    User,
    Telegram, Google,   \* accounts at the two providers
    Row,                \* identities of bindings
    Session             \* handlers that can be in flight

External == Telegram \cup Google

ASSUME BindingsAssumption == Telegram \cap Google = {}

Status == {"ACTIVE", "ABNORMAL", "BANNED", "DELETED"}

VARIABLES
    status,         \* users.status, DELETED also for deleted_at
    binding,        \* active rows of both tables
    preferences,    \* users with a row of telegram_notification_preferences
    session,        \* what each handler in flight has read
    raced           \* history: users two handlers in flight acted for

vars == <<status, binding, preferences, session, raced>>

Inactive == [user |-> {}, account |-> {}]
Idle == [op |-> "idle", user |-> {}, account |-> {}, row |-> {}, read |-> Inactive]

-----------------------------------------------------------------------------
(* What a query finds *)

Active == {b \in Row : binding[b] # Inactive}
Provider(e) == IF e \in Telegram THEN Telegram ELSE Google

ByAccount(e)   == {b \in Active : binding[b].account = {e}}
ByUser(u, e)   == {b \in Active : binding[b].user = {u} /\ binding[b].account \subseteq Provider(e)}
IsOf(R, u)     == \A b \in R : binding[b].user = {u}

\* get_current_user refuses these two; bindings are for active users only.
MayAct(u)   == status[u] \notin {"BANNED", "DELETED"}
MayLogIn(u) == status[u] = "ACTIVE"

Found(R) == IF R = {} THEN Inactive ELSE binding[CHOOSE b \in R : TRUE]

-----------------------------------------------------------------------------
(* Handlers in flight *)

Busy == {x \in Session : session[x].op # "idle"}

Begin(x, op, u, account, R) ==
    /\ session[x] = Idle
    /\ session' = [session EXCEPT ![x] = [op |-> op, user |-> {u}, account |-> account,
                                          row |-> R, read |-> Found(R)]]
    /\ raced' = raced \cup UNION {{u} \cap session[y].user : y \in Busy}
    /\ UNCHANGED <<status, binding, preferences>>

End(x) ==
    /\ session' = [session EXCEPT ![x] = Idle]
    /\ UNCHANGED <<status, raced>>

\* Faulty: every column of a row is sent with an update.
AlwaysWritten(loaded, new, row) == new

\* The unit of work sends a column only if the session changed it.
Written(loaded, new, row) == IF new = loaded THEN row ELSE new

\* Faulty: the account is cleared and not set again.
UpdatedBlank(b, read, account) ==
    IF Written(TRUE, TRUE, b \in Active)
    THEN [user    |-> read.user,
          account |-> Written(read.account, {}, binding[b].account)]
    ELSE Inactive

\* The row after a handler has set is_active and the account of what it read
Updated(b, read, account) ==
    IF Written(TRUE, TRUE, b \in Active)
    THEN [user    |-> read.user,
          account |-> Written(read.account, account, binding[b].account)]
    ELSE Inactive

\* Faulty: only the account is indexed.
FitsAccount(b, new) ==
    \A c \in Active \ {b} : binding[c].account # new.account

\* The two partial unique indexes of each table
Fits(b, new) ==
    \A c \in Active \ {b} :
        /\ binding[c].account # new.account
        /\ binding[c].user = new.user =>
               \A e \in new.account : binding[c].account \cap Provider(e) = {}

-----------------------------------------------------------------------------
(* Binding *)

\* bind_google_account moves the user's own binding to another account.
BindGoogle(x, u, e) ==
    /\ e \in Google /\ MayAct(u) /\ MayLogIn(u)
    /\ IsOf(ByAccount(e), u)
    /\ Begin(x, "bind", u, {e}, ByUser(u, e))

\* bind_telegram_user, with username and password
BindTelegram(x, u, e) ==
    /\ e \in Telegram /\ MayLogIn(u)
    /\ ByAccount(e) = {} /\ ByUser(u, e) = {}
    /\ Begin(x, "bind", u, {e}, {})

\* bind_telegram_widget_for_current_user accepts the binding that is there.
BindWidget(x, u, e) ==
    /\ e \in Telegram /\ MayAct(u)
    /\ IsOf(ByAccount(e), u)
    /\ ByUser(u, e) \subseteq ByAccount(e)
    /\ Begin(x, "bind", u, {e}, ByUser(u, e))

\* get_or_create_notification_preferences
Prefer(U, e) == preferences' = IF e \subseteq Telegram THEN preferences \cup U ELSE preferences

\* A conflict with an index ends the handler without effect (Abort).
Bound(x) ==
    LET v == session[x]
        target == IF v.row = {} THEN {b \in Row \ Active : \A y \in Busy : b \notin session[y].row}
                                ELSE v.row
        new(b) == IF v.row = {} THEN [user |-> v.user, account |-> v.account]
                                ELSE Updated(b, v.read, v.account)
    IN  /\ v.op = "bind"
        /\ \E b \in target :
               /\ new(b) # Inactive => Fits(b, new(b))
               /\ binding' = [binding EXCEPT ![b] = new(b)]
        /\ Prefer(v.user, v.account)
        /\ End(x)

-----------------------------------------------------------------------------
(* Unbinding *)

\* unbind_google_account needs a binding, unbind_telegram_user does not.
Unbind(x, u, e) ==
    /\ MayAct(u)
    /\ ByUser(u, e) # {} \/ e \in Telegram
    /\ Begin(x, "unbind", u, Provider(e), ByUser(u, e))

\* delete_user_telegram_binding by an admin
UnbindByAdmin(x, u, e) ==
    /\ status[u] # "DELETED" /\ e \in Telegram
    /\ ByUser(u, e) # {}
    /\ Begin(x, "unbind", u, Telegram, ByUser(u, e))

\* Faulty: the preferences stay.
ForgetNothing(U, account) == UNCHANGED preferences

Forget(U, account) ==
    preferences' = IF account \subseteq Telegram THEN preferences \ U ELSE preferences

Unbound(x) ==
    /\ session[x].op = "unbind"
    /\ binding' = [b \in Row |-> IF b \in session[x].row THEN Inactive ELSE binding[b]]
    /\ Forget(session[x].user, session[x].account)
    /\ End(x)

-----------------------------------------------------------------------------
(* Use of a binding *)

\* auth_with_google, auth_with_telegram, auth_telegram_webapp and
\* auth_with_telegram_widget set the columns of the binding to what they are.
Auth(x, u, e) ==
    /\ ByAccount(e) # {} /\ IsOf(ByAccount(e), u)
    /\ MayLogIn(u)
    /\ Begin(x, "auth", u, {e}, ByAccount(e))

Authenticated(x) ==
    /\ session[x].op = "auth"
    /\ binding' = [b \in Row |-> IF b \in session[x].row
                       THEN Updated(b, session[x].read, session[x].account) ELSE binding[b]]
    /\ UNCHANGED preferences
    /\ End(x)

\* The preferences are shown or changed, or a notification is created: all
\* need a Telegram binding and create the preferences if there are none.
Use(x, u, e) ==
    /\ e \in Telegram
    /\ ByUser(u, e) # {}
    /\ Begin(x, "use", u, {e}, ByUser(u, e))

Used(x) ==
    /\ session[x].op = "use"
    /\ Prefer(session[x].user, session[x].account)
    /\ UNCHANGED binding
    /\ End(x)

\* A check fails, an index refuses the row, or the process ends.
Abort(x) ==
    /\ x \in Busy
    /\ UNCHANGED <<binding, preferences>>
    /\ End(x)

-----------------------------------------------------------------------------
(* The admin *)

\* update_user_status; a deleted row keeps deleted_at.
SetStatus(u, new) ==
    /\ status[u] # "DELETED" /\ new # status[u]
    /\ status' = [status EXCEPT ![u] = new]
    /\ UNCHANGED <<binding, preferences, session, raced>>

-----------------------------------------------------------------------------
Init ==
    /\ status = [u \in User |-> "ACTIVE"]
    /\ binding = [b \in Row |-> Inactive]
    /\ preferences = {}
    /\ session = [x \in Session |-> Idle]
    /\ raced = {}

Start(x) ==
    \E u \in User, e \in External :
        \/ BindGoogle(x, u, e) \/ BindTelegram(x, u, e) \/ BindWidget(x, u, e)
        \/ Unbind(x, u, e) \/ UnbindByAdmin(x, u, e)
        \/ Auth(x, u, e) \/ Use(x, u, e)

Finish(x) == Bound(x) \/ Unbound(x) \/ Authenticated(x) \/ Used(x) \/ Abort(x)

Next ==
    \/ \E x \in Session : Start(x) \/ Finish(x)
    \/ \E u \in User, new \in Status : SetStatus(u, new)

Spec == Init /\ [][Next]_vars

-----------------------------------------------------------------------------
(* Properties *)

\* Columns and views are in range; a row that is bound names one user and one
\* account.
TypeOK ==
    /\ status \in [User -> Status]
    /\ \A b \in Active : \E u \in User, e \in External :
           binding[b] = [user |-> {u}, account |-> {e}]
    /\ binding \in [Row -> [user : SUBSET User, account : SUBSET External]]
    /\ preferences \subseteq User /\ raced \subseteq User
    /\ \A x \in Busy : session[x].user \subseteq User /\ session[x].row \subseteq Row

\* However handlers overlap, an account at a provider belongs to one user and
\* a user has one account at a provider (bind and auth of google.py and
\* telegram.py, which expect one row).
OneToOne ==
    \A b, c \in Active : b # c =>
        /\ binding[b].account # binding[c].account
        /\ binding[b].user = binding[c].user =>
               \A e \in binding[b].account : binding[c].account \cap Provider(e) = {}

\* A login neither revives a binding that was removed while it ran nor moves
\* one back to the account it had (auth_with_google sets all its columns).
LoginChangesNoBinding ==
    [][\A x \in Session : session[x].op = "auth" /\ session'[x] = Idle => binding' = binding]_vars

\* Only who is bound has preferences, unless handlers for the user overlap.
PreferencesFollowBinding ==
    \A u \in preferences \ raced : \E b \in Active :
        binding[b].user = {u} /\ binding[b].account \subseteq Telegram

-----------------------------------------------------------------------------
(* What makes these hold from step to step *)

SessionState ==
    [op : {"idle", "bind", "unbind", "auth", "use"}, user : SUBSET User,
     account : SUBSET External, row : SUBSET Row,
     read : [user : SUBSET User, account : SUBSET External]]

\* What handler x remembers, acting for u with e, is still true as far as it
\* matters: the rows it found are u's at e's provider or are gone, and they are
\* gone only if another handler was in flight for u.
Remembers(x, u, e) ==
    LET v == session[x]
    IN  /\ v.user = {u}
        /\ v.account = {e} \/ (v.op = "unbind" /\ v.account = Provider(e))
        /\ v.row # {} => v.read.user = {u}
        /\ \A b \in v.row \cap Active :
               binding[b].user = {u} /\ binding[b].account \subseteq Provider(e)
        /\ u \in raced \/ v.row \subseteq Active
        /\ v.op = "auth" => v.row # {} /\ v.read.account = {e}
        /\ v.op = "use"  => v.row # {} /\ e \in Telegram

\* Every handler remembers rightly, and those for one user know they overlap.
Remembered ==
    /\ session \in [Session -> SessionState]
    /\ \A x \in Busy : \E u \in User, e \in External : Remembers(x, u, e)
    /\ \A x, y \in Busy : x # y => session[x].user \cap session[y].user \subseteq raced

\* The inductive invariant.
BindingsInvariant ==
    TypeOK /\ OneToOne /\ PreferencesFollowBinding /\ Remembered

=============================================================================
