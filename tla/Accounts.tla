------------------------------ MODULE Accounts ------------------------------
(***************************************************************************)
(* Accounts: registration with and without an invitation, the proof of the *)
(* e-mail address, its change by the user or an admin, and deletion.       *)
(*                                                                         *)
(* A handler reads, awaits the database or the mail server, and commits.   *)
(* Names and addresses are kept apart by partial unique indexes over the   *)
(* rows that are not deleted; invitations have no such guard.              *)
(*                                                                         *)
(* A token is its place in mailed, the addresses to which tokens went.     *)
(***************************************************************************)
EXTENDS Integers, Sequences

CONSTANTS
    User,               \* rows of the table users
    Name, Email,        \* usernames and addresses
    Invitation,
    Invitee,            \* invitee_email of each invitation
    VerificationOn,     \* system_settings.email_verification_enabled
    Session,            \* handlers that can be in flight
    MaxToken            \* bound on the tokens that are issued

NoEmail == "no address"
Address == Email \cup {NoEmail}

ASSUME AccountsAssumption ==
    /\ Invitee \in [Invitation -> Email]
    /\ VerificationOn \in BOOLEAN
    /\ MaxToken \in Nat
    /\ NoEmail \notin Email
    /\ User \cap Invitation = {}

VARIABLES
    account,        \* rows of users
    invitation,     \* status of each invitation
    due,            \* the invitations whose expires_at has passed
    mailed,         \* the address each token was mailed to
    session,        \* what each handler in flight has read
    proof,          \* history: the address whose owner, or an admin, vouched for the account
    raced           \* history: rows that handlers in flight together wrote

vars == <<account, invitation, due, mailed, session, proof, raced>>

Account == [row : {"none", "live", "deleted"}, name : SUBSET Name, email : Address,
            verified : BOOLEAN, token : Nat, gift : SUBSET Invitation]

NoRow == [row |-> "none", name |-> {}, email |-> NoEmail, verified |-> FALSE,
          token |-> 0, gift |-> {}]
Idle  == [op |-> "idle", on |-> {}, read |-> NoRow, new |-> NoRow]

Closed == {"ACCEPTED", "EXPIRED", "CANCELED"}
InvitationStatus == Closed \cup {"none", "PENDING", "deleted"}

-----------------------------------------------------------------------------
(* What a query finds *)

Live == {u \in User : account[u].row = "live"}
Rows == {u \in User : account[u].row # "none"}

SameName(a, b)  == a.name = b.name
SameEmail(a, b) == a.email = b.email

\* register compares a missing address like any other (email IS NULL).
Taken(new) == \E u \in Live : SameName(account[u], new) \/ SameEmail(account[u], new)

\* Faulty: only usernames are indexed.
FitsName(u, new) == \A v \in Live \ {u} : ~SameName(account[v], new)

\* uq_users_email_active and uq_users_username_active
Fits(u, new) ==
    \A v \in Live \ {u} : /\ ~SameName(account[v], new)
                          /\ SameEmail(account[v], new) => new.email = NoEmail

-----------------------------------------------------------------------------
(* Handlers in flight *)

Busy == {x \in Session : session[x].op # "idle"}

Begin(x, op, on, read, new) ==
    /\ session[x] = Idle
    /\ session' = [session EXCEPT ![x] = [op |-> op, on |-> on, read |-> read, new |-> new]]
    /\ raced' = raced \cup UNION {on \cap session[y].on : y \in Busy}

Pending(x, op) == session[x].op = op
End(x) == session' = [session EXCEPT ![x] = Idle]

\* What a handler remembers of a row
Seen(u) == [NoRow EXCEPT !.verified = account[u].verified]

\* A token is issued and mailed to an address.
Issue(email) ==
    /\ Len(mailed) < MaxToken
    /\ mailed' = Append(mailed, email)

\* Faulty: tokens are not chosen at random.
SameToken == 1

NextToken == Len(mailed) + 1

-----------------------------------------------------------------------------
(* Invitations *)

Invite(i) ==
    /\ invitation[i] = "none"
    /\ invitation' = [invitation EXCEPT ![i] = "PENDING"]
    /\ UNCHANGED <<account, due, mailed, session, proof, raced>>

Elapse(i) ==
    /\ invitation[i] # "none"
    /\ due' = due \cup {i}
    /\ UNCHANGED <<account, invitation, mailed, session, proof, raced>>

\* register and cancel_invitation note that an invitation has expired.
FindExpired(x, i) ==
    /\ invitation[i] = "PENDING" /\ i \in due
    /\ Begin(x, "EXPIRED", {i}, NoRow, NoRow)
    /\ UNCHANGED <<account, invitation, due, mailed, proof>>

Cancel(x, i) ==
    /\ invitation[i] = "PENDING" /\ i \notin due
    /\ Begin(x, "CANCELED", {i}, NoRow, NoRow)
    /\ UNCHANGED <<account, invitation, due, mailed, proof>>

Close(x) ==
    /\ session[x].op \in {"EXPIRED", "CANCELED"}
    /\ \E i \in session[x].on :
           /\ invitation[i] # "deleted"
           /\ invitation' = [invitation EXCEPT ![i] = session[x].op]
    /\ End(x)
    /\ UNCHANGED <<account, due, mailed, proof, raced>>

\* _delete_invitations_by_ids leaves alone what it read as accepted.
DeleteInvitation(x, i) ==
    /\ invitation[i] \notin {"none", "deleted", "ACCEPTED"}
    /\ Begin(x, "delete", {i}, NoRow, NoRow)
    /\ UNCHANGED <<account, invitation, due, mailed, proof>>

InvitationDeleted(x) ==
    /\ Pending(x, "delete")
    /\ invitation' = [i \in Invitation |-> IF i \in session[x].on THEN "deleted"
                                                                  ELSE invitation[i]]
    /\ End(x)
    /\ UNCHANGED <<account, due, mailed, proof, raced>>

-----------------------------------------------------------------------------
(* Registration *)

\* An address that is given must be the invited one.
Admits(i, email) ==
    /\ invitation[i] = "PENDING" /\ i \notin due
    /\ email \in {Invitee[i], NoEmail}

\* The row's identity is chosen when it is inserted.
NewRow(u) == u \notin Rows /\ \A y \in Busy : u \notin session[y].on

Register(x, u, name, email, gift) ==
    LET new == [NoRow EXCEPT !.row = "live", !.name = {name}, !.email = email,
                             !.verified = ~VerificationOn, !.gift = gift]
    IN  /\ NewRow(u)
        /\ VerificationOn => email # NoEmail
        /\ \A i \in gift : Admits(i, email)
        /\ ~Taken(new)
        /\ Begin(x, "register", {u} \cup gift, NoRow, new)
        /\ UNCHANGED <<account, invitation, due, mailed, proof>>

\* Faulty: the invitation stays as it was.
AcceptLater(x) == UNCHANGED invitation

\* The invitation becomes ACCEPTED whatever happened to it since it was read.
Accept(x) ==
    LET gift == session[x].new.gift
    IN  /\ \A i \in gift : invitation[i] # "deleted"
        /\ invitation' = [i \in Invitation |-> IF i \in gift THEN "ACCEPTED" ELSE invitation[i]]

\* The index refuses a second row at the flush; the mail leaves before the
\* commit, and everything is rolled back if it cannot be sent.
Registered(x) ==
    /\ Pending(x, "register")
    /\ \E u \in session[x].on \cap User :
           /\ Fits(u, session[x].new)
           /\ IF VerificationOn
              THEN /\ Issue(session[x].new.email)
                   /\ account' = [account EXCEPT ![u] = [session[x].new EXCEPT !.token = NextToken]]
              ELSE /\ account' = [account EXCEPT ![u] = session[x].new]
                   /\ UNCHANGED mailed
    /\ Accept(x)
    /\ End(x)
    /\ UNCHANGED <<due, proof, raced>>

\* create_user and bulk_import_users; an admin vouches for the address.
CreateUser(u, name, email) ==
    LET new == [NoRow EXCEPT !.row = "live", !.name = {name}, !.email = email, !.verified = TRUE]
    IN  /\ NewRow(u)
        /\ Fits(u, new)
        /\ account' = [account EXCEPT ![u] = new]
        /\ proof' = [proof EXCEPT ![u] = {email}]
        /\ UNCHANGED <<invitation, due, mailed, session, raced>>

\* delete_user keeps the row, its address and its token.
DeleteUser(u) ==
    /\ u \in Live
    /\ account' = [account EXCEPT ![u].row = "deleted"]
    /\ UNCHANGED <<invitation, due, mailed, session, proof, raced>>

-----------------------------------------------------------------------------
(* The address *)

\* update_me looks for the address in all rows, update_user in live ones.
ChangeEmail(x, u, email, among) ==
    /\ u \in Live
    /\ email # account[u].email
    /\ \A v \in among \ {u} : account[v].email # email
    /\ Begin(x, "change", {u}, Seen(u), [NoRow EXCEPT !.email = email])
    /\ UNCHANGED <<account, invitation, due, mailed, proof>>

\* Faulty: what was verified stays verified.
ResetKept(row, read, token) == [row EXCEPT !.token = token]

\* The unit of work writes email_verified only if it was read as true.
Reset(row, read, token) ==
    [row EXCEPT !.token = token, !.verified = IF read.verified THEN FALSE ELSE @]

\* With verification off, an admin who changes an address vouches for it.
Settle(row, read) ==
    [row EXCEPT !.token = 0, !.verified = IF read.verified THEN @ ELSE TRUE]

EmailChanged(x) ==
    /\ Pending(x, "change")
    /\ \E u \in session[x].on :
           LET row == [account[u] EXCEPT !.email = session[x].new.email]
           IN  /\ Fits(u, row) \/ u \notin Live
               /\ IF VerificationOn
                  THEN /\ Issue(row.email)
                       /\ account' = [account EXCEPT ![u] = Reset(row, session[x].read, NextToken)]
                  ELSE /\ \E new \in {row, Settle(row, session[x].read)} :
                              account' = [account EXCEPT ![u] = new]
                       /\ UNCHANGED mailed
    /\ End(x)
    /\ UNCHANGED <<invitation, due, proof, raced>>

\* verify_email, by who reads the mail; deleted rows are found, too.
Verify(x, u) ==
    /\ account[u].token # 0
    /\ Begin(x, "verify", {u}, [Seen(u) EXCEPT !.token = account[u].token], NoRow)
    /\ UNCHANGED <<account, invitation, due, mailed, proof>>

Verified(x) ==
    /\ Pending(x, "verify")
    /\ \E u \in session[x].on :
           /\ account' = [account EXCEPT ![u].token = 0,
                  ![u].verified = IF session[x].read.verified THEN @ ELSE TRUE]
           /\ proof' = [proof EXCEPT ![u] = {mailed[session[x].read.token]}]
    /\ End(x)
    /\ UNCHANGED <<invitation, due, mailed, raced>>

\* resend_verification; deleted rows are found, too.
Resend(x, u) ==
    /\ VerificationOn
    /\ u \in Rows /\ ~account[u].verified
    /\ Begin(x, "resend", {u}, NoRow, NoRow)
    /\ UNCHANGED <<account, invitation, due, mailed, proof>>

\* The row is read again after the commit, the mail goes to its address.
Resent(x) ==
    /\ Pending(x, "resend")
    /\ \E u \in session[x].on :
           /\ Issue(account[u].email)
           /\ account' = [account EXCEPT ![u].token = NextToken]
    /\ End(x)
    /\ UNCHANGED <<invitation, due, proof, raced>>

\* A conflict, a mail that cannot be sent, a row that was deleted in the
\* meantime or the end of the process: everything is rolled back.
Abort(x) ==
    /\ x \in Busy
    /\ End(x)
    /\ UNCHANGED <<account, invitation, due, mailed, proof, raced>>

-----------------------------------------------------------------------------
Init ==
    /\ account = [u \in User |-> NoRow]
    /\ invitation = [i \in Invitation |-> "none"]
    /\ due = {}
    /\ mailed = <<>>
    /\ session = [x \in Session |-> Idle]
    /\ proof = [u \in User |-> {}]
    /\ raced = {}

Inviting(x) ==
    \/ \E i \in Invitation : FindExpired(x, i) \/ Cancel(x, i) \/ DeleteInvitation(x, i)
    \/ Close(x) \/ InvitationDeleted(x)

Registering(x) ==
    \/ \E u \in User, name \in Name, email \in Address :
           \/ Register(x, u, name, email, {})
           \/ \E i \in Invitation : Register(x, u, name, email, {i})
    \/ Registered(x)

Verifying(x) ==
    \/ \E u \in User : Verify(x, u) \/ Resend(x, u)
    \/ \E u \in User, email \in Email :
           ChangeEmail(x, u, email, Rows) \/ ChangeEmail(x, u, email, Live)
    \/ EmailChanged(x) \/ Verified(x) \/ Resent(x) \/ Abort(x)

Next ==
    \/ \E x \in Session : Inviting(x) \/ Registering(x) \/ Verifying(x)
    \/ \E i \in Invitation : Invite(i) \/ Elapse(i)
    \/ \E u \in User, name \in Name, email \in Address : CreateUser(u, name, email)
    \/ \E u \in User : DeleteUser(u)

Spec == Init /\ [][Next]_vars

-----------------------------------------------------------------------------
(* Properties *)

\* Rows are in range; a token in a row was issued and belongs to one row only.
TypeOK ==
    /\ account \in [User -> Account]
    /\ \A u \in User :
           /\ account[u].token <= Len(mailed)
           /\ \A v \in User \ {u} : account[u].token # 0 => account[v].token # account[u].token
    /\ invitation \in [Invitation -> InvitationStatus]
    /\ due \subseteq Invitation
    /\ mailed \in Seq(Address) /\ Len(mailed) <= MaxToken
    /\ proof \in [User -> SUBSET Address]
    /\ raced \subseteq User \cup Invitation

\* However registrations, changes of address, imports and deletions overlap,
\* no two accounts that can log in share a username or an address (auth.py,
\* users.py, admin_users.py).
LiveAccountsDiffer ==
    \A u, v \in Live : u # v =>
        /\ ~SameName(account[u], account[v])
        /\ SameEmail(account[u], account[v]) => account[u].email = NoEmail

\* Unless registration, cancellation or deletion of an invitation overlap, it
\* is ACCEPTED exactly when an account was endowed with it, and one only.
AcceptedMeansUsedOnce ==
    \A i \in Invitation \ raced :
        LET endowed == {u \in Rows : i \in account[u].gift}
        IN  IF invitation[i] = "ACCEPTED" THEN \E u \in Rows : endowed = {u}
                                          ELSE endowed = {}

\* An account counts as verified for the address that received the token, or
\* that an admin gave, unless handlers that write its row overlap.
VerifiedAddressIsProven ==
    VerificationOn => \A u \in Rows \ raced :
        account[u].verified => proof[u] = {account[u].email}

\* What handler x has read is still true of what no other handler in flight
\* has written: the invitation it accepts is pending, the one it closes was not
\* accepted, the row it changes is as verified and has the address it had.
View(x) ==
    LET v == session[x]
    IN  \/ /\ v.op = "register"
           /\ v.new \in Account /\ v.new.row = "live" /\ v.new.token = 0
           /\ v.new.verified = ~VerificationOn
           /\ \E u \in User \ Rows : /\ v.on = {u} \cup v.new.gift
                                     /\ \A y \in Busy \ {x} : u \notin session[y].on
           /\ \A i \in v.new.gift \ raced : invitation[i] = "PENDING"
        \/ /\ v.op \in {"EXPIRED", "CANCELED", "delete"}
           /\ v.on \subseteq Invitation
           /\ \A i \in v.on \ raced : invitation[i] # "ACCEPTED"
        \/ /\ v.op \in {"change", "verify", "resend"}
           /\ v.on \subseteq Rows /\ v.new.email \in Address
           /\ \A u \in v.on \ raced :
                  v.op # "resend" => v.read.verified = account[u].verified
           /\ v.op = "verify" =>
                  /\ v.read.token \in 1 .. Len(mailed)
                  /\ \A u \in v.on \ raced :
                         VerificationOn => mailed[v.read.token] = account[u].email

\* Handlers in flight know only of each other what raced says.
ViewsHold ==
    /\ session = [x \in Session |-> session[x]]
    /\ \A x \in Busy : View(x)
    /\ \A x, y \in Busy : x # y => session[x].on \cap session[y].on \subseteq raced

\* A token in a row went to the row's address, and what is no row is blank.
TokensReachAddress ==
    \A u \in User :
        /\ VerificationOn /\ account[u].token # 0 => mailed[account[u].token] = account[u].email
        /\ u \notin Rows => account[u].token = 0

\* The inductive invariant.
AccountsInvariant ==
    /\ TypeOK /\ ViewsHold /\ TokensReachAddress
    /\ LiveAccountsDiffer /\ AcceptedMeansUsedOnce /\ VerifiedAddressIsProven

=============================================================================
