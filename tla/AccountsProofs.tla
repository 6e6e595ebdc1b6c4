--------------------------- MODULE AccountsProofs ---------------------------
(***************************************************************************)
(* Accounts, for any users, names, addresses and invitations and any       *)
(* number of handlers in flight: live accounts differ, an invitation is    *)
(* used once, and a verified address is proven.                            *)
(***************************************************************************)
EXTENDS Accounts, TLAPS

LEMMA RowFacts ==
    /\ NoRow \in Account /\ NoRow.row = "none" /\ NoRow.token = 0 /\ NoRow.gift = {}
    /\ NoRow.email = NoEmail /\ NoRow.name = {} /\ ~ NoRow.verified
BY DEF NoRow, Account, Address

LEMMA InitAccounts == Init => AccountsInvariant
<1> SUFFICES ASSUME Init PROVE AccountsInvariant
    OBVIOUS
<1>1. Rows = {} /\ Live = {} /\ Busy = {}
    BY RowFacts DEF Init, Rows, Live, Busy, Idle
<1>2. TypeOK
    BY RowFacts, AccountsAssumption DEF Init, TypeOK, InvitationStatus, Closed
<1>3. ViewsHold
    BY <1>1 DEF Init, ViewsHold
<1>4. TokensReachAddress
    BY RowFacts DEF Init, TokensReachAddress
<1>5. LiveAccountsDiffer /\ VerifiedAddressIsProven
    BY <1>1 DEF LiveAccountsDiffer, VerifiedAddressIsProven
<1>6. AcceptedMeansUsedOnce
    BY <1>1 DEF Init, AcceptedMeansUsedOnce
<1> QED BY <1>2, <1>3, <1>4, <1>5, <1>6 DEF AccountsInvariant

-----------------------------------------------------------------------------
(* What handlers in flight have read.                                      *)

(***************************************************************************)
(* What a step may do to a user's row without a handler in flight, y,      *)
(* being wrong about it: nothing, or nothing that y has read, unless it    *)
(* does not concern y or y knows that handlers overlap.                    *)
(***************************************************************************)
RowStill(u, y) ==
    \/ account'[u] = account[u]
    \/ u \notin session[y].on
    \/ /\ u \in Rows /\ u \in Rows'
       /\ \/ u \in raced
          \/ /\ account'[u].verified = account[u].verified
             /\ account'[u].email = account[u].email

InvitationStill(i, y) ==
    \/ invitation'[i] = invitation[i]
    \/ i \notin session[y].on
    \/ i \in raced
    \/ invitation[i] = "none" /\ invitation'[i] = "PENDING"

MailedKept ==
    /\ Len(mailed) \in Nat /\ Len(mailed') \in Nat
    /\ Len(mailed) <= Len(mailed')
    /\ \A k \in 1 .. Len(mailed) : mailed'[k] = mailed[k]

LEMMA ViewKept ==
    ASSUME AccountsInvariant, NEW y \in Busy, session'[y] = session[y],
           raced \subseteq raced', MailedKept,
           \A u \in User : RowStill(u, y), \A i \in Invitation : InvitationStill(i, y),
           \A z \in Busy' \ {y} :
               \/ z \in Busy /\ session'[z] = session[z]
               \/ \A u \in session[y].on \cap User : u \in Rows \/ u \notin session'[z].on
    PROVE  View(y)'
<1> DEFINE v == session[y]
<1>1. View(y)
    BY DEF AccountsInvariant, ViewsHold
<1>2. CASE v.op = "register"
    <2>1. /\ v.new \in Account /\ v.new.row = "live" /\ v.new.token = 0
          /\ v.new.verified = ~VerificationOn
          /\ \A i \in v.new.gift \ raced : invitation[i] = "PENDING"
        BY <1>1, <1>2 DEF View
    <2>2. PICK u \in User \ Rows : /\ v.on = {u} \cup v.new.gift
                                   /\ \A z \in Busy \ {y} : u \notin session[z].on
        BY <1>1, <1>2 DEF View
    <2>3. u \notin Rows'
        BY <2>2 DEF RowStill, Rows
    <2>4. \A z \in Busy' \ {y} : u \notin session'[z].on
        BY <2>2
    <2>5. \A i \in v.new.gift \ raced' : invitation'[i] = "PENDING"
        <3> SUFFICES ASSUME NEW i \in v.new.gift \ raced' PROVE invitation'[i] = "PENDING"
            OBVIOUS
        <3>1. i \in Invitation /\ i \in v.on /\ invitation[i] = "PENDING"
            BY <2>1, <2>2 DEF Account
        <3> QED BY <3>1 DEF InvitationStill
    <2> QED BY <1>2, <2>1, <2>2, <2>3, <2>4, <2>5 DEF View
<1>3. CASE v.op \in {"EXPIRED", "CANCELED", "delete"}
    <2>1. v.on \subseteq Invitation /\ \A i \in v.on \ raced : invitation[i] # "ACCEPTED"
        BY <1>1, <1>3 DEF View
    <2>2. \A i \in v.on \ raced' : invitation'[i] # "ACCEPTED"
        BY <2>1 DEF InvitationStill
    <2> QED BY <1>3, <2>1, <2>2 DEF View
<1>4. CASE v.op \in {"change", "verify", "resend"}
    <2>1. /\ v.on \subseteq Rows /\ v.new.email \in Address
          /\ \A u \in v.on \ raced :
                 v.op # "resend" => v.read.verified = account[u].verified
          /\ v.op = "verify" =>
                 /\ v.read.token \in 1 .. Len(mailed)
                 /\ \A u \in v.on \ raced :
                        VerificationOn => mailed[v.read.token] = account[u].email
        BY <1>1, <1>4 DEF View
    <2>2. \A u \in v.on : u \in User /\ u \in Rows'
        BY <2>1 DEF RowStill, Rows
    <2>3. \A u \in v.on \ raced' : /\ account'[u].verified = account[u].verified
                                   /\ account'[u].email = account[u].email
        BY <2>2 DEF RowStill
    <2>4. v.op = "verify" => /\ v.read.token \in 1 .. Len(mailed')
                             /\ mailed'[v.read.token] = mailed[v.read.token]
        BY <2>1 DEF MailedKept
    <2>5. v.op = "verify" =>
              \A u \in v.on \ raced' : VerificationOn => mailed'[v.read.token] = account'[u].email
        BY <2>1, <2>3, <2>4
    <2>6. \A u \in v.on \ raced' : v.op # "resend" => v.read.verified = account'[u].verified
        BY <2>1, <2>3
    <2>7. v.op = "verify" => v.read.token \in 1 .. Len(mailed')
        BY <2>4
    <2>8. v.on \subseteq Rows'
        BY <2>2
    <2> QED BY <1>4, <2>1, <2>5, <2>6, <2>7, <2>8 DEF View
<1> QED BY <1>1, <1>2, <1>3, <1>4 DEF View

-----------------------------------------------------------------------------
(* What handlers in flight have read, by the way their number changes.     *)

LEMMA BusyFacts ==
    /\ Idle.op = "idle"
    /\ \A x \in Busy : x \in Session /\ session[x].op # "idle"
    /\ \A x \in Session : session[x].op # "idle" => x \in Busy
BY DEF Idle, Busy

\* Nobody begins or ends.
LEMMA OthersStill ==
    ASSUME AccountsInvariant, session' = session, raced' = raced, MailedKept,
           \A y \in Busy, u \in User : RowStill(u, y),
           \A y \in Busy, i \in Invitation : InvitationStill(i, y)
    PROVE  ViewsHold'
<1>1. Busy' = Busy
    BY DEF Busy
<1>2. \A y \in Busy : View(y)'
    <2> SUFFICES ASSUME NEW y \in Busy PROVE View(y)'
        OBVIOUS
    <2>1. \A z \in Busy' \ {y} : z \in Busy /\ session'[z] = session[z]
        BY <1>1
    <2> QED BY <2>1, ViewKept
<1> QED BY <1>1, <1>2 DEF AccountsInvariant, ViewsHold

\* x begins: it has read what it works on, and no row that is being inserted.
LEMMA BeginKeeps ==
    ASSUME AccountsInvariant, NEW x \in Session, NEW op, NEW on, NEW read, NEW new,
           Begin(x, op, on, read, new), op # "idle",
           account' = account, invitation' = invitation, mailed' = mailed,
           on \subseteq User \cup Invitation,
           \A u \in on \cap User : u \in Rows \/ NewRow(u),
           View(x)'
    PROVE  ViewsHold' /\ raced \subseteq raced' /\ raced' \subseteq User \cup Invitation
<1>1. /\ session = [y \in Session |-> session[y]] /\ raced \subseteq User \cup Invitation
      /\ \A y, z \in Busy : y # z => session[y].on \cap session[z].on \subseteq raced
    BY DEF AccountsInvariant, TypeOK, ViewsHold
<1>2. /\ session' = [y \in Session |-> session'[y]]
      /\ session'[x].op = op /\ session'[x].on = on
      /\ \A y \in Session \ {x} : session'[y] = session[y]
    BY <1>1 DEF Begin
<1>3. x \notin Busy /\ Busy' = Busy \cup {x}
    BY <1>2, BusyFacts DEF Begin, Busy
<1>4. /\ raced \subseteq raced' /\ raced' \subseteq User \cup Invitation
      /\ \A y \in Busy : on \cap session[y].on \subseteq raced'
    BY <1>1 DEF Begin
<1>5. MailedKept
    BY DEF MailedKept, AccountsInvariant, TypeOK
<1>6. \A y \in Busy : View(y)'
    <2> SUFFICES ASSUME NEW y \in Busy PROVE View(y)'
        OBVIOUS
    <2>1. session'[y] = session[y]
        BY <1>2, <1>3, BusyFacts
    <2>2. /\ \A u \in User : RowStill(u, y)
          /\ \A i \in Invitation : InvitationStill(i, y)
        BY DEF RowStill, InvitationStill
    <2>3. \A u \in session[y].on \cap User : u \in Rows \/ u \notin on
        BY DEF NewRow
    <2>4. \A z \in Busy' \ {y} : \/ z \in Busy /\ session'[z] = session[z]
                                 \/ \A u \in session[y].on \cap User : u \in Rows \/ u \notin session'[z].on
        BY <1>2, <1>3, <2>3, BusyFacts
    <2> QED BY <1>4, <1>5, <2>1, <2>2, <2>4, ViewKept
<1>7. \A y, z \in Busy' : y # z => session'[y].on \cap session'[z].on \subseteq raced'
    BY <1>1, <1>2, <1>3, <1>4, BusyFacts
<1> QED BY <1>2, <1>3, <1>4, <1>6, <1>7 DEF ViewsHold

\* x ends: what it wrote, others in flight do not know or know to be raced.
LEMMA EndKeeps ==
    ASSUME AccountsInvariant, NEW x \in Busy, End(x), raced' = raced, MailedKept,
           \A u \in User : \/ account'[u] = account[u]
                           \/ u \in session[x].on /\ u \in Rows /\ u \in Rows'
                           \/ \A y \in Busy \ {x} : u \notin session[y].on,
           \A i \in Invitation : invitation'[i] = invitation[i] \/ i \in session[x].on
    PROVE  ViewsHold'
<1>1. /\ session = [y \in Session |-> session[y]]
      /\ \A y, z \in Busy : y # z => session[y].on \cap session[z].on \subseteq raced
    BY DEF AccountsInvariant, ViewsHold
<1>2. /\ session' = [y \in Session |-> session'[y]] /\ session'[x] = Idle
      /\ \A y \in Session \ {x} : session'[y] = session[y]
    BY <1>1, BusyFacts DEF End
<1>3. Busy' = Busy \ {x}
    BY <1>2, BusyFacts DEF Busy
<1>4. \A y \in Busy \ {x} : View(y)'
    <2> SUFFICES ASSUME NEW y \in Busy \ {x} PROVE View(y)'
        OBVIOUS
    <2>1. session[x].on \cap session[y].on \subseteq raced
        BY <1>1
    <2>2. \A u \in User : RowStill(u, y)
        BY <2>1 DEF RowStill
    <2>3. \A i \in Invitation : InvitationStill(i, y)
        BY <2>1 DEF InvitationStill
    <2>4. \A z \in Busy' \ {y} : z \in Busy /\ session'[z] = session[z]
        BY <1>2, <1>3, BusyFacts
    <2>5. session'[y] = session[y]
        BY <1>2, BusyFacts
    <2> QED BY <2>2, <2>3, <2>4, <2>5, ViewKept
<1>5. \A y, z \in Busy' : y # z => session'[y].on \cap session'[z].on \subseteq raced
    BY <1>1, <1>2, <1>3, BusyFacts
<1> QED BY <1>2, <1>3, <1>4, <1>5 DEF ViewsHold

-----------------------------------------------------------------------------
(* The rows.                                                               *)

\* The part of TypeOK and the invariants that speak of rows alone.
RowsAreRight ==
    /\ account \in [User -> Account]
    /\ \A u \in User :
           /\ account[u].token <= Len(mailed)
           /\ \A v \in User \ {u} : account[u].token # 0 => account[v].token # account[u].token
    /\ TokensReachAddress /\ LiveAccountsDiffer

LEMMA RowsUntouched ==
    ASSUME AccountsInvariant, account' = account, mailed' = mailed
    PROVE  RowsAreRight'
BY DEF AccountsInvariant, TypeOK, RowsAreRight, TokensReachAddress, LiveAccountsDiffer,
       Live, Rows

\* A token was mailed to email, or none was.
LEMMA MailFacts ==
    ASSUME AccountsInvariant, NEW email \in Address, mailed' = mailed \/ Issue(email)
    PROVE  /\ MailedKept /\ mailed' \in Seq(Address)
           /\ Len(mailed') \in Nat /\ Len(mailed') <= MaxToken
           /\ Issue(email) => /\ Len(mailed') = Len(mailed) + 1
                              /\ mailed'[NextToken] = email
<1>1. mailed \in Seq(Address) /\ Len(mailed) \in Nat /\ Len(mailed) <= MaxToken /\ MaxToken \in Nat
    BY AccountsAssumption DEF AccountsInvariant, TypeOK
<1>2. CASE mailed' = mailed /\ ~ Issue(email)
    BY <1>1, <1>2 DEF MailedKept
<1>3. CASE Issue(email)
    <2>1. Len(mailed) + 1 <= MaxToken
        BY <1>1, <1>3 DEF Issue
    <2>2. mailed' = Append(mailed, email)
        BY <1>3 DEF Issue
    <2>3. mailed' \in Seq(Address) /\ Len(mailed') = Len(mailed) + 1
        BY <1>1, <2>2
    <2>4. mailed'[Len(mailed) + 1] = email /\ \A k \in 1 .. Len(mailed) : mailed'[k] = mailed[k]
        BY <1>1, <2>2
    <2> QED BY <1>1, <2>1, <2>3, <2>4 DEF MailedKept, NextToken
<1> QED BY <1>2, <1>3

\* One row is written: it fits, and its token is none, the one it had for the
\* address it had (if addresses are verified), or the one just mailed to its address.
LEMMA RowWritten ==
    ASSUME AccountsInvariant, NEW u \in User, NEW row \in Account,
           account' = [account EXCEPT ![u] = row],
           row.row # "none",
           row.row = "live" => Fits(u, row),
           mailed' = mailed \/ Issue(row.email),
           \/ row.token = 0
           \/ row.token = account[u].token /\ (VerificationOn => row.email = account[u].email)
           \/ row.token = NextToken /\ Issue(row.email)
    PROVE  RowsAreRight'
<1>1. /\ account \in [User -> Account]
      /\ \A v \in User :
             /\ account[v].token \in Nat /\ account[v].token <= Len(mailed)
             /\ \A w \in User \ {v} : account[v].token # 0 => account[w].token # account[v].token
      /\ Len(mailed) \in Nat
    BY DEF AccountsInvariant, TypeOK, Account
<1>2. /\ account'[u] = row /\ account' \in [User -> Account]
      /\ \A v \in User \ {u} : account'[v] = account[v]
    BY <1>1
<1>3. row.token \in Nat /\ row.email \in Address
    BY DEF Account
<1>4. /\ MailedKept /\ Len(mailed') \in Nat
      /\ Issue(row.email) => Len(mailed') = Len(mailed) + 1 /\ mailed'[NextToken] = row.email
    BY <1>3, MailFacts
<1>5. /\ row.token <= Len(mailed')
      /\ \A v \in User \ {u} : row.token # 0 => account[v].token # row.token
    <2>1. CASE row.token = 0
        BY <1>4, <2>1
    <2>2. CASE row.token = account[u].token
        BY <1>1, <1>4, <2>2 DEF MailedKept
    <2>3. CASE row.token = NextToken /\ Issue(row.email)
        BY <1>1, <1>4, <2>3 DEF NextToken
    <2> QED BY <2>1, <2>2, <2>3
<1>6. \A v \in User :
          /\ account'[v].token <= Len(mailed')
          /\ \A w \in User \ {v} : account'[v].token # 0 => account'[w].token # account'[v].token
    <2>1. \A v \in User \ {u} : account'[v].token <= Len(mailed')
        BY <1>1, <1>2, <1>4 DEF MailedKept
    <2>2. \A v, w \in User : v # w /\ account'[v].token # 0 => account'[w].token # account'[v].token
        BY <1>1, <1>2, <1>5
    <2> QED BY <1>2, <1>5, <2>1, <2>2
<1>7. TokensReachAddress'
    <2> SUFFICES ASSUME NEW v \in User
                 PROVE  /\ VerificationOn /\ account'[v].token # 0
                               => mailed'[account'[v].token] = account'[v].email
                        /\ v \notin Rows' => account'[v].token = 0
        BY DEF TokensReachAddress
    <2>1. CASE v # u
        <3>1. account'[v] = account[v]
            BY <1>2, <2>1
        <3>2. account[v].token # 0 => account[v].token \in 1 .. Len(mailed)
            BY <1>1
        <3> QED BY <3>1, <3>2, <1>4 DEF AccountsInvariant, TokensReachAddress, MailedKept, Rows
    <2>2. CASE v = u
        <3>1. account'[v] = row /\ v \in Rows'
            BY <1>2, <2>2 DEF Rows
        <3>2. CASE row.token = 0
            BY <3>1, <3>2
        <3>3. CASE /\ row.token = account[u].token /\ row.token # 0
                   /\ VerificationOn => row.email = account[u].email
            <4>1. row.token \in 1 .. Len(mailed)
                BY <1>1, <3>3
            <4> QED BY <4>1, <3>1, <3>3, <1>4 DEF AccountsInvariant, TokensReachAddress, MailedKept
        <3>4. CASE row.token = NextToken /\ Issue(row.email)
            BY <3>1, <3>4, <1>4
        <3> QED BY <3>2, <3>3, <3>4
    <2> QED BY <2>1, <2>2
<1>8. LiveAccountsDiffer'
    <2> SUFFICES ASSUME NEW v \in Live', NEW w \in Live', v # w
                 PROVE  /\ ~SameName(account'[v], account'[w])
                        /\ SameEmail(account'[v], account'[w]) => account'[v].email = NoEmail
        BY DEF LiveAccountsDiffer, SameName, SameEmail
    <2>1. \A y \in Live' \ {u} : y \in Live /\ account'[y] = account[y]
        BY <1>2 DEF Live
    <2>2. CASE v # u /\ w # u
        BY <2>1, <2>2 DEF AccountsInvariant, LiveAccountsDiffer
    <2>3. CASE v = u
        <3>1. w \in Live \ {u} /\ row.row = "live" /\ account'[v] = row /\ account'[w] = account[w]
            BY <1>2, <2>1, <2>3 DEF Live
        <3> QED BY <3>1 DEF Fits, SameName, SameEmail
    <2>4. CASE w = u
        <3>1. v \in Live \ {u} /\ row.row = "live" /\ account'[w] = row /\ account'[v] = account[v]
            BY <1>2, <2>1, <2>4 DEF Live
        <3> QED BY <3>1 DEF Fits, SameName, SameEmail
    <2> QED BY <2>2, <2>3, <2>4
<1> QED BY <1>2, <1>6, <1>7, <1>8 DEF RowsAreRight

\* A live row fits among the others as it is.
LEMMA FitsAsItIs ==
    ASSUME AccountsInvariant, NEW u \in Live, NEW row,
           SameName(row, account[u]), SameEmail(row, account[u])
    PROVE  Fits(u, row)
BY DEF AccountsInvariant, LiveAccountsDiffer, Fits, SameName, SameEmail

-----------------------------------------------------------------------------
(* Gifts and proofs.                                                       *)

\* Endowments and acceptances stay, but for what is raced.
LEMMA GiftsKept ==
    ASSUME AccountsInvariant, raced \subseteq raced',
           \A u \in User : \A i \in Invitation :
               u \in Rows' /\ i \in account'[u].gift <=> u \in Rows /\ i \in account[u].gift,
           \A i \in Invitation \ raced' : invitation'[i] = "ACCEPTED" <=> invitation[i] = "ACCEPTED"
    PROVE  AcceptedMeansUsedOnce'
<1> SUFFICES ASSUME NEW i \in Invitation \ raced'
             PROVE  IF invitation'[i] = "ACCEPTED"
                    THEN \E u \in Rows' : {v \in Rows' : i \in account'[v].gift} = {u}
                    ELSE {v \in Rows' : i \in account'[v].gift} = {}
    BY DEF AcceptedMeansUsedOnce
<1>1. {v \in Rows' : i \in account'[v].gift} = {v \in Rows : i \in account[v].gift}
    BY DEF Rows
<1>2. IF invitation[i] = "ACCEPTED"
      THEN \E u \in Rows : {v \in Rows : i \in account[v].gift} = {u}
      ELSE {v \in Rows : i \in account[v].gift} = {}
    BY DEF AccountsInvariant, AcceptedMeansUsedOnce
<1>3. \A u \in Rows : i \in account[u].gift => u \in Rows'
    BY DEF Rows
<1> QED BY <1>1, <1>2, <1>3

\* Each row is as proven as it was, or is proven now, or is raced.
LEMMA ProofsKept ==
    ASSUME AccountsInvariant, raced \subseteq raced',
           \A u \in User :
               \/ account'[u] = account[u] /\ proof'[u] = proof[u]
               \/ /\ u \in Rows /\ proof'[u] = proof[u]
                  /\ account'[u].verified = account[u].verified
                  /\ account'[u].email = account[u].email
               \/ u \in raced'
               \/ VerificationOn /\ account'[u].verified => proof'[u] = {account'[u].email}
    PROVE  VerifiedAddressIsProven'
BY DEF AccountsInvariant, VerifiedAddressIsProven, Rows

-----------------------------------------------------------------------------
(* Steps that only read.                                                   *)

RestInRange ==
    /\ invitation \in [Invitation -> InvitationStatus] /\ due \subseteq Invitation
    /\ mailed \in Seq(Address) /\ Len(mailed) <= MaxToken
    /\ proof \in [User -> SUBSET Address] /\ raced \subseteq User \cup Invitation

LEMMA Parts ==
    AccountsInvariant <=> /\ RowsAreRight /\ RestInRange /\ ViewsHold
                          /\ AcceptedMeansUsedOnce /\ VerifiedAddressIsProven
BY DEF AccountsInvariant, TypeOK, RowsAreRight, RestInRange

LEMMA NextParts ==
    ASSUME RowsAreRight', RestInRange', ViewsHold', AcceptedMeansUsedOnce', VerifiedAddressIsProven'
    PROVE  AccountsInvariant'
BY DEF AccountsInvariant, TypeOK, RowsAreRight, RestInRange

LEMMA ReadingKeeps ==
    ASSUME AccountsInvariant, NEW x \in Session, NEW op, NEW on, NEW read, NEW new,
           Begin(x, op, on, read, new), op # "idle",
           UNCHANGED <<account, invitation, due, mailed, proof>>,
           on \subseteq User \cup Invitation,
           \A u \in on \cap User : u \in Rows \/ NewRow(u),
           View(x)'
    PROVE  AccountsInvariant'
<1>1. ViewsHold' /\ raced \subseteq raced' /\ raced' \subseteq User \cup Invitation
    BY BeginKeeps
<1>2. RowsAreRight'
    BY RowsUntouched
<1>3. RestInRange'
    BY <1>1, Parts DEF RestInRange
<1>4. AcceptedMeansUsedOnce'
    BY <1>1, GiftsKept DEF Rows
<1>5. VerifiedAddressIsProven'
    BY <1>1, ProofsKept
<1> QED BY <1>1, <1>2, <1>3, <1>4, <1>5, NextParts

LEMMA BeginFacts ==
    ASSUME AccountsInvariant, NEW x \in Session, NEW op, NEW on, NEW read, NEW new,
           Begin(x, op, on, read, new)
    PROVE  /\ session'[x].op = op /\ session'[x].on = on
           /\ session'[x].read = read /\ session'[x].new = new
           /\ \A y \in Busy' \ {x} : y \in Busy /\ session'[y] = session[y]
           /\ raced \subseteq raced'
<1>1. session = [y \in Session |-> session[y]]
    BY DEF AccountsInvariant, ViewsHold
<1>2. /\ session'[x] = [op |-> op, on |-> on, read |-> read, new |-> new]
      /\ \A y \in Session \ {x} : session'[y] = session[y]
    BY <1>1 DEF Begin
<1> QED BY <1>2 DEF Begin, Busy

LEMMA ReadingAnInvitationKeeps ==
    ASSUME AccountsInvariant, NEW x \in Session, NEW i \in Invitation,
           FindExpired(x, i) \/ Cancel(x, i) \/ DeleteInvitation(x, i)
    PROVE  AccountsInvariant'
<1>1. PICK op \in {"EXPIRED", "CANCELED", "delete"} : Begin(x, op, {i}, NoRow, NoRow)
    BY DEF FindExpired, Cancel, DeleteInvitation
<1>2. /\ UNCHANGED <<account, invitation, due, mailed, proof>>
      /\ invitation[i] # "ACCEPTED"
    BY DEF FindExpired, Cancel, DeleteInvitation
<1>3. View(x)'
    BY <1>1, <1>2, BeginFacts DEF View
<1>4. i \notin User
    BY AccountsAssumption
<1> QED BY <1>1, <1>2, <1>3, <1>4, ReadingKeeps

LEMMA RegisterKeeps ==
    ASSUME AccountsInvariant, NEW x \in Session, NEW u \in User, NEW name \in Name,
           NEW email \in Address, NEW gift \in SUBSET Invitation,
           Register(x, u, name, email, gift)
    PROVE  AccountsInvariant'
<1> DEFINE new == [NoRow EXCEPT !.row = "live", !.name = {name}, !.email = email,
                                !.verified = ~VerificationOn, !.gift = gift]
<1>1. /\ NewRow(u) /\ Begin(x, "register", {u} \cup gift, NoRow, new)
      /\ \A i \in gift : invitation[i] = "PENDING"
      /\ UNCHANGED <<account, invitation, due, mailed, proof>>
    BY DEF Register, Admits
<1>2. /\ new \in Account /\ new.row = "live" /\ new.token = 0
      /\ new.verified = ~VerificationOn /\ new.gift = gift
    BY AccountsAssumption DEF NoRow, Account
<1> HIDE DEF new
<1>3. /\ session'[x].op = "register" /\ session'[x].on = {u} \cup gift /\ session'[x].new = new
      /\ \A y \in Busy' \ {x} : y \in Busy /\ session'[y] = session[y]
    BY <1>1, BeginFacts
<1>4. u \in User \ Rows' /\ \A y \in Busy' \ {x} : u \notin session'[y].on
    BY <1>1, <1>3 DEF NewRow, Rows
<1>5. View(x)'
    BY <1>1, <1>2, <1>3, <1>4 DEF View
<1>6. \A v \in ({u} \cup gift) \cap User : NewRow(v)
    BY <1>1, AccountsAssumption
<1> QED BY <1>1, <1>5, <1>6, ReadingKeeps

LEMMA SeenVerified == \A u \in User : Seen(u).verified = account[u].verified
BY DEF Seen, NoRow

LEMMA ChangeEmailKeeps ==
    ASSUME AccountsInvariant, NEW x \in Session, NEW u \in User, NEW email \in Email, NEW among,
           ChangeEmail(x, u, email, among)
    PROVE  AccountsInvariant'
<1> DEFINE new == [NoRow EXCEPT !.email = email]
<1>1. /\ u \in Live /\ Begin(x, "change", {u}, Seen(u), new)
      /\ UNCHANGED <<account, invitation, due, mailed, proof>>
    BY DEF ChangeEmail
<1>2. u \in Rows /\ u \in Rows'
    BY <1>1 DEF Live, Rows
<1>3. new.email \in Address
    BY DEF NoRow, Address
<1> HIDE DEF new
<1>4. /\ session'[x].op = "change" /\ session'[x].on = {u}
      /\ session'[x].read = Seen(u) /\ session'[x].new = new
    BY <1>1, BeginFacts
<1>5. session'[x].read.verified = account'[u].verified
    BY <1>1, <1>4, SeenVerified
<1>6. View(x)'
    BY <1>2, <1>3, <1>4, <1>5 DEF View
<1> QED BY <1>1, <1>2, <1>6, ReadingKeeps

LEMMA VerifyKeeps ==
    ASSUME AccountsInvariant, NEW x \in Session, NEW u \in User, Verify(x, u)
    PROVE  AccountsInvariant'
<1> DEFINE read == [Seen(u) EXCEPT !.token = account[u].token]
<1>1. /\ account[u].token # 0 /\ Begin(x, "verify", {u}, read, NoRow)
      /\ UNCHANGED <<account, invitation, due, mailed, proof>>
    BY DEF Verify
<1>2. read.token = account[u].token /\ read.verified = account[u].verified
    BY DEF Seen, NoRow
<1> HIDE DEF read
<1>3. /\ account[u].token \in 1 .. Len(mailed)
      /\ VerificationOn => mailed[account[u].token] = account[u].email
      /\ u \in Rows
    BY <1>1 DEF AccountsInvariant, TypeOK, TokensReachAddress, Account
<1>4. u \in Rows'
    BY <1>1, <1>3 DEF Rows
<1>5. View(x)'
    BY <1>1, <1>2, <1>3, <1>4, RowFacts, BeginFacts DEF View, Address
<1> QED BY <1>1, <1>3, <1>5, ReadingKeeps

LEMMA ResendKeeps ==
    ASSUME AccountsInvariant, NEW x \in Session, NEW u \in User, Resend(x, u)
    PROVE  AccountsInvariant'
<1>1. /\ u \in Rows /\ Begin(x, "resend", {u}, NoRow, NoRow)
      /\ UNCHANGED <<account, invitation, due, mailed, proof>>
    BY DEF Resend
<1>2. u \in Rows'
    BY <1>1 DEF Rows
<1>3. View(x)'
    BY <1>1, <1>2, RowFacts, BeginFacts DEF View, Address
<1> QED BY <1>1, <1>3, ReadingKeeps

-----------------------------------------------------------------------------
(* Steps of the invitations.                                               *)

LEMMA InvitingKeeps ==
    ASSUME AccountsInvariant, NEW i \in Invitation, Invite(i) \/ Elapse(i)
    PROVE  AccountsInvariant'
<1>1. /\ UNCHANGED <<account, mailed, session, proof, raced>>
      /\ due' \subseteq Invitation
      /\ invitation' \in [Invitation -> InvitationStatus]
      /\ \A j \in Invitation :
             \/ invitation'[j] = invitation[j]
             \/ invitation[j] = "none" /\ invitation'[j] = "PENDING"
    BY DEF Invite, Elapse, AccountsInvariant, TypeOK, InvitationStatus
<1>2. MailedKept
    BY <1>1 DEF MailedKept, AccountsInvariant, TypeOK
<1>3. RowsAreRight'
    BY <1>1, RowsUntouched
<1>4. RestInRange'
    BY <1>1, Parts DEF RestInRange
<1>5. ViewsHold'
    BY <1>1, <1>2, OthersStill DEF RowStill, InvitationStill
<1>6. AcceptedMeansUsedOnce'
    BY <1>1, GiftsKept DEF Rows
<1>7. VerifiedAddressIsProven'
    BY <1>1, ProofsKept
<1> QED BY <1>3, <1>4, <1>5, <1>6, <1>7, NextParts

LEMMA ClosingKeeps ==
    ASSUME AccountsInvariant, NEW x \in Session, Close(x) \/ InvitationDeleted(x)
    PROVE  AccountsInvariant'
<1>1. /\ UNCHANGED <<account, due, mailed, proof, raced>> /\ End(x)
      /\ session[x].op \in {"EXPIRED", "CANCELED", "delete"}
    BY DEF Close, InvitationDeleted, Pending
<1>2. x \in Busy /\ View(x)
    BY <1>1, BusyFacts DEF AccountsInvariant, ViewsHold
<1>3. /\ session[x].on \subseteq Invitation
      /\ \A i \in session[x].on \ raced : invitation[i] # "ACCEPTED"
    BY <1>1, <1>2 DEF View
<1>4. /\ invitation' \in [Invitation -> InvitationStatus]
      /\ \A i \in Invitation : \/ invitation'[i] = invitation[i]
                               \/ i \in session[x].on /\ invitation'[i] # "ACCEPTED"
    <2>1. CASE Close(x)
        BY <1>3, <2>1 DEF Close, AccountsInvariant, TypeOK, InvitationStatus, Closed
    <2>2. CASE InvitationDeleted(x)
        BY <1>3, <2>2 DEF InvitationDeleted, AccountsInvariant, TypeOK, InvitationStatus
    <2> QED BY <2>1, <2>2
<1>5. MailedKept
    BY <1>1 DEF MailedKept, AccountsInvariant, TypeOK
<1>6. RowsAreRight'
    BY <1>1, RowsUntouched
<1>7. RestInRange'
    BY <1>1, <1>4, Parts DEF RestInRange
<1>8. ViewsHold'
    BY <1>1, <1>2, <1>4, <1>5, EndKeeps
<1>9. AcceptedMeansUsedOnce'
    BY <1>1, <1>3, <1>4, GiftsKept DEF Rows
<1>10. VerifiedAddressIsProven'
    BY <1>1, ProofsKept
<1> QED BY <1>6, <1>7, <1>8, <1>9, <1>10, NextParts

-----------------------------------------------------------------------------
(* Steps that write a row.                                                 *)

LEMMA AbortKeeps ==
    ASSUME AccountsInvariant, NEW x \in Session, Abort(x)
    PROVE  AccountsInvariant'
<1>1. /\ UNCHANGED <<account, invitation, due, mailed, proof, raced>> /\ End(x) /\ x \in Busy
    BY DEF Abort
<1>2. MailedKept
    BY <1>1 DEF MailedKept, AccountsInvariant, TypeOK
<1>3. ViewsHold'
    BY <1>1, <1>2, EndKeeps
<1>4. RowsAreRight'
    BY <1>1, RowsUntouched
<1>5. RestInRange'
    BY <1>1, Parts DEF RestInRange
<1>6. AcceptedMeansUsedOnce'
    BY <1>1, GiftsKept DEF Rows
<1>7. VerifiedAddressIsProven'
    BY <1>1, ProofsKept
<1> QED BY <1>3, <1>4, <1>5, <1>6, <1>7, NextParts

LEMMA CreateUserKeeps ==
    ASSUME AccountsInvariant, NEW u \in User, NEW name \in Name, NEW email \in Address,
           CreateUser(u, name, email)
    PROVE  AccountsInvariant'
<1> DEFINE new == [NoRow EXCEPT !.row = "live", !.name = {name}, !.email = email,
                                !.verified = TRUE]
<1>1. /\ NewRow(u) /\ Fits(u, new) /\ account' = [account EXCEPT ![u] = new]
      /\ proof' = [proof EXCEPT ![u] = {email}]
      /\ UNCHANGED <<invitation, due, mailed, session, raced>>
    BY DEF CreateUser
<1>2. new \in Account /\ new.row = "live" /\ new.token = 0 /\ new.gift = {} /\ new.email = email
    BY DEF NoRow, Account
<1> HIDE DEF new
<1>3. /\ account'[u] = new /\ proof'[u] = {email}
      /\ \A v \in User \ {u} : account'[v] = account[v] /\ proof'[v] = proof[v]
      /\ proof' \in [User -> SUBSET Address]
    BY <1>1 DEF AccountsInvariant, TypeOK
<1>4. u \notin Rows /\ \A v \in User \ {u} : v \in Rows' <=> v \in Rows
    BY <1>1, <1>3 DEF NewRow, Rows
<1>5. MailedKept
    BY <1>1 DEF MailedKept, AccountsInvariant, TypeOK
<1>6. ViewsHold'
    BY <1>1, <1>3, <1>5, OthersStill DEF RowStill, InvitationStill, NewRow
<1>7. RowsAreRight'
    BY <1>1, <1>2, RowWritten
<1>8. RestInRange'
    BY <1>1, <1>3, Parts DEF RestInRange
<1>9. AcceptedMeansUsedOnce'
    BY <1>1, <1>2, <1>3, <1>4, GiftsKept
<1>10. VerifiedAddressIsProven'
    BY <1>1, <1>2, <1>3, ProofsKept
<1> QED BY <1>6, <1>7, <1>8, <1>9, <1>10, NextParts

LEMMA DeleteUserKeeps ==
    ASSUME AccountsInvariant, NEW u \in User, DeleteUser(u)
    PROVE  AccountsInvariant'
<1> DEFINE row == [account[u] EXCEPT !.row = "deleted"]
<1>1. /\ u \in Live /\ account' = [account EXCEPT ![u] = row]
      /\ UNCHANGED <<invitation, due, mailed, session, proof, raced>>
    BY DEF DeleteUser
<1>2. account[u] \in Account
    BY DEF AccountsInvariant, TypeOK
<1>3. /\ row \in Account /\ row.row = "deleted" /\ row.token = account[u].token
      /\ row.gift = account[u].gift /\ row.email = account[u].email
      /\ row.verified = account[u].verified
    BY <1>2 DEF Account
<1> HIDE DEF row
<1>4. account'[u] = row /\ \A v \in User \ {u} : account'[v] = account[v]
    BY <1>1 DEF AccountsInvariant, TypeOK
<1>5. u \in Rows /\ Rows' = Rows
    BY <1>1, <1>3, <1>4 DEF Live, Rows
<1>6. MailedKept
    BY <1>1 DEF MailedKept, AccountsInvariant, TypeOK
<1>7. ViewsHold'
    BY <1>1, <1>3, <1>4, <1>5, <1>6, OthersStill DEF RowStill, InvitationStill
<1>8. RowsAreRight'
    BY <1>1, <1>3, RowWritten
<1>9. RestInRange'
    BY <1>1, Parts DEF RestInRange
<1>10. AcceptedMeansUsedOnce'
    BY <1>1, <1>3, <1>4, <1>5, GiftsKept
<1>11. VerifiedAddressIsProven'
    BY <1>1, <1>3, <1>4, <1>5, ProofsKept
<1> QED BY <1>7, <1>8, <1>9, <1>10, <1>11, NextParts

LEMMA RegisteredKeeps ==
    ASSUME AccountsInvariant, NEW x \in Session, Registered(x)
    PROVE  AccountsInvariant'
<1> DEFINE new == session[x].new
           row == IF VerificationOn THEN [new EXCEPT !.token = NextToken] ELSE new
<1>1. /\ Pending(x, "register") /\ Accept(x) /\ End(x) /\ UNCHANGED <<due, proof, raced>>
      /\ session[x].op = "register"
    BY DEF Registered, Pending
<1>2. PICK u \in session[x].on \cap User :
          /\ Fits(u, new) /\ account' = [account EXCEPT ![u] = row]
          /\ IF VerificationOn THEN Issue(new.email) ELSE mailed' = mailed
    BY AccountsAssumption DEF Registered
<1>3. x \in Busy /\ View(x)
    BY <1>1, BusyFacts DEF AccountsInvariant, ViewsHold
<1>4. /\ new \in Account /\ new.row = "live" /\ new.token = 0 /\ new.verified = ~VerificationOn
      /\ \A i \in new.gift \ raced : invitation[i] = "PENDING"
    BY <1>1, <1>3 DEF View
<1>5. PICK w \in User \ Rows : /\ session[x].on = {w} \cup new.gift
                               /\ \A y \in Busy \ {x} : w \notin session[y].on
    BY <1>1, <1>3 DEF View
<1>6. u = w
    BY <1>2, <1>4, <1>5, AccountsAssumption DEF Account
<1>7. /\ u \in User /\ u \notin Rows /\ \A y \in Busy \ {x} : u \notin session[y].on
      /\ new.gift \subseteq session[x].on /\ new.gift \subseteq Invitation
    BY <1>4, <1>5, <1>6 DEF Account
<1>8. NextToken \in Nat
    BY DEF NextToken, AccountsInvariant, TypeOK
<1>9. /\ row \in Account /\ row.row = "live" /\ row.email = new.email /\ row.name = new.name
      /\ row.gift = new.gift /\ row.verified = ~VerificationOn
      /\ row.token = IF VerificationOn THEN NextToken ELSE 0
    BY <1>4, <1>8 DEF Account
<1> HIDE DEF new, row
<1>10. /\ account'[u] = row /\ \A v \in User \ {u} : account'[v] = account[v]
    BY <1>2 DEF AccountsInvariant, TypeOK
<1>11. \A i \in Invitation : invitation'[i] = IF i \in new.gift THEN "ACCEPTED" ELSE invitation[i]
    BY <1>1 DEF Accept, new
<1>12. invitation' \in [Invitation -> InvitationStatus]
    BY <1>1 DEF Accept, AccountsInvariant, TypeOK, InvitationStatus, Closed
<1>13. row.email \in Address /\ (mailed' = mailed \/ Issue(row.email))
    BY <1>2, <1>9 DEF Account
<1>14. MailedKept /\ mailed' \in Seq(Address) /\ Len(mailed') <= MaxToken
    BY <1>13, MailFacts
<1>15. Fits(u, row)
    BY <1>2, <1>9 DEF Fits, SameName, SameEmail
<1>16. RowsAreRight'
    BY <1>2, <1>9, <1>13, <1>15, RowWritten
<1>17. RestInRange'
    BY <1>1, <1>12, <1>14, Parts DEF RestInRange
<1>18. ViewsHold'
    BY <1>1, <1>3, <1>7, <1>10, <1>11, <1>14, EndKeeps
<1>19. AcceptedMeansUsedOnce'
    <2> SUFFICES ASSUME NEW i \in Invitation \ raced'
                 PROVE  IF invitation'[i] = "ACCEPTED"
                        THEN \E v \in Rows' : {a \in Rows' : i \in account'[a].gift} = {v}
                        ELSE {a \in Rows' : i \in account'[a].gift} = {}
        BY DEF AcceptedMeansUsedOnce
    <2>1. IF invitation[i] = "ACCEPTED"
          THEN \E v \in Rows : {a \in Rows : i \in account[a].gift} = {v}
          ELSE {a \in Rows : i \in account[a].gift} = {}
        BY <1>1 DEF AccountsInvariant, AcceptedMeansUsedOnce
    <2>2. Rows' = Rows \cup {u}
        BY <1>7, <1>9, <1>10 DEF Rows
    <2>3. \A a \in Rows : account'[a] = account[a]
        BY <1>7, <1>10 DEF Rows
    <2>4. CASE i \in new.gift
        <3>1. {a \in Rows : i \in account[a].gift} = {}
            BY <1>1, <1>4, <2>1, <2>4
        <3>2. {a \in Rows' : i \in account'[a].gift} = {u}
            BY <1>9, <1>10, <2>2, <2>3, <2>4, <3>1
        <3> QED BY <1>11, <2>2, <2>4, <3>2
    <2>5. CASE i \notin new.gift
        <3>1. {a \in Rows' : i \in account'[a].gift} = {a \in Rows : i \in account[a].gift}
            BY <1>9, <1>10, <2>2, <2>3, <2>5
        <3> QED BY <1>11, <2>1, <2>2, <2>5, <3>1
    <2> QED BY <2>4, <2>5
<1>20. VerifiedAddressIsProven'
    BY <1>1, <1>9, <1>10, ProofsKept
<1> QED BY <1>16, <1>17, <1>18, <1>19, <1>20, NextParts

\* What a handler that changes a row it knows of writes.
RowChanged(x, u, row) ==
    /\ account' = [account EXCEPT ![u] = row]
    /\ row.row = account[u].row /\ row.name = account[u].name /\ row.gift = account[u].gift

LEMMA ChangingKeeps ==
    ASSUME AccountsInvariant, NEW x \in Busy, End(x), UNCHANGED <<invitation, due, raced>>,
           session[x].op \in {"change", "verify", "resend"},
           NEW u \in session[x].on, NEW row \in Account, RowChanged(x, u, row),
           u \in Live => Fits(u, row),
           mailed' = mailed \/ Issue(row.email),
           \/ row.token = 0
           \/ row.token = account[u].token /\ (VerificationOn => row.email = account[u].email)
           \/ row.token = NextToken /\ Issue(row.email),
           proof' \in [User -> SUBSET Address],
           \A v \in User \ {u} : proof'[v] = proof[v],
           \/ proof'[u] = proof[u] /\ row.verified = account[u].verified /\ row.email = account[u].email
           \/ u \in raced
           \/ VerificationOn /\ row.verified => proof'[u] = {row.email}
    PROVE  AccountsInvariant'
<1>1. View(x)
    BY DEF AccountsInvariant, ViewsHold
<1>2. session[x].on \subseteq Rows
    BY <1>1 DEF View
<1>3. u \in User /\ u \in Rows
    BY <1>2 DEF Rows
<1>4. /\ account'[u] = row /\ \A v \in User \ {u} : account'[v] = account[v]
      /\ row.row # "none" /\ (row.row = "live" => u \in Live)
    BY <1>3 DEF RowChanged, AccountsInvariant, TypeOK, Rows, Live
<1>5. Rows' = Rows
    BY <1>3, <1>4 DEF Rows
<1>6. row.email \in Address
    BY DEF Account
<1>7. MailedKept /\ mailed' \in Seq(Address) /\ Len(mailed') <= MaxToken
    BY <1>6, MailFacts
<1>8. RowsAreRight'
    BY <1>3, <1>4, RowWritten DEF RowChanged
<1>9. RestInRange'
    BY <1>7, Parts DEF RestInRange
<1>10. ViewsHold'
    BY <1>3, <1>4, <1>5, <1>7, EndKeeps
<1>11. AcceptedMeansUsedOnce'
    BY <1>3, <1>4, <1>5, GiftsKept DEF RowChanged
<1>12. VerifiedAddressIsProven'
    BY <1>3, <1>4, ProofsKept
<1> QED BY <1>8, <1>9, <1>10, <1>11, <1>12, NextParts

LEMMA ChangingFacts ==
    ASSUME AccountsInvariant, NEW x \in Session, session[x].op \in {"change", "verify", "resend"}
    PROVE  /\ x \in Busy /\ View(x) /\ session[x].on \subseteq Rows /\ Rows \subseteq User
           /\ \A u \in session[x].on : account[u] \in Account /\ account[u].row # "none"
           /\ NextToken \in Nat /\ proof \in [User -> SUBSET Address]
           /\ account \in [User -> Account]
<1>1. x \in Busy /\ View(x)
    BY BusyFacts DEF AccountsInvariant, ViewsHold
<1>2. session[x].on \subseteq Rows /\ Rows \subseteq User
    BY <1>1 DEF View, Rows
<1>3. account \in [User -> Account] /\ proof \in [User -> SUBSET Address] /\ NextToken \in Nat
    BY DEF AccountsInvariant, TypeOK, NextToken
<1> QED BY <1>1, <1>2, <1>3 DEF Rows

LEMMA EmailChangedKeeps ==
    ASSUME AccountsInvariant, NEW x \in Session, EmailChanged(x)
    PROVE  AccountsInvariant'
<1>1. /\ session[x].op = "change" /\ End(x) /\ UNCHANGED <<invitation, due, proof, raced>>
    BY DEF EmailChanged, Pending
<1>2. PICK u \in session[x].on :
          LET row == [account[u] EXCEPT !.email = session[x].new.email]
          IN  /\ Fits(u, row) \/ u \notin Live
              /\ IF VerificationOn
                 THEN /\ Issue(row.email)
                      /\ account' = [account EXCEPT ![u] = Reset(row, session[x].read, NextToken)]
                 ELSE /\ \E new \in {row, Settle(row, session[x].read)} :
                             account' = [account EXCEPT ![u] = new]
                      /\ UNCHANGED mailed
    BY DEF EmailChanged
<1> DEFINE changed == [account[u] EXCEPT !.email = session[x].new.email]
           reset   == Reset(changed, session[x].read, NextToken)
           settled == Settle(changed, session[x].read)
<1>3. /\ x \in Busy /\ View(x) /\ u \in Rows /\ u \in User
      /\ account[u] \in Account /\ NextToken \in Nat /\ proof \in [User -> SUBSET Address]
      /\ account[u].verified \in BOOLEAN
    BY <1>1, <1>2, ChangingFacts DEF Account
<1>4. /\ session[x].new.email \in Address
      /\ u \notin raced => session[x].read.verified = account[u].verified
    BY <1>1, <1>3 DEF View
<1>5. /\ changed \in Account /\ changed.email = session[x].new.email
      /\ changed.row = account[u].row /\ changed.name = account[u].name
      /\ changed.gift = account[u].gift /\ changed.verified = account[u].verified
      /\ changed.token = account[u].token
    BY <1>3, <1>4 DEF Account
<1>6. /\ Fits(u, changed) \/ u \notin Live
      /\ IF VerificationOn THEN Issue(changed.email) /\ account' = [account EXCEPT ![u] = reset]
         ELSE /\ \E new \in {changed, settled} : account' = [account EXCEPT ![u] = new]
              /\ mailed' = mailed
    BY <1>2
<1>7. /\ reset \in Account /\ reset.email = changed.email /\ reset.row = changed.row
      /\ reset.name = changed.name /\ reset.gift = changed.gift /\ reset.token = NextToken
      /\ reset.verified = IF session[x].read.verified THEN FALSE ELSE changed.verified
    BY <1>3, <1>5 DEF Reset, Account
<1>10. /\ settled \in Account /\ settled.email = changed.email /\ settled.row = changed.row
       /\ settled.name = changed.name /\ settled.gift = changed.gift /\ settled.token = 0
    BY <1>3, <1>5 DEF Settle, Account
<1> HIDE DEF changed, reset, settled
<1>8. CASE VerificationOn
    <2>1. RowChanged(x, u, reset)
        BY <1>5, <1>6, <1>7, <1>8 DEF RowChanged
    <2>2. u \in Live => Fits(u, reset)
        BY <1>6, <1>7 DEF Fits, SameName, SameEmail
    <2>3. u \in raced \/ ~ reset.verified
        BY <1>3, <1>4, <1>5, <1>7
    <2>4. Issue(reset.email)
        BY <1>6, <1>7, <1>8
    <2> QED BY <1>1, <1>2, <1>3, <1>7, <2>1, <2>2, <2>3, <2>4, ChangingKeeps
<1>9. CASE ~ VerificationOn
    <2>1. PICK new \in {changed, settled} : account' = [account EXCEPT ![u] = new]
        BY <1>6, <1>9
    <2>2. /\ new \in Account /\ new.email = changed.email /\ new.row = changed.row
          /\ new.name = changed.name /\ new.gift = changed.gift
          /\ new.token = 0 \/ new.token = account[u].token
        BY <1>5, <1>10, <2>1
    <2>3. RowChanged(x, u, new) /\ mailed' = mailed
        BY <1>5, <1>6, <1>9, <2>1, <2>2 DEF RowChanged
    <2>4. u \in Live => Fits(u, new)
        BY <1>6, <2>2 DEF Fits, SameName, SameEmail
    <2> QED BY <1>1, <1>2, <1>3, <1>9, <2>2, <2>3, <2>4, ChangingKeeps
<1> QED BY <1>8, <1>9

LEMMA VerifiedKeeps ==
    ASSUME AccountsInvariant, NEW x \in Session, Verified(x)
    PROVE  AccountsInvariant'
<1>1. /\ session[x].op = "verify" /\ End(x) /\ UNCHANGED <<invitation, due, mailed, raced>>
    BY DEF Verified, Pending
<1>2. PICK u \in session[x].on :
          /\ account' = [account EXCEPT ![u].token = 0,
                 ![u].verified = IF session[x].read.verified THEN @ ELSE TRUE]
          /\ proof' = [proof EXCEPT ![u] = {mailed[session[x].read.token]}]
    BY DEF Verified
<1> DEFINE row == [account[u] EXCEPT !.token = 0,
                      !.verified = IF session[x].read.verified THEN @ ELSE TRUE]
<1>3. /\ x \in Busy /\ View(x) /\ u \in Rows /\ u \in User
      /\ account[u] \in Account /\ proof \in [User -> SUBSET Address]
      /\ account \in [User -> Account]
    BY <1>1, <1>2, ChangingFacts
<1>4. /\ session[x].read.token \in 1 .. Len(mailed)
      /\ u \notin raced /\ VerificationOn => mailed[session[x].read.token] = account[u].email
    BY <1>1, <1>3 DEF View
<1>5. mailed \in Seq(Address)
    BY DEF AccountsInvariant, TypeOK
<1>6. mailed[session[x].read.token] \in Address
    BY <1>4, <1>5
<1>7. account' = [account EXCEPT ![u] = row]
    BY <1>2, <1>3
<1>8. /\ row \in Account /\ row.token = 0 /\ row.row = account[u].row /\ row.name = account[u].name
      /\ row.gift = account[u].gift /\ row.email = account[u].email
    BY <1>3 DEF Account
<1> HIDE DEF row
<1>9. RowChanged(x, u, row)
    BY <1>7, <1>8 DEF RowChanged
<1>10. u \in Live => Fits(u, row)
    BY <1>8, FitsAsItIs DEF SameName, SameEmail
<1>11. /\ proof' \in [User -> SUBSET Address]
       /\ proof'[u] = {mailed[session[x].read.token]}
       /\ \A v \in User \ {u} : proof'[v] = proof[v]
    BY <1>2, <1>3, <1>6
<1>12. u \in raced \/ (VerificationOn => proof'[u] = {row.email})
    BY <1>4, <1>8, <1>11
<1> QED BY <1>1, <1>2, <1>3, <1>8, <1>9, <1>10, <1>11, <1>12, ChangingKeeps

LEMMA ResentKeeps ==
    ASSUME AccountsInvariant, NEW x \in Session, Resent(x)
    PROVE  AccountsInvariant'
<1>1. session[x].op = "resend" /\ End(x) /\ UNCHANGED <<invitation, due, proof, raced>>
    BY DEF Resent, Pending
<1>2. PICK u \in session[x].on : /\ Issue(account[u].email)
                                 /\ account' = [account EXCEPT ![u].token = NextToken]
    BY DEF Resent
<1> DEFINE row == [account[u] EXCEPT !.token = NextToken]
<1>3. /\ x \in Busy /\ u \in Rows /\ u \in User /\ NextToken \in Nat
      /\ account[u] \in Account /\ proof \in [User -> SUBSET Address]
      /\ account \in [User -> Account]
    BY <1>1, <1>2, ChangingFacts
<1>4. account' = [account EXCEPT ![u] = row]
    BY <1>2, <1>3
<1>5. /\ row \in Account /\ row.token = NextToken /\ row.row = account[u].row
      /\ row.name = account[u].name /\ row.gift = account[u].gift
      /\ row.email = account[u].email /\ row.verified = account[u].verified
    BY <1>3 DEF Account
<1> HIDE DEF row
<1>6. RowChanged(x, u, row)
    BY <1>4, <1>5 DEF RowChanged
<1>7. u \in Live => Fits(u, row)
    BY <1>5, FitsAsItIs DEF SameName, SameEmail
<1>8. Issue(row.email)
    BY <1>2, <1>5
<1> QED BY <1>1, <1>2, <1>3, <1>5, <1>6, <1>7, <1>8, ChangingKeeps

-----------------------------------------------------------------------------
(* The theorems.                                                           *)

LEMMA StutterKeeps ==
    ASSUME AccountsInvariant, UNCHANGED vars PROVE AccountsInvariant'
<1>1. UNCHANGED <<account, invitation, due, mailed, session, proof, raced>>
    BY DEF vars
<1>2. RowsAreRight'
    BY <1>1, RowsUntouched
<1>3. RestInRange'
    BY <1>1, Parts DEF RestInRange
<1>4. MailedKept
    BY <1>1 DEF MailedKept, AccountsInvariant, TypeOK
<1>5. ViewsHold'
    BY <1>1, <1>4, OthersStill DEF RowStill, InvitationStill
<1>6. AcceptedMeansUsedOnce'
    BY <1>1, GiftsKept DEF Rows
<1>7. VerifiedAddressIsProven'
    BY <1>1, ProofsKept
<1> QED BY <1>2, <1>3, <1>5, <1>6, <1>7, NextParts

LEMMA NextKeeps ==
    ASSUME AccountsInvariant, [Next]_vars PROVE AccountsInvariant'
<1>1. ASSUME NEW x \in Session, Inviting(x) PROVE AccountsInvariant'
    BY <1>1, ReadingAnInvitationKeeps, ClosingKeeps DEF Inviting
<1>2. ASSUME NEW x \in Session, Registering(x) PROVE AccountsInvariant'
    <2>1. ASSUME NEW u \in User, NEW name \in Name, NEW email \in Address,
                 \/ Register(x, u, name, email, {})
                 \/ \E i \in Invitation : Register(x, u, name, email, {i})
          PROVE  AccountsInvariant'
        <3>1. PICK gift \in SUBSET Invitation : Register(x, u, name, email, gift)
            BY <2>1
        <3> QED BY <3>1, RegisterKeeps
    <2> QED BY <1>2, <2>1, RegisteredKeeps DEF Registering
<1>3. ASSUME NEW x \in Session, Verifying(x) PROVE AccountsInvariant'
    <2>1. ASSUME NEW u \in User, NEW email \in Email,
                 ChangeEmail(x, u, email, Rows) \/ ChangeEmail(x, u, email, Live)
          PROVE  AccountsInvariant'
        BY <2>1, ChangeEmailKeeps
    <2> QED BY <1>3, <2>1, VerifyKeeps, ResendKeeps, EmailChangedKeeps, VerifiedKeeps,
               ResentKeeps, AbortKeeps DEF Verifying
<1>4. ASSUME NEW i \in Invitation, Invite(i) \/ Elapse(i) PROVE AccountsInvariant'
    BY <1>4, InvitingKeeps
<1>5. ASSUME NEW u \in User, NEW name \in Name, NEW email \in Address, CreateUser(u, name, email)
      PROVE  AccountsInvariant'
    BY <1>5, CreateUserKeeps
<1>6. ASSUME NEW u \in User, DeleteUser(u) PROVE AccountsInvariant'
    BY <1>6, DeleteUserKeeps
<1> QED BY <1>1, <1>2, <1>3, <1>4, <1>5, <1>6, StutterKeeps DEF Next

\* Rows, tokens and what handlers remember stay consistent, for any number of
\* users and handlers in flight (auth.py, users.py, admin_users.py).
THEOREM AccountsStayConsistent == Spec => []AccountsInvariant
<1>1. Init => AccountsInvariant
    BY InitAccounts
<1>2. AccountsInvariant /\ [Next]_vars => AccountsInvariant'
    BY NextKeeps
<1> QED BY <1>1, <1>2, PTL DEF Spec

\* No two accounts that can log in share a username or an address, however
\* registrations, changes of address, imports and deletions overlap.
THEOREM LiveAccountsAlwaysDiffer == Spec => []LiveAccountsDiffer
<1>1. AccountsInvariant => LiveAccountsDiffer
    BY DEF AccountsInvariant
<1> QED BY <1>1, AccountsStayConsistent, PTL

\* An invitation is ACCEPTED exactly when one account was endowed with it,
\* unless handlers that write it overlap.
THEOREM InvitationsAreUsedOnce == Spec => []AcceptedMeansUsedOnce
<1>1. AccountsInvariant => AcceptedMeansUsedOnce
    BY DEF AccountsInvariant
<1> QED BY <1>1, AccountsStayConsistent, PTL

\* A verified address received the token or came from an admin, unless
\* handlers that write the account overlap.
THEOREM VerifiedAddressesAreProven == Spec => []VerifiedAddressIsProven
<1>1. AccountsInvariant => VerifiedAddressIsProven
    BY DEF AccountsInvariant
<1> QED BY <1>1, AccountsStayConsistent, PTL

=============================================================================
