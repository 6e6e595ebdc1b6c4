---------------------------- MODULE AccessProofs ----------------------------
(***************************************************************************)
(* Who may use what.  Servers: a user's accounts follow their plans and    *)
(* status, for any number of plans and servers and any number of faults.   *)
(* The professional edition: the files and the process agree, and a        *)
(* deactivation holds, for any number of handlers and of licenses.         *)
(***************************************************************************)
EXTENDS Entitlements, License, TLAPS

-----------------------------------------------------------------------------
(* Entitlements: vocabulary of the proofs.                                 *)

\* One server of RowsFit.
Fits(v, r, u, st) ==
    /\ r[v] = "ENABLED" => st # "BANNED" /\ v \in Covered(u)
    /\ v \in Covered(u) => r[v] # "none" /\ (st = "ACTIVE" => r[v] = "ENABLED")

LEMMA CallsWith ==
    ASSUME NEW calls \in [Server -> Call], NEW S, NEW call \in Call
    PROVE  /\ With(calls, S, call) \in [Server -> Call]
           /\ \A v \in Server : With(calls, S, call)[v] = IF v \in S THEN call ELSE calls[v]
BY DEF With

LEMMA RowsWith ==
    ASSUME NEW r \in [Server -> Account], NEW S, NEW x \in Account
    PROVE  /\ With(r, S, x) \in [Server -> Account]
           /\ \A v \in Server : With(r, S, x)[v] = IF v \in S THEN x ELSE r[v]
BY DEF With

\* What each kind of call does to an account, and whether it settles it.
LEMMA CallFacts ==
    /\ NoCall \in Call /\ Create \in Call /\ Password \in Call /\ Delete \in Call /\ Undo \in Call
    /\ NoCalls \in [Server -> Call] /\ \A v \in Server : NoCalls[v] = NoCall
    /\ \A to \in Account : Ensure(to) \in Call /\ Set(to) \in Call
    /\ \A account : /\ After(NoCall, account) = account
                    /\ After(Password, account) = account
                    /\ After(Delete, account) = "none" /\ After(Undo, account) = "none"
    /\ \A to, account : After(Ensure(to), account) = to /\ After(Set(to), account) = to
    /\ \A to : Settles(Ensure(to)) /\ Settles(Set(to))
    /\ Settles(Delete) /\ Settles(Undo)
    /\ ~Settles(NoCall) /\ ~Settles(Create) /\ ~Settles(Password)
BY DEF NoCall, Create, Password, Delete, Undo, Ensure, Set, NoCalls, Call, Account, After, Settles

LEMMA AfterType ==
    ASSUME NEW call \in Call, NEW account \in Account
    PROVE  After(call, account) \in Account
BY DEF After, Call, Account

\* Halves of a call are calls, and together do what it does.
LEMMA HalfFacts ==
    ASSUME NEW call \in Call, NEW account
    PROVE  /\ Half(call) \in Call /\ Rest(call) \in Call
           /\ After(Rest(call), After(Half(call), account)) = After(call, account)
           /\ Settles(Rest(call)) => Settles(call)
BY CallFacts DEF Half, Rest

\* Membership in the sets of servers that plans give.
LEMMA PlanFacts ==
    ASSUME AccessTypeOK, NEW u \in [Plan -> Subscription]
    PROVE  /\ \A v : v \in Entitled(u) <=> \E p \in Plan : u[p] = "current" /\ v \in Of(p)
           /\ \A v : v \in Covered(u) <=> \E p \in Plan : u[p] \in {"current", "due"} /\ v \in Of(p)
           /\ \A v, p : v \in Of(p) <=> v \in Servers[p] /\ active[v]
           /\ \A p \in Plan : Of(p) \subseteq Server
BY EntitlementsAssumption DEF Entitled, Covered, Of, EntitlementsAssumption

LEMMA LapsedFacts ==
    ASSUME NEW u \in [Plan -> Subscription]
    PROVE  /\ Lapsed(u) \in [Plan -> Subscription]
           /\ \A p \in Plan : Lapsed(u)[p] # "due" /\ (Lapsed(u)[p] = "current" <=> u[p] = "current")
BY DEF Lapsed, Subscription

\* Without a subscription that is due, what is covered is what is entitled.
LEMMA NothingDue ==
    ASSUME NEW u \in [Plan -> Subscription], \A p \in Plan : u[p] # "due"
    PROVE  Covered(u) = Entitled(u)
BY DEF Covered, Entitled

LEMMA StatusFacts ==
    ASSUME AccessTypeOK
    PROVE  /\ AccountStatus \in Account /\ AccountStatus # "none"
           /\ AccountStatus = "ENABLED" <=> status # "BANNED"
BY DEF AccessTypeOK, AccountStatus, Account, UserStatus

\* A server outside the gap, while no handler runs.
LEMMA QuietFacts ==
    ASSUME AccessInvariant, Quiet
    PROVE  /\ AccessTypeOK
           /\ handler = NoHandler
           /\ \A v \in Server \ gap : active[v] =>
                 Fits(v, row, sub, status) /\ remote[v] = row[v]
BY DEF AccessInvariant, RowsFit, Fits, AccessTypeOK, Quiet, InProgress

-----------------------------------------------------------------------------
(* Entitlements: the frame of a handler.                                   *)

\* A handler begins well if, for every server it will not leave in the gap, its
\* row fits and its call makes the account follow the row.
LEMMA BeginWell ==
    ASSUME AccessInvariant,
           NEW calls \in [Server -> Call], NEW r \in [Server -> Account],
           NEW u \in [Plan -> Subscription], NEW st \in UserStatus, NEW g \in SUBSET Server,
           Begin(calls, r, u, st, g),
           \A v \in Server \ g : active[v] /\ (v \in gap => Settles(calls[v])) =>
              Fits(v, r, u, st) /\ After(calls[v], remote[v]) = r[v]
    PROVE  AccessInvariant'
<1>1. PICK h : h = [calls |-> calls, open |-> TRUE, called |-> {}, row |-> r, sub |-> u,
                    status |-> st, gap |-> g]
  OBVIOUS
<1>2. /\ handler' = h
      /\ UNCHANGED <<status, sub, row, remote, active, gap, faults>>
  BY <1>1 DEF Begin
<1>3. /\ h \in InProgress /\ h.open /\ h.calls = calls /\ h.called = {} /\ h.row = r
      /\ h.sub = u /\ h.status = st /\ h.gap = g
  BY <1>1 DEF InProgress
<1>4. AccessTypeOK'
  BY <1>2, <1>3 DEF AccessInvariant, AccessTypeOK
<1>5. RowsFit(row, sub, status, gap)'
  BY <1>2 DEF AccessInvariant, RowsFit, Covered, Of
<1>6. ~Quiet'
  BY <1>2, <1>3 DEF Quiet
<1>7. GapAfter' = (gap \ {v \in Server : Settles(calls[v])}) \cup g
  BY <1>2, <1>3 DEF GapAfter
<1>8. RowsFit(handler.row, handler.sub, handler.status, GapAfter)'
  BY <1>2, <1>3, <1>7 DEF RowsFit, Fits, Covered, Of
<1>9. \A v \in Server \ GapAfter' : active'[v] =>
          After(handler'.calls[v], remote'[v]) = handler'.row[v]
  BY <1>2, <1>3, <1>7
<1>10. QED
  BY <1>4, <1>5, <1>6, <1>8, <1>9 DEF AccessInvariant

LEMMA CallServerKeeps ==
    ASSUME AccessInvariant, NEW x \in Server, CallServer(x)
    PROVE  AccessInvariant'
<1>1. PICK h : h = handler
  OBVIOUS
<1>2. h \in InProgress
  BY <1>1 DEF CallServer, AccessInvariant, AccessTypeOK, NoHandler
<1>3. PICK new : new = [h EXCEPT !.calls[x] = Rest(@),
                          !.called = IF Settles(h.calls[x]) THEN @ \cup {x} ELSE @]
  OBVIOUS
<1>4. /\ new \in InProgress /\ new.row = h.row /\ new.sub = h.sub /\ new.status = h.status
      /\ new.gap = h.gap
      /\ new.called = IF Settles(h.calls[x]) THEN h.called \cup {x} ELSE h.called
      /\ \A v \in Server : new.calls[v] = IF v = x THEN Rest(h.calls[x]) ELSE h.calls[v]
  BY <1>2, <1>3, HalfFacts DEF InProgress
<1>5. /\ handler' = new
      /\ remote' = [remote EXCEPT ![x] = After(Half(h.calls[x]), @)]
      /\ UNCHANGED <<status, sub, row, active, gap, faults>>
  BY <1>1, <1>3 DEF CallServer
<1>6. remote' \in [Server -> Account]
  BY <1>2, <1>5, AfterType, HalfFacts DEF AccessInvariant, AccessTypeOK, InProgress
<1>7. AccessTypeOK'
  BY <1>4, <1>5, <1>6 DEF AccessInvariant, AccessTypeOK
<1>8. RowsFit(row, sub, status, gap)'
  BY <1>5 DEF AccessInvariant, RowsFit, Covered, Of
<1>9. ~Quiet' /\ ~Quiet
  BY <1>1, <1>2, <1>4, <1>5 DEF Quiet, InProgress
<1>10. GapAfter' = GapAfter
  <2>1. new.called \cup {v \in Server : Settles(new.calls[v])}
            = h.called \cup {v \in Server : Settles(h.calls[v])}
    BY <1>2, <1>4, HalfFacts DEF InProgress
  <2>2. QED
    BY <1>1, <1>4, <1>5, <2>1 DEF GapAfter
<1>11. RowsFit(handler.row, handler.sub, handler.status, GapAfter)'
  BY <1>1, <1>4, <1>5, <1>9, <1>10 DEF AccessInvariant, RowsFit, Covered, Of
<1>12. ASSUME NEW v \in Server \ GapAfter', active'[v]
       PROVE  After(new.calls[v], remote'[v]) = new.row[v]
  <2>1. After(h.calls[v], remote[v]) = h.row[v]
    BY <1>1, <1>5, <1>9, <1>10, <1>12 DEF AccessInvariant
  <2>2. CASE v = x
    BY <1>2, <1>4, <1>5, <2>1, <2>2, HalfFacts DEF AccessInvariant, AccessTypeOK, InProgress
  <2>3. CASE v # x
    BY <1>4, <1>5, <2>1, <2>3 DEF AccessInvariant, AccessTypeOK
  <2>4. QED
    BY <2>2, <2>3
<1>13. QED
  BY <1>5, <1>7, <1>8, <1>9, <1>11, <1>12 DEF AccessInvariant

LEMMA CommitKeeps ==
    ASSUME AccessInvariant, Commit
    PROVE  AccessInvariant'
<1>1. PICK h : h = handler
  OBVIOUS
<1>2. h \in InProgress /\ ~Quiet /\ h.calls = NoCalls
  BY <1>1 DEF Commit, AccessInvariant, AccessTypeOK, NoHandler, Quiet
<1>3. /\ row' = h.row /\ sub' = h.sub /\ status' = h.status
      /\ gap' = (gap \ h.called) \cup h.gap
      /\ handler' = NoHandler
      /\ UNCHANGED <<remote, active, faults>>
  BY <1>1 DEF Commit
<1>4. GapAfter = gap'
  <2>1. {v \in Server : Settles(h.calls[v])} = {}
    BY <1>2, CallFacts
  <2>2. QED
    BY <1>1, <1>3, <2>1 DEF GapAfter
<1>5. AccessTypeOK'
  BY <1>2, <1>3 DEF AccessInvariant, AccessTypeOK, InProgress
<1>6. RowsFit(row, sub, status, gap)'
  BY <1>1, <1>2, <1>3, <1>4 DEF AccessInvariant, RowsFit, Covered, Of
<1>7. \A v \in Server \ gap' : active'[v] => remote'[v] = row'[v]
  BY <1>1, <1>2, <1>3, <1>4, CallFacts DEF AccessInvariant
<1>8. Quiet'
  BY <1>3 DEF Quiet, NoHandler
<1>9. QED
  BY <1>5, <1>6, <1>7, <1>8 DEF AccessInvariant

\* Whatever was called before: a server whose account has left its row is in
\* the gap from then on.
LEMMA RollbackKeeps ==
    ASSUME AccessInvariant, Rollback, faults' \in 0 .. MaxFaults
    PROVE  AccessInvariant'
<1>1. /\ gap' = gap \cup {v \in Server : remote[v] # row[v]}
      /\ handler' = NoHandler
      /\ UNCHANGED <<status, sub, row, remote, active>>
  BY DEF Rollback
<1>2. AccessTypeOK'
  BY <1>1 DEF AccessInvariant, AccessTypeOK
<1>3. RowsFit(row, sub, status, gap)'
  BY <1>1 DEF AccessInvariant, RowsFit, Covered, Of
<1>4. Quiet'
  BY <1>1 DEF Quiet, NoHandler
<1>5. QED
  BY <1>1, <1>2, <1>3, <1>4 DEF AccessInvariant

-----------------------------------------------------------------------------
(* Entitlements: handlers that end by disabling or deleting the accounts   *)
(* without a plan.                                                         *)

\* A server that a plan covers: the row grants what the user's status allows.
Grants(v, r) ==
    r[v] # "none" /\ (status = "ACTIVE" => r[v] = "ENABLED") /\ (r[v] = "ENABLED" => status # "BANNED")

\* Calls that make accounts follow rows stay so when the orphans are disabled
\* on top of them: a row that is DISABLED already is what its account is.
LEMMA SyncWell ==
    ASSUME AccessInvariant,
           NEW calls \in [Server -> Call], NEW r \in [Server -> Account],
           NEW u \in [Plan -> Subscription], NEW g \in SUBSET Server,
           \A p \in Plan : u[p] # "due",
           Begin(With(calls, ToDisable(r, u), Set("DISABLED")), Disabled(r, u), u, status, g),
           \A v \in Server \ g : active[v] /\ (v \in gap => Settles(calls[v])) =>
              After(calls[v], remote[v]) = r[v] /\ (v \in Entitled(u) => Grants(v, r))
    PROVE  AccessInvariant'
<1> DEFINE c == With(calls, ToDisable(r, u), Set("DISABLED"))
           d == Disabled(r, u)
<1>1. /\ "DISABLED" \in Account /\ Set("DISABLED") \in Call
      /\ Settles(Set("DISABLED")) /\ \A a : After(Set("DISABLED"), a) = "DISABLED"
  BY CallFacts DEF Account
<1>2. /\ c \in [Server -> Call]
      /\ \A v \in Server : c[v] = IF v \in ToDisable(r, u) THEN Set("DISABLED") ELSE calls[v]
  BY <1>1, CallsWith
<1>3. /\ d \in [Server -> Account]
      /\ \A v \in Server : d[v] = IF v \in Orphaned(r, u) THEN "DISABLED" ELSE r[v]
  BY <1>1, RowsWith DEF Disabled
<1>4. Begin(c, d, u, status, g)
  OBVIOUS
<1>5. Covered(u) = Entitled(u)
  BY NothingDue
<1>6. status \in UserStatus
  BY DEF AccessInvariant, AccessTypeOK
<1> HIDE DEF c, d
<1>7. ASSUME NEW v \in Server \ g, active[v], v \in gap => Settles(c[v])
      PROVE  Fits(v, d, u, status) /\ After(c[v], remote[v]) = d[v]
  <2>1. CASE v \in ToDisable(r, u)
    BY <1>1, <1>2, <1>3, <1>5, <2>1 DEF ToDisable, Orphaned, Fits
  <2>2. CASE v \notin ToDisable(r, u)
    <3>1. /\ c[v] = calls[v] /\ After(calls[v], remote[v]) = r[v]
          /\ v \in Entitled(u) => Grants(v, r)
      BY <1>2, <1>7, <2>2
    <3>2. CASE v \in Orphaned(r, u)
      <4>1. r[v] = "DISABLED"
        BY <1>7, <2>2, <3>2 DEF ToDisable, Orphaned, Account
      <4>2. QED
        BY <1>3, <1>5, <3>1, <3>2, <4>1 DEF Orphaned, Fits
    <3>3. CASE v \notin Orphaned(r, u)
      BY <1>3, <1>5, <3>1, <3>3 DEF Orphaned, Fits, Grants
    <3>4. QED
      BY <3>2, <3>3
  <2>3. QED
    BY <2>1, <2>2
<1>8. QED
  BY <1>2, <1>3, <1>4, <1>6, <1>7, BeginWell

\* The same when the orphans are deleted; T are those that were created just before.
LEMMA DeleteWell ==
    ASSUME AccessInvariant,
           NEW calls \in [Server -> Call], NEW r \in [Server -> Account],
           NEW u \in [Plan -> Subscription], NEW g \in SUBSET Server, NEW T,
           \A v \in Server \ g : v \in Covered(u) => v \in Entitled(u),
           Begin(With(With(calls, ToDelete(r, u), Delete), T \cap ToDelete(r, u), Undo),
                 Removed(r, u), u, status, g),
           \A v \in Server \ g : active[v] /\ (v \in gap => Settles(calls[v])) =>
              After(calls[v], remote[v]) = r[v] /\ (v \in Entitled(u) => Grants(v, r))
    PROVE  AccessInvariant'
<1> DEFINE b == With(calls, ToDelete(r, u), Delete)
           c == With(b, T \cap ToDelete(r, u), Undo)
           d == Removed(r, u)
<1>1. /\ "none" \in Account /\ Delete \in Call /\ Undo \in Call
      /\ \A a : After(Delete, a) = "none" /\ After(Undo, a) = "none"
  BY CallFacts DEF Account
<1>2. /\ c \in [Server -> Call]
      /\ \A v \in ToDelete(r, u) : c[v] \in {Delete, Undo}
      /\ \A v \in Server : v \notin ToDelete(r, u) => c[v] = calls[v]
  <2>1. b \in [Server -> Call] /\ \A v \in Server : b[v] = IF v \in ToDelete(r, u) THEN Delete ELSE calls[v]
    BY <1>1, CallsWith
  <2> HIDE DEF b
  <2>2. ToDelete(r, u) \subseteq Server
    BY DEF ToDelete, Orphaned
  <2>3. QED
    BY <1>1, <2>1, <2>2, CallsWith
<1>3. /\ d \in [Server -> Account]
      /\ \A v \in Server : d[v] = IF v \in Orphaned(r, u) THEN "none" ELSE r[v]
  BY <1>1, RowsWith DEF Removed
<1>4. Begin(c, d, u, status, g)
  OBVIOUS
<1>5. \A v \in Server : v \in Entitled(u) => v \in Covered(u)
  BY DEF Entitled, Covered
<1>6. status \in UserStatus
  BY DEF AccessInvariant, AccessTypeOK
<1> HIDE DEF b, c, d
<1>7. ASSUME NEW v \in Server \ g, active[v], v \in gap => Settles(c[v])
      PROVE  Fits(v, d, u, status) /\ After(c[v], remote[v]) = d[v]
  <2>1. CASE v \in ToDelete(r, u)
    BY <1>1, <1>2, <1>3, <1>5, <2>1 DEF ToDelete, Orphaned, Fits
  <2>2. CASE v \notin ToDelete(r, u)
    <3>1. /\ c[v] = calls[v] /\ After(calls[v], remote[v]) = r[v]
          /\ v \in Entitled(u) => Grants(v, r)
      BY <1>2, <1>7, <2>2
    <3>2. v \notin Orphaned(r, u)
      BY <1>7, <2>2 DEF ToDelete
    <3>3. QED
      BY <1>3, <1>5, <3>1, <3>2 DEF Orphaned, Fits, Grants
  <2>3. QED
    BY <2>1, <2>2
<1>8. QED
  BY <1>2, <1>3, <1>4, <1>6, <1>7, BeginWell

\* Outside the gap and g, rows and accounts are already right for subscriptions
\* that entitle to nothing new.
LEMMA NoCallsWell ==
    ASSUME AccessInvariant, Quiet,
           NEW u \in [Plan -> Subscription], NEW g \in SUBSET Server,
           \A v \in Server \ g : v \in Entitled(u) => v \in Covered(sub)
    PROVE  /\ NoCalls \in [Server -> Call] /\ row \in [Server -> Account]
           /\ \A v \in Server \ g : active[v] /\ (v \in gap => Settles(NoCalls[v])) =>
                 After(NoCalls[v], remote[v]) = row[v] /\ (v \in Entitled(u) => Grants(v, row))
<1>1. \A v \in Server : NoCalls[v] = NoCall /\ ~Settles(NoCalls[v])
                        /\ After(NoCalls[v], remote[v]) = remote[v]
  BY CallFacts
<1>2. QED
  BY <1>1, CallFacts, QuietFacts DEF AccessTypeOK, Fits, Grants

LEMMA SyncOrDeleteKeeps ==
    ASSUME AccessInvariant, NEW u \in [Plan -> Subscription],
           \A p \in Plan : u[p] # "due", SyncOrDelete(row, u),
           \A v \in Server : v \in Entitled(u) => v \in Covered(sub)
    PROVE  AccessInvariant'
<1>1. Quiet
  BY DEF SyncOrDelete, Sync, Begin
<1>2. {} \in SUBSET Server /\ \A v \in Server \ {} : v \in Entitled(u) => v \in Covered(sub)
  OBVIOUS
<1>3. /\ NoCalls \in [Server -> Call] /\ row \in [Server -> Account]
      /\ \A v \in Server \ {} : active[v] /\ (v \in gap => Settles(NoCalls[v])) =>
            After(NoCalls[v], remote[v]) = row[v] /\ (v \in Entitled(u) => Grants(v, row))
  BY <1>1, <1>2, NoCallsWell
<1>4. CASE \E p \in Plan : u[p] = "current"
  <2>1. Begin(With(NoCalls, ToDisable(row, u), Set("DISABLED")), Disabled(row, u), u, status, {})
    BY <1>4 DEF SyncOrDelete, Sync
  <2>2. QED
    BY <1>2, <1>3, <2>1, SyncWell
<1>5. CASE ~\E p \in Plan : u[p] = "current"
  <2> DEFINE calls == With(NoCalls, ToDelete(row, u), Delete)
  <2>1. Begin(calls, Removed(row, u), u, status, {})
    BY <1>5 DEF SyncOrDelete
  <2>2. With(calls, {} \cap ToDelete(row, u), Undo) = calls
    BY DEF With, NoCalls
  <2> HIDE DEF calls
  <2>3. Begin(With(calls, {} \cap ToDelete(row, u), Undo), Removed(row, u), u, status, {})
    BY <2>1, <2>2
  <2> USE DEF calls
  <2>4. \A v \in Server \ {} : v \in Covered(u) => v \in Entitled(u)
    BY NothingDue
  <2>5. QED
    BY <1>2, <1>3, <2>3, <2>4, DeleteWell
<1>6. QED
  BY <1>4, <1>5

-----------------------------------------------------------------------------
(* Entitlements: payments, refunds and the expiry job.                     *)

LEMMA GrantFacts ==
    ASSUME AccessTypeOK
    PROVE  \A v, r : r[v] = AccountStatus => Grants(v, r)
BY StatusFacts DEF Grants, AccessTypeOK, UserStatus

\* A plan that still runs is covered, whatever lapses besides.
LEMMA EntitledIsCovered ==
    ASSUME AccessTypeOK, NEW u \in [Plan -> Subscription],
           \A p \in Plan : u[p] = "current" => sub[p] \in {"current", "due"}
    PROVE  \A v \in Server : v \in Entitled(u) => v \in Covered(sub)
BY PlanFacts DEF AccessTypeOK

LEMMA PayKeeps ==
    ASSUME AccessInvariant, NEW p \in Plan, NEW replaced \in SUBSET Plan, Pay(p, replaced)
    PROVE  AccessInvariant'
<1> DEFINE x == [q \in Plan |-> IF q \in replaced THEN "CANCELED" ELSE sub[q]]
           u == [Lapsed(x) EXCEPT ![p] = "current"]
           calls == With(NoCalls, Of(p), Ensure(AccountStatus))
           r == With(row, Of(p), AccountStatus)
<1>1. AccessTypeOK /\ Quiet
  BY DEF AccessInvariant, Pay, Sync, Begin
<1>2. x \in [Plan -> Subscription] /\ \A q \in Plan : x[q] = "current" => sub[q] = "current"
  BY <1>1 DEF AccessTypeOK, Subscription
<1>3. Begin(With(calls, ToDisable(r, u), Set("DISABLED")), Disabled(r, u), u, status, {})
  BY DEF Pay, Sync
<1>4. calls \in [Server -> Call] /\ r \in [Server -> Account]
  BY <1>1, CallFacts, CallsWith, RowsWith, StatusFacts DEF AccessTypeOK
<1>5. \A v \in Server : /\ calls[v] = IF v \in Of(p) THEN Ensure(AccountStatus) ELSE NoCall
                        /\ r[v] = IF v \in Of(p) THEN AccountStatus ELSE row[v]
  BY <1>1, CallFacts, CallsWith, RowsWith, StatusFacts DEF AccessTypeOK
<1> HIDE DEF calls, r, x
<1>6. /\ u \in [Plan -> Subscription] /\ \A q \in Plan : u[q] # "due"
      /\ \A q \in Plan \ {p} : u[q] = "current" => sub[q] = "current"
  BY <1>2, LapsedFacts DEF Subscription
<1> HIDE DEF u
<1>7. ASSUME NEW v \in Server \ {}, active[v], v \in gap => Settles(calls[v])
      PROVE  After(calls[v], remote[v]) = r[v] /\ (v \in Entitled(u) => Grants(v, r))
  <2>1. CASE v \in Of(p)
    BY <1>1, <1>5, <2>1, CallFacts, GrantFacts
  <2>2. CASE v \notin Of(p)
    <3>1. v \notin gap /\ calls[v] = NoCall /\ r[v] = row[v]
      BY <1>5, <1>7, <2>2, CallFacts
    <3>2. Fits(v, row, sub, status) /\ remote[v] = row[v]
      BY <1>1, <1>7, <3>1, QuietFacts
    <3>3. v \in Entitled(u) => v \in Covered(sub)
      BY <1>1, <1>6, <2>2, PlanFacts DEF AccessTypeOK
    <3>4. QED
      BY <3>1, <3>2, <3>3, CallFacts DEF Fits, Grants
  <2>3. QED
    BY <2>1, <2>2
<1>8. QED
  BY <1>3, <1>4, <1>6, <1>7, SyncWell

LEMMA ExpireKeeps ==
    ASSUME AccessInvariant, ExpireDue
    PROVE  AccessInvariant'
<1> DEFINE u == Lapsed(sub)
<1>1. AccessTypeOK /\ Quiet
  BY DEF AccessInvariant, ExpireDue, Sync, Begin
<1>2. Begin(With(NoCalls, ToDisable(row, u), Set("DISABLED")), Disabled(row, u), u, status, {})
  BY DEF ExpireDue, Sync
<1>3. /\ u \in [Plan -> Subscription]
      /\ \A p \in Plan : u[p] # "due" /\ (u[p] = "current" <=> sub[p] = "current")
  BY <1>1, LapsedFacts DEF AccessTypeOK
<1> HIDE DEF u
<1>4. \A v \in Server : v \in Entitled(u) => v \in Covered(sub)
  BY <1>1, <1>3, EntitledIsCovered
<1>5. /\ NoCalls \in [Server -> Call] /\ row \in [Server -> Account]
      /\ \A v \in Server \ {} : active[v] /\ (v \in gap => Settles(NoCalls[v])) =>
            After(NoCalls[v], remote[v]) = row[v] /\ (v \in Entitled(u) => Grants(v, row))
  BY <1>1, <1>3, <1>4, NoCallsWell
<1>6. QED
  BY <1>2, <1>3, <1>5, SyncWell

\* What remains when the subscription to a plan is deleted entitles to nothing new.
LEMMA ForgottenFacts ==
    ASSUME AccessTypeOK, NEW p \in Plan, NEW left \in {"none", "CANCELED", "current"},
           NEW u, u = Lapsed([sub EXCEPT ![p] = left])
    PROVE  /\ u \in [Plan -> Subscription] /\ \A q \in Plan : u[q] # "due"
           /\ \A q \in Plan \ {p} : u[q] = "current" => sub[q] = "current"
           /\ u[p] = "current" => left = "current"
<1> DEFINE x == [sub EXCEPT ![p] = left]
<1>1. /\ x \in [Plan -> Subscription] /\ x[p] = left
      /\ \A q \in Plan \ {p} : x[q] = sub[q]
  BY DEF AccessTypeOK, Subscription
<1>2. u = Lapsed(x)
  OBVIOUS
<1> HIDE DEF x
<1>3. QED
  BY <1>1, <1>2, LapsedFacts

LEMMA CleanupKeeps ==
    ASSUME AccessInvariant, NEW p \in Plan, Cleanup(p)
    PROVE  AccessInvariant'
<1> DEFINE left == "none"
           u == Lapsed([sub EXCEPT ![p] = left])
<1>1. AccessTypeOK /\ left \in {"none", "CANCELED", "current"}
  BY DEF AccessInvariant
<1>2. SyncOrDelete(row, u)
  BY DEF Cleanup
<1>3. left # "current"
  OBVIOUS
<1> HIDE DEF left
<1>4. /\ u \in [Plan -> Subscription] /\ \A q \in Plan : u[q] # "due"
      /\ \A q \in Plan \ {p} : u[q] = "current" => sub[q] = "current"
      /\ u[p] = "current" => left = "current"
  BY <1>1, ForgottenFacts
<1> HIDE DEF u
<1>5. \A q \in Plan : u[q] = "current" => sub[q] \in {"current", "due"}
  BY <1>3, <1>4
<1>6. QED
  BY <1>1, <1>2, <1>4, <1>5, EntitledIsCovered, SyncOrDeleteKeeps

\* A refund that finds the plan cancelled and leaves it current gives no account
\* back: those servers are in the gap.
LEMMA RefundKeeps ==
    ASSUME AccessInvariant, NEW p \in Plan, NEW left \in Subscription, Refund(p, left)
    PROVE  AccessInvariant'
<1> DEFINE u == Lapsed([sub EXCEPT ![p] = left])
           g == IF sub[p] = "CANCELED" THEN Servers[p] ELSE {}
<1>1. AccessTypeOK /\ left \in {"none", "CANCELED", "current"}
  BY DEF AccessInvariant, Refund
<1>2. /\ u \in [Plan -> Subscription] /\ \A q \in Plan : u[q] # "due"
      /\ \A q \in Plan \ {p} : u[q] = "current" => sub[q] = "current"
      /\ u[p] = "current" => left = "current"
  BY <1>1, ForgottenFacts
<1>3. left = "current" => sub[p] \in {"current", "CANCELED"}
  BY <1>1 DEF Refund, AccessTypeOK, Subscription
<1>4. CASE left = "none"
  <2>1. SyncOrDelete(row, u)
    BY <1>4 DEF Refund
  <2>2. \A q \in Plan : u[q] = "current" => sub[q] \in {"current", "due"}
    BY <1>2, <1>4
  <2> HIDE DEF u
  <2>3. QED
    BY <1>1, <1>2, <2>1, <2>2, EntitledIsCovered, SyncOrDeleteKeeps
<1>5. CASE left # "none"
  <2>1. Begin(With(NoCalls, ToDisable(row, u), Set("DISABLED")), Disabled(row, u), u, status, g)
    BY <1>5 DEF Refund
  <2>2. Quiet /\ g \in SUBSET Server
    BY <2>1, EntitlementsAssumption DEF Begin, EntitlementsAssumption
  <2>3. ASSUME NEW v \in Server \ g, v \in Entitled(u)
        PROVE  v \in Covered(sub)
    <3> HIDE DEF u
    <3>1. PICK q \in Plan : u[q] = "current" /\ v \in Of(q)
      BY <1>1, <1>2, <2>3, PlanFacts
    <3>2. sub[q] = "current"
      BY <1>1, <1>2, <1>3, <2>3, <3>1, PlanFacts
    <3>3. QED
      BY <1>1, <3>1, <3>2, PlanFacts DEF AccessTypeOK
  <2> HIDE DEF u, g
  <2>4. /\ NoCalls \in [Server -> Call] /\ row \in [Server -> Account]
        /\ \A v \in Server \ g : active[v] /\ (v \in gap => Settles(NoCalls[v])) =>
              After(NoCalls[v], remote[v]) = row[v] /\ (v \in Entitled(u) => Grants(v, row))
    BY <1>2, <2>2, <2>3, NoCallsWell
  <2>5. QED
    BY <1>2, <2>1, <2>2, <2>4, SyncWell
<1>6. QED
  BY <1>4, <1>5

-----------------------------------------------------------------------------
(* Entitlements: administration of users.                                  *)

\* Accounts for S: right for subscriptions u that entitle to nothing else but
\* what is covered already, and to which plans that are due are in the gap.
LEMMA ReconcileKeeps ==
    ASSUME AccessInvariant, NEW S \in SUBSET Server, NEW u \in [Plan -> Subscription],
           NEW g \in SUBSET Server, Reconcile(S, u, g),
           \A v \in S : active[v],
           \A v \in Server \ g : v \in Covered(u) => v \in Entitled(u),
           \A v \in Server : v \in Entitled(u) => v \in S \/ v \in Covered(sub)
    PROVE  AccessInvariant'
<1> DEFINE calls == With(NoCalls, S, Create)
           r == With(row, S, AccountStatus)
           all == g \cup Mistaken(S)
<1>1. Begin(With(With(calls, ToDelete(r, u), Delete), S \cap ToDelete(r, u), Undo),
            Removed(r, u), u, status, all)
  BY DEF Reconcile
<1>2. AccessTypeOK /\ Quiet
  BY <1>1 DEF AccessInvariant, Begin
<1>3. all \in SUBSET Server
  BY DEF Mistaken
<1>4. calls \in [Server -> Call] /\ r \in [Server -> Account]
  BY <1>2, CallFacts, CallsWith, RowsWith, StatusFacts DEF AccessTypeOK
<1>5. \A v \in Server : /\ calls[v] = IF v \in S THEN Create ELSE NoCall
                        /\ r[v] = IF v \in S THEN AccountStatus ELSE row[v]
  BY <1>2, CallFacts, CallsWith, RowsWith, StatusFacts DEF AccessTypeOK
<1>6. \A v \in S : v \notin all => After(Create, remote[v]) = AccountStatus
  BY DEF Mistaken
<1>7. \A v \in Server \ all : v \in Covered(u) => v \in Entitled(u)
  OBVIOUS
<1> HIDE DEF calls, r, all
<1>8. ASSUME NEW v \in Server \ all, active[v], v \in gap => Settles(calls[v])
      PROVE  After(calls[v], remote[v]) = r[v] /\ (v \in Entitled(u) => Grants(v, r))
  <2>1. CASE v \in S
    BY <1>2, <1>5, <1>6, <1>8, <2>1, GrantFacts
  <2>2. CASE v \notin S
    <3>1. v \notin gap /\ calls[v] = NoCall /\ r[v] = row[v]
      BY <1>5, <1>8, <2>2, CallFacts
    <3>2. Fits(v, row, sub, status) /\ remote[v] = row[v]
      BY <1>2, <1>8, <3>1, QuietFacts
    <3>3. v \in Entitled(u) => v \in Covered(sub)
      BY <2>2
    <3>4. QED
      BY <3>1, <3>2, <3>3, CallFacts DEF Fits, Grants
  <2>3. QED
    BY <2>1, <2>2
<1>9. QED
  BY <1>1, <1>3, <1>4, <1>7, <1>8, DeleteWell

LEMMA AssignKeeps ==
    ASSUME AccessInvariant, NEW P \in SUBSET Plan, NEW over \in SUBSET Plan, Assign(P, over)
    PROVE  AccessInvariant'
<1> DEFINE S == UNION {Of(p) : p \in P}
           u == [p \in Plan |-> IF p \in over THEN "EXPIRED"
                                ELSE IF p \in P THEN "current"
                                ELSE IF P = {} \/ sub[p] \in {"current", "due"} THEN "none"
                                ELSE sub[p]]
<1>1. Reconcile(S, u, {}) /\ over \subseteq P
  BY DEF Assign
<1>2. AccessTypeOK
  BY DEF AccessInvariant
<1>3. S \in SUBSET Server /\ \A v : v \in S <=> \E p \in P : v \in Of(p)
  BY EntitlementsAssumption DEF Of, EntitlementsAssumption
<1>4. /\ u \in [Plan -> Subscription]
      /\ \A p \in Plan : u[p] # "due" /\ (u[p] = "current" => p \in P)
  BY <1>2 DEF AccessTypeOK, Subscription
<1> HIDE DEF u, S
<1>5. \A v \in S : active[v]
  BY <1>3 DEF Of
<1>6. \A v \in Server \ {} : v \in Covered(u) => v \in Entitled(u)
  BY <1>4, NothingDue
<1>7. \A v \in Server : v \in Entitled(u) => v \in S \/ v \in Covered(sub)
  BY <1>2, <1>3, <1>4, PlanFacts
<1>8. {} \in SUBSET Server
  OBVIOUS
<1>9. QED
  BY <1>1, <1>3, <1>4, <1>5, <1>6, <1>7, <1>8, ReconcileKeeps

LEMMA OverwriteKeeps ==
    ASSUME AccessInvariant, NEW q \in Plan, NEW p \in Plan, NEW new \in Subscription,
           Overwrite(q, p, new)
    PROVE  AccessInvariant'
<1> DEFINE u == [sub EXCEPT ![q] = IF q = p THEN new ELSE "none",
                            ![p] = IF new = "EXPIRED" /\ q # p /\ @ \in {"current", "due"}
                                   THEN @ ELSE new]
           g == Covered(u) \ Entitled(u)
<1>1. Reconcile(Of(p), u, g)
  BY DEF Overwrite
<1>2. AccessTypeOK
  BY DEF AccessInvariant
<1>3. /\ u \in [Plan -> Subscription]
      /\ \A o \in Plan : u[o] = "current" => o = p \/ sub[o] = "current"
  BY <1>2 DEF AccessTypeOK, Subscription
<1> HIDE DEF u
<1>4. Of(p) \in SUBSET Server /\ \A v \in Of(p) : active[v]
  BY <1>2, <1>3, PlanFacts
<1>5. g \in SUBSET Server
  BY <1>2, <1>3, PlanFacts
<1>6. \A v \in Server \ g : v \in Covered(u) => v \in Entitled(u)
  OBVIOUS
<1>7. \A v \in Server : v \in Entitled(u) => v \in Of(p) \/ v \in Covered(sub)
  BY <1>2, <1>3, PlanFacts DEF AccessTypeOK
<1> HIDE DEF g
<1>8. QED
  BY <1>1, <1>3, <1>4, <1>5, <1>6, <1>7, ReconcileKeeps

\* Who becomes ABNORMAL or DELETED keeps what they have; who is banned or freed has every
\* known account switched, the orphaned ones included.
LEMMA SetStatusKeeps ==
    ASSUME AccessInvariant, NEW new \in UserStatus, SetStatus(new)
    PROVE  AccessInvariant'
<1> DEFINE to == IF new = "ACTIVE" THEN "ENABLED" ELSE "DISABLED"
           calls == With(NoCalls, Known, Set(to))
           r == With(row, Known, to)
           g == IF new = "ACTIVE" THEN Orphaned(row, sub) ELSE {}
<1>1. AccessTypeOK /\ Quiet
  BY DEF AccessInvariant, SetStatus, Begin
<1>2. CASE new \in {"ABNORMAL", "DELETED"}
  <2>1. Begin(NoCalls, row, sub, new, {})
    BY <1>2 DEF SetStatus
  <2>2. ASSUME NEW v \in Server \ {}, active[v], v \in gap => Settles(NoCalls[v])
        PROVE  Fits(v, row, sub, new) /\ After(NoCalls[v], remote[v]) = row[v]
    <3>1. NoCalls[v] = NoCall /\ v \notin gap
      BY <2>2, CallFacts
    <3>2. QED
      BY <1>1, <1>2, <2>2, <3>1, QuietFacts, CallFacts DEF Fits
  <2>3. QED
    BY <1>1, <2>1, <2>2, CallFacts, BeginWell DEF AccessTypeOK
<1>3. CASE new \notin {"ABNORMAL", "DELETED"}
  <2>1. Begin(calls, r, sub, new, g)
    BY <1>3 DEF SetStatus
  <2>2. to \in Account /\ to # "none" /\ (to = "ENABLED" <=> new = "ACTIVE")
    BY DEF Account
  <2> HIDE DEF to
  <2>3. calls \in [Server -> Call] /\ r \in [Server -> Account] /\ g \in SUBSET Server
    BY <1>1, <2>2, CallFacts, CallsWith, RowsWith DEF AccessTypeOK, Orphaned
  <2>4. \A v \in Server : /\ calls[v] = IF v \in Known THEN Set(to) ELSE NoCall
                          /\ r[v] = IF v \in Known THEN to ELSE row[v]
    BY <1>1, <2>2, CallFacts, CallsWith, RowsWith DEF AccessTypeOK
  <2>5. ASSUME NEW v \in Server \ g, active[v], v \in Known
        PROVE  new = "ACTIVE" => v \in Covered(sub)
    BY <1>1, <2>5, PlanFacts DEF Orphaned, Known, AccessTypeOK
  <2> HIDE DEF calls, r, g
  <2>6. ASSUME NEW v \in Server \ g, active[v], v \in gap => Settles(calls[v])
        PROVE  Fits(v, r, sub, new) /\ After(calls[v], remote[v]) = r[v]
    <3>1. CASE v \in Known
      BY <2>2, <2>4, <2>5, <2>6, <3>1, CallFacts DEF Fits
    <3>2. CASE v \notin Known
      <4>1. v \notin gap /\ calls[v] = NoCall /\ r[v] = row[v] /\ row[v] = "none"
        BY <2>4, <2>6, <3>2, CallFacts DEF Known
      <4>2. QED
        BY <1>1, <2>6, <4>1, QuietFacts, CallFacts DEF Fits
    <3>3. QED
      BY <3>1, <3>2
  <2>7. QED
    BY <1>1, <2>1, <2>3, <2>6, BeginWell DEF AccessTypeOK
<1>4. QED
  BY <1>2, <1>3

\* Known accounts get the password; without any, the servers of a current plan
\* get accounts of the right status.
LEMMA SetPasswordKeeps ==
    ASSUME AccessInvariant, SetPassword
    PROVE  AccessInvariant'
<1>1. AccessTypeOK /\ Quiet
  BY DEF AccessInvariant, SetPassword, Begin
<1>2. CASE Known # {}
  <2> DEFINE calls == With(NoCalls, Known, Password)
  <2>1. Begin(calls, row, sub, status, {})
    BY <1>2 DEF SetPassword
  <2>2. calls \in [Server -> Call]
    BY CallFacts, CallsWith
  <2>3. \A v \in Server : calls[v] = IF v \in Known THEN Password ELSE NoCall
    BY CallFacts, CallsWith
  <2> HIDE DEF calls
  <2>4. ASSUME NEW v \in Server \ {}, active[v], v \in gap => Settles(calls[v])
        PROVE  Fits(v, row, sub, status) /\ After(calls[v], remote[v]) = row[v]
    <3>1. v \notin gap /\ After(calls[v], remote[v]) = remote[v]
      BY <2>3, <2>4, CallFacts
    <3>2. QED
      BY <1>1, <2>4, <3>1, QuietFacts
  <2>5. QED
    BY <1>1, <2>1, <2>2, <2>4, BeginWell DEF AccessTypeOK
<1>3. CASE Known = {}
  <2>1. PICK p \in Plan :
            /\ sub[p] = "current"
            /\ Begin(With(NoCalls, Of(p), Ensure(AccountStatus)), With(row, Of(p), AccountStatus),
                     sub, status, {})
    BY <1>3 DEF SetPassword
  <2> DEFINE calls == With(NoCalls, Of(p), Ensure(AccountStatus))
             r == With(row, Of(p), AccountStatus)
  <2>2. Begin(calls, r, sub, status, {})
    BY <2>1
  <2>3. calls \in [Server -> Call] /\ r \in [Server -> Account]
    BY <1>1, CallFacts, CallsWith, RowsWith, StatusFacts DEF AccessTypeOK
  <2>4. \A v \in Server : /\ calls[v] = IF v \in Of(p) THEN Ensure(AccountStatus) ELSE NoCall
                          /\ r[v] = IF v \in Of(p) THEN AccountStatus ELSE row[v]
    BY <1>1, CallFacts, CallsWith, RowsWith, StatusFacts DEF AccessTypeOK
  <2> HIDE DEF calls, r
  <2>5. ASSUME NEW v \in Server \ {}, active[v], v \in gap => Settles(calls[v])
        PROVE  Fits(v, r, sub, status) /\ After(calls[v], remote[v]) = r[v]
    <3>1. CASE v \in Of(p)
      <4>1. r[v] = AccountStatus /\ After(calls[v], remote[v]) = AccountStatus
        BY <2>4, <3>1, CallFacts
      <4>2. v \in Covered(sub)
        BY <1>1, <2>1, <3>1, PlanFacts DEF AccessTypeOK
      <4>3. QED
        BY <1>1, <4>1, <4>2, GrantFacts DEF Grants, Fits
    <3>2. CASE v \notin Of(p)
      <4>1. v \notin gap /\ calls[v] = NoCall /\ r[v] = row[v]
        BY <2>4, <2>5, <3>2, CallFacts
      <4>2. QED
        BY <1>1, <2>5, <4>1, QuietFacts, CallFacts DEF Fits
    <3>3. QED
      BY <3>1, <3>2
  <2>6. QED
    BY <1>1, <2>2, <2>3, <2>5, BeginWell DEF AccessTypeOK
<1>4. QED
  BY <1>2, <1>3

\* The accounts that admins create anew belong to the plan, or are in the gap.
LEMMA SetPasswordByAdminKeeps ==
    ASSUME AccessInvariant, SetPasswordByAdmin
    PROVE  AccessInvariant'
<1>1. PICK p \in Plan :
          Begin(With(NoCalls, Of(p), Create), With(row, Of(p), AccountStatus), sub, status,
                IF sub[p] = "current" THEN Mistaken(Of(p)) ELSE Of(p))
  BY DEF SetPasswordByAdmin
<1> DEFINE calls == With(NoCalls, Of(p), Create)
           r == With(row, Of(p), AccountStatus)
           g == IF sub[p] = "current" THEN Mistaken(Of(p)) ELSE Of(p)
<1>2. Begin(calls, r, sub, status, g)
  BY <1>1
<1>3. AccessTypeOK /\ Quiet
  BY <1>2 DEF AccessInvariant, Begin
<1>4. calls \in [Server -> Call] /\ r \in [Server -> Account]
  BY <1>3, CallFacts, CallsWith, RowsWith, StatusFacts DEF AccessTypeOK
<1>5. g \in SUBSET Server
  BY <1>3, PlanFacts DEF Mistaken, AccessTypeOK
<1>6. \A v \in Server : /\ calls[v] = IF v \in Of(p) THEN Create ELSE NoCall
                        /\ r[v] = IF v \in Of(p) THEN AccountStatus ELSE row[v]
  BY <1>3, CallFacts, CallsWith, RowsWith, StatusFacts DEF AccessTypeOK
<1>7. \A v \in Of(p) : v \notin g =>
          sub[p] = "current" /\ After(Create, remote[v]) = AccountStatus
  BY DEF Mistaken
<1> HIDE DEF calls, r, g
<1>8. ASSUME NEW v \in Server \ g, active[v], v \in gap => Settles(calls[v])
      PROVE  Fits(v, r, sub, status) /\ After(calls[v], remote[v]) = r[v]
  <2>1. CASE v \in Of(p)
    <3>1. r[v] = AccountStatus /\ After(calls[v], remote[v]) = AccountStatus
      BY <1>6, <1>7, <1>8, <2>1
    <3>2. v \in Covered(sub)
      BY <1>3, <1>7, <1>8, <2>1, PlanFacts DEF AccessTypeOK
    <3>3. QED
      BY <1>3, <3>1, <3>2, GrantFacts DEF Grants, Fits
  <2>2. CASE v \notin Of(p)
    <3>1. v \notin gap /\ calls[v] = NoCall /\ r[v] = row[v]
      BY <1>6, <1>8, <2>2, CallFacts
    <3>2. QED
      BY <1>3, <1>8, <3>1, QuietFacts, CallFacts DEF Fits
  <2>3. QED
    BY <2>1, <2>2
<1>9. QED
  BY <1>2, <1>3, <1>4, <1>5, <1>8, BeginWell DEF AccessTypeOK

-----------------------------------------------------------------------------
(* Entitlements: steps that call no server.                                *)

\* A step without a handler has to be right on the servers outside the new gap.
LEMMA QuietStep ==
    ASSUME AccessInvariant, Quiet, UNCHANGED handler, AccessTypeOK',
           \A v \in Server \ gap' : active'[v] => Fits(v, row, sub, status)' /\ remote'[v] = row'[v]
    PROVE  AccessInvariant'
<1>1. Quiet'
  BY DEF Quiet
<1>2. RowsFit(row, sub, status, gap)'
  BY DEF RowsFit, Fits
<1>3. QED
  BY <1>1, <1>2 DEF AccessInvariant

LEMMA LapseKeeps ==
    ASSUME AccessInvariant, NEW p \in Plan, Lapse(p)
    PROVE  AccessInvariant'
<1>1. AccessTypeOK /\ Quiet
  BY DEF AccessInvariant, Lapse
<1>2. /\ sub' = [sub EXCEPT ![p] = "due"] /\ sub[p] = "current"
      /\ UNCHANGED <<status, row, remote, active, handler, gap, faults>>
  BY DEF Lapse
<1>3. AccessTypeOK'
  BY <1>1, <1>2 DEF AccessTypeOK, Subscription
<1>4. Covered(sub)' = Covered(sub)
  BY <1>1, <1>2 DEF Covered, Of, AccessTypeOK
<1>5. \A v \in Server \ gap' : active'[v] => Fits(v, row, sub, status)' /\ remote'[v] = row'[v]
  BY <1>1, <1>2, <1>4, QuietFacts DEF Fits
<1>6. QED
  BY <1>1, <1>2, <1>3, <1>5, QuietStep

LEMMA ExtendKeeps ==
    ASSUME AccessInvariant, NEW p \in Plan, NEW new \in Subscription, Extend(p, new)
    PROVE  AccessInvariant'
<1>1. AccessTypeOK /\ Quiet
  BY DEF AccessInvariant, Extend
<1>2. /\ sub' = [sub EXCEPT ![p] = new]
      /\ gap' = gap \cup IF sub[p] = "due" /\ new = "current" THEN {} ELSE Servers[p]
      /\ UNCHANGED <<status, row, remote, active, handler, faults>>
  BY DEF Extend
<1>3. AccessTypeOK'
  BY <1>1, <1>2, EntitlementsAssumption DEF AccessTypeOK, Subscription, EntitlementsAssumption
<1>4. ASSUME NEW v \in Server \ gap'
      PROVE  v \notin gap /\ (v \in Covered(sub)' <=> v \in Covered(sub))
  <2>1. v \notin gap /\ ((sub[p] = "due" /\ new = "current") \/ v \notin Servers[p])
    BY <1>2, <1>4
  <2>2. QED
    BY <1>1, <1>2, <2>1 DEF Covered, Of, AccessTypeOK
<1>5. \A v \in Server \ gap' : active'[v] => Fits(v, row, sub, status)' /\ remote'[v] = row'[v]
  BY <1>1, <1>2, <1>4, QuietFacts DEF Fits
<1>6. QED
  BY <1>1, <1>2, <1>3, <1>5, QuietStep

LEMMA StatusAloneKeeps ==
    ASSUME AccessInvariant, NEW new \in UserStatus, SetStatusOnly(new)
    PROVE  AccessInvariant'
<1>1. /\ AccessTypeOK /\ Quiet /\ status' = new /\ gap' = Server
      /\ UNCHANGED <<sub, row, remote, active, handler, faults>>
  BY DEF AccessInvariant, SetStatusOnly
<1>2. AccessTypeOK'
  BY <1>1 DEF AccessTypeOK
<1>3. QED
  BY <1>1, <1>2, QuietStep

LEMMA ImportKeeps ==
    ASSUME AccessInvariant, NEW x \in Server, NEW to \in Account, NEW new \in UserStatus,
           ImportFromEmby(x, to, new)
    PROVE  AccessInvariant'
<1>1. /\ AccessTypeOK /\ Quiet /\ status' = new /\ gap' = Server
      /\ row' = [row EXCEPT ![x] = to]
      /\ UNCHANGED <<sub, remote, active, handler, faults>>
  BY DEF AccessInvariant, ImportFromEmby
<1>2. AccessTypeOK'
  BY <1>1 DEF AccessTypeOK
<1>3. QED
  BY <1>1, <1>2, QuietStep

LEMMA DeleteUserKeeps ==
    ASSUME AccessInvariant, DeleteUser
    PROVE  AccessInvariant'
<1>1. /\ AccessTypeOK /\ Quiet /\ status' = "DELETED"
      /\ UNCHANGED <<sub, row, remote, active, handler, gap, faults>>
  BY DEF AccessInvariant, DeleteUser
<1>2. AccessTypeOK'
  BY <1>1 DEF AccessTypeOK, UserStatus
<1>3. Covered(sub)' = Covered(sub)
  BY <1>1 DEF Covered, Of
<1>4. \A v \in Server \ gap' : active'[v] => Fits(v, row, sub, status)' /\ remote'[v] = row'[v]
  BY <1>1, <1>3, QuietFacts DEF Fits
<1>5. QED
  BY <1>1, <1>2, <1>4, QuietStep

LEMMA AnomalyKeeps ==
    ASSUME AccessInvariant, AnomalyCheck
    PROVE  AccessInvariant'
<1>1. /\ AccessTypeOK /\ Quiet /\ status' = "ABNORMAL"
      /\ UNCHANGED <<sub, row, remote, active, handler, gap, faults>>
  BY DEF AccessInvariant, AnomalyCheck
<1>2. AccessTypeOK'
  BY <1>1 DEF AccessTypeOK, UserStatus
<1>3. Covered(sub)' = Covered(sub)
  BY <1>1 DEF Covered, Of
<1>4. \A v \in Server \ gap' : active'[v] => Fits(v, row, sub, status)' /\ remote'[v] = row'[v]
  BY <1>1, <1>3, QuietFacts DEF Fits
<1>5. QED
  BY <1>1, <1>2, <1>4, QuietStep

\* Only the server that is switched changes what is covered; switched on, it is
\* in the gap.
LEMMA SwitchKeeps ==
    ASSUME AccessInvariant, NEW x \in Server, SwitchServer(x)
    PROVE  AccessInvariant'
<1>1. /\ AccessTypeOK /\ Quiet
      /\ active' = [active EXCEPT ![x] = ~@]
      /\ gap' = gap \cup IF active[x] THEN {} ELSE {x}
      /\ UNCHANGED <<status, sub, row, remote, handler, faults>>
  BY DEF AccessInvariant, SwitchServer
<1>2. active' \in [Server -> BOOLEAN]
  BY <1>1 DEF AccessTypeOK
<1>3. gap' \subseteq Server /\ gap \subseteq gap'
  BY <1>1 DEF AccessTypeOK
<1>4. AccessTypeOK'
  BY <1>1, <1>2, <1>3 DEF AccessTypeOK
<1>5. ASSUME NEW v \in Server \ gap', active'[v]
      PROVE  v # x /\ active[v] /\ v \notin gap
  <2>1. v = x => active[x]
    BY <1>1, <1>5
  <2>2. v # x
    BY <1>1, <1>5, <2>1 DEF AccessTypeOK
  <2>3. QED
    BY <1>1, <1>3, <1>5, <2>2 DEF AccessTypeOK
<1>6. ASSUME NEW v \in Server \ gap', active'[v]
      PROVE  v \in Covered(sub)' <=> v \in Covered(sub)
  BY <1>1, <1>5, <1>6 DEF Covered, Of
<1>7. \A v \in Server \ gap' : active'[v] => Fits(v, row, sub, status)' /\ remote'[v] = row'[v]
  BY <1>1, <1>5, <1>6, QuietFacts DEF Fits
<1>8. QED
  BY <1>1, <1>4, <1>7, QuietStep

\* A row that is changed alone puts its server in the gap.
LEMMA RowAloneKeeps ==
    ASSUME AccessInvariant, Quiet, NEW x \in Server, NEW to \in Account,
           row' = [row EXCEPT ![x] = to], gap' = gap \cup {x},
           UNCHANGED <<status, sub, remote, active, handler, faults>>
    PROVE  AccessInvariant'
<1>1. AccessTypeOK
  BY DEF AccessInvariant
<1>2. AccessTypeOK'
  BY <1>1 DEF AccessTypeOK
<1>3. Covered(sub)' = Covered(sub)
  BY DEF Covered, Of
<1>4. \A v \in Server \ gap' : v \notin gap /\ row'[v] = row[v]
  BY <1>1 DEF AccessTypeOK
<1>5. \A v \in Server \ gap' : active'[v] => Fits(v, row, sub, status)' /\ remote'[v] = row'[v]
  BY <1>3, <1>4, QuietFacts DEF Fits
<1>6. QED
  BY <1>2, <1>5, QuietStep

-----------------------------------------------------------------------------
(* Entitlements: the theorems.                                             *)

LEMMA AccessStart == AccessInit => AccessInvariant
<1> SUFFICES ASSUME AccessInit PROVE AccessInvariant
  OBVIOUS
<1>1. sub \in [Plan -> Subscription]
  BY DEF AccessInit, Arrived, NoPlan, Subscription
<1>2. row \in [Server -> Account] /\ \A v \in Server : row[v] = "none"
  BY DEF AccessInit, Account
<1>3. \A v : v \in Covered(sub) => v \in Server
  BY <1>1, EntitlementsAssumption DEF Covered, Of, EntitlementsAssumption
<1>4. AccessTypeOK
  BY <1>1, <1>2, <1>3, EntitlementsAssumption DEF AccessInit, AccessTypeOK, UserStatus,
     EntitlementsAssumption
<1>5. Quiet
  BY DEF AccessInit, Quiet, NoHandler
<1>6. \A v \in Server \ gap : v \notin Covered(sub) /\ remote[v] = "none"
  BY DEF AccessInit
<1>7. RowsFit(row, sub, status, gap)
  BY <1>2, <1>6 DEF RowsFit
<1>8. QED
  BY <1>2, <1>4, <1>5, <1>6, <1>7 DEF AccessInvariant

LEMMA AccessStep == AccessInvariant /\ [AccessNext]_accessVars => AccessInvariant'
<1> SUFFICES ASSUME AccessInvariant, [AccessNext]_accessVars PROVE AccessInvariant'
  OBVIOUS
<1>1. CASE Billing
  <2>1. CASE ExpireDue
    BY <2>1, ExpireKeeps
  <2>2. ASSUME NEW p \in Plan, Lapse(p) PROVE AccessInvariant'
    BY <2>2, LapseKeeps
  <2>3. ASSUME NEW p \in Plan, Cleanup(p) PROVE AccessInvariant'
    BY <2>3, CleanupKeeps
  <2>4. ASSUME NEW p \in Plan, NEW replaced \in SUBSET Plan, Pay(p, replaced)
        PROVE  AccessInvariant'
    BY <2>4, PayKeeps
  <2>5. ASSUME NEW p \in Plan, NEW left \in Subscription, Refund(p, left)
        PROVE  AccessInvariant'
    BY <2>5, RefundKeeps
  <2>6. QED
    BY <1>1, <2>1, <2>2, <2>3, <2>4, <2>5 DEF Billing
<1>2. CASE UserAdministration
  <2>1. ASSUME NEW P \in SUBSET Plan, NEW over \in SUBSET Plan, Assign(P, over)
        PROVE  AccessInvariant'
    BY <2>1, AssignKeeps
  <2>2. ASSUME NEW p \in Plan, NEW new \in Subscription, Extend(p, new) PROVE AccessInvariant'
    BY <2>2, ExtendKeeps
  <2>3. ASSUME NEW new \in UserStatus, SetStatus(new) PROVE AccessInvariant'
    BY <2>3, SetStatusKeeps
  <2>4. ASSUME NEW new \in UserStatus, SetStatusOnly(new) PROVE AccessInvariant'
    BY <2>4, StatusAloneKeeps
  <2>5. CASE AnomalyCheck
    BY <2>5, AnomalyKeeps
  <2>6. CASE SetPassword
    BY <2>6, SetPasswordKeeps
  <2>7. CASE SetPasswordByAdmin
    BY <2>7, SetPasswordByAdminKeeps
  <2>8. ASSUME NEW p \in Plan, NEW new \in Subscription, NEW q \in Plan, Overwrite(q, p, new)
        PROVE  AccessInvariant'
    BY <2>8, OverwriteKeeps
  <2>9. ASSUME NEW new \in UserStatus, NEW x \in Server, NEW to \in Account,
               ImportFromEmby(x, to, new)
        PROVE  AccessInvariant'
    BY <2>9, ImportKeeps
  <2>10. CASE DeleteUser
    BY <2>10, DeleteUserKeeps
  <2>11. QED
    BY <1>2, <2>1, <2>2, <2>3, <2>4, <2>5, <2>6, <2>7, <2>8, <2>9, <2>10 DEF UserAdministration
<1>3. CASE ServerAdministration
  <2>1. ASSUME NEW x \in Server, SwitchServer(x) PROVE AccessInvariant'
    BY <2>1, SwitchKeeps
  <2>2. ASSUME NEW x \in Server, NEW to \in Account, SetRow(x, to) PROVE AccessInvariant'
    BY <2>2, RowAloneKeeps DEF SetRow
  <2>3. CASE Backfill
    <3>1. PICK to \in Account : to = IF status = "ACTIVE" THEN "ENABLED" ELSE "DISABLED"
      BY DEF Account
    <3>2. /\ Quiet /\ row' = [row EXCEPT ![First] = to] /\ gap' = gap \cup {First}
          /\ UNCHANGED <<status, sub, remote, active, handler, faults>>
      BY <2>3, <3>1 DEF Backfill
    <3>3. First \in Server
      BY EntitlementsAssumption DEF EntitlementsAssumption
    <3>4. QED
      BY <3>2, <3>3, RowAloneKeeps
  <2>4. QED
    BY <1>3, <2>1, <2>2, <2>3 DEF ServerAdministration
<1>4. CASE Proceed
  <2>1. ASSUME NEW x \in Server, CallServer(x) PROVE AccessInvariant'
    BY <2>1, CallServerKeeps
  <2>2. CASE Commit
    BY <2>2, CommitKeeps
  <2>3. CASE Refuse
    <3>1. faults' \in 0 .. MaxFaults
      BY <2>3 DEF Refuse, AccessInvariant, AccessTypeOK
    <3>2. QED
      BY <2>3, <3>1, RollbackKeeps DEF Refuse
  <2>4. QED
    BY <1>4, <2>1, <2>2, <2>3 DEF Proceed
<1>5. CASE Break
  <2>1. faults' \in 0 .. MaxFaults
    BY <1>5, EntitlementsAssumption DEF Break, AccessInvariant, AccessTypeOK, EntitlementsAssumption
  <2>2. QED
    BY <1>5, <2>1, RollbackKeeps DEF Break
<1>6. CASE UNCHANGED accessVars
  BY <1>6 DEF accessVars, AccessInvariant, AccessTypeOK, RowsFit, GapAfter, Covered, Of, Quiet
<1>7. QED
  BY <1>1, <1>2, <1>3, <1>4, <1>5, <1>6 DEF AccessNext

\* Whatever the order of payments, refunds, jobs and administration, of failed
\* calls and rollbacks (subscriptions.py, admin_users.py, emby_accounts.py): rows
\* fit the plans and the status, accounts follow the rows once the calls in
\* progress are made, and where they do not, the server is in the gap.
THEOREM AccountsFollowPlans == AccessSpec => []AccessInvariant
<1>1. AccessInit => AccessInvariant
  BY AccessStart
<1>2. AccessInvariant /\ [AccessNext]_accessVars => AccessInvariant'
  BY AccessStep
<1>3. QED
  BY <1>1, <1>2, PTL DEF AccessSpec

\* When no handler runs and the expiry job has caught up, plans that are covered
\* are current.
LEMMA SettledFacts ==
    ASSUME AccessInvariant, Settled
    PROVE  /\ AccessTypeOK
           /\ \A v \in Server \ gap : active[v] =>
                 Fits(v, row, sub, status) /\ remote[v] = row[v]
           /\ Covered(sub) = Entitled(sub)
<1>1. AccessTypeOK /\ Quiet
  BY DEF AccessInvariant, Settled
<1>2. Covered(sub) = Entitled(sub)
  BY <1>1, NothingDue DEF Settled, AccessTypeOK
<1>3. QED
  BY <1>1, <1>2, QuietFacts

\* Outside the gap, an account is enabled only on a server of a current plan and
\* never for a banned user: what disable_orphaned_emby_accounts_for_user, the
\* expiry job and update_user_status are for.
THEOREM AccessNeedsPlan == AccessSpec => []NoAccessWithoutPlan
<1>1. AccessInvariant => NoAccessWithoutPlan
  <2> SUFFICES ASSUME AccessInvariant, Settled, NEW v \in Server \ gap, active[v],
                      remote[v] = "ENABLED"
               PROVE  status # "BANNED" /\ v \in Entitled(sub)
    BY DEF NoAccessWithoutPlan
  <2>1. QED
    BY SettledFacts DEF Fits
<1>2. QED
  BY <1>1, AccountsFollowPlans, PTL

\* Outside the gap, an active user's account is enabled on every server of every
\* current plan: no handler that ends one plan takes away what another gives.
THEOREM PlansGrantAccess == AccessSpec => []PlanGivesAccess
<1>1. AccessInvariant => PlanGivesAccess
  <2> SUFFICES ASSUME AccessInvariant, Settled, status = "ACTIVE", NEW v \in Entitled(sub) \ gap
               PROVE  remote[v] = "ENABLED"
    BY DEF PlanGivesAccess
  <2>1. v \in Server /\ active[v]
    BY SettledFacts, PlanFacts DEF AccessTypeOK
  <2>2. QED
    BY <2>1, SettledFacts DEF Fits
<1>2. QED
  BY <1>1, AccountsFollowPlans, PTL

-----------------------------------------------------------------------------
(* License: vocabulary of the proofs.                                      *)

\* What a process that starts has in memory, read off the files.
LEMMA StartFacts ==
    ASSUME NEW token, NEW files, Starts(token, files)
    PROVE  /\ s' = [h \in Handler |-> Idle]
           /\ ext' \in {"base", "loaded", "failed"}
           /\ local' \in BOOLEAN
           /\ ext' \in {"loaded", "failed"} <=>
                 local' \/ (token # NoToken /\ files.backend = "ready")
           /\ ext' = "loaded" <=> routes'
           /\ routes' \in BOOLEAN
BY DEF Starts, Loads, Loadable

\* The state of one handler after a step that gives it the state new.
LEMMA HandlerFacts ==
    ASSUME TypeOK, NEW h \in Handler, NEW new \in HandlerState,
           s' = [s EXCEPT ![h] = new]
    PROVE  /\ s' \in [Handler -> HandlerState]
           /\ s'[h] = new
           /\ \A g \in Handler \ {h} : s'[g] = s[g]
BY DEF TypeOK

\* A handler that waits for nothing.
LEMMA IdleFacts ==
    /\ Idle \in HandlerState
    /\ Idle.op = "none" /\ Idle.at = "idle" /\ Idle.token = NoToken
BY DEF Idle, HandlerState

\* Which artifact states are loadable.
LEMMA FileFacts ==
    /\ Inactive.backend = "inactive"
    /\ \A f : Fetched(f).backend = "ready"
BY DEF Inactive, Fetched

-----------------------------------------------------------------------------
(* The initial state and the steps that touch no file.                     *)

\* Nothing on file, nothing loaded but a package beside the application, nobody
\* waiting.
LEMMA InitInvariant ==
    ASSUME Init
    PROVE  LicenseInvariant
<1>1. s \in [Handler -> HandlerState] /\ \A h \in Handler : s[h] = Idle
  BY IdleFacts DEF Init
<1>2. TypeOK
  <2>1. license \in 0..signed /\ signed \in 0..MaxTokens /\ expired \subseteq 1..signed
    BY MaxTokensAssumption DEF Init, NoToken
  <2> QED
    BY <1>1, <2>1 DEF Init, TypeOK, Loads
<1>3. \A h \in Handler : s[h].at = "idle" /\ s[h].op \notin Granting
  BY <1>1, IdleFacts DEF Granting
<1>4. ext \in {"loaded", "failed"} <=> local
  BY FileFacts DEF Init, Loads, Loadable
<1> QED
  BY <1>2, <1>3, <1>4 DEF Init, LicenseInvariant, LicensedHasArtifacts

\* A handler that ends: nothing else changes but, perhaps, what the provider
\* counts and the status of the artifacts, which stay loadable.
LEMMA EndingStep ==
    ASSUME LicenseInvariant, NEW h \in Handler,
           s' = [s EXCEPT ![h] = Idle], seat' \in BOOLEAN,
           artifacts' = artifacts \/ artifacts' = Fetched("cached"),
           UNCHANGED <<local, license, expired, ext, routes, signed, off>>
    PROVE  LicenseInvariant'
<1>1. /\ s' \in [Handler -> HandlerState]
      /\ s'[h] = Idle
      /\ \A g \in Handler \ {h} : s'[g] = s[g]
  BY HandlerFacts, IdleFacts DEF LicenseInvariant
<1>2. TypeOK'
  BY <1>1 DEF LicenseInvariant, TypeOK
<1>3. LicensedHasArtifacts'
  BY FileFacts DEF LicenseInvariant, LicensedHasArtifacts
<1>4. \A g \in Handler :
        /\ s'[g].at \in {"backend", "frontend"} =>
              s'[g].op \in Granting /\ s'[g].token \in 1..signed'
        /\ s'[g].at = "deleted" => s'[g].op = "rollback"
        /\ off' => s'[g].op \notin Granting
  BY <1>1, IdleFacts DEF LicenseInvariant, Granting
<1> QED
  BY <1>2, <1>3, <1>4 DEF LicenseInvariant

\* A handler that goes on: it keeps its operation, or is just beginning.
LEMMA AdvancingStep ==
    ASSUME LicenseInvariant, NEW h \in Handler, NEW new \in HandlerState,
           s' = [s EXCEPT ![h] = new], seat' \in BOOLEAN,
           signed' \in 0..MaxTokens, signed <= signed', off' \in BOOLEAN,
           new.at \in {"backend", "frontend"} =>
               new.op \in Granting /\ new.token \in 1..signed',
           new.at = "deleted" => new.op = "rollback",
           off' => off /\ new.op \notin Granting,
           UNCHANGED <<local, license, artifacts, expired, ext, routes>>
    PROVE  LicenseInvariant'
<1>1. /\ s' \in [Handler -> HandlerState]
      /\ s'[h] = new
      /\ \A g \in Handler \ {h} : s'[g] = s[g]
  BY HandlerFacts DEF LicenseInvariant
<1>2. 0..signed \subseteq 0..signed' /\ 1..signed \subseteq 1..signed'
  BY MaxTokensAssumption DEF LicenseInvariant, TypeOK
<1>3. TypeOK'
  BY <1>1, <1>2 DEF LicenseInvariant, TypeOK
<1>4. \A g \in Handler :
        /\ s'[g].at \in {"backend", "frontend"} =>
              s'[g].op \in Granting /\ s'[g].token \in 1..signed'
        /\ s'[g].at = "deleted" => s'[g].op = "rollback"
        /\ off' => s'[g].op \notin Granting
  BY <1>1, <1>2 DEF LicenseInvariant
<1> QED
  BY <1>3, <1>4 DEF LicenseInvariant, LicensedHasArtifacts

\* A stop of the process: the handlers are gone and what it loads agrees with
\* files that are those of before, or those without the license.
LEMMA StartingStep ==
    ASSUME LicenseInvariant, seat' \in BOOLEAN,
           Starts(license', artifacts'),
           license' \in {license, NoToken},
           artifacts' \in {artifacts, Fetched("ready")},
           off' = off \/ (license' = NoToken /\ off' = TRUE),
           UNCHANGED <<expired, signed>>
    PROVE  LicenseInvariant'
<1>1. LicensedHasArtifacts'
  BY FileFacts DEF LicenseInvariant, LicensedHasArtifacts, NoToken
<1>2. TypeOK'
  <2>1. s' \in [Handler -> HandlerState]
    BY StartFacts, IdleFacts
  <2>2. license' \in 0..signed'
    BY MaxTokensAssumption DEF LicenseInvariant, TypeOK, NoToken
  <2> QED
    BY <2>1, <2>2, StartFacts DEF LicenseInvariant, TypeOK
<1>3. \A g \in Handler :
        /\ s'[g].at \in {"backend", "frontend"} =>
              s'[g].op \in Granting /\ s'[g].token \in 1..signed'
        /\ s'[g].at = "deleted" => s'[g].op = "rollback"
        /\ off' => s'[g].op \notin Granting
  BY StartFacts, IdleFacts DEF Granting
<1>4. ext' \in {"loaded", "failed"} <=> license' # NoToken \/ local'
  BY <1>1, StartFacts DEF LicensedHasArtifacts
<1> QED
  BY <1>1, <1>2, <1>3, <1>4, StartFacts DEF LicenseInvariant, TypeOK

-----------------------------------------------------------------------------
(* One lemma per action that the lemmas above do not cover as they stand.  *)

\* Only a handler with a license in hand stores one, so nothing is off.
LEMMA StoreStep ==
    ASSUME LicenseInvariant, NEW h \in Handler, Store(h)
    PROVE  LicenseInvariant'
<1>1. /\ s' \in [Handler -> HandlerState]
      /\ s'[h] = Idle
      /\ \A g \in Handler \ {h} : s'[g] = s[g]
  BY HandlerFacts, IdleFacts DEF LicenseInvariant, Store
<1>2. s[h].op \in Granting /\ license' \in 1..signed
  BY DEF LicenseInvariant, Store, WriteLicense
<1>3. license' # NoToken /\ license' \in 0..signed
  BY <1>2, MaxTokensAssumption DEF LicenseInvariant, TypeOK, NoToken
<1>4. ~off
  BY <1>2 DEF LicenseInvariant
<1>5. /\ ext' \in {"loaded", "failed"}
      /\ ext' = "loaded" => routes'
      /\ routes' \in BOOLEAN
  BY <1>3, FileFacts DEF LicenseInvariant, TypeOK, Store, Reload, Loads, Loadable
<1>6. TypeOK'
  BY <1>1, <1>3, <1>5 DEF LicenseInvariant, TypeOK, Store
<1>7. LicensedHasArtifacts'
  BY FileFacts DEF Store, LicensedHasArtifacts
<1>8. \A g \in Handler :
        /\ s'[g].at \in {"backend", "frontend"} =>
              s'[g].op \in Granting /\ s'[g].token \in 1..signed'
        /\ s'[g].at = "deleted" => s'[g].op = "rollback"
  BY <1>1, IdleFacts DEF LicenseInvariant, Store
<1> QED
  BY <1>3, <1>4, <1>5, <1>6, <1>7, <1>8 DEF LicenseInvariant, Store

\* Afterwards it is off unless a handler that grants is still waiting.
LEMMA ClearStep ==
    ASSUME LicenseInvariant, NEW h \in Handler, Clear(h)
    PROVE  LicenseInvariant'
<1>1. /\ s' \in [Handler -> HandlerState]
      /\ s'[h] = Idle
      /\ \A g \in Handler \ {h} : s'[g] = s[g]
  BY HandlerFacts, IdleFacts DEF LicenseInvariant, Clear
<1>2. license' = NoToken /\ ext' = "unset"
  BY DEF Clear, ClearLicense
<1>3. TypeOK'
  BY <1>1, <1>2, MaxTokensAssumption
     DEF LicenseInvariant, TypeOK, Clear, NothingGrants, NoToken
<1>4. \A g \in Handler :
        /\ s'[g].at \in {"backend", "frontend"} =>
              s'[g].op \in Granting /\ s'[g].token \in 1..signed'
        /\ s'[g].at = "deleted" => s'[g].op = "rollback"
        /\ off' => s'[g].op \notin Granting
  BY <1>1, IdleFacts DEF LicenseInvariant, Clear, NothingGrants, Granting
<1> QED
  BY <1>2, <1>3, <1>4 DEF LicenseInvariant, LicensedHasArtifacts

\* The same with nobody to ask.
LEMMA ClearNothingStep ==
    ASSUME LicenseInvariant, ClearNothing
    PROVE  LicenseInvariant'
<1>1. TypeOK'
  BY DEF LicenseInvariant, TypeOK, ClearNothing, NothingGrants
<1>2. PICK h \in Handler : s[h] = Idle /\ off' = NothingGrants(h)
  BY DEF ClearNothing
<1>3. off' => \A g \in Handler : s[g].op \notin Granting
  BY <1>2, IdleFacts DEF NothingGrants, Granting
<1> QED
  BY <1>1, <1>3 DEF LicenseInvariant, LicensedHasArtifacts, ClearNothing

\* Every step of Next, by the lemma of its kind.
LEMMA NextInvariant ==
    ASSUME LicenseInvariant, Next
    PROVE  LicenseInvariant'
<1>1. CASE Restart
  BY <1>1, StartingStep DEF Restart, LicenseInvariant, TypeOK
<1>2. CASE Look
  <2>1. license = NoToken
    BY <1>2 DEF Look, LicenseInvariant
  <2>2. /\ ext' \in {"base", "loaded", "failed"}
        /\ ext' \in {"loaded", "failed"} <=> local
    BY <1>2, <2>1 DEF Look, Loads, Loadable
  <2> QED
    BY <1>2, <2>1, <2>2 DEF Look, LicenseInvariant, TypeOK, LicensedHasArtifacts
<1>3. CASE ClearNothing
  BY <1>3, ClearNothingStep
<1>4. ASSUME NEW t \in Token, Expire(t)
      PROVE  LicenseInvariant'
  <2>1. expired' \subseteq 1..signed'
    BY <1>4 DEF Expire, Token, LicenseInvariant, TypeOK
  <2>2. TypeOK'
    BY <1>4, <2>1 DEF Expire, LicenseInvariant, TypeOK
  <2> QED
    BY <1>4, <2>2 DEF Expire, LicenseInvariant, LicensedHasArtifacts
<1>5. ASSUME NEW h \in Handler,
             \/ \E op \in Granting \cup Ending : Ask(h, op)
             \/ Granted(h) \/ NotGranted(h)
             \/ FetchedBackend(h) \/ FetchFails(h)
             \/ Store(h) \/ StoreRefused(h) \/ DieStoring(h)
             \/ Deleted(h) \/ DeletionFails(h)
             \/ Clear(h) \/ DieClearing(h)
      PROVE  LicenseInvariant'
  <2>1. ASSUME NEW op \in Granting \cup Ending, Ask(h, op)
        PROVE  LicenseInvariant'
    <3> DEFINE new == [Idle EXCEPT !.op = op, !.at = "asked"]
    <3>1. /\ new \in HandlerState
          /\ new.op = op /\ new.at = "asked"
      BY DEF Idle, HandlerState, Granting, Ending, NoToken
    <3>2. off' => off /\ op \notin Granting
      BY <2>1 DEF Ask, LicenseInvariant, MayRefresh, Granting
    <3>3. s' = [s EXCEPT ![h] = new]
      BY <2>1 DEF Ask
    <3>4. /\ signed' = signed /\ signed \in 0..MaxTokens /\ signed <= signed'
          /\ seat' \in BOOLEAN /\ off' \in BOOLEAN
          /\ UNCHANGED <<local, license, artifacts, expired, ext, routes>>
      BY <2>1 DEF Ask, LicenseInvariant, TypeOK
    <3> HIDE DEF new
    <3> QED
      BY <3>1, <3>2, <3>3, <3>4, AdvancingStep
  <2>2. CASE Granted(h)
    <3> DEFINE new == [s[h] EXCEPT !.at = "backend", !.token = signed']
    <3>1. signed' \in 0..MaxTokens /\ signed <= signed' /\ signed' \in 1..signed'
          /\ signed' \in Token
      BY <2>2, MaxTokensAssumption DEF Granted, LicenseInvariant, TypeOK, Token
    <3>2. /\ new \in HandlerState
          /\ new.op = s[h].op /\ new.at = "backend" /\ new.token = signed'
      BY <3>1 DEF LicenseInvariant, TypeOK, HandlerState
    <3>3. new.op \in Granting /\ ~off
      BY <2>2, <3>2 DEF Granted, LicenseInvariant
    <3>4. /\ seat' \in BOOLEAN /\ off' = off /\ off \in BOOLEAN
          /\ UNCHANGED <<local, license, artifacts, expired, ext, routes>>
      BY <2>2 DEF Granted, LicenseInvariant, TypeOK
    <3>5. s' = [s EXCEPT ![h] = new]
      BY <2>2 DEF Granted
    <3> HIDE DEF new
    <3> QED
      BY <3>1, <3>2, <3>3, <3>4, <3>5, AdvancingStep
  <2>3. CASE NotGranted(h)
    <3>1. seat' \in BOOLEAN
      BY <2>3 DEF NotGranted, LicenseInvariant, TypeOK, Granting
    <3> QED
      BY <2>3, <3>1, EndingStep DEF NotGranted
  <2>4. CASE FetchedBackend(h)
    <3> DEFINE new == [s[h] EXCEPT !.at = "frontend"]
    <3>1. s[h].op \in Granting /\ s[h].token \in 1..signed /\ ~off
      BY <2>4 DEF FetchedBackend, LicenseInvariant
    <3>2. /\ new \in HandlerState
          /\ new.op = s[h].op /\ new.at = "frontend" /\ new.token = s[h].token
      BY DEF LicenseInvariant, TypeOK, HandlerState
    <3>3. /\ signed' = signed /\ signed \in 0..MaxTokens /\ signed <= signed'
          /\ seat' \in BOOLEAN /\ off' = off /\ off \in BOOLEAN
          /\ UNCHANGED <<local, license, artifacts, expired, ext, routes>>
      BY <2>4 DEF FetchedBackend, LicenseInvariant, TypeOK
    <3>4. s' = [s EXCEPT ![h] = new]
      BY <2>4 DEF FetchedBackend
    <3> HIDE DEF new
    <3> QED
      BY <3>1, <3>2, <3>3, <3>4, AdvancingStep
  <2>5. CASE FetchFails(h)
    BY <2>5, EndingStep DEF FetchFails, LicenseInvariant, TypeOK
  <2>6. CASE Store(h)
    BY <2>6, StoreStep
  <2>7. CASE StoreRefused(h)
    BY <2>7, EndingStep DEF StoreRefused, LicenseInvariant, TypeOK
  <2>8. CASE DieStoring(h)
    BY <2>8, StartingStep DEF DieStoring, LicenseInvariant, TypeOK
  <2>9. CASE Deleted(h)
    <3> DEFINE new == [s[h] EXCEPT !.at = "deleted"]
    <3>1. /\ new \in HandlerState
          /\ new.op = "rollback" /\ new.at = "deleted"
      BY <2>9 DEF Deleted, LicenseInvariant, TypeOK, HandlerState
    <3>2. signed <= signed'
      BY <2>9 DEF Deleted, LicenseInvariant, TypeOK
    <3> HIDE DEF new
    <3>3. s' = [s EXCEPT ![h] = new]
      BY <2>9 DEF Deleted, new
    <3> QED
      BY <2>9, <3>1, <3>2, <3>3, AdvancingStep
         DEF Deleted, LicenseInvariant, TypeOK, Granting
  <2>10. CASE DeletionFails(h)
    BY <2>10, EndingStep DEF DeletionFails, LicenseInvariant, TypeOK
  <2>11. CASE Clear(h)
    BY <2>11, ClearStep
  <2>12. CASE DieClearing(h)
    <3>1. seat' \in BOOLEAN
      BY <2>12 DEF DieClearing, LicenseInvariant, TypeOK
    <3> QED
      BY <2>12, <3>1, StartingStep DEF DieClearing, FirstWritten, ClearLicense
  <2> QED
    BY <1>5, <2>1, <2>2, <2>3, <2>4, <2>5, <2>6, <2>7, <2>8, <2>9, <2>10,
       <2>11, <2>12
<1> QED
  BY <1>1, <1>2, <1>3, <1>4, <1>5 DEF Next

-----------------------------------------------------------------------------
(* Theorems.                                                               *)

\* The license file, the artifact file and the loaded extension keep their
\* types and agree with each other in every reachable state, whatever
\* overlaps and wherever the process stops.
THEOREM LicenseInvariantHolds == Spec => []LicenseInvariant
<1>1. LicenseInvariant /\ UNCHANGED vars => LicenseInvariant'
  BY DEF LicenseInvariant, TypeOK, LicensedHasArtifacts, vars
<1>2. LicenseInvariant /\ [Next]_vars => LicenseInvariant'
  BY <1>1, NextInvariant
<1> QED
  BY InitInvariant, <1>2, PTL DEF Spec

\* A license on file always has a backend that can be loaded.
THEOREM LicensedAlwaysHasArtifacts == Spec => []LicensedHasArtifacts
<1>1. LicenseInvariant => LicensedHasArtifacts
  BY DEF LicenseInvariant
<1> QED
  BY <1>1, LicenseInvariantHolds, PTL

\* What the process tells and lets pass agrees with the files at all times
\* (build_license_overview, guard_pro_routes).
THEOREM StatusIsAlwaysTruthful == Spec => []StatusIsTruthful
<1>1. LicenseInvariant => StatusIsTruthful
  BY DEF LicenseInvariant, TypeOK, StatusIsTruthful, Overview, WritesPass,
         ReadsPass, LicenseStatus
<1> QED
  BY <1>1, LicenseInvariantHolds, PTL

\* After a deactivation or rollback that nothing overlapped no license is on
\* file and nothing is loaded but a package beside the application, until an
\* activation starts.
THEOREM DeactivationAlwaysHolds == Spec => []DeactivationHolds
<1>1. LicenseInvariant => DeactivationHolds
  BY DEF LicenseInvariant, DeactivationHolds
<1> QED
  BY <1>1, LicenseInvariantHolds, PTL

=============================================================================
