--------------------------- MODULE BindingsProofs ---------------------------
(***************************************************************************)
(* The properties of Bindings for any users, accounts, rows and handlers.  *)
(***************************************************************************)
EXTENDS Bindings, TLAPS

(***************************************************************************)
(* The two providers share no account.                                     *)
(***************************************************************************)
LEMMA ProviderFacts ==
    ASSUME NEW e \in External
    PROVE  /\ Provider(e) \in {Telegram, Google}
           /\ Provider(e) \subseteq External
           /\ e \in Provider(e)
           /\ e \in Telegram <=> Provider(e) = Telegram
           /\ \A f \in Provider(e) : Provider(f) = Provider(e)
BY BindingsAssumption DEF External, Provider

LEMMA PairIsActive ==
    ASSUME NEW u, NEW e
    PROVE  [user |-> {u}, account |-> {e}] # Inactive
<1>1. [user |-> {u}, account |-> {e}].user # Inactive.user
    BY DEF Inactive
<1> QED BY <1>1

(***************************************************************************)
(* The initial state.                                                      *)
(***************************************************************************)
LEMMA InitInvariant == Init => BindingsInvariant
<1> SUFFICES ASSUME Init PROVE BindingsInvariant
    OBVIOUS
<1>1. Active = {} /\ Busy = {}
    BY DEF Init, Active, Busy, Idle
<1>2. TypeOK
    BY <1>1 DEF Init, TypeOK, Status, Inactive
<1>3. OneToOne /\ PreferencesFollowBinding
    BY <1>1 DEF Init, OneToOne, PreferencesFollowBinding
<1>4. session \in [Session -> SessionState]
    BY DEF Init, SessionState, Idle, Inactive
<1>5. Remembered
    BY <1>1, <1>4 DEF Remembered
<1> QED BY <1>2, <1>3, <1>5 DEF BindingsInvariant

(***************************************************************************)
(* A handler begins: what it has found is true now.                        *)
(***************************************************************************)
LEMMA BeginKeeps ==
    ASSUME BindingsInvariant,
           NEW x \in Session, NEW u \in User, NEW e \in External,
           NEW op \in {"bind", "unbind", "auth", "use"},
           NEW account, NEW R \in SUBSET Active,
           account = {e} \/ (op = "unbind" /\ account = Provider(e)),
           \A b \in R : binding[b].user = {u} /\ binding[b].account \subseteq Provider(e),
           op = "auth" => R # {} /\ \A b \in R : binding[b].account = {e},
           op = "use" => R # {} /\ e \in Telegram,
           Begin(x, op, u, account, R)
    PROVE  BindingsInvariant'
<1> DEFINE v == [op |-> op, user |-> {u}, account |-> account, row |-> R, read |-> Found(R)]
<1>1. /\ session' = [session EXCEPT ![x] = v]
      /\ binding' = binding /\ preferences' = preferences /\ status' = status
      /\ session \in [Session -> SessionState]
    BY DEF Begin, BindingsInvariant, Remembered
<1>2. Active' = Active
    BY <1>1 DEF Active, Inactive
<1>3. x \notin Busy /\ Busy' = Busy \cup {x}
    BY <1>1 DEF Begin, Busy, Idle
<1>4. raced \subseteq raced' /\ raced' \subseteq User
    BY DEF Begin, BindingsInvariant, TypeOK
<1>5. Found(R) \in [user : SUBSET User, account : SUBSET External]
          /\ (R # {} => \E b \in R : Found(R) = binding[b])
    BY DEF Found, Inactive, BindingsInvariant, TypeOK, Active
<1>6. v \in SessionState
    <2>1. account \subseteq External
        BY ProviderFacts
    <2> QED BY <1>5, <2>1 DEF SessionState, Active
<1>7. session' \in [Session -> SessionState]
    BY <1>1, <1>6
<1>8. TypeOK'
    <2>1. status' \in [User -> Status]
        BY <1>1 DEF BindingsInvariant, TypeOK
    <2>2. \A b \in Active' : \E w \in User, f \in External :
              binding'[b] = [user |-> {w}, account |-> {f}]
        BY <1>1, <1>2 DEF BindingsInvariant, TypeOK
    <2>3. /\ binding' \in [Row -> [user : SUBSET User, account : SUBSET External]]
          /\ preferences' \subseteq User
        BY <1>1 DEF BindingsInvariant, TypeOK
    <2>4. \A y \in Busy' : session'[y].user \subseteq User /\ session'[y].row \subseteq Row
        BY <1>7 DEF SessionState, Busy
    <2> QED BY <1>4, <2>1, <2>2, <2>3, <2>4 DEF TypeOK
<1>9. OneToOne'
    BY <1>1, <1>2 DEF BindingsInvariant, OneToOne, Provider
<1>10. PreferencesFollowBinding'
    BY <1>1, <1>2, <1>4 DEF BindingsInvariant, PreferencesFollowBinding
<1>11. \A y \in Busy' : \E w \in User, f \in External : Remembers(y, w, f)'
    <2> SUFFICES ASSUME NEW y \in Busy'
                 PROVE  \E w \in User, f \in External : Remembers(y, w, f)'
        OBVIOUS
    <2>1. CASE y = x
        <3>1. session'[x] = v
            BY <1>1
        <3>2. Remembers(x, u, e)'
            BY <1>1, <1>2, <1>5, <3>1, Zenon DEF Remembers, Provider
        <3> QED BY <2>1, <3>2
    <2>2. CASE y # x
        <3>1. y \in Busy /\ session'[y] = session[y]
            BY <1>1, <1>3, <2>2 DEF Busy
        <3>2. PICK w \in User, f \in External : Remembers(y, w, f)
            BY <3>1 DEF BindingsInvariant, Remembered
        <3>3. Remembers(y, w, f)'
            BY <1>1, <1>2, <1>4, <3>1, <3>2 DEF Remembers, Provider
        <3> QED BY <3>3
    <2> QED BY <2>1, <2>2
<1>12. \A y, z \in Busy' : y # z => session'[y].user \cap session'[z].user \subseteq raced'
    <2>1. session'[x].user = {u}
        BY <1>1
    <2>2. \A y \in Busy : session'[y] = session[y]
        BY <1>1, <1>3 DEF Busy
    <2>3. \A y \in Busy : {u} \cap session[y].user \subseteq raced'
        BY DEF Begin
    <2>4. \A y, z \in Busy : y # z => session[y].user \cap session[z].user \subseteq raced'
        BY <1>4 DEF BindingsInvariant, Remembered
    <2> QED BY <1>3, <2>1, <2>2, <2>3, <2>4
<1>13. Remembered'
    BY <1>7, <1>11, <1>12 DEF Remembered
<1> QED BY <1>8, <1>9, <1>10, <1>13 DEF BindingsInvariant

(***************************************************************************)
(* A handler ends.  Whatever it wrote, it created rows nobody remembers, or *)
(* changed and removed rows of its user at its provider.                   *)
(***************************************************************************)
LEMMA EndKeeps ==
    ASSUME BindingsInvariant,
           NEW x \in Busy, NEW u \in User, NEW e \in External,
           Remembers(x, u, e),
           End(x),
           binding' \in [Row -> [user : SUBSET User, account : SUBSET External]],
           \A b \in Row :
               \/ binding'[b] = binding[b]
               \/ /\ \A y \in Busy : b \notin session[y].row
                  /\ \E f \in External : binding'[b] = [user |-> {u}, account |-> {f}]
               \/ /\ b \in session[x].row \cap Active
                  /\ \/ binding'[b] = Inactive
                     \/ \E f \in Provider(e) : binding'[b] = [user |-> {u}, account |-> {f}],
           preferences' \subseteq User,
           OneToOne', PreferencesFollowBinding'
    PROVE  BindingsInvariant'
<1>1. /\ session' = [session EXCEPT ![x] = Idle]
      /\ status' = status /\ raced' = raced
      /\ session \in [Session -> SessionState]
    BY DEF End, BindingsInvariant, Remembered
<1>2. Busy' = Busy \ {x} /\ \A y \in Busy' : session'[y] = session[y]
    BY <1>1 DEF Busy, Idle
<1>3. Idle \in SessionState
    BY DEF Idle, SessionState, Inactive
<1>4. session' \in [Session -> SessionState]
    BY <1>1, <1>3
<1>5. TypeOK'
    <2>1. \A b \in Active' : \E w \in User, f \in External :
              binding'[b] = [user |-> {w}, account |-> {f}]
        <3> SUFFICES ASSUME NEW b \in Active'
                     PROVE  \E w \in User, f \in External :
                                binding'[b] = [user |-> {w}, account |-> {f}]
            OBVIOUS
        <3>1. b \in Row /\ binding'[b] # Inactive
            BY DEF Active, Inactive
        <3>2. CASE binding'[b] = binding[b]
            BY <3>1, <3>2 DEF BindingsInvariant, TypeOK, Active
        <3>3. CASE binding'[b] # binding[b]
            BY <3>1, <3>3, ProviderFacts
        <3> QED BY <3>2, <3>3
    <2>2. \A y \in Busy' : session'[y].user \subseteq User /\ session'[y].row \subseteq Row
        BY <1>4 DEF SessionState, Busy
    <2> QED BY <1>1, <2>1, <2>2 DEF BindingsInvariant, TypeOK
<1>6. \A y \in Busy' : \E w \in User, f \in External : Remembers(y, w, f)'
    <2> SUFFICES ASSUME NEW y \in Busy'
                 PROVE  \E w \in User, f \in External : Remembers(y, w, f)'
        OBVIOUS
    <2>1. y \in Busy /\ y # x /\ session'[y] = session[y]
        BY <1>2
    <2>2. PICK w \in User, f \in External : Remembers(y, w, f)
        BY <2>1 DEF BindingsInvariant, Remembered
    <2>3. session[y].row \subseteq Row
        BY <1>1, <2>1 DEF Busy, SessionState
    <2>4. \A b \in session[y].row \cap Active' :
              binding'[b].user = {w} /\ binding'[b].account \subseteq Provider(f)
        <3> SUFFICES ASSUME NEW b \in session[y].row \cap Active'
                     PROVE  binding'[b].user = {w} /\ binding'[b].account \subseteq Provider(f)
            OBVIOUS
        <3>1. b \in Row /\ binding'[b] # Inactive
            BY DEF Active, Inactive
        <3>2. CASE binding'[b] = binding[b]
            BY <2>2, <3>1, <3>2 DEF Remembers, Active
        <3>3. CASE binding'[b] # binding[b]
            <4>1. ~ \A z \in Busy : b \notin session[z].row
                BY <2>1
            <4>2. /\ b \in session[x].row \cap Active
                  /\ \E g \in Provider(e) : binding'[b] = [user |-> {u}, account |-> {g}]
                BY <3>1, <3>3, <4>1
            <4>3. PICK o \in User, a \in External : binding[b] = [user |-> {o}, account |-> {a}]
                BY <4>2 DEF BindingsInvariant, TypeOK
            <4>4. a \in Provider(e) /\ a \in Provider(f) /\ {u} = {w}
                BY <2>2, <4>2, <4>3 DEF Remembers
            <4>5. Provider(e) = Provider(f)
                BY <4>4, ProviderFacts
            <4> QED BY <4>2, <4>4, <4>5
        <3> QED BY <3>2, <3>3
    <2>5. w \in raced' \/ session[y].row \subseteq Active'
        <3> SUFFICES ASSUME w \notin raced, NEW b \in session[y].row, b \notin Active'
                     PROVE  FALSE
            BY <1>1
        <3>1. b \in Active /\ b \in Row
            BY <2>2 DEF Remembers, Active
        <3>2. b \in session[x].row
            BY <2>1, <3>1, PairIsActive DEF Active, Inactive
        <3>3. session[x].user = {u} /\ session[y].user = {w} /\ {u} = {w}
            BY <2>2, <3>1, <3>2 DEF Remembers
        <3>4. session[x].user \cap session[y].user \subseteq raced
            BY <2>1 DEF BindingsInvariant, Remembered
        <3> QED BY <3>3, <3>4
    <2>6. Remembers(y, w, f)'
        BY <2>1, <2>2, <2>4, <2>5 DEF Remembers, Provider
    <2> QED BY <2>6
<1>7. \A y, z \in Busy' : y # z => session'[y].user \cap session'[z].user \subseteq raced'
    BY <1>1, <1>2 DEF BindingsInvariant, Remembered
<1>8. Remembered'
    BY <1>4, <1>6, <1>7 DEF Remembered
<1> QED BY <1>5, <1>8 DEF BindingsInvariant

(***************************************************************************)
(* A login writes what is there.                                           *)
(***************************************************************************)
LEMMA LoginKeepsBinding ==
    ASSUME BindingsInvariant, NEW x \in Session, Authenticated(x)
    PROVE  binding' = binding
<1>1. x \in Busy
    BY DEF Authenticated, Busy
<1>2. PICK u \in User, e \in External : Remembers(x, u, e)
    BY <1>1 DEF BindingsInvariant, Remembered
<1>3. session[x].read.user = {u} /\ session[x].read.account = {e} /\ session[x].account = {e}
    BY <1>2 DEF Remembers, Authenticated
<1>4. ASSUME NEW b \in session[x].row
      PROVE  Updated(b, session[x].read, session[x].account) = binding[b]
    <2>1. b \in Row
        BY <1>1 DEF BindingsInvariant, TypeOK
    <2>2. CASE b \in Active
        <3>1. PICK w \in User, f \in External : binding[b] = [user |-> {w}, account |-> {f}]
            BY <2>2 DEF BindingsInvariant, TypeOK
        <3>2. binding[b].user = {u}
            BY <1>2, <2>2 DEF Remembers
        <3> QED BY <1>3, <2>2, <3>1, <3>2 DEF Updated, Written
    <2>3. CASE b \notin Active
        BY <2>1, <2>3 DEF Updated, Written, Active
    <2> QED BY <2>2, <2>3
<1>5. binding' = [b \in Row |-> binding[b]]
    BY <1>4 DEF Authenticated
<1>6. binding \in [Row -> [user : SUBSET User, account : SUBSET External]]
    BY DEF BindingsInvariant, TypeOK
<1> QED BY <1>5, <1>6

(***************************************************************************)
(* A handler that leaves the bindings alone.                               *)
(***************************************************************************)
LEMMA AbortKeeps ==
    ASSUME BindingsInvariant, NEW x \in Session, Abort(x)
    PROVE  BindingsInvariant'
<1>1. x \in Busy /\ End(x) /\ binding' = binding /\ preferences' = preferences
    BY DEF Abort
<1>2. PICK u \in User, e \in External : Remembers(x, u, e)
    BY <1>1 DEF BindingsInvariant, Remembered
<1>3. Active' = Active /\ raced' = raced
    BY <1>1 DEF Active, Inactive, End
<1>4. OneToOne' /\ PreferencesFollowBinding'
    BY <1>1, <1>3 DEF BindingsInvariant, OneToOne, PreferencesFollowBinding, Provider
<1>5. /\ binding' \in [Row -> [user : SUBSET User, account : SUBSET External]]
      /\ preferences' \subseteq User
    BY <1>1 DEF BindingsInvariant, TypeOK
<1> QED BY <1>1, <1>2, <1>4, <1>5, EndKeeps

LEMMA AuthenticatedKeeps ==
    ASSUME BindingsInvariant, NEW x \in Session, Authenticated(x)
    PROVE  BindingsInvariant'
<1>1. binding' = binding
    BY LoginKeepsBinding
<1>2. Abort(x)
    BY <1>1 DEF Abort, Authenticated, Busy
<1> QED BY <1>2, AbortKeeps

LEMMA UsedKeeps ==
    ASSUME BindingsInvariant, NEW x \in Session, Used(x)
    PROVE  BindingsInvariant'
<1>1. x \in Busy /\ End(x) /\ binding' = binding
    BY DEF Used, Busy
<1>2. PICK u \in User, e \in External : Remembers(x, u, e)
    BY <1>1 DEF BindingsInvariant, Remembered
<1>3. Active' = Active /\ raced' = raced
    BY <1>1 DEF Active, Inactive, End
<1>4. /\ session[x].op = "use" /\ session[x].row # {} /\ e \in Telegram
      /\ session[x].user = {u} /\ session[x].account = {e}
    BY <1>2 DEF Remembers, Used
<1>5. preferences' = preferences \cup {u}
    BY <1>4 DEF Used, Prefer
<1>6. OneToOne'
    BY <1>1, <1>3 DEF BindingsInvariant, OneToOne, Provider
<1>7. PreferencesFollowBinding'
    <2>1. u \notin raced => \E b \in Active :
              binding[b].user = {u} /\ binding[b].account \subseteq Telegram
        BY <1>2, <1>4, ProviderFacts DEF Remembers
    <2> QED BY <1>1, <1>3, <1>5, <2>1 DEF BindingsInvariant, PreferencesFollowBinding
<1>8. /\ binding' \in [Row -> [user : SUBSET User, account : SUBSET External]]
      /\ preferences' \subseteq User
    BY <1>1, <1>5 DEF BindingsInvariant, TypeOK
<1> QED BY <1>1, <1>2, <1>6, <1>7, <1>8, EndKeeps

(***************************************************************************)
(* Unbinding removes rows of one user at one provider.                     *)
(***************************************************************************)
LEMMA UnboundKeeps ==
    ASSUME BindingsInvariant, NEW x \in Session, Unbound(x)
    PROVE  BindingsInvariant'
<1>1. x \in Busy /\ End(x)
          /\ binding' = [b \in Row |-> IF b \in session[x].row THEN Inactive ELSE binding[b]]
    BY DEF Unbound, Busy
<1>2. PICK u \in User, e \in External : Remembers(x, u, e)
    BY <1>1 DEF BindingsInvariant, Remembered
<1>3. binding \in [Row -> [user : SUBSET User, account : SUBSET External]]
    BY DEF BindingsInvariant, TypeOK
<1>4. binding' \in [Row -> [user : SUBSET User, account : SUBSET External]]
    BY <1>1, <1>3 DEF Inactive
<1>5. Active' = Active \ session[x].row
    BY <1>1 DEF Active, Inactive
<1>6. \A b \in Active' : binding'[b] = binding[b]
    BY <1>1, <1>5 DEF Active
<1>7. OneToOne'
    BY <1>5, <1>6 DEF BindingsInvariant, OneToOne, Provider
<1>8. preferences' = IF e \in Telegram THEN preferences \ {u} ELSE preferences
    <2>1. session[x].user = {u}
        BY <1>2 DEF Remembers
    <2>2. session[x].account \subseteq Telegram <=> e \in Telegram
        BY <1>2, ProviderFacts, BindingsAssumption DEF Remembers
    <2> QED BY <2>1, <2>2 DEF Unbound, Forget
<1>9. PreferencesFollowBinding'
    <2> SUFFICES ASSUME NEW w \in preferences' \ raced
                 PROVE  \E b \in Active' :
                            binding'[b].user = {w} /\ binding'[b].account \subseteq Telegram
        BY <1>1 DEF PreferencesFollowBinding, End
    <2>1. PICK b \in Active : binding[b].user = {w} /\ binding[b].account \subseteq Telegram
        BY <1>8 DEF BindingsInvariant, PreferencesFollowBinding
    <2>2. b \notin session[x].row
        <3> SUFFICES ASSUME b \in session[x].row PROVE FALSE
            OBVIOUS
        <3>1. {w} = {u} /\ binding[b].account \subseteq Provider(e)
            BY <1>2, <2>1 DEF Remembers
        <3>2. e \notin Telegram
            BY <1>8, <3>1
        <3>3. PICK o \in User, a \in External : binding[b] = [user |-> {o}, account |-> {a}]
            BY <2>1 DEF BindingsInvariant, TypeOK
        <3> QED BY <2>1, <3>1, <3>2, <3>3, BindingsAssumption DEF Provider, External
    <2> QED BY <1>5, <1>6, <2>1, <2>2
<1>10. preferences' \subseteq User
    BY <1>8 DEF BindingsInvariant, TypeOK
<1>11. \A b \in Row : \/ binding'[b] = binding[b]
                      \/ b \in session[x].row \cap Active /\ binding'[b] = Inactive
    BY <1>1 DEF Active
<1> QED BY <1>1, <1>2, <1>4, <1>7, <1>9, <1>10, <1>11, EndKeeps

(***************************************************************************)
(* Writing a row that fits the indexes keeps the bindings one to one.      *)
(***************************************************************************)
LEMMA FitsKeepsOneToOne ==
    ASSUME TypeOK, OneToOne,
           NEW b \in Row, NEW u \in User, NEW f \in External, NEW new,
           new = [user |-> {u}, account |-> {f}],
           Fits(b, new), binding' = [binding EXCEPT ![b] = new]
    PROVE  OneToOne'
<1>1. Active' \subseteq Active \cup {b} /\ binding'[b] = new
          /\ \A c \in Active \ {b} : binding'[c] = binding[c]
    BY DEF TypeOK, Active, Inactive
<1>2. ASSUME NEW c \in Active \ {b}
      PROVE  /\ binding[c].account # {f}
             /\ binding[c].user = {u} => /\ binding[c].account \cap Provider(f) = {}
                                         /\ \A a \in binding[c].account : f \notin Provider(a)
    <2>1. PICK o \in User, a \in External : binding[c] = [user |-> {o}, account |-> {a}]
        BY DEF TypeOK
    <2>2. binding[c].account # {f}
              /\ (binding[c].user = {u} => binding[c].account \cap Provider(f) = {})
        BY DEF Fits
    <2>3. f \in Provider(a) => a \in Provider(f)
        BY ProviderFacts
    <2> QED BY <2>1, <2>2, <2>3
<1> SUFFICES ASSUME NEW c \in Active', NEW d \in Active', c # d
             PROVE  /\ binding'[c].account # binding'[d].account
                    /\ binding'[c].user = binding'[d].user =>
                           \A a \in binding'[c].account :
                               binding'[d].account \cap Provider(a) = {}
    BY DEF OneToOne, Provider
<1>3. CASE c # b /\ d # b
    BY <1>1, <1>3 DEF OneToOne
<1>4. CASE c = b
    BY <1>1, <1>2, <1>4
<1>5. CASE d = b
    BY <1>1, <1>2, <1>5
<1> QED BY <1>3, <1>4, <1>5

(***************************************************************************)
(* What Bound writes: nothing, if the row it found is gone, or a row of    *)
(* its user at its provider.                                               *)
(***************************************************************************)
LEMMA BoundWrites ==
    ASSUME BindingsInvariant, NEW x \in Session, Bound(x),
           NEW u \in User, NEW e \in External, Remembers(x, u, e)
    PROVE  \/ /\ binding' = binding
              /\ u \in raced
           \/ \E b \in Row, f \in Provider(e) :
                 LET new == [user |-> {u}, account |-> {f}]
                 IN  /\ Fits(b, new)
                     /\ binding' = [binding EXCEPT ![b] = new]
                     /\ \/ b \in session[x].row \cap Active
                        \/ b \notin Active /\ \A y \in Busy : b \notin session[y].row
<1> DEFINE v == session[x]
           new(b) == IF v.row = {} THEN [user |-> v.user, account |-> v.account]
                                   ELSE Updated(b, v.read, v.account)
<1>1. v.user = {u} /\ v.account = {e}
    BY DEF Remembers, Bound
<1>2. PICK b \in IF v.row = {} THEN {b \in Row \ Active : \A y \in Busy : b \notin session[y].row}
                               ELSE v.row :
          /\ new(b) # Inactive => Fits(b, new(b))
          /\ binding' = [binding EXCEPT ![b] = new(b)]
    BY DEF Bound
<1>3. CASE v.row = {}
    <2>1. new(b) = [user |-> {u}, account |-> {e}]
        BY <1>1, <1>3
    <2>2. b \in Row \ Active /\ \A y \in Busy : b \notin session[y].row
        BY <1>2, <1>3
    <2> QED BY <1>2, <2>1, <2>2, ProviderFacts, PairIsActive
<1>4. CASE v.row # {} /\ b \in Active
    <2>1. PICK o \in User, a \in External : binding[b] = [user |-> {o}, account |-> {a}]
        BY <1>4 DEF BindingsInvariant, TypeOK
    <2>2. b \in v.row /\ b \in Row
        BY <1>2, <1>4 DEF Active
    <2>3. binding[b].account \subseteq Provider(e) /\ v.read.user = {u}
        BY <1>4, <2>2 DEF Remembers
    <2>4. \/ new(b) = [user |-> {u}, account |-> {e}]
          \/ new(b) = [user |-> {u}, account |-> {a}]
        BY <1>1, <1>4, <2>1, <2>3 DEF Updated, Written
    <2>5. a \in Provider(e) /\ e \in Provider(e)
        BY <2>1, <2>3, ProviderFacts
    <2>6. PICK f \in Provider(e) : new(b) = [user |-> {u}, account |-> {f}]
        BY <2>4, <2>5
    <2> QED BY <1>2, <1>4, <2>2, <2>6, PairIsActive
<1>5. CASE v.row # {} /\ b \notin Active
    <2>1. b \in v.row /\ x \in Busy
        BY <1>2, <1>5 DEF Bound, Busy
    <2>2. b \in Row /\ binding[b] = Inactive
        BY <1>5, <2>1 DEF BindingsInvariant, TypeOK, Active
    <2>3. new(b) = Inactive
        BY <1>5 DEF Updated, Written
    <2>4. u \in raced
        BY <1>5, <2>1 DEF Remembers
    <2>5. binding \in [Row -> [user : SUBSET User, account : SUBSET External]]
        BY DEF BindingsInvariant, TypeOK
    <2> QED BY <1>2, <2>2, <2>3, <2>4, <2>5
<1> QED BY <1>3, <1>4, <1>5

LEMMA BoundKeeps ==
    ASSUME BindingsInvariant, NEW x \in Session, Bound(x)
    PROVE  BindingsInvariant'
<1>1. x \in Busy /\ End(x) /\ raced' = raced
    BY DEF Bound, Busy, End
<1>2. PICK u \in User, e \in External : Remembers(x, u, e)
    BY <1>1 DEF BindingsInvariant, Remembered
<1>3. preferences' = IF e \in Telegram THEN preferences \cup {u} ELSE preferences
    BY <1>2, ProviderFacts DEF Remembers, Bound, Prefer
<1>4. preferences' \subseteq User
    BY <1>3 DEF BindingsInvariant, TypeOK
<1>5. binding \in [Row -> [user : SUBSET User, account : SUBSET External]]
    BY DEF BindingsInvariant, TypeOK
<1>6. CASE binding' = binding /\ u \in raced
    <2>1. Active' = Active
        BY <1>6 DEF Active, Inactive
    <2>2. OneToOne'
        BY <1>6, <2>1 DEF BindingsInvariant, OneToOne, Provider
    <2>3. PreferencesFollowBinding'
        BY <1>1, <1>3, <1>6, <2>1 DEF BindingsInvariant, PreferencesFollowBinding
    <2> QED BY <1>1, <1>2, <1>4, <1>5, <1>6, <2>2, <2>3, EndKeeps
<1>7. ASSUME NEW b \in Row, NEW f \in Provider(e), NEW new,
             new = [user |-> {u}, account |-> {f}],
             Fits(b, new), binding' = [binding EXCEPT ![b] = new],
             \/ b \in session[x].row \cap Active
             \/ b \notin Active /\ \A y \in Busy : b \notin session[y].row
      PROVE  BindingsInvariant'
    <2>1. f \in External
        BY ProviderFacts
    <2>2. OneToOne'
        BY <1>7, <2>1, FitsKeepsOneToOne DEF BindingsInvariant
    <2>3. binding' \in [Row -> [user : SUBSET User, account : SUBSET External]]
        BY <1>5, <1>7, <2>1
    <2>4. /\ b \in Active' /\ binding'[b] = new
          /\ \A c \in Active \ {b} : c \in Active' /\ binding'[c] = binding[c]
        BY <1>5, <1>7, PairIsActive DEF Active, Inactive
    <2>5. PreferencesFollowBinding'
        <3> SUFFICES ASSUME NEW w \in preferences' \ raced
                     PROVE  \E c \in Active' : binding'[c].user = {w}
                                                  /\ binding'[c].account \subseteq Telegram
            BY <1>1 DEF PreferencesFollowBinding
        <3>1. CASE e \in Telegram /\ w = u
            <4>1. f \in Telegram
                BY <3>1, ProviderFacts
            <4> QED BY <1>7, <2>4, <3>1, <4>1
        <3>2. CASE ~(e \in Telegram /\ w = u)
            <4>1. PICK c \in Active : binding[c].user = {w} /\ binding[c].account \subseteq Telegram
                BY <1>3, <3>2 DEF BindingsInvariant, PreferencesFollowBinding
            <4>2. c # b
                <5> SUFFICES ASSUME c = b PROVE FALSE
                    OBVIOUS
                <5>1. {w} = {u} /\ binding[b].account \subseteq Provider(e)
                    BY <1>2, <1>7, <4>1 DEF Remembers
                <5>2. PICK o \in User, a \in External :
                          binding[b] = [user |-> {o}, account |-> {a}]
                    BY <4>1 DEF BindingsInvariant, TypeOK
                <5> QED BY <3>2, <4>1, <5>1, <5>2, BindingsAssumption DEF Provider, External
            <4> QED BY <2>4, <4>1, <4>2
        <3> QED BY <3>1, <3>2
    <2>6. \A c \in Row :
              \/ binding'[c] = binding[c]
              \/ /\ \A y \in Busy : c \notin session[y].row
                 /\ \E g \in External : binding'[c] = [user |-> {u}, account |-> {g}]
              \/ /\ c \in session[x].row \cap Active
                 /\ \/ binding'[c] = Inactive
                    \/ \E g \in Provider(e) : binding'[c] = [user |-> {u}, account |-> {g}]
        <3>1. \A c \in Row : c # b => binding'[c] = binding[c]
            BY <1>5, <1>7
        <3> QED BY <1>7, <2>1, <2>4, <3>1
    <2> QED BY <1>1, <1>2, <1>4, <2>2, <2>3, <2>5, <2>6, EndKeeps
<1> QED BY <1>2, <1>6, <1>7, BoundWrites

(***************************************************************************)
(* Every step keeps the invariant.                                         *)
(***************************************************************************)
LEMMA StartKeeps ==
    ASSUME BindingsInvariant, NEW x \in Session, Start(x)
    PROVE  BindingsInvariant'
<1>1. PICK u \in User, e \in External :
          \/ BindGoogle(x, u, e) \/ BindTelegram(x, u, e) \/ BindWidget(x, u, e)
          \/ Unbind(x, u, e) \/ UnbindByAdmin(x, u, e)
          \/ Auth(x, u, e) \/ Use(x, u, e)
    BY DEF Start
<1>2. /\ ByUser(u, e) \in SUBSET Active /\ ByAccount(e) \in SUBSET Active
      /\ \A b \in ByUser(u, e) :
             binding[b].user = {u} /\ binding[b].account \subseteq Provider(e)
      /\ \A b \in ByAccount(e) : binding[b].account = {e}
    BY DEF ByUser, ByAccount
<1>3. {e} \subseteq Provider(e) /\ (e \in Telegram => Provider(e) = Telegram)
    BY ProviderFacts
<1>4. CASE BindGoogle(x, u, e)
    BY <1>2, <1>4, BeginKeeps DEF BindGoogle
<1>5. CASE BindTelegram(x, u, e)
    BY <1>5, BeginKeeps DEF BindTelegram
<1>6. CASE BindWidget(x, u, e)
    BY <1>2, <1>6, BeginKeeps DEF BindWidget
<1>7. CASE Unbind(x, u, e)
    BY <1>2, <1>7, BeginKeeps DEF Unbind
<1>8. CASE UnbindByAdmin(x, u, e)
    BY <1>2, <1>3, <1>8, BeginKeeps DEF UnbindByAdmin
<1>9. CASE Auth(x, u, e)
    BY <1>2, <1>3, <1>9, BeginKeeps DEF Auth, IsOf
<1>10. CASE Use(x, u, e)
    BY <1>2, <1>10, BeginKeeps DEF Use
<1> QED BY <1>1, <1>4, <1>5, <1>6, <1>7, <1>8, <1>9, <1>10

LEMMA SetStatusKeeps ==
    ASSUME BindingsInvariant, NEW u \in User, NEW new \in Status, SetStatus(u, new)
    PROVE  BindingsInvariant'
<1>1. /\ binding' = binding /\ preferences' = preferences
      /\ session' = session /\ raced' = raced
    BY DEF SetStatus
<1>2. Active' = Active /\ Busy' = Busy
    BY <1>1 DEF Active, Busy, Inactive
<1>3. status' \in [User -> Status]
    BY DEF SetStatus, BindingsInvariant, TypeOK
<1>4. TypeOK'
    BY <1>1, <1>2, <1>3 DEF BindingsInvariant, TypeOK
<1>5. OneToOne' /\ PreferencesFollowBinding'
    BY <1>1, <1>2 DEF BindingsInvariant, OneToOne, PreferencesFollowBinding, Provider
<1>6. Remembered'
    BY <1>1, <1>2 DEF BindingsInvariant, Remembered, Remembers, Provider
<1> QED BY <1>4, <1>5, <1>6 DEF BindingsInvariant

LEMMA StutterKeeps ==
    ASSUME BindingsInvariant, UNCHANGED vars
    PROVE  BindingsInvariant'
<1>1. /\ status' = status /\ binding' = binding /\ preferences' = preferences
      /\ session' = session /\ raced' = raced
    BY DEF vars
<1>2. Active' = Active /\ Busy' = Busy
    BY <1>1 DEF Active, Busy, Inactive
<1>3. TypeOK'
    BY <1>1, <1>2 DEF BindingsInvariant, TypeOK
<1>4. OneToOne' /\ PreferencesFollowBinding'
    BY <1>1, <1>2 DEF BindingsInvariant, OneToOne, PreferencesFollowBinding, Provider
<1>5. Remembered'
    BY <1>1, <1>2 DEF BindingsInvariant, Remembered, Remembers, Provider
<1> QED BY <1>3, <1>4, <1>5 DEF BindingsInvariant

LEMMA NextKeeps == BindingsInvariant /\ [Next]_vars => BindingsInvariant'
<1> SUFFICES ASSUME BindingsInvariant, [Next]_vars
             PROVE  BindingsInvariant'
    OBVIOUS
<1>1. ASSUME NEW x \in Session, Start(x) PROVE BindingsInvariant'
    BY <1>1, StartKeeps
<1>2. ASSUME NEW x \in Session, Finish(x) PROVE BindingsInvariant'
    BY <1>2, BoundKeeps, UnboundKeeps, AuthenticatedKeeps, UsedKeeps, AbortKeeps DEF Finish
<1>3. ASSUME NEW u \in User, NEW new \in Status, SetStatus(u, new) PROVE BindingsInvariant'
    BY <1>3, SetStatusKeeps
<1>4. ASSUME UNCHANGED vars PROVE BindingsInvariant'
    BY <1>4, StutterKeeps
<1> QED BY <1>1, <1>2, <1>3, <1>4 DEF Next

-----------------------------------------------------------------------------
(***************************************************************************)
(* Whatever handlers are in flight, what they remember of the bindings is  *)
(* still true as far as it matters for what they write (the handlers of    *)
(* google.py and telegram.py).                                             *)
(***************************************************************************)
THEOREM HandlersRememberRightly == Spec => []BindingsInvariant
<1>1. Init => BindingsInvariant
    BY InitInvariant
<1>2. BindingsInvariant /\ [Next]_vars => BindingsInvariant'
    BY NextKeeps
<1> QED BY <1>1, <1>2, PTL DEF Spec

(***************************************************************************)
(* For any number of handlers in flight, an account belongs to one user    *)
(* and a user has one account at a provider: the lookups of google.py and  *)
(* telegram.py that expect one row find one.                               *)
(***************************************************************************)
THEOREM BindingsAreOneToOne == Spec => []OneToOne
<1>1. BindingsInvariant => OneToOne
    BY DEF BindingsInvariant
<1> QED BY <1>1, HandlersRememberRightly, PTL

(***************************************************************************)
(* Who has notification preferences is bound at Telegram, unless two       *)
(* handlers in flight acted for the same user.                             *)
(***************************************************************************)
THEOREM PreferencesNeedABinding == Spec => []PreferencesFollowBinding
<1>1. BindingsInvariant => PreferencesFollowBinding
    BY DEF BindingsInvariant
<1> QED BY <1>1, HandlersRememberRightly, PTL

(***************************************************************************)
(* A login that ends leaves every binding as it is then, though it sets    *)
(* all the columns of the row it read before.                              *)
(***************************************************************************)
THEOREM LoginsChangeNothing == Spec => LoginChangesNoBinding
<1> DEFINE A == \A x \in Session :
                    session[x].op = "auth" /\ session'[x] = Idle => binding' = binding
<1>1. BindingsInvariant /\ [Next]_vars => [A]_vars
    <2> SUFFICES ASSUME BindingsInvariant, Next, NEW x \in Session,
                        session[x].op = "auth", session'[x] = Idle
                 PROVE  binding' = binding
        OBVIOUS
    <2>1. session[x] # Idle
        BY DEF Idle
    <2>2. CASE \E y \in Session : Finish(y)
        <3>1. PICK y \in Session : Finish(y)
            BY <2>2
        <3>2. session' = [session EXCEPT ![y] = Idle]
            BY <3>1 DEF Finish, Bound, Unbound, Authenticated, Used, Abort, End
        <3>3. y = x
            BY <2>1, <3>2 DEF BindingsInvariant, Remembered
        <3>4. Authenticated(x) \/ Abort(x)
            BY <3>1, <3>3 DEF Finish, Bound, Unbound, Used
        <3> QED BY <3>4, LoginKeepsBinding DEF Abort
    <2>3. CASE ~ \E y \in Session : Finish(y)
        BY <2>3 DEF Next, Start, SetStatus, BindGoogle, BindTelegram, BindWidget,
                    Unbind, UnbindByAdmin, Auth, Use, Begin
    <2> QED BY <2>2, <2>3
<1>2. [][A]_vars => LoginChangesNoBinding
    BY PTL DEF LoginChangesNoBinding
<1> QED BY <1>1, <1>2, HandlersRememberRightly, PTL DEF Spec

=============================================================================
