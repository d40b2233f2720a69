------------------------ MODULE AdministrationProofs ------------------------
(***************************************************************************)
(* Safety of the first user and of the settings, for any set of requests   *)
(* and any emails, roles and values.  The database only grows: users stay  *)
(* as they were committed and the values of a key are a history, so that   *)
(* what was true of a request that others overtake stays true.  The one    *)
(* conjunct about two requests is OneHolder: no two of them commit, or     *)
(* have committed, a user of the same email.                               *)
(***************************************************************************)
EXTENDS Administration, TLAPS

BeganType ==
    began \in [Request -> [users : SUBSET Email, settings : [Key -> Nat]]]

\* Where a request is and what it was sent go together.
Placed(r) ==
    /\ pc[r] = "idle" => input[r].kind = "none" /\ read[r] = 0
    /\ pc[r] \in {"bootstrap", "insert", "commit-user"} => input[r].kind = "bootstrap"
    /\ pc[r] = "current_user" => input[r].kind \in {"get", "patch"}
    /\ pc[r] = "get" => input[r].kind = "get"
    /\ pc[r] \in {"patch", "write", "commit"} => input[r].kind = "patch"
    /\ pc[r] # "ended" => outcome[r] = "none"

\* What a request found when it arrived is still there.
BeganEarlier(r) ==
    /\ began[r].users \subseteq DOMAIN users
    /\ \A key \in Key : began[r].settings[key] <= Len(settings[key])

Booting(r) ==
    /\ pc[r] \in {"insert", "commit-user"} => began[r].users = {}
    /\ pc[r] = "commit-user" => input[r].email \notin DOMAIN users
    /\ (input[r].kind = "bootstrap" /\ outcome[r] = "ok") =>
          /\ began[r].users = {}
          /\ input[r].email \in DOMAIN users
          /\ users[input[r].email] = input[r].role

AnsweredAt(r, n) ==
    /\ began[r].settings[input[r].key] <= n
    /\ answer[r] = ValueAt(input[r].key, n)

Setting(r) ==
    /\ pc[r] \in {"write", "commit"} => began[r].settings[input[r].key] <= read[r]
    /\ (outcome[r] = "ok" /\ input[r].kind \in {"get", "patch"}) =>
          \E n \in 0..Written(r) : AnsweredAt(r, n)

\* Only what succeeded has written.
WroteOnly(r) ==
    \A key \in Key : \A n \in 1..Len(settings[key]) :
        settings[key][n].by = r => outcome[r] = "ok"

PartOf(r) == Placed(r) /\ BeganEarlier(r) /\ Booting(r) /\ Setting(r) /\ WroteOnly(r)

\* The email is, or is about to be, that of the user this request created.
Takes(r) ==
    \/ pc[r] = "commit-user"
    \/ input[r].kind = "bootstrap" /\ outcome[r] = "ok"

OneHolder ==
    \A r, e \in Request :
        (r # e /\ Takes(r) /\ Takes(e)) => input[r].email # input[e].email

IInv == TypeOK /\ BeganType /\ OneHolder /\ \A r \in Request : PartOf(r)

-----------------------------------------------------------------------------

\* What a request was sent has the fields of its kind.
LEMMA InputFields ==
    ASSUME NEW x \in Input \cup {NoInput}
    PROVE  /\ x.kind \in {"none", "bootstrap", "get", "patch"}
           /\ x.kind = "bootstrap" => x.email \in Email /\ x.role \in Role
           /\ x.kind \in {"get", "patch"} => x.key \in Key
           /\ x.kind = "patch" => x.value \in Value \cup Tolerances
  BY DEF Input, NoInput, Key

\* What a reader of a setting finds.
LEMMA ValueType ==
    ASSUME TypeOK, NEW key \in Key, NEW n \in 0..Len(settings[key])
    PROVE  ValueAt(key, n) \in Value \cup Tolerances \cup {Default}
<1> DEFINE Rec == [value : Value \cup Tolerances, by : Request]
<1>1. settings[key] \in Seq(Rec)
  BY DEF TypeOK
<1>2. n # 0 => settings[key][n] \in Rec
  <2>1. n # 0 => n \in 1..Len(settings[key])
    OBVIOUS
  <2> HIDE DEF Rec
  <2> QED
    BY <1>1, <2>1
<1>3. n # 0 => settings[key][n].value \in Value \cup Tolerances
  BY <1>2
<1> QED
  BY <1>3 DEF ValueAt

LEMMA InitInv == Init => IInv
<1> SUFFICES ASSUME Init PROVE IInv
  OBVIOUS
<1>1. TypeOK
  <2>1. DOMAIN users \subseteq Email /\ users \in [DOMAIN users -> Role]
    BY DEF Init
  <2>2. settings \in [Key -> Seq([value : Value \cup Tolerances, by : Request])]
    <3>1. <<>> \in Seq([value : Value \cup Tolerances, by : Request])
      OBVIOUS
    <3> QED
      BY <3>1 DEF Init
  <2>3. \A r \in Request : input[r].kind \notin {"get", "patch"}
    BY DEF Init, NoInput
  <2> QED
    BY <2>1, <2>2, <2>3 DEF Init, TypeOK
<1>2. BeganType
  BY DEF Init, BeganType, Start
<1>3. OneHolder
  BY DEF Init, OneHolder, Takes, NoInput
<1>4. ASSUME NEW r \in Request PROVE PartOf(r)
  <2>1. Placed(r)
    BY DEF Init, Placed, NoInput
  <2>2. BeganEarlier(r)
    BY DEF Init, BeganEarlier, Start
  <2>3. Booting(r) /\ Setting(r)
    BY DEF Init, Booting, Setting, NoInput
  <2>4. WroteOnly(r)
    BY DEF Init, WroteOnly
  <2> QED
    BY <2>1, <2>2, <2>3, <2>4 DEF PartOf
<1> QED
  BY <1>1, <1>2, <1>3, <1>4 DEF IInv

-----------------------------------------------------------------------------
(* Frames *)

\* A step of one request leaves the state of the others alone.
OthersStay(r) ==
    \A e \in Request \ {r} :
        /\ pc'[e] = pc[e] /\ input'[e] = input[e] /\ read'[e] = read[e]
        /\ answer'[e] = answer[e] /\ outcome'[e] = outcome[e] /\ began'[e] = began[e]

\* Users stay, and the values of a key are only added to, by this request.
Grows(r) ==
    /\ DOMAIN users \subseteq DOMAIN users'
    /\ \A email \in DOMAIN users : users'[email] = users[email]
    /\ \A key \in Key :
          /\ Len(settings'[key]) >= Len(settings[key])
          /\ \A n \in 1..Len(settings[key]) : settings'[key][n] = settings[key][n]
          /\ \A n \in 1..Len(settings'[key]) :
                n \in 1..Len(settings[key]) \/ settings'[key][n].by = r

\* The part of the others of the invariant outlives a step of one request
\* that does not take their email.
LEMMA Bystander ==
    ASSUME IInv, TypeOK', NEW r \in Request, OthersStay(r), Grows(r),
           NEW e \in Request \ {r},
           pc[e] = "commit-user" => input[e].email \notin DOMAIN users'
    PROVE  PartOf(e)'
<1>1. PartOf(e) /\ TypeOK /\ BeganType
  BY DEF IInv
<1>2. /\ pc'[e] = pc[e] /\ input'[e] = input[e] /\ read'[e] = read[e]
      /\ answer'[e] = answer[e] /\ outcome'[e] = outcome[e] /\ began'[e] = began[e]
  BY DEF OthersStay
<1>3. /\ pc[e] \in {"write", "commit"} => input[e].key \in Key
      /\ input[e].kind \in {"get", "patch"} => input[e].key \in Key
  BY <1>1, InputFields DEF PartOf, Placed, TypeOK
<1>4. Placed(e)'
  BY <1>1, <1>2 DEF PartOf, Placed
<1>5. \A key \in Key : /\ Len(settings[key]) \in Nat /\ Len(settings'[key]) \in Nat
                       /\ began[e].settings[key] \in Nat
  BY <1>1 DEF TypeOK, BeganType
<1>6. BeganEarlier(e)'
  BY <1>1, <1>2, <1>5 DEF PartOf, BeganEarlier, Grows
<1>7. Booting(e)'
  BY <1>1, <1>2 DEF PartOf, Booting, Grows
<1>8. Setting(e)'
  <2>1. (pc'[e] \in {"write", "commit"} => began'[e].settings[input'[e].key] <= read'[e])
    BY <1>1, <1>2 DEF PartOf, Setting
  <2>2. ASSUME outcome'[e] = "ok", input'[e].kind \in {"get", "patch"}
        PROVE  (\E n \in 0..Written(e) : AnsweredAt(e, n))'
    <3>1. PICK n \in 0..Written(e) : AnsweredAt(e, n)
      BY <1>1, <1>2, <2>2 DEF PartOf, Setting
    <3>2. input[e].key \in Key
      BY <1>2, <1>3, <2>2
    <3>3. n <= Len(settings[input[e].key]) /\ n <= Len(settings'[input[e].key])
      BY <1>5, <3>2 DEF Written, Grows
    <3>4. n > 0 => settings'[input[e].key][n] = settings[input[e].key][n]
      BY <1>5, <3>2, <3>3 DEF Grows
    <3> QED
      BY <1>2, <3>1, <3>2, <3>3, <3>4 DEF AnsweredAt, Written, ValueAt
  <2> QED
    BY <2>1, <2>2 DEF Setting
<1>9. WroteOnly(e)'
  BY SMTT(40), <1>1, <1>2, <1>5 DEF PartOf, WroteOnly, Grows
<1> QED
  BY <1>4, <1>6, <1>7, <1>8, <1>9 DEF PartOf

\* A step that changes neither table: the part of its own request remains
\* to be shown.
LEMMA QuietKeeps ==
    ASSUME IInv, TypeOK', BeganType', OneHolder', NEW r \in Request, OthersStay(r),
           UNCHANGED <<users, settings>>, PartOf(r)'
    PROVE  IInv'
<1>1. Grows(r)
  <2>1. \A key \in Key : Len(settings[key]) \in Nat
    BY DEF IInv, TypeOK
  <2> QED
    BY <2>1 DEF Grows
<1>2. \A e \in Request \ {r} : pc[e] = "commit-user" => input[e].email \notin DOMAIN users'
  BY DEF IInv, PartOf, Booting
<1> QED
  BY <1>1, <1>2, Bystander DEF IInv

-----------------------------------------------------------------------------
(* Steps *)

\* A request that is not admitted, fails or dies.
LEMMA Ending ==
    ASSUME IInv, NEW r \in Request, NEW how \in {"refused", "error", "crashed"},
           pc[r] # "ended", End(r, how),
           UNCHANGED <<users, settings, input, read, answer, began>>
    PROVE  IInv'
<1>1. PartOf(r) /\ TypeOK /\ BeganType /\ OneHolder
  BY DEF IInv
<1>2. /\ pc'[r] = "ended" /\ outcome'[r] = how
      /\ \A e \in Request \ {r} : pc'[e] = pc[e] /\ outcome'[e] = outcome[e]
  BY <1>1 DEF End, TypeOK
<1>3. TypeOK'
  <2>1. pc' \in [Request -> {"idle", "bootstrap", "insert", "commit-user",
                           "current_user", "get", "patch", "write", "commit", "ended"}]
    BY <1>1 DEF End, TypeOK
  <2>2. outcome' \in [Request -> {"none", "ok", "refused", "error", "crashed"}]
    BY <1>1 DEF End, TypeOK
  <2> QED
    BY <1>1, <2>1, <2>2 DEF TypeOK, Written
<1>4. BeganType' /\ OneHolder'
  BY <1>1, <1>2 DEF BeganType, OneHolder, Takes, PartOf, Placed
<1>5. PartOf(r)'
  <2>1. Placed(r)' /\ BeganEarlier(r)'
    BY <1>1, <1>2 DEF PartOf, Placed, BeganEarlier
  <2>2. Booting(r)' /\ Setting(r)'
    BY <1>1, <1>2 DEF PartOf, Booting, Setting
  <2>3. WroteOnly(r)'
    BY <1>1, <1>2 DEF PartOf, WroteOnly, Placed
  <2> QED
    BY <2>1, <2>2, <2>3 DEF PartOf
<1> QED
  BY <1>2, <1>3, <1>4, <1>5, QuietKeeps DEF OthersStay

\* A request that goes on to another place, and may read the row.
LEMMA Moving ==
    ASSUME IInv, NEW r \in Request,
           NEW to \in {"insert", "commit-user", "get", "patch", "write", "commit"},
           pc' = [pc EXCEPT ![r] = to],
           \/ UNCHANGED read
           \/ input[r].kind = "patch" /\ read' = [read EXCEPT ![r] = Written(r)],
           UNCHANGED <<users, settings, input, answer, outcome, began>>,
           pc[r] # "ended",
           to \in {"insert", "commit-user"} => /\ input[r].kind = "bootstrap"
                                             /\ began[r].users = {},
           to = "commit-user" => /\ input[r].email \notin DOMAIN users
                                 /\ \A e \in Request \ {r} :
                                       pc[e] = "commit-user" => input[e].email # input[r].email,
           to = "get" => input[r].kind = "get",
           to \in {"patch", "write", "commit"} => input[r].kind = "patch",
           to \in {"write", "commit"} => began[r].settings[input[r].key] <= read'[r]
    PROVE  IInv'
<1>1. PartOf(r) /\ TypeOK /\ BeganType /\ OneHolder
  BY DEF IInv
<1>2. /\ pc'[r] = to
      /\ \A e \in Request \ {r} : pc'[e] = pc[e]
  BY <1>1 DEF TypeOK
<1>3. TypeOK'
  <2>1. pc' \in [Request -> {"idle", "bootstrap", "insert", "commit-user",
                           "current_user", "get", "patch", "write", "commit", "ended"}]
    BY <1>1 DEF TypeOK
  <2>2. ASSUME NEW e \in Request, input[e].kind \in {"get", "patch"}
        PROVE  read'[e] <= Written(e)
    <3>1. input[e].key \in Key
      BY <1>1, <2>2, InputFields DEF TypeOK
    <3>2. Written(e) \in Nat
      BY <1>1, <3>1 DEF TypeOK, Written
    <3> QED
      BY <1>1, <2>2, <3>2 DEF TypeOK
  <2>3. read' \in [Request -> Nat]
    <3>1. input[r].kind = "patch" => Written(r) \in Nat
      <4>1. input[r].kind = "patch" => input[r].key \in Key
        BY <1>1, InputFields DEF TypeOK
      <4> QED
        BY <1>1, <4>1 DEF TypeOK, Written
    <3> QED
      BY <1>1, <3>1 DEF TypeOK
  <2> QED
    BY <1>1, <2>1, <2>2, <2>3 DEF TypeOK, Written
<1>4. BeganType' /\ OneHolder'
  <2>1. outcome[r] = "none"
    BY <1>1 DEF PartOf, Placed
  <2>2. \A e \in Request \ {r} : Takes(e)' => Takes(e)
    BY <1>2 DEF Takes
  <2>3. Takes(r)' => to = "commit-user"
    BY <1>2, <2>1 DEF Takes
  <2>4. ASSUME to = "commit-user", NEW e \in Request \ {r}, Takes(e)
        PROVE  input[e].email # input[r].email
    <3>1. Booting(e)
      BY DEF IInv, PartOf
    <3> QED
      BY <2>4, <3>1 DEF Takes, Booting
  <2> QED
    BY <1>1, <2>2, <2>3, <2>4 DEF BeganType, OneHolder
<1>5. PartOf(r)'
  <2>1. Placed(r)' /\ BeganEarlier(r)'
    BY <1>1, <1>2 DEF PartOf, Placed, BeganEarlier
  <2>2. Booting(r)'
    BY <1>1, <1>2 DEF PartOf, Booting
  <2>3. Setting(r)'
    BY <1>1, <1>2 DEF PartOf, Setting, Placed
  <2>4. WroteOnly(r)'
    BY <1>1, <1>2 DEF PartOf, WroteOnly
  <2> QED
    BY <2>1, <2>2, <2>3, <2>4 DEF PartOf
<1>6. \A e \in Request \ {r} : read'[e] = read[e]
  BY <1>1 DEF TypeOK
<1> QED
  BY <1>2, <1>3, <1>4, <1>5, <1>6, QuietKeeps DEF OthersStay

LEMMA ArriveStep ==
    ASSUME IInv, NEW r \in Request, Arrive(r)
    PROVE  IInv'
<1>1. PartOf(r) /\ TypeOK /\ BeganType /\ OneHolder
  BY DEF IInv
<1>2. PICK sent \in Input :
         /\ input' = [input EXCEPT ![r] = sent]
         /\ pc' = [pc EXCEPT ![r] =
               IF sent.kind = "bootstrap" THEN "bootstrap" ELSE "current_user"]
  BY DEF Arrive
<1>3. /\ pc[r] = "idle"
      /\ began' = [began EXCEPT ![r] =
            [users |-> DOMAIN users, settings |-> [key \in Key |-> Len(settings[key])]]]
      /\ UNCHANGED <<users, settings, read, answer, outcome>>
  BY DEF Arrive
<1>4. /\ input[r].kind = "none" /\ outcome[r] = "none" /\ read[r] = 0
      /\ \A key \in Key : Len(settings[key]) \in Nat
  BY <1>1, <1>3 DEF PartOf, Placed, TypeOK
<1>5. sent.kind \in {"bootstrap", "get", "patch"}
  BY <1>2 DEF Input
<1>6. /\ pc'[r] \in {"bootstrap", "current_user"} /\ input'[r] = sent
      /\ pc'[r] = "bootstrap" <=> sent.kind = "bootstrap"
      /\ began'[r] = [users |-> DOMAIN users, settings |-> [key \in Key |-> Len(settings[key])]]
  BY <1>1, <1>2, <1>3 DEF TypeOK, BeganType
<1>7. OthersStay(r)
  BY <1>1, <1>2, <1>3 DEF OthersStay, TypeOK, BeganType
<1>8. TypeOK'
  <2>1. input' \in [Request -> Input \cup {NoInput}]
    BY <1>1, <1>2 DEF TypeOK
  <2>2. pc' \in [Request -> {"idle", "bootstrap", "insert", "commit-user",
                           "current_user", "get", "patch", "write", "commit", "ended"}]
    BY <1>1, <1>2 DEF TypeOK
  <2>3. ASSUME NEW e \in Request, input'[e].kind \in {"get", "patch"}
        PROVE  read'[e] <= Written(e)'
    <3>1. CASE e = r
      <4>1. sent.key \in Key
        BY <1>6, <2>3, <3>1, InputFields
      <4> QED
        BY <1>3, <1>4, <1>6, <3>1, <4>1 DEF Written
    <3>2. CASE e # r
      BY <1>1, <1>3, <1>7, <2>3, <3>2 DEF TypeOK, Written, OthersStay
    <3> QED
      BY <3>1, <3>2
  <2> QED
    BY <1>1, <1>3, <2>1, <2>2, <2>3 DEF TypeOK
<1>9. BeganType'
  <2>1. [users |-> DOMAIN users, settings |-> [key \in Key |-> Len(settings[key])]]
           \in [users : SUBSET Email, settings : [Key -> Nat]]
    BY <1>1, <1>4 DEF TypeOK
  <2> QED
    BY <1>1, <1>3, <2>1 DEF BeganType
<1>10. OneHolder'
  BY <1>1, <1>3, <1>4, <1>6, <1>7 DEF OneHolder, Takes, OthersStay
<1>11. PartOf(r)'
  <2>1. Placed(r)'
    BY <1>3, <1>4, <1>5, <1>6 DEF Placed
  <2>2. BeganEarlier(r)'
    BY <1>3, <1>4, <1>6 DEF BeganEarlier
  <2>3. Booting(r)' /\ Setting(r)'
    BY <1>3, <1>4, <1>6 DEF Booting, Setting
  <2>4. WroteOnly(r)'
    BY <1>1, <1>3 DEF PartOf, WroteOnly
  <2> QED
    BY <2>1, <2>2, <2>3, <2>4 DEF PartOf
<1> QED
  BY <1>3, <1>7, <1>8, <1>9, <1>10, <1>11, QuietKeeps

LEMMA GetSettingStep ==
    ASSUME IInv, NEW r \in Request, GetSetting(r)
    PROVE  IInv'
<1>1. PartOf(r) /\ TypeOK /\ BeganType /\ OneHolder
  BY DEF IInv
<1>2. /\ pc[r] = "get" /\ input[r].kind = "get"
      /\ answer' = [answer EXCEPT ![r] = ValueAt(input[r].key, Written(r))]
      /\ pc' = [pc EXCEPT ![r] = "ended"] /\ outcome' = [outcome EXCEPT ![r] = "ok"]
      /\ UNCHANGED <<users, settings, input, read, began>>
  BY <1>1 DEF GetSetting, End, PartOf, Placed
<1>3. /\ pc'[r] = "ended" /\ outcome'[r] = "ok"
      /\ answer'[r] = ValueAt(input[r].key, Written(r))
  BY <1>1, <1>2 DEF TypeOK
<1>4. input[r].key \in Key /\ Written(r) \in Nat
  <2>1. input[r].key \in Key
    BY <1>1, <1>2, InputFields DEF TypeOK
  <2> QED
    BY <1>1, <2>1 DEF TypeOK, Written
<1>5. ValueAt(input[r].key, Written(r)) \in Value \cup Tolerances \cup {Default}
  BY <1>1, <1>4, ValueType DEF Written
<1>6. OthersStay(r)
  BY <1>1, <1>2 DEF OthersStay, TypeOK
<1>7. TypeOK'
  <2>1. /\ answer' \in [Request -> Value \cup Tolerances \cup {Default}]
        /\ outcome' \in [Request -> {"none", "ok", "refused", "error", "crashed"}]
    BY <1>1, <1>2, <1>5 DEF TypeOK
  <2>2. pc' \in [Request -> {"idle", "bootstrap", "insert", "commit-user",
                           "current_user", "get", "patch", "write", "commit", "ended"}]
    BY <1>1, <1>2 DEF TypeOK
  <2> QED
    BY <1>1, <1>2, <2>1, <2>2 DEF TypeOK, Written
<1>8. BeganType' /\ OneHolder'
  BY <1>1, <1>2, <1>3, <1>6 DEF BeganType, OneHolder, Takes, OthersStay
<1>9. PartOf(r)'
  <2>1. Placed(r)' /\ BeganEarlier(r)' /\ Booting(r)'
    BY <1>1, <1>2, <1>3 DEF PartOf, Placed, BeganEarlier, Booting
  <2>2. Setting(r)'
    <3>1. began[r].settings[input[r].key] <= Written(r)
      BY <1>1, <1>4 DEF PartOf, BeganEarlier, Written
    <3>2. AnsweredAt(r, Written(r))' /\ Written(r) \in 0..Written(r)
      BY <1>2, <1>3, <1>4, <3>1 DEF AnsweredAt, Written, ValueAt
    <3> QED
      BY <1>2, <1>3, <3>2 DEF Setting, Written
  <2>3. WroteOnly(r)'
    BY <1>1, <1>2, <1>3 DEF PartOf, WroteOnly
  <2> QED
    BY <2>1, <2>2, <2>3 DEF PartOf
<1> QED
  BY <1>2, <1>6, <1>7, <1>8, <1>9, QuietKeeps

LEMMA CommitUserStep ==
    ASSUME IInv, NEW r \in Request, CommitUser(r)
    PROVE  IInv'
<1>1. PartOf(r) /\ TypeOK /\ BeganType /\ OneHolder
  BY DEF IInv
<1> DEFINE email == input[r].email
<1>2. /\ pc[r] = "commit-user" /\ input[r].kind = "bootstrap" /\ outcome[r] = "none"
      /\ began[r].users = {} /\ email \notin DOMAIN users
      /\ users' = [e \in DOMAIN users \cup {email} |->
                     IF e = email THEN input[r].role ELSE users[e]]
      /\ pc' = [pc EXCEPT ![r] = "ended"] /\ outcome' = [outcome EXCEPT ![r] = "ok"]
      /\ UNCHANGED <<settings, input, read, answer, began>>
  BY <1>1 DEF CommitUser, End, PartOf, Placed, Booting
<1>3. email \in Email /\ input[r].role \in Role
  BY <1>1, <1>2, InputFields DEF TypeOK
<1>4. pc'[r] = "ended" /\ outcome'[r] = "ok"
  BY <1>1, <1>2 DEF TypeOK
<1>5. OthersStay(r)
  BY <1>1, <1>2 DEF OthersStay, TypeOK
<1>6. TypeOK'
  <2>1. DOMAIN users' \subseteq Email /\ users' \in [DOMAIN users' -> Role]
    BY <1>1, <1>2, <1>3 DEF TypeOK
  <2>2. outcome' \in [Request -> {"none", "ok", "refused", "error", "crashed"}]
    BY <1>1, <1>2 DEF TypeOK
  <2>3. pc' \in [Request -> {"idle", "bootstrap", "insert", "commit-user",
                           "current_user", "get", "patch", "write", "commit", "ended"}]
    BY <1>1, <1>2 DEF TypeOK
  <2> QED
    BY <1>1, <1>2, <2>1, <2>2, <2>3 DEF TypeOK, Written
<1>7. Grows(r)
  <2>1. \A key \in Key : Len(settings[key]) \in Nat
    BY <1>1 DEF TypeOK
  <2> QED
    BY <1>2, <2>1 DEF Grows
<1>8. BeganType' /\ OneHolder'
  BY <1>1, <1>2, <1>4, <1>5 DEF BeganType, OneHolder, Takes, OthersStay
<1>9. PartOf(r)'
  <2>1. Placed(r)' /\ BeganEarlier(r)'
    BY <1>1, <1>2, <1>4 DEF PartOf, Placed, BeganEarlier
  <2>2. Booting(r)' /\ Setting(r)'
    BY <1>2, <1>4 DEF Booting, Setting
  <2>3. WroteOnly(r)'
    BY <1>1, <1>2, <1>4 DEF PartOf, WroteOnly
  <2> QED
    BY <2>1, <2>2, <2>3 DEF PartOf
<1>10. ASSUME NEW e \in Request \ {r} PROVE PartOf(e)'
  <2>1. pc[e] = "commit-user" => input[e].email \notin DOMAIN users'
    <3>1. PartOf(e)
      BY DEF IInv
    <3> QED
      BY <1>1, <1>2, <3>1 DEF PartOf, Booting, OneHolder, Takes
  <2> QED
    BY <1>5, <1>6, <1>7, <2>1, Bystander
<1> QED
  BY <1>6, <1>8, <1>9, <1>10 DEF IInv

LEMMA CommitStep ==
    ASSUME IInv, NEW r \in Request, Commit(r)
    PROVE  IInv'
<1>1. PartOf(r) /\ TypeOK /\ BeganType /\ OneHolder
  BY DEF IInv
<1> DEFINE key == input[r].key
           value == input[r].value
           Rec == [value : Value \cup Tolerances, by : Request]
<1>2. /\ pc[r] = "commit" /\ input[r].kind = "patch" /\ outcome[r] = "none"
      /\ began[r].settings[key] <= read[r]
      /\ settings' = IF Writes(r)
            THEN [settings EXCEPT ![key] = Append(@, [value |-> value, by |-> r])]
            ELSE settings
      /\ answer' = [answer EXCEPT ![r] = value]
      /\ pc' = [pc EXCEPT ![r] = "ended"] /\ outcome' = [outcome EXCEPT ![r] = "ok"]
      /\ UNCHANGED <<users, input, read, began>>
  BY <1>1 DEF Commit, End, PartOf, Placed, Setting
<1>3. key \in Key /\ value \in Value \cup Tolerances
  BY <1>1, <1>2, InputFields DEF TypeOK
<1>4. pc'[r] = "ended" /\ outcome'[r] = "ok" /\ answer'[r] = value
  BY <1>1, <1>2 DEF TypeOK
<1>5. OthersStay(r)
  BY <1>1, <1>2 DEF OthersStay, TypeOK
<1>6. /\ settings \in [Key -> Seq(Rec)] /\ settings' \in [Key -> Seq(Rec)]
      /\ \A k \in Key : Len(settings[k]) \in Nat
  <2>1. settings \in [Key -> Seq(Rec)]
    BY <1>1 DEF TypeOK
  <2> DEFINE rec == [value |-> value, by |-> r]
             more == Append(settings[key], rec)
  <2>2. rec \in Rec
    BY <1>3
  <2>3. settings' = settings \/ settings' = [settings EXCEPT ![key] = more]
    BY <1>2
  <2> HIDE DEF Rec, rec, key
  <2>4. settings[key] \in Seq(Rec)
    BY <1>3, <2>1
  <2>5. more \in Seq(Rec)
    BY <2>2, <2>4
  <2>6. \A k \in Key : Len(settings[k]) \in Nat
    BY <2>1
  <2> HIDE DEF more
  <2>7. settings' \in [Key -> Seq(Rec)]
    BY <1>3, <2>1, <2>3, <2>5
  <2> QED
    BY <2>1, <2>6, <2>7
<1>7. \A k \in Key :
         \/ settings'[k] = settings[k]
         \/ k = key /\ Writes(r) /\ settings'[k] = Append(settings[k], [value |-> value, by |-> r])
  BY <1>2, <1>3, <1>6
<1>8. Grows(r)
  <2>1. ASSUME NEW k \in Key
        PROVE  /\ Len(settings'[k]) >= Len(settings[k])
               /\ \A n \in 1..Len(settings[k]) : settings'[k][n] = settings[k][n]
               /\ \A n \in 1..Len(settings'[k]) :
                     n \in 1..Len(settings[k]) \/ settings'[k][n].by = r
    <3>1. CASE settings'[k] = settings[k]
      BY <1>6, <3>1
    <3>2. CASE settings'[k] = Append(settings[k], [value |-> value, by |-> r])
      <4> DEFINE rec == [value |-> value, by |-> r]
      <4>1. rec.by = r /\ rec \in Rec
        BY <1>3
      <4>2. settings[k] \in Seq(Rec)
        BY <1>6
      <4> HIDE DEF rec, Rec
      <4>3. settings'[k] = Append(settings[k], rec)
        BY <3>2 DEF rec
      <4>4. /\ Len(settings'[k]) = Len(settings[k]) + 1
            /\ \A n \in 1..Len(settings[k]) : settings'[k][n] = settings[k][n]
            /\ settings'[k][Len(settings[k]) + 1] = rec
        BY <4>1, <4>2, <4>3
      <4> QED
        BY <1>6, <4>1, <4>4
    <3> QED
      BY <1>7, <3>1, <3>2
  <2> QED
    BY <1>2, <2>1 DEF Grows
<1>9. TypeOK'
  <2>1. /\ answer' \in [Request -> Value \cup Tolerances \cup {Default}]
        /\ outcome' \in [Request -> {"none", "ok", "refused", "error", "crashed"}]
    BY <1>1, <1>2, <1>3 DEF TypeOK
  <2>2. pc' \in [Request -> {"idle", "bootstrap", "insert", "commit-user",
                           "current_user", "get", "patch", "write", "commit", "ended"}]
    BY <1>1, <1>2 DEF TypeOK
  <2>3. ASSUME NEW e \in Request, input'[e].kind \in {"get", "patch"}
        PROVE  read'[e] <= Written(e)'
    <3>1. input[e].key \in Key /\ read[e] \in Nat /\ read[e] <= Len(settings[input[e].key])
      BY <1>1, <1>2, <2>3, InputFields DEF TypeOK, Written
    <3>2. /\ Len(settings'[input[e].key]) >= Len(settings[input[e].key])
          /\ Len(settings'[input[e].key]) \in Nat /\ Len(settings[input[e].key]) \in Nat
      BY <1>6, <1>8, <3>1 DEF Grows
    <3> QED
      BY <1>2, <3>1, <3>2 DEF Written
  <2> QED
    BY <1>1, <1>2, <1>6, <2>1, <2>2, <2>3 DEF TypeOK
<1>10. BeganType' /\ OneHolder'
  BY <1>1, <1>2, <1>4, <1>5 DEF BeganType, OneHolder, Takes, OthersStay
<1>11. Setting(r)'
  <2>1. /\ read[r] \in Nat /\ read[r] <= Len(settings[key])
        /\ began[r].settings[key] \in Nat /\ Len(settings[key]) \in Nat
    BY <1>1, <1>2, <1>3, <1>6 DEF TypeOK, BeganType, Written
  <2>2. CASE Writes(r)
    <3> DEFINE rec == [value |-> value, by |-> r]
    <3>0. PICK last \in Nat : last = Len(settings[key]) + 1
      BY <2>1
    <3>1. settings'[key] = Append(settings[key], rec) /\ settings[key] \in Seq(Rec)
      BY <1>2, <1>3, <1>6, <2>2
    <3>2. Len(settings'[key]) = last /\ settings'[key][last] = rec
      <4> HIDE DEF rec, Rec, key
      <4> QED
        BY <2>1, <3>0, <3>1
    <3>3. settings'[key][last].value = value /\ last # 0 /\ began[r].settings[key] <= last
      BY SMTT(40), <1>2, <2>1, <3>0, <3>2
    <3>4. AnsweredAt(r, last)'
      BY <1>2, <1>4, <3>3 DEF AnsweredAt, ValueAt
    <3>5. Written(r)' = last /\ last \in 0..last
      BY <1>2, <2>1, <3>0, <3>2 DEF Written
    <3> QED
      BY <1>2, <1>4, <3>4, <3>5 DEF Setting
  <2>3. CASE ~Writes(r)
    <3>1. read[r] # 0 /\ ValueAt(key, read[r]) = value /\ settings' = settings
      BY <1>2, <2>3 DEF Writes
    <3>2. AnsweredAt(r, read[r])'
      BY <1>2, <1>4, <2>1, <3>1 DEF AnsweredAt, ValueAt
    <3> QED
      BY <1>2, <1>4, <2>1, <3>1, <3>2 DEF Setting, Written
  <2> QED
    BY <2>2, <2>3
<1>12. PartOf(r)'
  <2>1. Placed(r)' /\ Booting(r)'
    BY <1>1, <1>2, <1>4 DEF PartOf, Placed, Booting
  <2>2. BeganEarlier(r)'
    <3>1. \A k \in Key : /\ Len(settings[k]) \in Nat /\ Len(settings'[k]) \in Nat
                         /\ began[r].settings[k] \in Nat
      BY <1>1, <1>6 DEF BeganType
    <3> QED
      BY <1>1, <1>2, <1>8, <3>1 DEF PartOf, BeganEarlier, Grows
  <2>3. WroteOnly(r)'
    BY <1>4 DEF WroteOnly
  <2> QED
    BY <1>11, <2>1, <2>2, <2>3 DEF PartOf
<1>13. \A e \in Request \ {r} : pc[e] = "commit-user" => input[e].email \notin DOMAIN users'
  BY <1>2 DEF IInv, PartOf, Booting
<1> QED
  BY <1>5, <1>8, <1>9, <1>10, <1>12, <1>13, Bystander DEF IInv

LEMMA StepInv == IInv /\ [Next]_vars => IInv'
<1> SUFFICES ASSUME IInv, [Next]_vars PROVE IInv'
  OBVIOUS
<1>1. CASE UNCHANGED vars
  <2>1. TypeOK' /\ BeganType' /\ OneHolder'
    BY <1>1 DEF vars, IInv, TypeOK, BeganType, OneHolder, Takes, Written
  <2>2. ASSUME NEW r \in Request PROVE PartOf(r)'
    <3>1. Placed(r)' /\ BeganEarlier(r)' /\ Booting(r)' /\ WroteOnly(r)'
      BY <1>1 DEF vars, IInv, PartOf, Placed, BeganEarlier, Booting, WroteOnly
    <3>2. Setting(r)'
      BY <1>1 DEF vars, IInv, PartOf, Setting, AnsweredAt, Written, ValueAt
    <3> QED
      BY <3>1, <3>2 DEF PartOf
  <2> QED
    BY <2>1, <2>2 DEF IInv
<1>2. ASSUME NEW r \in Request, Arrive(r) \/ Serve(r) \/ Crash(r)
      PROVE  IInv'
  <2>1. PartOf(r) /\ TypeOK /\ BeganType
    BY DEF IInv
  <2>2. CASE Arrive(r)
    BY <2>2, ArriveStep
  <2>3. CASE Bootstrap(r)
    <3>1. began[r].users = {} /\ input[r].kind = "bootstrap"
      BY <2>1, <2>3 DEF Bootstrap, PartOf, BeganEarlier, Placed
    <3> QED
      BY <2>3, <3>1, Moving DEF Bootstrap
  <2>4. CASE InsertUser(r)
    <3>1. began[r].users = {} /\ input[r].kind = "bootstrap"
      BY <2>1, <2>4 DEF InsertUser, PartOf, Booting, Placed
    <3> QED
      BY <2>4, <3>1, Moving DEF InsertUser, EmailIsHeld
  <2>5. CASE CommitUser(r)
    BY <2>5, CommitUserStep
  <2>6. CASE Admit(r)
    <3>1. input[r].kind \in {"get", "patch"}
      BY <2>1, <2>6 DEF Admit, PartOf, Placed
    <3> QED
      BY <2>6, <3>1, Moving DEF Admit
  <2>7. CASE GetSetting(r)
    BY <2>7, GetSettingStep
  <2>8. CASE ReadSetting(r)
    <3>1. input[r].kind = "patch" /\ input[r].key \in Key
      BY <2>1, <2>8, InputFields DEF ReadSetting, PartOf, Placed, TypeOK
    <3>2. read'[r] = Written(r) /\ began[r].settings[input[r].key] <= Written(r)
      BY <2>1, <2>8, <3>1 DEF ReadSetting, PartOf, BeganEarlier, Written, TypeOK
    <3> QED
      BY <2>8, <3>1, <3>2, Moving DEF ReadSetting
  <2>9. CASE Write(r)
    <3>1. input[r].kind = "patch" /\ began[r].settings[input[r].key] <= read[r]
      BY <2>1, <2>9 DEF Write, PartOf, Placed, Setting
    <3> QED
      BY <2>9, <3>1, Moving DEF Write
  <2>10. CASE Commit(r)
    BY <2>10, CommitStep
  <2>11. CASE \/ BootstrapRefused(r) \/ InsertUserFails(r) \/ Refuse(r)
             \/ NotSerializable(r) \/ InsertConflicts(r) \/ Crash(r)
    BY <2>11, Ending DEF BootstrapRefused, InsertUserFails, Refuse, NotSerializable,
                         InsertConflicts, Crash
  <2> QED
    BY <1>2, <2>2, <2>3, <2>4, <2>5, <2>6, <2>7, <2>8, <2>9, <2>10, <2>11 DEF Serve
<1> QED
  BY <1>1, <1>2 DEF Next

-----------------------------------------------------------------------------
(* Theorems *)

\* The inductive invariant of the users and the settings.
THEOREM Invariance == Spec => []IInv
  BY InitInv, StepInv, PTL DEF Spec

\* The tables and the requests hold what they should, for any set of
\* requests, emails, roles and values.
THEOREM TypeCorrect == Spec => []TypeOK
<1>1. IInv => TypeOK
  BY DEF IInv
<1> QED
  BY <1>1, Invariance, PTL

\* A bootstrap creates a user only if none was committed when it arrived,
\* the user it is answered with stays as it is, and no two create one of the
\* same email.
THEOREM BootstrapsFail == Spec => []LateBootstrapsFail
<1>1. IInv => LateBootstrapsFail
  BY DEF IInv, PartOf, Booting, OneHolder, Takes, LateBootstrapsFail
<1> QED
  BY <1>1, Invariance, PTL

\* What a request on settings is answered was stored while it was served, and
\* only requests that succeed have stored something.
THEOREM AnswersStored == Spec => []AnswersWereStored
<1>1. IInv => AnswersWereStored
  <2> SUFFICES ASSUME IInv PROVE AnswersWereStored
    OBVIOUS
  <2>1. ASSUME NEW r \in Request, outcome[r] = "ok", input[r].kind \in {"get", "patch"}
        PROVE  \E n \in began[r].settings[input[r].key]..Written(r) :
                  answer[r] = ValueAt(input[r].key, n)
    <3>1. input[r].key \in Key
      BY <2>1, InputFields DEF IInv, TypeOK
    <3>2. Written(r) \in Nat /\ began[r].settings[input[r].key] \in Nat
      BY <3>1 DEF IInv, TypeOK, BeganType, Written
    <3>3. PICK n \in 0..Written(r) : AnsweredAt(r, n)
      BY <2>1 DEF IInv, PartOf, Setting
    <3> QED
      BY <3>2, <3>3 DEF AnsweredAt
  <2>2. \A r \in Request : WroteOnly(r)
    BY DEF IInv, PartOf
  <2> QED
    BY <2>1, <2>2 DEF AnswersWereStored, WroteOnly
<1> QED
  BY <1>1, Invariance, PTL

-----------------------------------------------------------------------------
(* Nobody is stuck *)

Served == {r \in Request : pc[r] \notin {"idle", "ended"}}

\* The guards of the steps of Serve.
CanServe(r) ==
    \/ pc[r] \in {"bootstrap", "commit-user", "current_user", "get", "patch", "commit"}
    \/ pc[r] = "insert" /\ ~EmailIsHeld(r) /\ input[r].email \notin DOMAIN users
    \/ pc[r] = "insert" /\ input[r].email \in DOMAIN users
    \/ pc[r] = "write" /\ Writes(r) /\ input[r].key = "matching_rules"
    \/ /\ pc[r] = "write"
       /\ Writes(r) => /\ input[r].key # "matching_rules"
                       /\ ~RowIsHeld(r)
                       /\ read[r] = 0 => Written(r) = 0
    \/ pc[r] = "write" /\ read[r] = 0 /\ Written(r) > 0

SomeoneGoesOn == Served # {} => \E r \in Served : CanServe(r)

\* Who waits for an email or for the row of a setting waits for a request
\* that is about to commit: of those that are being served, one can always
\* go on, also among the first writers of a key.
THEOREM NobodyIsStuck == Spec => []SomeoneGoesOn
<1>1. IInv => SomeoneGoesOn
  <2> SUFFICES ASSUME IInv, NEW r \in Served, \A e \in Served : ~CanServe(e) PROVE FALSE
    BY DEF SomeoneGoesOn
  <2>1. \A e \in Request : pc[e] \notin {"commit-user", "commit"}
    BY DEF Served, CanServe
  <2>2. ~EmailIsHeld(r) /\ ~RowIsHeld(r)
    BY <2>1 DEF EmailIsHeld, RowIsHeld
  <2>3. pc[r] = "write"
    BY <2>2 DEF IInv, TypeOK, Served, CanServe
  <2>4. input[r].key \in Key
    <3>1. input[r].kind = "patch"
      BY <2>3 DEF IInv, PartOf, Placed, Served
    <3> QED
      BY <3>1, InputFields DEF IInv, TypeOK, Served
  <2>5. Written(r) \in Nat
    BY <2>4 DEF IInv, TypeOK, Written
  <2>6. Writes(r) /\ input[r].key # "matching_rules" /\ read[r] = 0 /\ Written(r) # 0
    BY <2>2, <2>3 DEF CanServe
  <2> QED
    BY <2>3, <2>5, <2>6 DEF CanServe
<1> QED
  BY <1>1, Invariance, PTL

\* How many steps of its own a request that is being served is from its end,
\* at most.
StepsLeft(r) ==
    IF pc[r] = "current_user" THEN 4
    ELSE IF pc[r] \in {"bootstrap", "patch"} THEN 3
    ELSE IF pc[r] \in {"insert", "write"} THEN 2
    ELSE IF pc[r] \in {"commit-user", "commit", "get"} THEN 1
    ELSE 0

\* Each step of a request brings it nearer to its end, and none of another's
\* sets it back.
EveryStepCounts ==
    [][\A r \in Request : pc[r] # "idle" =>
          IF Serve(r) \/ Crash(r) THEN StepsLeft(r)' < StepsLeft(r)
          ELSE StepsLeft(r)' = StepsLeft(r)]_vars

\* A request that loses an INSERT fails instead of reading again: what it does
\* until it ends is bounded, whatever the others commit.
THEOREM RequestsRunDown == Spec => EveryStepCounts
<1>1. ASSUME IInv, [Next]_vars
      PROVE  \A r \in Request : pc[r] # "idle" =>
                IF Serve(r) \/ Crash(r) THEN StepsLeft(r)' < StepsLeft(r)
                ELSE StepsLeft(r)' = StepsLeft(r)
  <2>1. /\ pc \in [Request -> {"idle", "bootstrap", "insert", "commit-user",
                               "current_user", "get", "patch", "write", "commit", "ended"}]
        /\ \A r \in Request : pc[r] = "current_user" => input[r].kind \in {"get", "patch"}
    BY <1>1 DEF IInv, TypeOK, PartOf, Placed
  <2>2. ASSUME NEW r \in Request, Serve(r) \/ Crash(r)
        PROVE  /\ StepsLeft(r)' < StepsLeft(r)
               /\ \A e \in Request \ {r} : pc'[e] = pc[e]
    BY <2>1, <2>2
       DEF Serve, Crash, Bootstrap, BootstrapRefused, InsertUser, InsertUserFails,
           CommitUser, Admit, Refuse, GetSetting, ReadSetting, NotSerializable, Write,
           InsertConflicts, Commit, End, StepsLeft
  <2>3. ASSUME NEW r \in Request, Arrive(r)
        PROVE  pc[r] = "idle" /\ \A e \in Request \ {r} : pc'[e] = pc[e]
    BY <2>1, <2>3 DEF Arrive
  <2>4. \A r \in Request : pc'[r] = pc[r] => StepsLeft(r)' = StepsLeft(r)
    BY DEF StepsLeft
  <2>5. CASE UNCHANGED vars
    BY <2>2, <2>4, <2>5 DEF vars
  <2>6. CASE \E r \in Request : Arrive(r) \/ Serve(r) \/ Crash(r)
    BY <2>2, <2>3, <2>4, <2>6
  <2> QED
    BY <1>1, <2>5, <2>6 DEF Next
<1> QED
  BY <1>1, Invariance, PTL DEF Spec, EveryStepCounts


=============================================================================
