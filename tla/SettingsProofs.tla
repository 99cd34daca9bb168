--------------------------- MODULE SettingsProofs ---------------------------
(* Theorems of SettingsPage, for any settings, values and upstreams and any   *)
(* number of saves, loads and administrators: what a save leaves in the       *)
(* table, when a load may take typed settings away, and that the dialog of    *)
(* the upstreams saves the row it was opened for.                             *)
EXTENDS SettingsPage, TLAPS

Body == [Settings -> Values]
Put == [mine : BOOLEAN, left : Nat, body : Body, at : 1..(Len(Order) + 1),
        state : {"writing", "bad"}, before : Body, alone : BOOLEAN]
Get == [at : 0..(Len(Order) + 1), part : Seq(Values)]
Version == [stored : Nat, read : Nat, data : Nat]

FormTyped ==
    /\ stored \in Body /\ form \in Body \union {None} /\ data \in Body \union {None}
    /\ puts \subseteq Put /\ typed \subseteq Settings /\ version \in Version
    /\ get \in Get /\ (get.at > 0 => Len(get.part) = get.at - 1)

(* A save without another beside it is the only one there is; the rows it has *)
(* gone through are as its body says, and the others as it found them.        *)
Wrote(u, rowsOf) ==
    u.alone => \A i \in DOMAIN Order :
                   rowsOf[Order[i]] = IF i < u.at THEN u.body[Order[i]] ELSE u.before[Order[i]]
AloneInv == \A u \in puts : Wrote(u, stored) /\ (u.alone => puts = {u})

(* The versions date what was loaded: a load dated now has seen the table as  *)
(* it is, and a load under way never is older than the one on the page, unless *)
(* a default stands in for a row it could not read.                           *)
Dated(v, g, d, rowsOf) ==
    /\ v.data <= v.stored /\ v.read <= v.stored /\ v.stored >= 1
    /\ g.at > 1 => v.data <= v.read \/ v.read = 0
    /\ v.read = v.stored
         => \A i \in DOMAIN Order : i < g.at => g.part[i] = rowsOf[Order[i]]
    /\ d # None /\ v.data = v.stored => d = rowsOf
LoadInv == Dated(version, get, data, stored) /\ (typed # {} => open /\ data # None)

FormInv == FormTyped /\ AloneInv /\ LoadInv
-----------------------------------------------------------------------------
LEMMA OrderFacts ==
  /\ Len(Order) \in Nat /\ DOMAIN Order = 1..Len(Order)
  /\ \A i \in DOMAIN Order : Order[i] \in Settings
  /\ \A k \in Settings : \E i \in DOMAIN Order : Order[i] = k
  /\ \A i, j \in DOMAIN Order : Order[i] = Order[j] => i = j
<1>1. Order \in Seq(Settings) BY SettingsAssumption
<1>2. \A i, j \in DOMAIN Order : Order[i] = Order[j] => i = j BY SettingsAssumption
<1>3. \A k \in Settings : \E i \in DOMAIN Order : Order[i] = k BY DEF Settings
<1>4. \A i \in DOMAIN Order : Order[i] \in Settings BY DEF Settings
<1>5. Len(Order) \in Nat /\ DOMAIN Order = 1..Len(Order) BY <1>1
<1> QED BY <1>2, <1>3, <1>4, <1>5

LEMMA Unread ==
  /\ Asked \in Get /\ Asked.part = <<>> /\ Asked.at = 1
  /\ Idle \in Get /\ Idle.part = <<>> /\ Idle.at = 0
<1>1. <<>> \in Seq(Values) OBVIOUS
<1>2. 0 \in 0..(Len(Order) + 1) /\ 1 \in 0..(Len(Order) + 1) BY OrderFacts
<1> QED BY <1>1, <1>2 DEF Asked, Idle, Get

(* Steps that leave the table, the saves and the loads alone.                 *)
LEMMA FormKept ==
  ASSUME FormInv, UNCHANGED <<stored, puts, version, get, data>>,
         form' \in Body \union {None}, typed' \subseteq Settings,
         typed' # {} => open' /\ data # None
  PROVE  FormInv'
<1>1. FormTyped' BY DEF FormInv, FormTyped
<1>2. AloneInv' BY DEF FormInv, AloneInv
<1>3. LoadInv' BY DEF FormInv, LoadInv
<1> QED BY <1>1, <1>2, <1>3 DEF FormInv

(* Steps that start, drop or give up a load.                                  *)
LEMMA GetReset ==
  ASSUME FormInv, UNCHANGED <<stored, puts, version, data>>, get' \in {get, Asked, Idle},
         form' \in Body \union {None}, typed' \in {typed, {}}, typed' # {} => open'
  PROVE  FormInv'
<1>1. <<>> \in Seq(Values) /\ Len(<<>>) = 0 OBVIOUS
<1>2. get' = get \/ (get' \in Get /\ get'.part = <<>> /\ get'.at \in {0, 1})
  BY Unread
<1>3. FormTyped'
  <2>1. get' \in Get /\ (get'.at > 0 => Len(get'.part) = get'.at - 1)
    BY <1>1, <1>2 DEF FormInv, FormTyped
  <2> QED BY <2>1 DEF FormInv, FormTyped
<1>4. AloneInv' BY DEF FormInv, AloneInv
<1>5. Dated(version, get', data, stored)
  <2>1. CASE get' = get BY <2>1 DEF FormInv, LoadInv
  <2>2. CASE get'.at \in {0, 1}
    <3>1. ~(get'.at > 1) /\ \A i \in DOMAIN Order : ~(i < get'.at) BY <2>2, OrderFacts
    <3> QED BY <3>1 DEF FormInv, LoadInv, Dated
  <2> QED BY <1>2, <2>1, <2>2
<1>6. LoadInv' BY <1>5 DEF FormInv, LoadInv, Dated
<1> QED BY <1>3, <1>4, <1>6 DEF FormInv

LEMMA FormInvInit == FormInit => FormInv
<1> SUFFICES ASSUME FormInit PROVE FormInv OBVIOUS
<1>1. <<>> \in Seq(Values) /\ Len(<<>>) = 0 OBVIOUS
<1>2. get \in Get /\ get.at = 1 /\ get.part = <<>> BY Unread DEF FormInit
<1>3. Defaults \in Body BY SettingsAssumption DEF Body
<1>4. version \in Version /\ version.stored = 1 /\ version.read = 0 /\ version.data = 0
  BY DEF FormInit, Version
<1>5. FormTyped BY <1>1, <1>2, <1>3, <1>4 DEF FormInit, FormTyped
<1>6. AloneInv BY DEF FormInit, AloneInv
<1>7. \A i \in DOMAIN Order : ~(i < get.at) BY <1>2, OrderFacts
<1>8. LoadInv BY <1>2, <1>4, <1>7 DEF FormInit, LoadInv, Dated
<1> QED BY <1>5, <1>6, <1>8 DEF FormInv

(* A save begins: another one that is under way is no longer alone.           *)
LEMMA SendsInv ==
  ASSUME FormInv, NEW mine \in BOOLEAN, NEW body \in Body, Sends(mine, body),
         UNCHANGED <<open, stored, version, get, data, form>>, typed' \in {typed, {}}
  PROVE  FormInv'
<1> DEFINE new == [mine |-> mine, left |-> 0, body |-> body, at |-> 1, state |-> "writing",
                   before |-> stored, alone |-> puts = {}]
           old(u) == [u EXCEPT !.alone = FALSE]
<1>1. puts' = {old(u) : u \in puts} \union {new} BY DEF Sends
<1>2. \A u \in puts : old(u) \in Put /\ old(u).alone = FALSE
  <2> TAKE u \in puts
  <2>1. u \in Put BY DEF FormInv, FormTyped
  <2> QED BY <2>1 DEF Put
<1>3. new \in Put /\ new.at = 1 /\ new.before = stored /\ (new.alone => puts = {})
  <2>1. (puts = {}) \in BOOLEAN OBVIOUS
  <2>2. 1 \in 1..(Len(Order) + 1) BY OrderFacts
  <2>3. stored \in Body BY DEF FormInv, FormTyped
  <2> QED BY <2>1, <2>2, <2>3 DEF Put
<1> HIDE DEF new, old
<1>4. puts' \subseteq Put BY <1>1, <1>2, <1>3
<1>5. ASSUME NEW u \in puts', u.alone
      PROVE  puts' = {u} /\ u.before = stored /\ \A i \in DOMAIN Order : ~(i < u.at)
  <2>1. u = new
    <3>1. u = new \/ \E v \in puts : u = old(v) BY <1>1
    <3> QED BY <1>2, <1>5, <3>1
  <2>2. puts = {} BY <1>3, <1>5, <2>1
  <2> QED BY <1>1, <1>3, <2>1, <2>2, OrderFacts
<1>6. AloneInv' BY <1>5 DEF AloneInv, Wrote
<1>7. FormTyped' BY <1>4 DEF FormInv, FormTyped
<1>8. LoadInv' BY DEF FormInv, LoadInv
<1> QED BY <1>6, <1>7, <1>8 DEF FormInv

(* One save fails, or is answered.                                            *)
LEMMA PutsReduced ==
  ASSUME FormInv, NEW u \in puts,
         puts' = puts \ {u} \/ puts' = (puts \ {u}) \union {[u EXCEPT !.state = "bad"]},
         UNCHANGED <<open, stored, version, data, form, typed>>, get' \in {get, Asked}
  PROVE  FormInv'
<1> DEFINE bad == [u EXCEPT !.state = "bad"]
<1>1. u \in Put BY DEF FormInv, FormTyped
<1>2. /\ bad \in Put /\ bad.alone = u.alone /\ bad.at = u.at /\ bad.body = u.body
      /\ bad.before = u.before
  BY <1>1 DEF Put
<1> HIDE DEF bad
<1>3. puts' \subseteq (puts \ {u}) \union {bad} BY DEF bad
<1>4. AloneInv'
  <2>1. ASSUME NEW w \in puts' PROVE Wrote(w, stored) /\ (w.alone => puts' = {w})
    <3>1. CASE w \in puts \ {u}
      <4>1. ~w.alone BY <3>1 DEF FormInv, AloneInv
      <4> QED BY <4>1 DEF Wrote
    <3>2. CASE w = bad
      <4>1. Wrote(w, stored) BY <1>2, <3>2 DEF FormInv, AloneInv, Wrote
      <4>2. w.alone => puts' = {w} BY <1>2, <1>3, <2>1, <3>2 DEF FormInv, AloneInv
      <4> QED BY <4>1, <4>2
    <3> QED BY <1>3, <2>1, <3>1, <3>2
  <2> QED BY <2>1 DEF AloneInv
<1>5. puts' \subseteq Put BY <1>2, <1>3 DEF FormInv, FormTyped
<1>6. <<>> \in Seq(Values) /\ Len(<<>>) = 0 OBVIOUS
<1>7. \/ get' = get
      \/ get' \in Get /\ get'.part = <<>> /\ get'.at = 1
  BY Unread
<1>8. FormTyped'
  <2>1. get' \in Get /\ (get'.at > 0 => Len(get'.part) = get'.at - 1)
    BY <1>6, <1>7 DEF FormInv, FormTyped
  <2> QED BY <1>5, <2>1 DEF FormInv, FormTyped
<1>9. Dated(version, get', data, stored)
  <2>1. CASE get' = get BY <2>1 DEF FormInv, LoadInv
  <2>2. CASE get'.at = 1
    <3>1. ~(get'.at > 1) /\ \A i \in DOMAIN Order : ~(i < get'.at) BY <2>2, OrderFacts
    <3> QED BY <3>1 DEF FormInv, LoadInv, Dated
  <2> QED BY <1>7, <2>1, <2>2
<1>10. LoadInv' BY <1>9 DEF FormInv, LoadInv, Dated
<1> QED BY <1>4, <1>8, <1>10 DEF FormInv

(* update_dns writes the row of one setting.                                  *)
LEMMA StoresInv ==
  ASSUME FormInv, NEW u \in puts, u.at \in DOMAIN Order, u.body[Order[u.at]] \notin OutOfRange,
         Stores(u, Order[u.at]), UNCHANGED <<open, form, typed, data, get>>
  PROVE  FormInv'
<1> DEFINE k == Order[u.at]
           next == [u EXCEPT !.at = @ + 1]
<1>1. u \in Put /\ k \in Settings /\ stored \in Body /\ version \in Version
  BY OrderFacts DEF FormInv, FormTyped
<1>2. PICK n : n = u.at + 1 OBVIOUS
<1>3. n \in 1..(Len(Order) + 1) BY <1>2, OrderFacts
<1>4. next = [u EXCEPT !.at = n] BY <1>1, <1>2 DEF Put
<1>5. next \in Put /\ next.at = n /\ next.alone = u.alone /\ next.body = u.body
       /\ next.before = u.before
  BY <1>1, <1>3, <1>4 DEF Put
<1>6. u.body \in Body BY <1>1 DEF Put
<1>7. PICK v \in Values : v = u.body[k] BY <1>1, <1>6 DEF Body
<1>8. /\ puts' = (puts \ {u}) \union {next} /\ stored' = [stored EXCEPT ![k] = v]
      /\ version' = [version EXCEPT !.stored = @ + 1]
  BY <1>7 DEF Stores
<1>9. stored' \in Body /\ stored'[k] = v /\ \A j \in Settings : j # k => stored'[j] = stored[j]
  BY <1>1, <1>7, <1>8 DEF Body
<1> HIDE DEF next, k
<1>10. puts' \subseteq Put BY <1>5, <1>8 DEF FormInv, FormTyped
<1>11. /\ version' \in Version /\ version'.stored = version.stored + 1
       /\ version'.read = version.read /\ version'.data = version.data
  <2>1. PICK m : m = version.stored + 1 OBVIOUS
  <2>2. m \in Nat BY <1>1, <2>1 DEF Version
  <2>3. version' = [version EXCEPT !.stored = m] BY <1>1, <1>8, <2>1 DEF Version
  <2> QED BY <1>1, <2>1, <2>2, <2>3 DEF Version
<1>12. AloneInv'
  <2>1. ASSUME NEW w \in puts' PROVE Wrote(w, stored') /\ (w.alone => puts' = {w})
    <3>1. CASE w \in puts \ {u}
      <4>1. ~w.alone BY <3>1 DEF FormInv, AloneInv
      <4> QED BY <4>1 DEF Wrote
    <3>2. CASE w = next
      <4>1. w.alone => puts' = {w} BY <1>5, <1>8, <3>2 DEF FormInv, AloneInv
      <4>2. ASSUME w.alone, NEW i \in DOMAIN Order
            PROVE  stored'[Order[i]] = IF i < w.at THEN w.body[Order[i]] ELSE w.before[Order[i]]
        <5>1. CASE i = u.at
          <6>1. Order[i] = k /\ i < w.at BY <1>2, <1>5, <3>2, <5>1, OrderFacts DEF k
          <6> QED BY <1>5, <1>7, <1>9, <3>2, <6>1
        <5>2. CASE i # u.at
          <6>1. Order[i] # k /\ Order[i] \in Settings BY <5>2, OrderFacts DEF k
          <6>2. i < u.at <=> i < w.at BY <1>2, <1>5, <3>2, <5>2, OrderFacts
          <6>3. stored[Order[i]] = IF i < u.at THEN u.body[Order[i]] ELSE u.before[Order[i]]
            BY <1>5, <3>2, <4>2 DEF FormInv, AloneInv, Wrote
          <6> QED BY <1>5, <1>9, <3>2, <6>1, <6>2, <6>3
        <5> QED BY <5>1, <5>2
      <4> QED BY <4>1, <4>2 DEF Wrote
    <3> QED BY <1>8, <2>1, <3>1, <3>2
  <2> QED BY <2>1 DEF AloneInv
<1>13. FormTyped' BY <1>9, <1>10, <1>11 DEF FormInv, FormTyped
<1>14. Dated(version', get, data, stored')
  <2>1. version'.data < version'.stored /\ version'.read < version'.stored /\ version'.stored >= 1
    BY <1>1, <1>11 DEF FormInv, LoadInv, Dated, Version
  <2> QED BY <1>11, <2>1 DEF FormInv, LoadInv, Dated, Version
<1>15. LoadInv' BY <1>14 DEF FormInv, LoadInv, Dated
<1> QED BY <1>12, <1>13, <1>15 DEF FormInv

(* get_dns reads a setting; the first one dates the load.                     *)
LEMMA ReadInv == ASSUME FormInv, ReadSetting PROVE FormInv'
<1> DEFINE a == get.at + 1
           part == Append(get.part, stored[Order[get.at]])
<1>1. /\ get \in Get /\ stored \in Body /\ version \in Version /\ get.at \in DOMAIN Order
      /\ Len(get.part) = get.at - 1
  BY OrderFacts DEF FormInv, FormTyped, ReadSetting
<1>2. get' = [at |-> a, part |-> part] /\ UNCHANGED <<page, data, stored, puts>>
  BY DEF ReadSetting
<1>3. get.part \in Seq(Values) /\ get.at \in 1..Len(Order) BY <1>1, OrderFacts DEF Get
<1>4. stored[Order[get.at]] \in Values BY <1>1, OrderFacts DEF Body
<1>5. /\ part \in Seq(Values) /\ Len(part) = get.at /\ part[get.at] = stored[Order[get.at]]
      /\ \A i \in 1..(get.at - 1) : part[i] = get.part[i]
  BY <1>1, <1>3, <1>4
<1>6. a \in 0..(Len(Order) + 1) /\ a - 1 = get.at BY <1>3, OrderFacts
<1>7. get' \in Get /\ get'.at = a /\ get'.part = part
  <2> HIDE DEF a, part
  <2> QED BY <1>2, <1>5, <1>6 DEF Get
<1>8. version' = IF get.at = 1 THEN [version EXCEPT !.read = version.stored] ELSE version
  BY DEF ReadSetting
<1>9. /\ version' \in Version /\ version'.stored = version.stored /\ version'.data = version.data
      /\ version'.read = IF get.at = 1 THEN version.stored ELSE version.read
  BY <1>1, <1>8 DEF Version
<1>10. FormTyped' BY <1>2, <1>5, <1>6, <1>7, <1>9 DEF FormInv, FormTyped, page
<1>11. AloneInv' BY <1>2 DEF FormInv, AloneInv
<1>12. Dated(version', get', data, stored)
  <2>1. version'.data <= version'.stored /\ version'.read <= version'.stored /\ version'.stored >= 1
    BY <1>1, <1>9 DEF FormInv, LoadInv, Dated, Version
  <2>2. version'.data <= version'.read \/ version'.read = 0
    <3>1. CASE get.at = 1 BY <1>9, <2>1, <3>1
    <3>2. CASE get.at # 1
      <4>1. get.at > 1 BY <1>3, <3>2, OrderFacts
      <4> QED BY <1>9, <3>2, <4>1 DEF FormInv, LoadInv, Dated
    <3> QED BY <3>1, <3>2
  <2>3. ASSUME version'.read = version'.stored, NEW i \in DOMAIN Order, i < a
        PROVE  part[i] = stored[Order[i]]
    <3>1. CASE i = get.at BY <1>5, <3>1
    <3>2. CASE i # get.at
      <4>1. i \in 1..(get.at - 1) /\ i < get.at /\ get.at # 1 BY <1>3, <2>3, <3>2, OrderFacts
      <4>2. version.read = version.stored BY <1>9, <2>3, <4>1
      <4>3. get.part[i] = stored[Order[i]] BY <4>1, <4>2 DEF FormInv, LoadInv, Dated
      <4> QED BY <1>5, <4>1, <4>3
    <3> QED BY <3>1, <3>2
  <2> HIDE DEF part, a
  <2> QED BY <1>7, <1>9, <2>1, <2>2, <2>3 DEF FormInv, LoadInv, Dated
<1>13. LoadInv' BY <1>2, <1>12 DEF FormInv, LoadInv, Dated, page
<1> QED BY <1>10, <1>11, <1>13 DEF FormInv

(* A default for a row that could not be read undates the load.               *)
LEMMA SelectFailsInv == ASSUME FormInv, SelectFails PROVE FormInv'
<1> DEFINE a == get.at + 1
           part == Append(get.part, Defaults[Order[get.at]])
<1>1. /\ get \in Get /\ version \in Version /\ get.at \in DOMAIN Order
      /\ Len(get.part) = get.at - 1
  BY OrderFacts DEF FormInv, FormTyped, SelectFails
<1>2. get' = [at |-> a, part |-> part] /\ UNCHANGED <<page, data, stored, puts>>
  BY DEF SelectFails
<1>3. get.part \in Seq(Values) /\ get.at \in 1..Len(Order) BY <1>1, OrderFacts DEF Get
<1>4. Defaults[Order[get.at]] \in Values BY <1>1, OrderFacts, SettingsAssumption
<1>5. part \in Seq(Values) /\ Len(part) = get.at BY <1>1, <1>3, <1>4
<1>6. a \in 0..(Len(Order) + 1) /\ a - 1 = get.at BY <1>3, OrderFacts
<1>7. get' \in Get /\ get'.at = a /\ get'.part = part
  <2> HIDE DEF a, part
  <2> QED BY <1>2, <1>5, <1>6 DEF Get
<1>8. /\ version' \in Version /\ version'.stored = version.stored /\ version'.data = version.data
      /\ version'.read = 0
  BY <1>1 DEF SelectFails, Version
<1>9. FormTyped' BY <1>2, <1>5, <1>6, <1>7, <1>8 DEF FormInv, FormTyped, page
<1>10. AloneInv' BY <1>2 DEF FormInv, AloneInv
<1>11. Dated(version', get', data, stored)
  <2>1. version'.read # version'.stored /\ version'.read <= version'.stored
    BY <1>1, <1>8 DEF FormInv, LoadInv, Dated, Version
  <2> QED BY <1>8, <2>1 DEF FormInv, LoadInv, Dated
<1>12. LoadInv' BY <1>2, <1>11 DEF FormInv, LoadInv, Dated, page
<1> QED BY <1>9, <1>10, <1>12 DEF FormInv

(* A load ends: what it brings is the table, if nothing was stored since.     *)
LEMMA LoadedData ==
  ASSUME FormInv, Loaded
  PROVE  /\ data' \in Body
         /\ version.read = version.stored => data' = stored
         /\ typed # {} => get.at > 1
<1> DEFINE place(k) == CHOOSE i \in DOMAIN Order : Order[i] = k
<1>1. get \in Get /\ stored \in Body /\ get.at > Len(Order) /\ Len(Order) \in Nat
  BY OrderFacts DEF FormInv, FormTyped, Loaded
<1>2. get.at = Len(Order) + 1 /\ Len(get.part) = Len(Order) /\ get.part \in Seq(Values)
  <2>1. get.at \in 0..(Len(Order) + 1) /\ get.part \in Seq(Values) BY <1>1 DEF Get
  <2>2. get.at = Len(Order) + 1 BY <1>1, <2>1
  <2>3. Len(get.part) = get.at - 1 BY <1>1, <2>2 DEF FormInv, FormTyped
  <2> QED BY <1>1, <2>1, <2>2, <2>3
<1>3. \A k \in Settings : place(k) \in DOMAIN Order /\ Order[place(k)] = k
  BY OrderFacts
<1>4. data' = [k \in Settings |-> get.part[place(k)]] BY DEF Loaded
<1> HIDE DEF place
<1>5. \A k \in Settings : get.part[place(k)] \in Values /\ place(k) < get.at
  <2> TAKE k \in Settings
  <2>1. place(k) \in 1..Len(Order) BY <1>3, OrderFacts
  <2>2. get.part[place(k)] \in Values BY <1>2, <2>1
  <2> QED BY <1>1, <1>2, <2>1, <2>2
<1>6. data' \in Body BY <1>4, <1>5 DEF Body
<1>7. ASSUME version.read = version.stored PROVE data' = stored
  <2>1. ASSUME NEW k \in Settings PROVE data'[k] = stored[k]
    <3>1. get.part[place(k)] = stored[Order[place(k)]]
      BY <1>3, <1>5, <1>7 DEF FormInv, LoadInv, Dated
    <3> QED BY <1>3, <1>4, <3>1
  <2> QED BY <1>1, <1>6, <2>1 DEF Body
<1>8. ASSUME typed # {} PROVE get.at > 1
  <2>1. PICK k : k \in typed BY <1>8
  <2>2. place(k) \in 1..Len(Order) BY <1>3, <2>1, OrderFacts DEF FormInv, FormTyped
  <2>3. Len(Order) >= 1 BY <1>1, <2>2
  <2> QED BY <1>1, <1>2, <2>3
<1> QED BY <1>6, <1>7, <1>8

LEMMA LoadedInv == ASSUME FormInv, Loaded PROVE FormInv'
<1>1. /\ get' = Idle /\ version' = [version EXCEPT !.data = version.read]
      /\ UNCHANGED <<open, stored, puts>>
      /\ IF open /\ data' # data THEN form' = data' /\ typed' = {} ELSE UNCHANGED <<form, typed>>
  BY DEF Loaded
<1>2. /\ version \in Version /\ version' \in Version /\ version'.data = version.read
      /\ version'.stored = version.stored /\ version'.read = version.read
  BY <1>1 DEF FormInv, FormTyped, Version
<1>3. form' \in Body \union {None} /\ typed' \in {typed, {}}
  BY <1>1, LoadedData DEF FormInv, FormTyped
<1>4. FormTyped' BY <1>1, <1>2, <1>3, LoadedData, Unread DEF FormInv, FormTyped
<1>5. AloneInv' BY <1>1 DEF FormInv, AloneInv
<1>6. Dated(version', get', data', stored)
  <2>1. get'.at = 0 BY <1>1, Unread
  <2>2. \A i \in DOMAIN Order : ~(i < get'.at) BY <2>1, OrderFacts
  <2>3. version'.data = version'.stored => data' = stored BY <1>2, LoadedData
  <2>4. version'.data <= version'.stored /\ version'.read <= version'.stored /\ version'.stored >= 1
    BY <1>2 DEF FormInv, LoadInv, Dated
  <2> QED BY <2>1, <2>2, <2>3, <2>4 DEF Dated
<1>7. LoadInv'
  <2>1. typed' # {} => open' /\ data' # None
    <3>1. CASE open /\ data' # data BY <1>1, <3>1
    <3>2. CASE open /\ data' = data BY <1>1, <3>2 DEF FormInv, LoadInv
    <3>3. CASE ~open BY <1>1, <3>3 DEF FormInv, LoadInv
    <3> QED BY <3>1, <3>2, <3>3
  <2> QED BY <1>1, <1>6, <2>1 DEF LoadInv, Dated
<1> QED BY <1>4, <1>5, <1>7 DEF FormInv

LEMMA FormStepInv == ASSUME FormInv, FormStep PROVE FormInv'
<1>1. ASSUME NEW k \in Settings, NEW v \in Values, Edit(k, v) PROVE FormInv'
  <2>1. form \in Body /\ UNCHANGED <<open, query, stored, puts, version>>
    BY <1>1 DEF Edit, FormInv, FormTyped
  <2>2. form' \in Body /\ typed' \subseteq Settings BY <1>1, <2>1 DEF Edit, Body, FormInv, FormTyped
  <2>3. open /\ data # None BY <1>1 DEF Edit, Ready
  <2> QED BY <2>1, <2>2, <2>3, FormKept DEF query
<1>2. ASSUME Save PROVE FormInv'
  <2>1. /\ Sends(TRUE, form) /\ typed' = {} /\ UNCHANGED <<open, form, query, stored, version>>
        /\ form \in Body
    BY <1>2 DEF Save, FormInv, FormTyped
  <2> QED BY <2>1, SendsInv DEF query
<1>3. ASSUME NEW body \in Elsewhere, OtherSave(body) PROVE FormInv'
  <2>1. body \in Body BY SettingsAssumption DEF Body
  <2>2. Sends(FALSE, body) /\ UNCHANGED <<page, query, stored, version>> BY <1>3 DEF OtherSave
  <2> QED BY <2>1, <2>2, SendsInv DEF query, page
<1>4. ASSUME NEW u \in puts, WriteSetting(u) PROVE FormInv'
  <2>1. u \in Put /\ u.at <= Len(Order) /\ UNCHANGED <<page, query>>
    BY <1>4 DEF WriteSetting, FormInv, FormTyped
  <2>2. u.at \in DOMAIN Order BY <2>1, OrderFacts DEF Put
  <2>3. CASE u.body[Order[u.at]] \in OutOfRange
    <3>1. Refused(u) /\ UNCHANGED <<stored, version>> BY <1>4, <2>3 DEF WriteSetting
    <3> QED BY <2>1, <3>1, PutsReduced DEF Refused, query, page
  <2>4. CASE u.body[Order[u.at]] \notin OutOfRange
    <3>1. Stores(u, Order[u.at]) BY <1>4, <2>4 DEF WriteSetting
    <3> QED BY <2>1, <2>2, <2>4, <3>1, StoresInv DEF query, page
  <2> QED BY <2>3, <2>4
<1>5. ASSUME NEW u \in puts, SaveFails(u) \/ SaveFailed(u) PROVE FormInv'
  BY <1>5, PutsReduced DEF SaveFails, SaveFailed, Refused, query, page
<1>6. ASSUME NEW u \in puts, Saved(u) PROVE FormInv'
  <2>1. puts' = puts \ {u} /\ get' \in {get, Asked} /\ UNCHANGED <<page, data, stored, version>>
    BY <1>6 DEF Saved, Refetched
  <2> QED BY <2>1, PutsReduced DEF page
<1>7. ASSUME LoadFailed \/ Retry \/ Focus PROVE FormInv'
  <2>1. get' \in {get, Asked, Idle} /\ UNCHANGED <<page, data, stored, puts, version>>
    BY <1>7 DEF LoadFailed, Retry, Focus
  <2> QED BY <2>1, GetReset DEF page, FormInv, FormTyped, LoadInv
<1> QED BY <1>1, <1>2, <1>3, <1>4, <1>5, <1>6, <1>7, ReadInv, SelectFailsInv, LoadedInv DEF FormStep

LEMMA FormInvStep == FormInv /\ [Next]_vars => FormInv'
<1> SUFFICES ASSUME FormInv, [Next]_vars PROVE FormInv' OBVIOUS
<1>1. ASSUME UNCHANGED <<page, query, stored, puts, version>> PROVE FormInv'
  BY <1>1, FormKept DEF page, query, FormInv, FormTyped, LoadInv
<1>2. CASE UNCHANGED vars BY <1>1, <1>2 DEF vars, formVars
<1>3. CASE FormStep BY <1>3, FormStepInv
<1>4. CASE UNCHANGED formVars BY <1>1, <1>4 DEF formVars
<1>5. CASE Leave
  <2> DEFINE on(u) == IF u.mine THEN [u EXCEPT !.left = @ + 1] ELSE u
  <2>1. /\ form' = None /\ typed' = {} /\ UNCHANGED <<query, stored, version>>
        /\ puts' = {on(u) : u \in puts}
    BY <1>5 DEF Leave
  <2>2. ASSUME NEW u \in puts
        PROVE  /\ on(u) \in Put /\ on(u).alone = u.alone /\ on(u).at = u.at
               /\ on(u).body = u.body /\ on(u).before = u.before
    <3>1. u \in Put BY DEF FormInv, FormTyped
    <3>2. PICK n \in Nat : n = u.left + 1 BY <3>1 DEF Put
    <3>3. [u EXCEPT !.left = @ + 1] = [u EXCEPT !.left = n] BY <3>1, <3>2 DEF Put
    <3>4. [u EXCEPT !.left = n] \in Put BY <3>1, <3>2 DEF Put
    <3> QED BY <3>1, <3>3, <3>4 DEF Put
  <2> HIDE DEF on
  <2>3. FormTyped' BY <2>1, <2>2 DEF FormInv, FormTyped, query
  <2>4. ASSUME NEW w \in puts' PROVE Wrote(w, stored') /\ (w.alone => puts' = {w})
    <3>1. PICK u \in puts : w = on(u) BY <2>1
    <3>2. Wrote(w, stored') BY <2>1, <2>2, <3>1 DEF FormInv, AloneInv, Wrote
    <3>3. ASSUME w.alone PROVE puts' = {w}
      <4>1. puts = {u} BY <2>2, <3>1, <3>3 DEF FormInv, AloneInv
      <4> QED BY <2>1, <3>1, <4>1
    <3> QED BY <3>2, <3>3
  <2>5. AloneInv' BY <2>4 DEF AloneInv
  <2>6. LoadInv' BY <2>1 DEF FormInv, LoadInv, query
  <2> QED BY <2>3, <2>5, <2>6 DEF FormInv
<1>6. CASE Enter
  <2>1. /\ form' = data /\ UNCHANGED typed /\ open' /\ get' \in {get, Asked}
        /\ UNCHANGED <<data, stored, puts, version>>
    BY <1>6 DEF Enter
  <2> QED BY <2>1, GetReset DEF FormInv, FormTyped
<1> QED BY <1>1, <1>2, <1>3, <1>4, <1>5, <1>6 DEF Next

THEOREM FormInvariance == Spec => []FormInv
<1>1. Init => FormInv BY FormInvInit DEF Init
<1> QED BY <1>1, FormInvStep, PTL DEF Spec

(* update_dns is five statements and no transaction, yet a save with no other *)
(* beside it has at every moment, and also if it was refused or broke off,    *)
(* changed just the settings it has gone through, to what its body says.      *)
THEOREM SaveIsStored == Spec => []StoredAsSaved
<1>1. FormInv => StoredAsSaved BY DEF FormInv, AloneInv, Wrote, StoredAsSaved
<1> QED BY <1>1, FormInvariance, PTL

(* A load takes typed settings away only if a setting was stored since the    *)
(* load that filled the form, or if a default stood in for a row that one of  *)
(* the two could not read: one that brings nothing new keeps the object of    *)
(* the cache, and the effect on [settings] does not run (Settings.tsx).       *)
THEOREM EditsAreKept == Spec => EditsKept
<1> DEFINE Kept == (open /\ typed # {} /\ typed' = {} /\ get # Idle /\ get' = Idle)
                   => version.stored > version.data \/ version.read = 0
<1>1. FormInv /\ [Next]_vars => Kept
  <2> SUFFICES ASSUME FormInv, [Next]_vars, open, typed # {}, typed' = {}, get # Idle, get' = Idle,
                      version.read # 0
               PROVE  version.stored > version.data
    OBVIOUS
  <2>1. Asked # Idle BY Unread
  <2>2. CASE Loaded
    <3>1. version \in Version /\ version.data <= version.stored /\ version.read <= version.stored
          /\ data # None
      BY DEF FormInv, FormTyped, LoadInv, Dated
    <3>2. get.at > 1 /\ version.data <= version.read BY <2>2, LoadedData DEF FormInv, LoadInv, Dated
    <3>3. data' # data BY <2>2 DEF Loaded
    <3>4. ASSUME version.data = version.stored PROVE FALSE
      <4>1. version.read = version.stored BY <3>1, <3>2, <3>4 DEF Version
      <4>2. data' = stored BY <2>2, <4>1, LoadedData
      <4>3. data = stored BY <3>1, <3>4 DEF FormInv, LoadInv, Dated
      <4> QED BY <3>3, <4>2, <4>3
    <3> QED BY <3>1, <3>4 DEF Version
  <2>3. CASE ~Loaded
    <3>1. CASE FormStep
      BY <2>1, <2>3, <3>1, Unread DEF FormStep, Edit, Save, OtherSave, WriteSetting, SaveFails,
         Saved, Refetched, SaveFailed, ReadSetting, SelectFails, LoadFailed, Retry, Focus, query, page
    <3>2. CASE UNCHANGED formVars \/ UNCHANGED <<page, query, stored, puts, version>>
      BY <3>2 DEF formVars, query
    <3>3. CASE Leave \/ Enter BY <3>3 DEF Leave, Enter, query
    <3> QED BY <3>1, <3>2, <3>3 DEF Next, vars
  <2> QED BY <2>2, <2>3
<1>2. FormInv /\ [Next]_vars => [Kept]_vars BY <1>1
<1> QED BY <1>2, FormInvariance, PTL DEF Spec, EditsKept
-----------------------------------------------------------------------------
(* The upstreams: an open dialog was filled from the upstream it edits, and a *)
(* request goes where the dialog it came from was opened for.                 *)
Call == {"n", "kind", "id", "from", "mine", "priority", "state", "seen"}
SameRow(c) == DOMAIN c = Call /\ (c.kind \in {"create", "update"} => c.from = c.id)
DialogInv ==
    /\ DOMAIN dialog = {"open", "editing", "form", "from"} /\ DOMAIN rows = Ids
    /\ dialog.open => dialog.from = dialog.editing
    /\ \A c \in calls : SameRow(c)

LEMMA DialogInvInit == UpstreamsInit => DialogInv
<1> SUFFICES ASSUME UpstreamsInit PROVE DialogInv OBVIOUS
<1>1. DOMAIN rows = Ids BY UpstreamsAssumption DEF UpstreamsInit
<1>2. DOMAIN dialog = {"open", "editing", "form", "from"} /\ ~dialog.open
  BY DEF UpstreamsInit, Closed
<1>3. calls = {} BY DEF UpstreamsInit
<1> QED BY <1>1, <1>2, <1>3 DEF DialogInv

(* A request that gets on stays the request it was.                           *)
LEMMA BecomesSame ==
  ASSUME DialogInv, NEW c \in calls, NEW state, NEW seen, Becomes(c, state, seen)
  PROVE  \A d \in calls' : SameRow(d)
<1> DEFINE new == [c EXCEPT !.state = state, !.seen = seen]
<1>1. SameRow(c) BY DEF DialogInv
<1>2. SameRow(new) BY <1>1 DEF SameRow, Call
<1> HIDE DEF new
<1>3. calls' = (calls \ {c}) \union {new} BY DEF Becomes, new
<1> QED BY <1>2, <1>3 DEF DialogInv

(* What the server does: the rows of upstreams that are gone are never        *)
(* written, and no row appears for an id that is not one.                     *)
LEMMA ServerRows ==
  ASSUME DialogInv, NEW c \in calls,
         \/ ServeCreateUpstream(c) \/ ReadUpstream(c) \/ WriteUpstream(c)
         \/ ServeDeleteUpstream(c) \/ ServeTest(c) \/ PickUpstream(c) \/ LogFailover(c)
  PROVE  /\ DialogInv'
         /\ \A i \in Ids : rows[i] = Gone => rows'[i] = Gone
<1>1. Gone.state = "gone" BY DEF Gone, Absent
<1>2. UNCHANGED dialog
  BY DEF ServeCreateUpstream, ReadUpstream, WriteUpstream, ServeDeleteUpstream, ServeTest,
     PickUpstream, LogFailover, ServerOnly
<1>3. \E state, seen : Becomes(c, state, seen)
  BY DEF ServeCreateUpstream, ReadUpstream, WriteUpstream, ServeDeleteUpstream, ServeTest,
     PickUpstream, LogFailover
<1>4. \A d \in calls' : SameRow(d) BY <1>3, BecomesSame
<1>5. DOMAIN rows = Ids BY DEF DialogInv
<1>6. DOMAIN rows' = Ids /\ \A i \in Ids : rows[i] = Gone => rows'[i] = Gone
  <2>1. CASE ServeCreateUpstream(c)
    <3>1. PICK i \in Ids : /\ rows[i].state = "absent"
                           /\ rows' = [rows EXCEPT ![i] = Row(c.priority, FALSE)]
      BY <2>1 DEF ServeCreateUpstream
    <3>2. rows[i] # Gone BY <1>1, <3>1
    <3> QED BY <1>5, <3>1, <3>2
  <2>2. CASE WriteUpstream(c)
    <3>1. CASE There(rows[c.id])
      <4>1. PICK r : r = [rows[c.id] EXCEPT !.priority = c.priority] OBVIOUS
      <4>2. rows' = [rows EXCEPT ![c.id] = r] BY <2>2, <3>1, <4>1 DEF WriteUpstream
      <4>3. rows[c.id] # Gone BY <1>1, <3>1 DEF There
      <4> QED BY <1>5, <4>2, <4>3
    <3>2. CASE ~There(rows[c.id]) BY <1>5, <2>2, <3>2 DEF WriteUpstream
    <3> QED BY <3>1, <3>2
  <2>3. CASE ServeDeleteUpstream(c)
    <3>1. rows' = rows \/ rows' = [rows EXCEPT ![c.id] = Gone]
      BY <2>3 DEF ServeDeleteUpstream
    <3> QED BY <1>5, <3>1
  <2>4. CASE ReadUpstream(c) \/ ServeTest(c) \/ PickUpstream(c) \/ LogFailover(c)
    BY <1>5, <2>4 DEF ReadUpstream, ServeTest, PickUpstream, LogFailover
  <2> QED BY <2>1, <2>2, <2>3, <2>4
<1> QED BY <1>2, <1>4, <1>6 DEF DialogInv

(* What the page does when it is answered, typed into, or left.               *)
LEMMA DialogKept ==
  ASSUME DialogInv, UNCHANGED rows, calls' \subseteq calls,
         \/ UNCHANGED dialog \/ dialog' = Closed
         \/ \E p : dialog' = [dialog EXCEPT !.form = p]
         \/ dialog' = [dialog EXCEPT !.open = FALSE]
         \/ dialog' = [dialog EXCEPT !.open = FALSE, !.editing = None]
         \/ \E i, p : dialog' = [open |-> TRUE, editing |-> i, from |-> i, form |-> p]
  PROVE  DialogInv'
<1>1. \A c \in calls' : SameRow(c) BY DEF DialogInv
<1>2. /\ DOMAIN dialog' = {"open", "editing", "form", "from"}
      /\ dialog'.open => dialog'.from = dialog'.editing
  <2>1. CASE UNCHANGED dialog \/ dialog' = Closed BY <2>1 DEF DialogInv, Closed
  <2>2. CASE \/ dialog' = [dialog EXCEPT !.open = FALSE]
             \/ dialog' = [dialog EXCEPT !.open = FALSE, !.editing = None]
    <3>1. dialog'.open = FALSE BY <2>2 DEF DialogInv
    <3>2. DOMAIN dialog' = DOMAIN dialog BY <2>2
    <3> QED BY <3>1, <3>2 DEF DialogInv
  <2>3. ASSUME NEW p, dialog' = [dialog EXCEPT !.form = p]
        PROVE  /\ DOMAIN dialog' = DOMAIN dialog
               /\ dialog'.open = dialog.open /\ dialog'.from = dialog.from
               /\ dialog'.editing = dialog.editing
    BY <2>3 DEF DialogInv
  <2>4. ASSUME NEW i, NEW p,
               dialog' = [open |-> TRUE, editing |-> i, from |-> i, form |-> p]
        PROVE  /\ DOMAIN dialog' = {"open", "editing", "form", "from"}
               /\ dialog'.from = dialog'.editing
    BY <2>4
  <2>5. CASE \E p : dialog' = [dialog EXCEPT !.form = p] BY <2>3, <2>5 DEF DialogInv
  <2>6. CASE \E i, p : dialog' = [open |-> TRUE, editing |-> i, from |-> i, form |-> p]
    BY <2>4, <2>6
  <2> QED BY <2>1, <2>2, <2>5, <2>6
<1> QED BY <1>1, <1>2 DEF DialogInv

LEMMA PageRows ==
  ASSUME DialogInv,
         \/ CloseDialog \/ \E q \in DOMAIN list : ListLoaded(q)
         \/ \E p \in Priorities : TypePriority(p)
         \/ \E i \in Ids \union {None} : OpenDialog(i)
         \/ \E c \in calls : \/ UpstreamSaved(c) \/ UpstreamDeleted(c) \/ FailoverAnswered(c)
                             \/ UpstreamFailed(c) \/ TestAnswered(c)
  PROVE  DialogInv' /\ UNCHANGED rows
<1>1. UNCHANGED rows /\ calls' \subseteq calls
  BY DEF CloseDialog, ListLoaded, TypePriority, OpenDialog, UpstreamSaved, UpstreamDeleted,
     FailoverAnswered, UpstreamFailed, TestAnswered, Shows, Done
<1>2. CASE \/ CloseDialog \/ \E q \in DOMAIN list : ListLoaded(q)
           \/ \E p \in Priorities : TypePriority(p)
  BY <1>1, <1>2, DialogKept DEF CloseDialog, ListLoaded, TypePriority, Shows
<1>3. ASSUME NEW i \in Ids \union {None}, OpenDialog(i) PROVE DialogInv'
  <2>1. \E p : dialog' = [open |-> TRUE, editing |-> i, from |-> i, form |-> p]
    BY <1>3 DEF OpenDialog, Shows
  <2> QED BY <1>1, <2>1, DialogKept
<1>4. ASSUME NEW c \in calls, UpstreamSaved(c) PROVE DialogInv'
  <2>1. \/ UNCHANGED dialog \/ dialog' = [dialog EXCEPT !.open = FALSE]
        \/ dialog' = [dialog EXCEPT !.open = FALSE, !.editing = None]
    BY <1>4 DEF UpstreamSaved
  <2> QED BY <1>1, <2>1, DialogKept
<1>5. ASSUME NEW c \in calls,
             UpstreamDeleted(c) \/ FailoverAnswered(c) \/ UpstreamFailed(c) \/ TestAnswered(c)
      PROVE  DialogInv'
  BY <1>1, <1>5, DialogKept DEF UpstreamDeleted, FailoverAnswered, UpstreamFailed, TestAnswered
<1> QED BY <1>1, <1>2, <1>3, <1>4, <1>5

(* What the page sends.                                                       *)
LEMMA CallsSame ==
  ASSUME DialogInv, NEW kind, NEW i, Calls(kind, i),
         kind \in {"create", "update"} => dialog.open /\ i = dialog.editing,
         UNCHANGED <<rows, dialog>>
  PROVE  DialogInv'
<1> DEFINE new == [n |-> events, kind |-> kind, id |-> i, from |-> dialog.from, mine |-> TRUE,
                   priority |-> dialog.form, state |-> "sent", seen |-> None]
<1>1. SameRow(new) BY DEF SameRow, Call, DialogInv
<1>2. calls' = calls \union {new} BY DEF Calls
<1> HIDE DEF new
<1> QED BY <1>1, <1>2 DEF DialogInv

LEMMA SentRows ==
  ASSUME DialogInv, \/ SaveUpstream \/ Failover
                    \/ \E i \in Ids : DeleteUpstream(i) \/ TestUpstream(i) \/ OtherDeletes(i)
  PROVE  DialogInv' /\ \A i \in Ids : rows[i] = Gone => rows'[i] = Gone
<1>1. CASE SaveUpstream
  <2>1. /\ dialog.open /\ UNCHANGED <<rows, dialog>>
        /\ Calls(IF dialog.editing = None THEN "create" ELSE "update", dialog.editing)
    BY <1>1 DEF SaveUpstream
  <2> QED BY <2>1, CallsSame
<1>2. CASE Failover BY <1>2, CallsSame DEF Failover
<1>3. ASSUME NEW i \in Ids, DeleteUpstream(i) \/ TestUpstream(i)
      PROVE  DialogInv' /\ UNCHANGED rows
  BY <1>3, CallsSame DEF DeleteUpstream, TestUpstream
<1>4. ASSUME NEW i \in Ids, OtherDeletes(i)
      PROVE  DialogInv' /\ \A j \in Ids : rows[j] = Gone => rows'[j] = Gone
  <2>1. rows' = [rows EXCEPT ![i] = Gone] /\ UNCHANGED <<dialog, calls>>
    BY <1>4 DEF OtherDeletes
  <2> QED BY <2>1 DEF DialogInv
<1> QED BY <1>1, <1>2, <1>3, <1>4

LEMMA VisitRows ==
  ASSUME DialogInv, LeaveUpstreams \/ EnterUpstreams
  PROVE  DialogInv' /\ UNCHANGED rows
<1>1. CASE EnterUpstreams BY <1>1, DialogKept DEF EnterUpstreams
<1>2. CASE LeaveUpstreams
  <2>1. calls' = {[c EXCEPT !.mine = FALSE] : c \in calls} /\ dialog' = Closed /\ UNCHANGED rows
    BY <1>2 DEF LeaveUpstreams
  <2>2. ASSUME NEW c \in calls PROVE SameRow([c EXCEPT !.mine = FALSE])
    <3>1. SameRow(c) BY DEF DialogInv
    <3> QED BY <3>1 DEF SameRow, Call
  <2>3. \A d \in calls' : SameRow(d) BY <2>1, <2>2
  <2>4. DOMAIN dialog' = {"open", "editing", "form", "from"} /\ ~dialog'.open
    BY <2>1 DEF Closed
  <2> QED BY <2>1, <2>3, <2>4 DEF DialogInv
<1> QED BY <1>1, <1>2

LEMMA RowsStep ==
  ASSUME DialogInv, [Next]_vars
  PROVE  DialogInv' /\ \A i \in Ids : rows[i] = Gone => rows'[i] = Gone
<1>1. ASSUME UNCHANGED upstreamVars PROVE DialogInv' /\ UNCHANGED rows
  BY <1>1 DEF upstreamVars, DialogInv
<1>2. CASE UNCHANGED vars BY <1>1, <1>2 DEF vars
<1>3. CASE UpstreamsStep BY <1>3, ServerRows, PageRows DEF UpstreamsStep
<1>4. CASE UpstreamsSent BY <1>4, SentRows, PageRows DEF UpstreamsSent
<1>5. CASE LeaveUpstreams \/ EnterUpstreams BY <1>5, VisitRows
<1> QED BY <1>1, <1>2, <1>3, <1>4, <1>5 DEF Next

THEOREM DialogInvariance == Spec => []DialogInv
<1>1. Init => DialogInv BY DialogInvInit DEF Init
<1>2. DialogInv /\ [Next]_vars => DialogInv' BY RowsStep
<1> QED BY <1>1, <1>2, PTL DEF Spec

(* Whatever is answered, closed or opened again while a save is under way,    *)
(* the dialog saves what was typed over an upstream to that upstream          *)
(* (handleSaveUpstream, Settings.tsx).                                        *)
THEOREM DialogSavesItsRow == Spec => []SavesTheRowOpened
<1>1. DialogInv => SavesTheRowOpened BY DEF DialogInv, SameRow, SavesTheRowOpened
<1> QED BY <1>1, DialogInvariance, PTL

(* update reads the row and writes it in a second statement; an upstream that *)
(* was deleted between the two stays deleted (upstreams.rs).                  *)
THEOREM DeletedStaysGone == Spec => NoReturn
<1> DEFINE Stays == \A i \in Ids : rows[i] = Gone => rows'[i] = Gone
<1>1. DialogInv /\ [Next]_vars => [Stays]_vars BY RowsStep
<1> QED BY <1>1, DialogInvariance, PTL DEF Spec, NoReturn
=============================================================================
