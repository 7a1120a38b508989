-------------------------- MODULE UseSessionProofs --------------------------
(* That the scope stack lists the open sessions in whatever order they are   *)
(* closed, that sessions closed in the reverse of their order leave nothing  *)
(* of their own behind, and that they are then the layers of Overlays: for   *)
(* any names, any calls of use() and any number of sessions.                 *)
EXTENDS UseSession, SequenceTheorems, TLAPS

\* Everything that may stand in the table, and in what a session put aside.
Bindings == {Nil, User} \cup {Export(o.lang) : o \in Options} \cup {Symbol(k) : k \in Nat}

Record == [scope : {"permanent", "scoped", "env"}, active : BOOLEAN,
           auto_values : SUBSET Names,
           previous : UNION {[S -> Bindings] : S \in SUBSET Names},
           has_mt : BOOLEAN, previous_mt : Nat,
           capability_previous : UNION {[S -> Nat] : S \in SUBSET Capabilities}]

Types ==
    /\ sessions \in Seq(Record)
    /\ DOMAIN target = {"bind", "mt", "caps", "stack"}
    /\ target.bind \in [Names -> Bindings]
    /\ target.mt \in Nat
    /\ target.caps \in [Capabilities -> Nat]
    /\ orderly \in BOOLEAN

---------------------------------------------------------------------------
(* What is on the table, or put aside by session b, is of an open session    *)
(* that came before b, and that session knows of it.                         *)

MtOf(m, b) == m # 0 => m \in 1 .. b - 1 /\ Active(m)

CapOf(c, m, b) ==
    m # 0 => m \in 1 .. b - 1 /\ Active(m) /\ c \in DOMAIN sessions[m].capability_previous

SymbolOf(n, v, b) ==
    v.kind = "auto" => /\ v.by \in 1 .. b - 1 /\ Active(v.by)
                       /\ n \in sessions[v.by].auto_values

OnTable ==
    LET b == Len(sessions) + 1
    IN  /\ MtOf(target.mt, b)
        /\ \A c \in Capabilities : CapOf(c, target.caps[c], b)
        /\ \A n \in Names : SymbolOf(n, target.bind[n], b)

PutAside(s) ==
    /\ MtOf(sessions[s].previous_mt, s)
    /\ \A c \in DOMAIN sessions[s].capability_previous :
          CapOf(c, sessions[s].capability_previous[c], s)
    /\ \A n \in DOMAIN sessions[s].previous : SymbolOf(n, sessions[s].previous[n], s)

\* The inductive invariant.
Owned == orderly => OnTable /\ \A s \in Ids : Active(s) => PutAside(s)

Inv == Types /\ Owned

---------------------------------------------------------------------------
LEMMA InitInv == Init => Inv
<1> SUFFICES ASSUME Init PROVE Inv
  OBVIOUS
<1>1. Types
  BY DEF Init, Types, Bindings
<1>2. DOMAIN sessions = {}
  BY DEF Init
<1>3. OnTable
  BY DEF Init, OnTable, MtOf, CapOf, SymbolOf, Nil, Value
<1> QED
  BY <1>1, <1>2, <1>3 DEF Inv, Owned, Ids

\* What a step that opens no session and closes none leaves of the invariant.
LEMMA Unclosed ==
    ASSUME Types, Types', Len(sessions') >= Len(sessions),
           \A s \in Ids : /\ sessions'[s].active = sessions[s].active
                          /\ sessions[s].auto_values \subseteq sessions'[s].auto_values
                          /\ sessions'[s].previous = sessions[s].previous
                          /\ sessions'[s].previous_mt = sessions[s].previous_mt
                          /\ sessions'[s].capability_previous = sessions[s].capability_previous
    PROVE  \A b \in 1 .. Len(sessions) + 1 :
              /\ \A m : MtOf(m, b) => MtOf(m, b)'
              /\ \A c, m : CapOf(c, m, b) => CapOf(c, m, b)'
              /\ \A n, v : SymbolOf(n, v, b) => SymbolOf(n, v, b)'
<1>1. Ids = 1 .. Len(sessions) /\ Len(sessions) \in Nat
  BY DEF Types, Ids
<1> QED
  BY <1>1 DEF MtOf, CapOf, SymbolOf, Active

\* A use binds exports and nothing else.
LEMMA Binds ==
    ASSUME Types, NEW o \in Options
    PROVE  /\ BindAfter(o) \in [Names -> Bindings]
           /\ \A n \in Names : BindAfter(o)[n] = target.bind[n] \/ BindAfter(o)[n].kind = "export"
           /\ Installed(o) \subseteq Names
<1>1. Export(o.lang) \in Bindings /\ Export(o.lang).kind = "export"
  BY DEF Bindings, Export, Value
<1>2. DOMAIN Env(o) \subseteq Names /\ Installed(o) \subseteq DOMAIN Env(o)
  BY DEF Env, Installed
<1>3. \A n \in DOMAIN Env(o) : Env(o)[n] = Export(o.lang) \/ Env(o)[n] = target.bind[n]
  BY DEF Env
<1>4. \A n \in Names : BindAfter(o)[n] = Export(o.lang) \/ BindAfter(o)[n] = target.bind[n]
  BY <1>2, <1>3 DEF BindAfter
<1>5. DOMAIN BindAfter(o) = Names /\ BindAfter(o) = [n \in Names |-> BindAfter(o)[n]]
  BY DEF BindAfter
<1>6. \A n \in Names : BindAfter(o)[n] \in Bindings
  BY <1>1, <1>4 DEF Types
<1>7. BindAfter(o) \in [Names -> Bindings]
  BY <1>5, <1>6
<1> QED
  BY <1>1, <1>2, <1>4, <1>7
\* The session that a use opens.
New(o) == [scope |-> o.scope, active |-> TRUE, auto_values |-> {},
           previous |-> IF o.scope = "env" THEN [n \in {} |-> Nil]
                        ELSE [n \in Installed(o) |-> target.bind[n]],
           has_mt |-> o.auto_names, previous_mt |-> target.mt,
           capability_previous |-> [c \in o.provides |-> target.caps[c]]]

LEMMA NewRecord ==
    ASSUME Types, NEW o \in Options
    PROVE  /\ New(o) \in Record /\ New(o).active = TRUE /\ New(o).previous_mt = target.mt
           /\ \A n \in DOMAIN New(o).previous :
                 n \in Names /\ New(o).previous[n] = target.bind[n]
           /\ DOMAIN New(o).capability_previous = o.provides
           /\ \A c \in o.provides : c \in Capabilities
                                    /\ New(o).capability_previous[c] = target.caps[c]
<1> DEFINE new == New(o)
<1>2. o.provides \subseteq Capabilities
  BY DEF Capabilities
<1>4. /\ new.previous \in UNION {[S -> Bindings] : S \in SUBSET Names}
      /\ \A n \in DOMAIN new.previous : n \in Names /\ new.previous[n] = target.bind[n]
  <2>1. CASE o.scope = "env"
    <3>1. new.previous = [n \in {} |-> Nil] /\ {} \in SUBSET Names
      BY <2>1 DEF New
    <3> QED
      BY <3>1
  <2>2. CASE o.scope # "env"
    <3>1. new.previous = [n \in Installed(o) |-> target.bind[n]]
      BY <2>2 DEF New
    <3>2. Installed(o) \in SUBSET Names /\ target.bind \in [Names -> Bindings]
      BY Binds DEF Types
    <3>3. [n \in Installed(o) |-> target.bind[n]] \in [Installed(o) -> Bindings]
      BY <3>2
    <3> QED
      BY <3>1, <3>2, <3>3
  <2> QED
    BY <2>1, <2>2
<1>5. /\ new.capability_previous \in UNION {[S -> Nat] : S \in SUBSET Capabilities}
      /\ DOMAIN new.capability_previous = o.provides
      /\ \A c \in o.provides : c \in Capabilities
                               /\ new.capability_previous[c] = target.caps[c]
  <2>1. [c \in o.provides |-> target.caps[c]] \in [o.provides -> Nat]
    BY <1>2 DEF Types
  <2>2. new.capability_previous = [c \in o.provides |-> target.caps[c]]
    BY DEF New
  <2> HIDE DEF new
  <2> QED
    BY <1>2, <2>1, <2>2
<1>6. /\ new.scope \in {"permanent", "scoped", "env"} /\ new.active = TRUE
      /\ new.auto_values = {} /\ new.has_mt \in BOOLEAN /\ new.previous_mt = target.mt
  BY OptionsAssumption DEF New
<1>7. new \in Record
  <2>1. new.previous_mt \in Nat /\ new.auto_values \in SUBSET Names
    BY <1>6 DEF Types
  <2>2. new = [scope |-> new.scope, active |-> new.active, auto_values |-> new.auto_values,
               previous |-> new.previous, has_mt |-> new.has_mt,
               previous_mt |-> new.previous_mt,
               capability_previous |-> new.capability_previous]
    BY DEF New
  <2> HIDE DEF new
  <2> QED
    BY <1>4, <1>5, <1>6, <2>1, <2>2 DEF Record
<1> HIDE DEF new
<1> QED
  BY <1>4, <1>5, <1>6, <1>7 DEF new

\* What a use does.
LEMMA UseOpens ==
    ASSUME Types, NEW o \in Options, Use(o)
    PROVE  /\ target' = [bind |-> BindAfter(o),
                         mt |-> IF o.auto_names THEN Len(sessions) + 1 ELSE target.mt,
                         caps |-> [c \in Capabilities |->
                                    IF c \in o.provides THEN Len(sessions) + 1
                                    ELSE target.caps[c]],
                         stack |-> Append(target.stack, Len(sessions) + 1)]
           /\ orderly' = orderly
           /\ Len(sessions') = Len(sessions) + 1 /\ sessions' \in Seq(Record)
           /\ Ids' = 1 .. Len(sessions) + 1
           /\ sessions'[Len(sessions) + 1] = New(o)
           /\ \A r \in Ids : sessions'[r] = sessions[r]
<1>1. sessions \in Seq(Record) /\ Len(sessions) \in Nat
  BY DEF Types
<1>2. /\ sessions' = Append(sessions, New(o)) /\ orderly' = orderly
      /\ target' = [bind |-> BindAfter(o),
                    mt |-> IF o.auto_names THEN Len(sessions) + 1 ELSE target.mt,
                    caps |-> [c \in Capabilities |->
                               IF c \in o.provides THEN Len(sessions) + 1
                               ELSE target.caps[c]],
                    stack |-> Append(target.stack, Len(sessions) + 1)]
  BY DEF Use, New
<1>3. New(o) \in Record
  BY NewRecord
<1>4. /\ Len(sessions') = Len(sessions) + 1 /\ sessions' \in Seq(Record)
      /\ sessions'[Len(sessions) + 1] = New(o)
      /\ \A r \in Ids : sessions'[r] = sessions[r]
  BY <1>1, <1>2, <1>3 DEF Ids
<1>5. Ids' = 1 .. Len(sessions) + 1
  BY <1>1, <1>4 DEF Ids
<1> QED
  BY <1>2, <1>4, <1>5

LEMMA UseKeeps ==
    ASSUME Inv, NEW o \in Options, Use(o)
    PROVE  Inv'
<1> DEFINE s == Len(sessions) + 1
           new == New(o)
<1>1. Types /\ sessions \in Seq(Record) /\ Len(sessions) \in Nat /\ Ids = 1 .. Len(sessions)
  BY DEF Inv, Types, Ids
<1>2. /\ new \in Record /\ new.active = TRUE /\ new.previous_mt = target.mt
      /\ \A n \in DOMAIN new.previous : n \in Names /\ new.previous[n] = target.bind[n]
      /\ DOMAIN new.capability_previous = o.provides
      /\ \A c \in o.provides : c \in Capabilities
                               /\ new.capability_previous[c] = target.caps[c]
  BY <1>1, NewRecord
<1>3. /\ target' = [bind |-> BindAfter(o), mt |-> IF o.auto_names THEN s ELSE target.mt,
                    caps |-> [c \in Capabilities |->
                                IF c \in o.provides THEN s ELSE target.caps[c]],
                    stack |-> Append(target.stack, s)]
      /\ orderly' = orderly
  BY <1>1, UseOpens
<1>8. /\ Len(sessions') = s /\ Ids' = 1 .. s /\ sessions' \in Seq(Record)
      /\ sessions'[s] = new
      /\ \A r \in Ids : sessions'[r] = sessions[r]
  BY <1>1, UseOpens
<1> HIDE DEF new
<1>9. Types'
  <2>1. target'.bind \in [Names -> Bindings]
    BY <1>1, <1>3, Binds
  <2>2. target'.mt \in Nat /\ target'.caps \in [Capabilities -> Nat]
    BY <1>1, <1>3 DEF Types
  <2>3. DOMAIN target' = {"bind", "mt", "caps", "stack"}
    BY <1>3
  <2> QED
    BY <1>1, <1>3, <1>8, <2>1, <2>2, <2>3 DEF Types
<1>10. ASSUME NEW b \in 1 .. s
       PROVE  /\ \A m : MtOf(m, b) => MtOf(m, b)'
              /\ \A c, m : CapOf(c, m, b) => CapOf(c, m, b)'
              /\ \A n, v : SymbolOf(n, v, b) => SymbolOf(n, v, b)'
  BY <1>1, <1>8, <1>9, Unclosed
<1>11. ASSUME orderly
       PROVE  OnTable' /\ \A r \in Ids' : Active(r)' => PutAside(r)'
  <2>1. OnTable /\ \A r \in Ids : Active(r) => PutAside(r)
    BY <1>11 DEF Inv, Owned
  <2>2. s \in Nat /\ s \in 1 .. s
    BY <1>1
  <2>3. ASSUME NEW b, b = s
        PROVE  /\ \A m : m = target.mt => MtOf(m, b)'
               /\ \A c \in Capabilities : \A m : m = target.caps[c] => CapOf(c, m, b)'
               /\ \A n \in Names : \A v : v = target.bind[n] => SymbolOf(n, v, b)'
    BY <1>10, <2>1, <2>2, <2>3 DEF OnTable
  <2>4. ASSUME NEW b, b = s
        PROVE  /\ \A m : MtOf(m, b)' => MtOf(m, b + 1)'
               /\ \A c, m : CapOf(c, m, b)' => CapOf(c, m, b + 1)'
               /\ \A n, v : SymbolOf(n, v, b)' => SymbolOf(n, v, b + 1)'
    BY <2>2, <2>4 DEF MtOf, CapOf, SymbolOf
  <2>5. ASSUME NEW b, b = s
        PROVE  /\ MtOf(b, b + 1)'
               /\ \A c \in o.provides : CapOf(c, b, b + 1)'
    BY <1>2, <1>8, <2>2, <2>5 DEF MtOf, CapOf, Active
  <2>6. \A n, v, b : v.kind = "export" => SymbolOf(n, v, b)'
    BY DEF SymbolOf
  <2>7. OnTable'
    <3>1. Len(sessions') + 1 = s + 1
      BY <1>8
    <3>2. MtOf(target.mt, Len(sessions) + 1)'
      BY <1>3, <2>3, <2>4, <2>5, <3>1
    <3>3. \A c \in Capabilities : CapOf(c, target.caps[c], Len(sessions) + 1)'
      BY <1>3, <2>3, <2>4, <2>5, <3>1
    <3>4. \A n \in Names : SymbolOf(n, target.bind[n], Len(sessions) + 1)'
      <4>1. \A n \in Names : target'.bind[n] = target.bind[n] \/ target'.bind[n].kind = "export"
        BY <1>1, <1>3, Binds
      <4> QED
        BY <2>3, <2>4, <2>6, <3>1, <4>1
    <3> QED
      BY <3>2, <3>3, <3>4 DEF OnTable
  <2>8. ASSUME NEW r \in Ids, Active(r)' PROVE PutAside(r)'
    <3>1. sessions'[r] = sessions[r] /\ r \in 1 .. s /\ PutAside(r)
      BY <1>1, <1>8, <2>1, <2>8 DEF Active
    <3> QED
      BY <1>10, <3>1 DEF PutAside
  <2>9. ASSUME NEW r, r = s PROVE PutAside(r)'
    <3>1. sessions'[r] = new
      BY <1>8, <2>9
    <3> QED
      BY <1>2, <2>3, <2>9, <3>1 DEF PutAside
  <2> QED
    BY <1>1, <1>8, <2>2, <2>7, <2>8, <2>9
<1> QED
  BY <1>3, <1>9, <1>11 DEF Inv, Owned

LEMMA UseRaisesKeeps ==
    ASSUME Inv, NEW o \in Options, UseRaises(o)
    PROVE  Inv'
<1>1. Types /\ Owned /\ sessions' = sessions /\ orderly' = orderly
      /\ target' = [target EXCEPT !.bind = BindAfter(o)]
  BY DEF Inv, UseRaises
<1>2. /\ DOMAIN target' = {"bind", "mt", "caps", "stack"}
      /\ target'.bind = BindAfter(o) /\ target'.mt = target.mt /\ target'.caps = target.caps
  BY <1>1 DEF Types
<1>3. Types'
  BY <1>1, <1>2, Binds DEF Types
<1>4. ASSUME orderly
      PROVE  OnTable' /\ \A r \in Ids' : Active(r)' => PutAside(r)'
  <2>1. OnTable /\ \A r \in Ids : Active(r) => PutAside(r)
    BY <1>1, <1>4 DEF Owned
  <2>2. \A n \in Names : target'.bind[n] = target.bind[n] \/ target'.bind[n].kind = "export"
    BY <1>1, <1>2, Binds
  <2>3. /\ \A m, b : MtOf(m, b)' <=> MtOf(m, b)
        /\ \A c, m, b : CapOf(c, m, b)' <=> CapOf(c, m, b)
        /\ \A n, v, b : SymbolOf(n, v, b)' <=> SymbolOf(n, v, b)
    BY <1>1 DEF MtOf, CapOf, SymbolOf, Active
  <2>4. \A n, v, b : v.kind = "export" => SymbolOf(n, v, b)
    BY DEF SymbolOf
  <2>5. OnTable'
    BY <1>1, <1>2, <2>1, <2>2, <2>3, <2>4 DEF OnTable
  <2> QED
    BY <1>1, <2>1, <2>3, <2>5 DEF PutAside, Active, Ids
<1> QED
  BY <1>1, <1>3, <1>4 DEF Inv, Owned

LEMMA AssignKeeps ==
    ASSUME Inv, NEW n \in Names, NEW v \in {User, Nil}, Assign(n, v)
    PROVE  Inv'
<1>1. Types /\ Owned /\ sessions' = sessions /\ orderly' = orderly
      /\ target' = [target EXCEPT !.bind[n] = v]
  BY DEF Inv, Assign
<1>2. v \in Bindings /\ v.kind # "auto"
  BY DEF Bindings, User, Nil, Value
<1>3. /\ DOMAIN target' = {"bind", "mt", "caps", "stack"}
      /\ target'.bind = [target.bind EXCEPT ![n] = v]
      /\ target'.mt = target.mt /\ target'.caps = target.caps
  BY <1>1 DEF Types
<1>4. Types'
  BY <1>1, <1>2, <1>3 DEF Types
<1>5. ASSUME orderly
      PROVE  OnTable' /\ \A r \in Ids' : Active(r)' => PutAside(r)'
  <2>1. OnTable /\ \A r \in Ids : Active(r) => PutAside(r)
    BY <1>1, <1>5 DEF Owned
  <2>2. \A l \in Names : target'.bind[l] = IF l = n THEN v ELSE target.bind[l]
    BY <1>1, <1>3 DEF Types
  <2>3. /\ \A m, b : MtOf(m, b)' <=> MtOf(m, b)
        /\ \A c, m, b : CapOf(c, m, b)' <=> CapOf(c, m, b)
        /\ \A l, w, b : SymbolOf(l, w, b)' <=> SymbolOf(l, w, b)
    BY <1>1 DEF MtOf, CapOf, SymbolOf, Active
  <2>4. \A b : SymbolOf(n, v, b)
    BY <1>2 DEF SymbolOf
  <2>5. OnTable'
    BY <1>1, <1>3, <2>1, <2>2, <2>3, <2>4 DEF OnTable
  <2> QED
    BY <1>1, <2>1, <2>3, <2>5 DEF PutAside, Active, Ids
<1> QED
  BY <1>1, <1>4, <1>5 DEF Inv, Owned

\* What a read does to the sessions.
LEMMA ReadNotes ==
    ASSUME Types, NEW n \in Names, Read(n)
    PROVE  /\ sessions' \in Seq(Record) /\ Len(sessions') = Len(sessions) /\ Ids' = Ids
           /\ \A r \in Ids : /\ sessions'[r].active = sessions[r].active
                              /\ sessions[r].auto_values \subseteq sessions'[r].auto_values
                              /\ sessions'[r].previous = sessions[r].previous
                              /\ sessions'[r].previous_mt = sessions[r].previous_mt
                              /\ sessions'[r].capability_previous = sessions[r].capability_previous
           /\ target.mt \in Ids => n \in sessions'[target.mt].auto_values
<1> DEFINE s == target.mt
           me == [sessions[s] EXCEPT !.auto_values = @ \cup {n}]
<1>1. /\ sessions' = [sessions EXCEPT ![s] = me]
      /\ sessions \in Seq(Record) /\ Len(sessions) \in Nat /\ Ids = 1 .. Len(sessions)
  BY DEF Types, Ids, Read
<1>2. CASE s \in Ids
  <2>1. sessions[s] \in Record
    BY <1>1, <1>2
  <2>2. /\ me \in Record /\ me.active = sessions[s].active
        /\ me.auto_values = sessions[s].auto_values \cup {n}
        /\ me.previous = sessions[s].previous
        /\ me.previous_mt = sessions[s].previous_mt
        /\ me.capability_previous = sessions[s].capability_previous
    BY <2>1 DEF Record
  <2> HIDE DEF me
  <2> QED
    BY <1>1, <1>2, <2>2 DEF Ids
<1>3. CASE s \notin Ids
  <2>1. sessions' = sessions
    BY <1>1, <1>3 DEF Ids
  <2> QED
    BY <1>1, <1>3, <2>1 DEF Ids
<1> QED
  BY <1>2, <1>3

\* The session whose metatable makes the symbol is an open one, if sessions were
\* closed in order, and it notes the name.
LEMMA ReadKeeps ==
    ASSUME Inv, NEW n \in Names, Read(n)
    PROVE  Inv'
<1> DEFINE s == target.mt
<1>1. Types /\ Owned /\ s # 0 /\ orderly' = orderly
      /\ target' = [target EXCEPT !.bind[n] = Symbol(s)]
      /\ sessions' = [sessions EXCEPT ![s].auto_values = @ \cup {n}]
  BY DEF Inv, Read
<1>2. s \in Nat /\ sessions \in Seq(Record) /\ Len(sessions) \in Nat /\ Ids = 1 .. Len(sessions)
  BY <1>1 DEF Types, Ids
<1>3. /\ Symbol(s) \in Bindings /\ Symbol(s).by = s
  BY <1>2 DEF Bindings, Symbol, Value
<1>4. /\ DOMAIN target' = {"bind", "mt", "caps", "stack"}
      /\ target'.bind = [target.bind EXCEPT ![n] = Symbol(s)]
      /\ target'.mt = target.mt /\ target'.caps = target.caps
  BY <1>1 DEF Types
<1>5. /\ sessions' \in Seq(Record) /\ Len(sessions') = Len(sessions) /\ Ids' = Ids
      /\ \A r \in Ids : /\ sessions'[r].active = sessions[r].active
                         /\ sessions[r].auto_values \subseteq sessions'[r].auto_values
                         /\ sessions'[r].previous = sessions[r].previous
                         /\ sessions'[r].previous_mt = sessions[r].previous_mt
                         /\ sessions'[r].capability_previous = sessions[r].capability_previous
      /\ s \in Ids => n \in sessions'[s].auto_values
  BY <1>1, ReadNotes
<1>6. Types'
  BY <1>1, <1>3, <1>4, <1>5 DEF Types
<1>7. ASSUME orderly
      PROVE  OnTable' /\ \A r \in Ids' : Active(r)' => PutAside(r)'
  <2>1. OnTable /\ \A r \in Ids : Active(r) => PutAside(r)
    BY <1>1, <1>7 DEF Owned
  <2>2. \A l \in Names : target'.bind[l] = IF l = n THEN Symbol(s) ELSE target.bind[l]
    BY <1>1, <1>4 DEF Types
  <2>3. ASSUME NEW b \in 1 .. Len(sessions) + 1
        PROVE  /\ \A m : MtOf(m, b) => MtOf(m, b)'
               /\ \A c, m : CapOf(c, m, b) => CapOf(c, m, b)'
               /\ \A l, w : SymbolOf(l, w, b) => SymbolOf(l, w, b)'
    BY <1>1, <1>2, <1>5, <1>6, Unclosed
  <2>4. s \in 1 .. Len(sessions) /\ Active(s)
    BY <1>1, <2>1 DEF OnTable, MtOf
  <2>5. ASSUME NEW b, NEW v, b = Len(sessions) + 1, v = Symbol(s) PROVE SymbolOf(n, v, b)'
    BY <1>2, <1>3, <1>5, <2>4, <2>5 DEF SymbolOf, Active
  <2>6. OnTable'
    <3>1. Len(sessions) + 1 \in 1 .. Len(sessions) + 1 /\ Len(sessions') = Len(sessions)
      BY <1>2, <1>5
    <3>2. MtOf(target.mt, Len(sessions) + 1)'
      BY <1>4, <2>1, <2>3, <3>1 DEF OnTable
    <3>3. \A c \in Capabilities : CapOf(c, target.caps[c], Len(sessions) + 1)'
      BY <1>4, <2>1, <2>3, <3>1 DEF OnTable
    <3>4. \A l \in Names : SymbolOf(l, target.bind[l], Len(sessions) + 1)'
      BY <2>1, <2>2, <2>3, <2>5, <3>1 DEF OnTable
    <3> QED
      BY <3>2, <3>3, <3>4 DEF OnTable
  <2>7. ASSUME NEW r \in Ids, Active(r)' PROVE PutAside(r)'
    <3>1. r \in 1 .. Len(sessions) + 1 /\ PutAside(r)
      BY <1>2, <1>5, <2>1, <2>7 DEF Active
    <3> QED
      BY <1>5, <2>3, <3>1 DEF PutAside
  <2> QED
    BY <1>5, <2>6, <2>7
<1> QED
  BY <1>1, <1>6, <1>7 DEF Inv, Owned

LEMMA DroppedRecord ==
    ASSUME NEW me \in Record
    PROVE  /\ Dropped(me) \in Record
           /\ Dropped(me).active = FALSE
           /\ DOMAIN Dropped(me).capability_previous = DOMAIN me.capability_previous
           /\ DOMAIN Dropped(me).previous = {}
<1> DEFINE noBinding == [n \in {} |-> Nil]
           noCap == [c \in DOMAIN me.capability_previous |-> 0]
<1>1. noBinding \in UNION {[S -> Bindings] : S \in SUBSET Names}
  <2>1. noBinding \in [{} -> Bindings] /\ {} \in SUBSET Names
    OBVIOUS
  <2> QED
    BY <2>1
<1>2. noCap \in UNION {[S -> Nat] : S \in SUBSET Capabilities}
  <2>1. DOMAIN me.capability_previous \in SUBSET Capabilities
    <3>1. PICK S \in SUBSET Capabilities : me.capability_previous \in [S -> Nat]
      BY DEF Record
    <3> QED
      BY <3>1
  <2>2. noCap \in [DOMAIN me.capability_previous -> Nat]
    OBVIOUS
  <2> QED
    BY <2>1, <2>2
<1>3. DOMAIN noCap = DOMAIN me.capability_previous /\ DOMAIN noBinding = {}
  OBVIOUS
<1>4. Dropped(me) = [me EXCEPT !.active = FALSE, !.auto_values = {}, !.previous_mt = 0,
                               !.previous = noBinding, !.capability_previous = noCap]
  BY DEF Dropped
<1> HIDE DEF noBinding, noCap
<1> DEFINE closed == [me EXCEPT !.active = FALSE, !.auto_values = {}, !.previous_mt = 0]
           emptied == [closed EXCEPT !.previous = noBinding]
<1>6. closed \in Record /\ closed.active = FALSE
  BY DEF Record
<1> HIDE DEF closed
<1>7. emptied \in Record /\ emptied.active = FALSE /\ emptied.previous = noBinding
  BY <1>1, <1>6 DEF Record
<1>8. Dropped(me) = [emptied EXCEPT !.capability_previous = noCap]
  BY <1>4 DEF Record, closed
<1> HIDE DEF emptied
<1>5. /\ Dropped(me) \in Record /\ Dropped(me).active = FALSE
      /\ Dropped(me).capability_previous = noCap /\ Dropped(me).previous = noBinding
  BY <1>2, <1>7, <1>8 DEF Record
<1> QED
  BY <1>3, <1>5

\* What a session put aside is of the kinds the table holds.
LEMMA AsideTypes ==
    ASSUME Types, NEW s \in Ids
    PROVE  /\ sessions[s] \in Record
           /\ \A n \in DOMAIN sessions[s].previous : sessions[s].previous[n] \in Bindings
           /\ \A c \in DOMAIN sessions[s].capability_previous :
                 sessions[s].capability_previous[c] \in Nat
           /\ sessions[s].previous_mt \in Nat
<1>1. sessions[s] \in Record
  BY DEF Types, Ids
<1>2. PICK S \in SUBSET Names : sessions[s].previous \in [S -> Bindings]
  BY <1>1 DEF Record
<1>3. PICK C \in SUBSET Capabilities : sessions[s].capability_previous \in [C -> Nat]
  BY <1>1 DEF Record
<1> QED
  BY <1>1, <1>2, <1>3 DEF Record

\* What a close does to the sessions.
LEMMA CloseCloses ==
    ASSUME Types, NEW s \in Ids, Close(s)
    PROVE  /\ sessions' \in Seq(Record) /\ Len(sessions') = Len(sessions) /\ Ids' = Ids
           /\ sessions'[s].active = FALSE /\ DOMAIN sessions'[s].previous = {}
           /\ DOMAIN sessions'[s].capability_previous = DOMAIN sessions[s].capability_previous
           /\ \A r \in Ids : r # s => sessions'[r] = sessions[r]
<1> DEFINE new == Dropped(sessions[s])
<1>1. /\ sessions \in Seq(Record) /\ Len(sessions) \in Nat /\ s \in 1 .. Len(sessions)
      /\ sessions' = [sessions EXCEPT ![s] = new]
  BY DEF Types, Ids, Close
<1>2. /\ new \in Record /\ new.active = FALSE /\ DOMAIN new.previous = {}
      /\ DOMAIN new.capability_previous = DOMAIN sessions[s].capability_previous
  <2>1. sessions[s] \in Record
    BY <1>1
  <2> QED
    BY <2>1, DroppedRecord
<1> HIDE DEF new
<1>3. /\ sessions' \in Seq(Record) /\ Len(sessions') = Len(sessions)
      /\ sessions'[s] = new /\ \A r \in Ids : r # s => sessions'[r] = sessions[r]
  BY <1>1, <1>2 DEF Ids
<1> QED
  BY <1>2, <1>3 DEF Ids

\* The metatable, the capabilities and the symbols that a closed session leaves
\* are those of sessions opened before it, which are still open.
LEMMA CloseKeeps ==
    ASSUME Inv, NEW s \in Ids, Close(s)
    PROVE  Inv'
<1> DEFINE me == sessions[s]
<1>1. Types /\ Owned /\ Active(s)
      /\ sessions' = [sessions EXCEPT ![s] = Dropped(me)]
      /\ orderly' = (orderly /\ \A t \in Ids : t > s => ~Active(t))
  BY DEF Inv, Close
<1>2. /\ sessions \in Seq(Record) /\ Len(sessions) \in Nat /\ Ids = 1 .. Len(sessions)
      /\ s \in 1 .. Len(sessions) /\ me \in Record
  BY <1>1 DEF Types, Ids
<1>3. /\ DOMAIN target' = {"bind", "mt", "caps", "stack"}
      /\ target'.bind = [n \in Names |-> Restored(s, n)]
      /\ target'.mt = (IF target.mt = s THEN me.previous_mt ELSE target.mt)
      /\ target'.caps = [c \in Capabilities |->
                           IF c \in DOMAIN me.capability_previous /\ target.caps[c] = s
                           THEN me.capability_previous[c] ELSE target.caps[c]]
  BY DEF Close
<1>4. /\ sessions' \in Seq(Record) /\ Len(sessions') = Len(sessions) /\ Ids' = Ids
      /\ sessions'[s].active = FALSE
      /\ DOMAIN sessions'[s].capability_previous = DOMAIN sessions[s].capability_previous
      /\ \A r \in Ids : r # s => sessions'[r] = sessions[r]
  BY <1>1, CloseCloses
<1>5. \A n \in Names : Restored(s, n) =
         IF n \in DOMAIN me.previous THEN me.previous[n]
         ELSE IF n \in me.auto_values /\ target.bind[n] = Symbol(s) THEN Nil
         ELSE target.bind[n]
  BY DEF Restored, Cleared
<1>6. Types'
  <2>1. \A n \in Names : Restored(s, n) \in Bindings
    <3>1. Nil \in Bindings
      BY DEF Bindings
    <3> QED
      BY <1>1, <1>2, <1>5, <3>1, AsideTypes DEF Types
  <2>2. target'.bind \in [Names -> Bindings]
    BY <1>3, <2>1
  <2>3. target'.mt \in Nat
    BY <1>1, <1>3, AsideTypes DEF Types
  <2>4. target'.caps \in [Capabilities -> Nat]
    BY <1>1, <1>3, AsideTypes DEF Types
  <2> QED
    BY <1>1, <1>3, <1>4, <2>2, <2>3, <2>4 DEF Types
<1>7. ASSUME NEW b \in 1 .. Len(sessions) + 1
      PROVE  /\ \A m : MtOf(m, b) /\ m # s => MtOf(m, b)'
             /\ \A c, m : CapOf(c, m, b) /\ m # s => CapOf(c, m, b)'
             /\ \A n, v : SymbolOf(n, v, b) /\ v.by # s => SymbolOf(n, v, b)'
  BY <1>2, <1>4 DEF MtOf, CapOf, SymbolOf, Active
<1>8. ASSUME NEW b \in 1 .. s, NEW d \in 1 .. Len(sessions) + 1, b <= d
      PROVE  /\ \A m : MtOf(m, b) => MtOf(m, d)'
             /\ \A c, m : CapOf(c, m, b) => CapOf(c, m, d)'
             /\ \A n, v : SymbolOf(n, v, b) => SymbolOf(n, v, d)'
  BY <1>2, <1>4, <1>8 DEF MtOf, CapOf, SymbolOf, Active
<1>9. ASSUME orderly'
      PROVE  OnTable' /\ \A r \in Ids' : Active(r)' => PutAside(r)'
  <2>1. OnTable /\ \A r \in Ids : Active(r) => PutAside(r)
    BY <1>1, <1>9 DEF Owned
  <2>9. \A t \in Ids : t > s => ~Active(t)
    BY <1>1, <1>9, Zenon
  <2> DEFINE b == Len(sessions) + 1
  <2>2. b \in 1 .. b /\ s \in 1 .. s /\ s <= b /\ s \in 1 .. b
    BY <1>2
  <2>3. PutAside(s)
    BY <1>1, <2>1
  <2>4. ASSUME NEW m, m = target'.mt PROVE MtOf(m, Len(sessions) + 1)'
    <3>1. CASE target.mt = s
      BY <1>3, <1>4, <1>8, <2>2, <2>3, <2>4, <3>1 DEF PutAside
    <3>2. CASE target.mt # s
      BY <1>3, <1>4, <1>7, <2>1, <2>2, <2>4, <3>2 DEF OnTable
    <3> QED
      BY <3>1, <3>2
  <2>5. ASSUME NEW c \in Capabilities, NEW m, m = target'.caps[c]
        PROVE  CapOf(c, m, Len(sessions) + 1)'
    <3>1. CASE c \in DOMAIN me.capability_previous /\ target.caps[c] = s
      BY <1>3, <1>4, <1>8, <2>2, <2>3, <2>5, <3>1 DEF PutAside
    <3>2. CASE target.caps[c] # s
      BY <1>3, <1>4, <1>7, <2>1, <2>2, <2>5, <3>2 DEF OnTable
    <3>3. CASE target.caps[c] = s /\ c \notin DOMAIN me.capability_previous
      BY <1>2, <2>1, <3>3 DEF OnTable, CapOf
    <3> QED
      BY <3>1, <3>2, <3>3
  <2>6. ASSUME NEW n \in Names, NEW v, v = target'.bind[n]
        PROVE  SymbolOf(n, v, Len(sessions) + 1)'
    <3>1. CASE n \in DOMAIN me.previous
      BY <1>3, <1>4, <1>5, <1>8, <2>2, <2>3, <2>6, <3>1 DEF PutAside
    <3>2. CASE n \notin DOMAIN me.previous /\ v.kind # "auto"
      BY <3>2 DEF SymbolOf
    <3>3. CASE n \notin DOMAIN me.previous /\ v.kind = "auto"
      <4>1. v = target.bind[n] /\ ~(n \in me.auto_values /\ target.bind[n] = Symbol(s))
        BY <1>3, <1>5, <2>6, <3>3 DEF Nil, Value
      <4>2. SymbolOf(n, v, b)
        BY <2>1, <4>1 DEF OnTable
      <4>3. v.by # s
        <5>1. v \in Bindings
          BY <1>1, <4>1 DEF Types
        <5>2. v = Symbol(v.by)
          BY <3>3, <5>1 DEF Bindings, Symbol, Nil, User, Export, Value
        <5> QED
          BY <3>3, <4>1, <4>2, <5>2 DEF SymbolOf
      <4> QED
        BY <1>4, <1>7, <2>2, <4>2, <4>3
    <3> QED
      BY <3>1, <3>2, <3>3
  <2>7. OnTable'
    BY <2>4, <2>5, <2>6 DEF OnTable
  <2>8. ASSUME NEW r \in Ids, Active(r)' PROVE PutAside(r)'
    <3>1. r # s
      BY <1>4, <2>8 DEF Active
    <3>2. sessions'[r] = sessions[r] /\ Active(r) /\ PutAside(r)
      BY <1>4, <2>1, <2>8, <3>1 DEF Active
    <3>3. r \in 1 .. s /\ r \in 1 .. b /\ r <= r
      BY <1>2, <2>9, <3>2
    <3> QED
      BY <1>8, <3>2, <3>3 DEF PutAside
  <2> QED
    BY <1>4, <2>7, <2>8
<1> QED
  BY <1>6, <1>9 DEF Inv, Owned

LEMMA InvHolds == Spec => []Inv
<1>1. Init => Inv
  BY InitInv
<1>2. Inv /\ [Next]_vars => Inv'
  <2>1. ASSUME Inv, Next PROVE Inv'
    <3>1. ASSUME NEW o \in Options, Use(o) PROVE Inv'
      BY <2>1, <3>1, UseKeeps
    <3>2. ASSUME NEW o \in Options, UseRaises(o) PROVE Inv'
      BY <2>1, <3>2, UseRaisesKeeps
    <3>3. ASSUME NEW s \in Ids, Close(s) PROVE Inv'
      BY <2>1, <3>3, CloseKeeps
    <3>4. ASSUME NEW n \in Names, Read(n) PROVE Inv'
      BY <2>1, <3>4, ReadKeeps
    <3>5. ASSUME NEW n \in Names, NEW v \in {User, Nil}, Assign(n, v) PROVE Inv'
      BY <2>1, <3>5, AssignKeeps
    <3> QED
      BY <2>1, <3>1, <3>2, <3>3, <3>4, <3>5 DEF Next
  <2>2. ASSUME Inv, UNCHANGED vars PROVE Inv'
    BY <2>2 DEF vars, Inv, Types, Owned, OnTable, PutAside, MtOf, CapOf, SymbolOf, Active, Ids
  <2> QED
    BY <2>1, <2>2
<1> QED
  BY <1>1, <1>2, PTL DEF Spec

---------------------------------------------------------------------------
\* Sessions that are closed in the reverse of their order leave nothing of
\* their own behind, however many there are and whatever names, exports and
\* capabilities they share: no metatable that makes symbols for a closed
\* session, no symbol it made, no capability it provided.
THEOREM ClosedSessionsAreGone == Spec => []NothingLingers
<1>1. Inv => NothingLingers
  BY DEF Inv, Owned, OnTable, MtOf, CapOf, SymbolOf, NothingLingers
<1> QED
  BY <1>1, InvHolds, PTL

---------------------------------------------------------------------------
(* The scope stack, the metatable and the capabilities, in whatever order    *)
(* sessions are closed.                                                      *)

\* The stack has the members of S, each once and the least first.
Lists(stack, S) ==
    /\ stack \in Seq(Nat)
    /\ \A i \in 1 .. Len(stack) : stack[i] \in S
    /\ \A s \in S : \E i \in 1 .. Len(stack) : stack[i] = s
    /\ \A i, j \in 1 .. Len(stack) : i < j => stack[i] < stack[j]

LEMMA ListsOneMore ==
    ASSUME NEW stack, NEW S, Lists(stack, S), NEW s \in Nat, \A t \in S : t < s
    PROVE  Lists(Append(stack, s), S \cup {s})
<1> DEFINE n == Len(stack)
           new == Append(stack, s)
<1>1. /\ stack \in Seq(Nat) /\ n \in Nat
      /\ new \in Seq(Nat) /\ Len(new) = n + 1 /\ new[n + 1] = s
      /\ \A i \in 1 .. n : new[i] = stack[i] /\ i \in 1 .. n + 1
      /\ \A i \in 1 .. n + 1 : i \in 1 .. n \/ i = n + 1
      /\ n + 1 \in 1 .. n + 1
  BY DEF Lists
<1> HIDE DEF new
<1>2. \A i \in 1 .. n : stack[i] \in S /\ stack[i] < s
  BY DEF Lists
<1>3. \A i \in 1 .. Len(new) : new[i] \in S \cup {s}
  BY <1>1, <1>2
<1>4. ASSUME NEW t \in S \cup {s} PROVE \E i \in 1 .. Len(new) : new[i] = t
  <2>1. CASE t = s
    BY <1>1, <2>1
  <2>2. CASE t \in S
    <3>1. PICK i \in 1 .. n : stack[i] = t
      BY <2>2 DEF Lists
    <3> QED
      BY <1>1, <3>1
  <2> QED
    BY <2>1, <2>2
<1>5. ASSUME NEW i \in 1 .. Len(new), NEW j \in 1 .. Len(new), i < j PROVE new[i] < new[j]
  <2>1. i \in 1 .. n
    BY <1>1, <1>5
  <2>2. CASE j \in 1 .. n
    BY <1>1, <1>5, <2>1, <2>2 DEF Lists
  <2>3. CASE j = n + 1
    BY <1>1, <1>2, <2>1, <2>3
  <2> QED
    BY <1>1, <2>2, <2>3
<1>6. Lists(new, S \cup {s})
  BY <1>1, <1>3, <1>4, <1>5 DEF Lists
<1> QED
  BY <1>6 DEF new

LEMMA ListsOneLess ==
    ASSUME NEW stack, NEW S, Lists(stack, S), NEW at \in 1 .. Len(stack)
    PROVE  Lists([i \in 1 .. Len(stack) - 1 |-> IF i < at THEN stack[i] ELSE stack[i + 1]],
                 S \ {stack[at]})
<1> DEFINE n == Len(stack)
           s == stack[at]
           new == [i \in 1 .. n - 1 |-> IF i < at THEN stack[i] ELSE stack[i + 1]]
           from(i) == IF i < at THEN i ELSE i + 1
<1>1. stack \in Seq(Nat) /\ n \in Nat \ {0} /\ \A i \in 1 .. n : stack[i] \in Nat
  BY DEF Lists
<1>2. ASSUME NEW i \in 1 .. n - 1
      PROVE  new[i] = stack[from(i)] /\ from(i) \in 1 .. n /\ from(i) # at
  BY <1>1
<1>3. \A i, j \in 1 .. n - 1 : i < j => from(i) < from(j)
  BY <1>1
<1>4. ASSUME NEW k \in 1 .. n, k # at PROVE \E i \in 1 .. n - 1 : from(i) = k
  <2>1. CASE k < at
    <3>1. k \in 1 .. n - 1 /\ from(k) = k
      BY <1>1, <2>1
    <3> HIDE DEF from, n
    <3> QED
      BY <3>1
  <2>2. CASE k > at
    <3>1. k - 1 \in 1 .. n - 1 /\ ~(k - 1 < at) /\ (k - 1) + 1 = k
      BY <1>1, <2>2
    <3>2. from(k - 1) = k
      BY <3>1
    <3> HIDE DEF from, n
    <3> QED
      BY <3>1, <3>2
  <2> QED
    BY <1>1, <1>4, <2>1, <2>2
<1>5. \A i, j \in 1 .. n : i < j => stack[i] < stack[j]
  BY DEF Lists
<1>6. \A k \in 1 .. n : k # at => stack[k] # s
  BY <1>1, <1>5
<1>7. /\ \A k \in 1 .. n : stack[k] \in S
      /\ \A t \in S : \E k \in 1 .. n : stack[k] = t
  BY DEF Lists
<1>10. DOMAIN new = 1 .. n - 1
  OBVIOUS
<1> HIDE DEF new, from
<1>8. new \in Seq(Nat) /\ Len(new) = n - 1
  <2>1. \A i \in 1 .. n - 1 : new[i] \in Nat
    BY <1>1, <1>2
  <2>2. new \in [1 .. n - 1 -> Nat] /\ n - 1 \in Nat
    <3>1. new = [i \in 1 .. n - 1 |-> new[i]]
      BY DEF new
    <3> QED
      BY <1>1, <2>1, <3>1
  <2> QED
    BY <2>2, SeqDef, LenProperties
<1> HIDE DEF n, s
<1>9. \A i \in 1 .. Len(new) : new[i] \in S \ {s}
  BY <1>2, <1>6, <1>7, <1>8
<1>11. ASSUME NEW t \in S \ {s} PROVE \E i \in 1 .. Len(new) : new[i] = t
  <2>1. PICK k \in 1 .. n : stack[k] = t
    BY <1>7
  <2>2. k # at
    BY <2>1 DEF s
  <2>3. PICK i \in 1 .. n - 1 : from(i) = k
    BY <1>4, <2>2
  <2> QED
    BY <1>2, <1>8, <2>1, <2>3
<1>12. \A i, j \in 1 .. Len(new) : i < j => new[i] < new[j]
  BY <1>2, <1>3, <1>5, <1>8
<1>13. Lists(new, S \ {s})
  BY <1>8, <1>9, <1>11, <1>12 DEF Lists
<1> QED
  BY <1>13 DEF new, s, n

OpenIds == {s \in Ids : Active(s)}

MtIsNewest ==
    \A s \in Ids :
        Active(s) /\ (\A t \in Ids : t > s => ~sessions[t].has_mt) /\ sessions[s].has_mt
            => target.mt = s

CapsAreNewest ==
    \A s \in Ids : \A c \in DOMAIN sessions[s].capability_previous :
        Active(s) /\ (\A t \in Ids : t > s => c \notin DOMAIN sessions[t].capability_previous)
            => target.caps[c] = s

\* The inductive invariant.
Listed ==
    /\ Types
    /\ Lists(target.stack, OpenIds)
    /\ MtIsNewest
    /\ CapsAreNewest

LEMMA ListedInit == Init => Listed
<1> SUFFICES ASSUME Init PROVE Listed
  OBVIOUS
<1>1. Types
  BY InitInv DEF Inv
<1>2. target.stack = <<>> /\ Ids = {} /\ OpenIds = {} /\ Len(<<>>) = 0
  BY DEF Init, Ids, OpenIds
<1>3. Lists(<<>>, {})
  BY DEF Lists
<1> QED
  BY <1>1, <1>2, <1>3 DEF Listed, MtIsNewest, CapsAreNewest

\* A step that neither opens a session nor closes one.
LEMMA ListedKept ==
    ASSUME Listed, Types', Ids' = Ids,
           target'.stack = target.stack, target'.mt = target.mt, target'.caps = target.caps,
           \A s \in Ids : /\ sessions'[s].active = sessions[s].active
                          /\ sessions'[s].has_mt = sessions[s].has_mt
                          /\ sessions'[s].capability_previous = sessions[s].capability_previous
    PROVE  Listed'
<1>1. OpenIds' = OpenIds
  BY DEF OpenIds, Active
<1>2. MtIsNewest'
  BY DEF Listed, MtIsNewest, Active
<1>3. CapsAreNewest'
  BY DEF Listed, CapsAreNewest, Active
<1> QED
  BY <1>1, <1>2, <1>3 DEF Listed

LEMMA UseLists ==
    ASSUME Listed, Types', NEW o \in Options, Use(o)
    PROVE  Listed'
<1> DEFINE s == Len(sessions) + 1
           new == New(o)
<1>1. Types /\ sessions \in Seq(Record) /\ Len(sessions) \in Nat /\ Ids = 1 .. Len(sessions)
  BY DEF Listed, Types, Ids
<1>2. /\ target' = [bind |-> BindAfter(o), mt |-> IF o.auto_names THEN s ELSE target.mt,
                    caps |-> [c \in Capabilities |->
                                IF c \in o.provides THEN s ELSE target.caps[c]],
                    stack |-> Append(target.stack, s)]
      /\ Ids' = 1 .. s /\ sessions'[s] = new
      /\ \A r \in Ids : sessions'[r] = sessions[r]
  BY <1>1, UseOpens
<1>3. /\ new.active = TRUE /\ DOMAIN new.capability_previous = o.provides
      /\ o.provides \subseteq Capabilities
  BY <1>1, NewRecord
<1>4. new.has_mt = o.auto_names
  BY DEF New
<1> HIDE DEF new
<1>5. /\ Ids' = Ids \cup {s} /\ s \notin Ids /\ s \in Nat /\ s \in Ids'
      /\ \A r \in Ids : r < s /\ r \in Ids' /\ ~(r > s)
      /\ \A r \in Ids' : r \in Ids \/ r = s
  BY <1>1, <1>2
<1>6. /\ target'.stack = Append(target.stack, s)
      /\ target'.mt = IF o.auto_names THEN s ELSE target.mt
      /\ target'.caps = [c \in Capabilities |-> IF c \in o.provides THEN s ELSE target.caps[c]]
  BY <1>2
<1> HIDE DEF s
<1>7. Lists(target.stack, OpenIds)'
  <2>1. OpenIds' = OpenIds \cup {s}
    BY <1>2, <1>3, <1>5 DEF OpenIds, Active
  <2>2. \A t \in OpenIds : t < s
    BY <1>5 DEF OpenIds
  <2>3. Lists(Append(target.stack, s), OpenIds \cup {s})
    BY <1>5, <2>2, ListsOneMore DEF Listed
  <2> QED
    BY <1>6, <2>1, <2>3
<1>8. MtIsNewest'
  <2> SUFFICES ASSUME NEW r \in Ids', sessions'[r].active, sessions'[r].has_mt,
                      \A t \in Ids' : t > r => ~sessions'[t].has_mt
               PROVE  target'.mt = r
    BY DEF MtIsNewest, Active
  <2>1. CASE r = s
    BY <1>2, <1>4, <1>6, <2>1
  <2>2. CASE r \in Ids
    <3>1. ~o.auto_names
      BY <1>1, <1>2, <1>4, <1>5, <2>2
    <3>2. \A t \in Ids : t > r => ~sessions[t].has_mt
      BY <1>2, <1>5
    <3>3. target.mt = r
      BY <1>2, <2>2, <3>2 DEF Listed, MtIsNewest, Active
    <3> QED
      BY <1>6, <3>1, <3>3
  <2> QED
    BY <1>5, <2>1, <2>2
<1>9. CapsAreNewest'
  <2> SUFFICES ASSUME NEW r \in Ids', NEW c \in DOMAIN sessions'[r].capability_previous,
                      sessions'[r].active,
                      \A t \in Ids' : t > r => c \notin DOMAIN sessions'[t].capability_previous
               PROVE  target'.caps[c] = r
    BY DEF CapsAreNewest, Active
  <2>1. CASE r = s
    BY <1>2, <1>3, <1>6, <2>1
  <2>2. CASE r \in Ids
    <3>1. c \notin o.provides
      BY <1>1, <1>2, <1>3, <1>5, <2>2
    <3>2. /\ \A t \in Ids : t > r => c \notin DOMAIN sessions[t].capability_previous
          /\ c \in DOMAIN sessions[r].capability_previous /\ sessions[r].active
      BY <1>2, <1>5, <2>2
    <3>3. target.caps[c] = r
      BY <2>2, <3>2 DEF Listed, CapsAreNewest, Active
    <3>4. c \in Capabilities
      <4>1. sessions[r] \in Record
        BY <1>1, <2>2
      <4>2. PICK C \in SUBSET Capabilities : sessions[r].capability_previous \in [C -> Nat]
        BY <4>1 DEF Record
      <4> QED
        BY <3>2, <4>2
    <3> QED
      BY <1>6, <3>1, <3>3, <3>4
  <2> QED
    BY <1>5, <2>1, <2>2
<1> QED
  BY <1>7, <1>8, <1>9 DEF Listed

LEMMA CloseLists ==
    ASSUME Listed, Types', NEW s \in Ids, Close(s)
    PROVE  Listed'
<1> DEFINE me == sessions[s]
           stack == target.stack
<1>1. Types /\ Active(s) /\ Lists(stack, OpenIds) /\ sessions \in Seq(Record)
      /\ Ids = 1 .. Len(sessions) /\ Len(sessions) \in Nat
  BY DEF Listed, Close, Types, Ids
<1>2. /\ Ids' = Ids /\ sessions'[s].active = FALSE
      /\ DOMAIN sessions'[s].capability_previous = DOMAIN me.capability_previous
      /\ \A r \in Ids : r # s => sessions'[r] = sessions[r]
  BY <1>1, CloseCloses
<1>3. sessions'[s].has_mt = me.has_mt
  <2>1. sessions' = [sessions EXCEPT ![s] = Dropped(me)] /\ s \in DOMAIN sessions /\ me \in Record
    BY <1>1 DEF Close, Ids
  <2>2. Dropped(me).has_mt = me.has_mt
    BY <2>1 DEF Dropped, Record
  <2> QED
    BY <2>1, <2>2
<1>4. /\ target'.mt = (IF target.mt = s THEN me.previous_mt ELSE target.mt)
      /\ target'.caps = [c \in Capabilities |->
                           IF c \in DOMAIN me.capability_previous /\ target.caps[c] = s
                           THEN me.capability_previous[c] ELSE target.caps[c]]
      /\ target'.stack = RemoveScope(s)
  BY DEF Close
<1>5. Lists(target.stack, OpenIds)'
  <2> DEFINE at == CHOOSE i \in DOMAIN stack : stack[i] = s
  <2>1. stack \in Seq(Nat) /\ DOMAIN stack = 1 .. Len(stack)
    BY <1>1 DEF Lists
  <2>2. s \in OpenIds
    BY <1>1 DEF OpenIds
  <2>3. \E i \in DOMAIN stack : stack[i] = s
    BY <1>1, <2>1, <2>2 DEF Lists
  <2>4. at \in 1 .. Len(stack) /\ stack[at] = s
    BY <2>1, <2>3
  <2>5. RemoveScope(s) = [i \in 1 .. Len(stack) - 1 |-> IF i < at THEN stack[i] ELSE stack[i + 1]]
    BY DEF RemoveScope
  <2>6. OpenIds' = OpenIds \ {s}
    BY <1>2 DEF OpenIds, Active
  <2> HIDE DEF at, stack
  <2>7. Lists(RemoveScope(s), OpenIds \ {s})
    <3>1. Lists(stack, OpenIds)
      BY <1>1
    <3>2. Lists([i \in 1 .. Len(stack) - 1 |-> IF i < at THEN stack[i] ELSE stack[i + 1]],
                OpenIds \ {stack[at]})
      BY <2>4, <3>1, ListsOneLess
    <3> QED
      BY <2>4, <2>5, <3>2
  <2> QED
    BY <1>4, <2>6, <2>7
<1>6. \A r \in Ids : sessions'[r].has_mt = sessions[r].has_mt
  BY <1>2, <1>3
<1>7. \A r \in Ids : DOMAIN sessions'[r].capability_previous = DOMAIN sessions[r].capability_previous
  BY <1>2
<1>8. MtIsNewest'
  <2> SUFFICES ASSUME NEW r \in Ids, sessions'[r].active, sessions'[r].has_mt,
                      \A t \in Ids : t > r => ~sessions'[t].has_mt
               PROVE  target'.mt = r
    BY <1>2 DEF MtIsNewest, Active
  <2>1. r # s /\ sessions[r].active
    BY <1>2
  <2>2. target.mt = r
    BY <1>6, <2>1 DEF Listed, MtIsNewest, Active
  <2> QED
    BY <1>4, <2>1, <2>2
<1>9. CapsAreNewest'
  <2> SUFFICES ASSUME NEW r \in Ids, NEW c \in DOMAIN sessions'[r].capability_previous,
                      sessions'[r].active,
                      \A t \in Ids : t > r => c \notin DOMAIN sessions'[t].capability_previous
               PROVE  target'.caps[c] = r
    BY <1>2 DEF CapsAreNewest, Active
  <2>1. r # s /\ sessions[r].active /\ c \in DOMAIN sessions[r].capability_previous
    BY <1>2, <1>7
  <2>2. target.caps[c] = r
    BY <1>7, <2>1 DEF Listed, CapsAreNewest, Active
  <2>3. c \in Capabilities
    <3>1. sessions[r] \in Record
      BY <1>1
    <3>2. PICK C \in SUBSET Capabilities : sessions[r].capability_previous \in [C -> Nat]
      BY <3>1 DEF Record
    <3> QED
      BY <2>1, <3>2
  <2> QED
    BY <1>4, <2>1, <2>2, <2>3
<1> QED
  BY <1>5, <1>8, <1>9 DEF Listed

LEMMA ListedNext == Listed /\ Types' /\ [Next]_vars => Listed'
<1> SUFFICES ASSUME Listed, Types', [Next]_vars PROVE Listed'
  OBVIOUS
<1>1. Types
  BY DEF Listed
<1>2. ASSUME NEW o \in Options, Use(o) PROVE Listed'
  BY <1>2, UseLists
<1>3. ASSUME NEW o \in Options, UseRaises(o) PROVE Listed'
  <2>1. /\ sessions' = sessions /\ Ids' = Ids
        /\ target'.stack = target.stack /\ target'.mt = target.mt /\ target'.caps = target.caps
    BY <1>1, <1>3 DEF UseRaises, Types, Ids
  <2> QED
    BY <2>1, ListedKept
<1>4. ASSUME NEW s \in Ids, Close(s) PROVE Listed'
  BY <1>4, CloseLists
<1>5. ASSUME NEW n \in Names, Read(n) PROVE Listed'
  <2>1. target'.stack = target.stack /\ target'.mt = target.mt /\ target'.caps = target.caps
    BY <1>1, <1>5 DEF Read, Types
  <2>2. /\ Ids' = Ids
        /\ \A r \in Ids : /\ sessions'[r].active = sessions[r].active
                           /\ sessions'[r].capability_previous = sessions[r].capability_previous
    BY <1>1, <1>5, ReadNotes
  <2>3. \A r \in Ids : sessions'[r].has_mt = sessions[r].has_mt
    <3>1. sessions' = [sessions EXCEPT ![target.mt].auto_values = @ \cup {n}]
          /\ \A r \in Ids : sessions[r] \in Record
      BY <1>1, <1>5 DEF Read, Types, Ids
    <3> QED
      BY <3>1 DEF Record, Ids
  <2> QED
    BY <2>1, <2>2, <2>3, ListedKept
<1>6. ASSUME NEW n \in Names, NEW v \in {User, Nil}, Assign(n, v) PROVE Listed'
  <2>1. /\ sessions' = sessions /\ Ids' = Ids
        /\ target'.stack = target.stack /\ target'.mt = target.mt /\ target'.caps = target.caps
    BY <1>1, <1>6 DEF Assign, Types, Ids
  <2> QED
    BY <2>1, ListedKept
<1>7. CASE UNCHANGED vars
  <2>1. sessions' = sessions /\ target' = target /\ Ids' = Ids
    BY <1>7 DEF vars, Ids
  <2> QED
    BY <2>1, ListedKept
<1> QED
  BY <1>2, <1>3, <1>4, <1>5, <1>6, <1>7 DEF Next

\* In whatever order sessions are opened and closed, the scope stack lists the
\* open ones as they were opened, the newest that makes symbols has the
\* metatable on, and what only it provides is its own.
THEOREM ScopesAreKept == Spec => []ScopesAreListed
<1>1. Listed => ScopesAreListed
  <2> SUFFICES ASSUME Listed PROVE ScopesAreListed
    OBVIOUS
  <2>1. Lists(target.stack, OpenIds) /\ MtIsNewest /\ CapsAreNewest
    BY DEF Listed
  <2>2. DOMAIN target.stack = 1 .. Len(target.stack)
    BY <2>1 DEF Lists
  <2>3. {target.stack[i] : i \in DOMAIN target.stack} = {s \in Ids : Active(s)}
    BY <2>1, <2>2 DEF Lists, OpenIds
  <2>4. \A i, j \in DOMAIN target.stack : i < j => target.stack[i] < target.stack[j]
    BY <2>1, <2>2 DEF Lists
  <2> QED
    BY <2>1, <2>3, <2>4 DEF ScopesAreListed, MtIsNewest, CapsAreNewest
<1>2. Inv => Types
  BY DEF Inv
<1> QED
  BY <1>1, <1>2, ListedInit, ListedNext, InvHolds, PTL DEF Spec

---------------------------------------------------------------------------
(* Sessions closed in the reverse of their order are the layers of Overlays: *)
(* every step of UseSession is a step of it, or changes nothing that it      *)
(* speaks of.                                                                *)

IsFirst(x, S) == x \in S /\ \A t \in S : x <= t

\* What Overlays calls base and layers.
Base == [n \in Names |-> Below(n, 0)]

Layers == [i \in DOMAIN target.stack |->
             [n \in DOMAIN sessions[target.stack[i]].previous |-> Below(n, target.stack[i])]]

---------------------------------------------------------------------------
(* The scope stack is the open sessions in the order they were opened; a     *)
(* closed one has nothing put aside; of those that put a name aside one was  *)
(* the first.                                                                *)

Stacked ==
    /\ target.stack \in Seq(Ids)
    /\ \A i \in DOMAIN target.stack : Active(target.stack[i])
    /\ \A i, j \in DOMAIN target.stack : i < j => target.stack[i] < target.stack[j]
    /\ \A s \in Ids : Active(s) => \E i \in DOMAIN target.stack : target.stack[i] = s
    /\ \A n \in Names, from \in 0 .. Len(sessions) :
          Owners(n, from) # {} => \E x : IsFirst(x, Owners(n, from))

StackInv ==
    /\ Types
    /\ \A s \in Ids : ~Active(s) => DOMAIN sessions[s].previous = {}
    /\ orderly => Stacked

---------------------------------------------------------------------------
(* Sequences and first elements.                                             *)

LEMMA SeqOfFunction ==
    ASSUME NEW k \in Nat, NEW S, NEW f \in [1 .. k -> S]
    PROVE  f \in Seq(S) /\ Len(f) = k
BY SeqDef, LenProperties

LEMMA AppendOfFunction ==
    ASSUME NEW k \in Nat, NEW S, NEW f \in [1 .. k -> S], NEW e \in S,
           NEW g \in [1 .. k + 1 -> S],
           \A i \in 1 .. k : g[i] = f[i], g[k + 1] = e
    PROVE  g = Append(f, e)
<1>1. /\ f \in Seq(S) /\ Len(f) = k /\ g \in Seq(S) /\ Len(g) = k + 1
  BY SeqOfFunction
<1>2. /\ Append(f, e) \in Seq(S) /\ Len(Append(f, e)) = k + 1
      /\ \A i \in 1 .. k : Append(f, e)[i] = f[i]
      /\ Append(f, e)[k + 1] = e
  BY <1>1, AppendProperties
<1>3. \A i \in 1 .. k + 1 : g[i] = Append(f, e)[i]
  BY <1>2
<1> QED
  BY <1>1, <1>2, <1>3, SeqEqual

LEMMA FrontOfFunction ==
    ASSUME NEW k \in Nat \ {0}, NEW S, NEW f \in [1 .. k -> S],
           NEW g \in [1 .. k - 1 -> S], \A i \in 1 .. k - 1 : g[i] = f[i]
    PROVE  g = SubSeq(f, 1, k - 1)
<1>1. /\ f \in Seq(S) /\ Len(f) = k /\ g \in Seq(S) /\ Len(g) = k - 1
  BY SeqOfFunction
<1>2. /\ SubSeq(f, 1, k - 1) \in Seq(S) /\ Len(SubSeq(f, 1, k - 1)) = k - 1
      /\ \A i \in 1 .. k - 1 : SubSeq(f, 1, k - 1)[i] = f[i]
  <2>1. /\ 1 \in 1 .. k + 1 /\ k - 1 \in 0 .. k /\ k + 1 = Len(f) + 1
    BY <1>1
  <2> QED
    BY <1>1, <2>1, SubSeqProperties
<1> QED
  BY <1>1, <1>2, SeqEqual

LEMMA FirstIs ==
    ASSUME NEW S \in SUBSET Nat, NEW x, IsFirst(x, S)
    PROVE  First(S) = x
<1>1. First(S) \in S /\ \A t \in S : First(S) <= t
  BY DEF First, IsFirst
<1>2. /\ First(S) \in Nat /\ x \in Nat /\ First(S) <= x /\ x <= First(S)
  BY <1>1 DEF IsFirst
<1> QED
  BY <1>2

LEMMA OwnersAreNat ==
    ASSUME NEW n, NEW from \in Nat, Types
    PROVE  Owners(n, from) \in SUBSET Nat
BY DEF Owners, Types

---------------------------------------------------------------------------
(* What a step leaves below the sessions that are open.                      *)

\* A name that someone put aside is the same below whatever is bound above,
\* and however many sessions are opened later.
LEMMA SameBelow ==
    ASSUME Types, Stacked, NEW n \in Names, NEW from \in 0 .. Len(sessions),
           Owners(n, from) # {}, Types', Len(sessions') >= Len(sessions),
           \A s \in Ids : sessions'[s].previous = sessions[s].previous
    PROVE  Below(n, from)' = Below(n, from)
<1>1. /\ Len(sessions) \in Nat /\ Len(sessions') \in Nat /\ Ids = 1 .. Len(sessions)
      /\ from \in Nat
  BY DEF Types, Ids
<1>2. PICK x : IsFirst(x, Owners(n, from))
  BY DEF Stacked
<1>3. x \in Ids /\ sessions'[x].previous = sessions[x].previous
  BY <1>1, <1>2 DEF IsFirst, Owners
<1>4. First(Owners(n, from)) = x
  BY <1>1, <1>2, FirstIs, OwnersAreNat
<1>5. Owners(n, from)' # {} /\ First(Owners(n, from)') = x
  <2> DEFINE S == Owners(n, from)'
  <2>1. S \in SUBSET Nat
    BY <1>1 DEF Owners
  <2>2. IsFirst(x, S)
    <3>1. \A t \in S : t \in Owners(n, from) \/ t > Len(sessions)
      BY <1>1 DEF Owners
    <3>2. x \in S /\ x <= Len(sessions)
      BY <1>1, <1>2, <1>3 DEF Owners, IsFirst
    <3>3. \A t \in S : x <= t
      BY <1>1, <1>2, <1>3, <2>1, <3>1, <3>2 DEF IsFirst
    <3> QED
      BY <3>2, <3>3 DEF IsFirst
  <2> HIDE DEF S
  <2>3. S # {} /\ First(S) = x
    BY <2>1, <2>2, FirstIs DEF IsFirst
  <2> QED
    BY <2>3 DEF S
<1> QED
  BY <1>3, <1>4, <1>5 DEF Below

\* What nobody put aside is below what is seen.
LEMMA NoOwner ==
    ASSUME NEW n, NEW from, Owners(n, from) = {}
    PROVE  Below(n, from) = Clean(target.bind[n])
BY DEF Below

\* The stack and the layers.
LayersAre ==
    /\ Len(target.stack) \in Nat /\ DOMAIN target.stack = 1 .. Len(target.stack)
    /\ DOMAIN Layers = 1 .. Len(target.stack)
    /\ \A i \in 1 .. Len(target.stack) :
          /\ target.stack[i] \in Ids
          /\ DOMAIN Layers[i] = DOMAIN sessions[target.stack[i]].previous
          /\ DOMAIN Layers[i] \subseteq Names
          /\ \A n \in DOMAIN Layers[i] : Layers[i][n] = Below(n, target.stack[i])
    /\ Len(Layers) = Len(target.stack)

LEMMA LayerIs == Types /\ Stacked => LayersAre
<1> SUFFICES ASSUME Types, Stacked PROVE LayersAre
  OBVIOUS
<1>1. Len(target.stack) \in Nat /\ DOMAIN target.stack = 1 .. Len(target.stack)
      /\ \A i \in 1 .. Len(target.stack) : target.stack[i] \in Ids
  BY LenProperties DEF Stacked
<1>2. /\ DOMAIN Layers = 1 .. Len(target.stack)
      /\ \A i \in 1 .. Len(target.stack) :
            /\ DOMAIN Layers[i] = DOMAIN sessions[target.stack[i]].previous
            /\ \A n \in DOMAIN Layers[i] : Layers[i][n] = Below(n, target.stack[i])
  BY <1>1 DEF Layers
<1>3. ASSUME NEW s \in Ids PROVE DOMAIN sessions[s].previous \subseteq Names
  <2>1. sessions[s] \in Record
    BY DEF Types, Ids
  <2>2. PICK S \in SUBSET Names : sessions[s].previous \in [S -> Bindings]
    BY <2>1 DEF Record
  <2> QED
    BY <2>2
<1>4. Len(Layers) = Len(target.stack)
  <2> DEFINE S == {Layers[i] : i \in 1 .. Len(target.stack)}
             f == Layers
  <2>1. f = [i \in 1 .. Len(target.stack) |-> f[i]]
    BY <1>1 DEF Layers
  <2>2. \A i \in 1 .. Len(target.stack) : f[i] \in S
    OBVIOUS
  <2> HIDE DEF S, f
  <2>3. f \in [1 .. Len(target.stack) -> S]
    BY <2>1, <2>2
  <2> QED
    BY <1>1, <2>3, SeqOfFunction DEF f
<1> QED
  BY <1>1, <1>2, <1>3, <1>4 DEF LayersAre

\* Whatever is bound meanwhile, only what is seen changes below it.
LEMMA OnlySeenIsWritten ==
    ASSUME StackInv, StackInv', orderly, orderly',
           Len(sessions') >= Len(sessions), Len(target.stack') >= Len(target.stack),
           \A s \in Ids : sessions'[s].previous = sessions[s].previous,
           \A i \in 1 .. Len(target.stack) : target'.stack[i] = target.stack[i]
    PROVE  Layered!Written(Base, Layers, Base', Layers')
<1>1. Types /\ Stacked /\ Types' /\ Stacked'
  BY DEF StackInv
<1>2. Len(sessions) \in Nat /\ Ids = 1 .. Len(sessions)
  BY <1>1 DEF Types, Ids
<1>3. LayersAre
  BY <1>1, LayerIs
<1>4. LayersAre'
  <2>1. Types' /\ Stacked' => LayersAre'
    BY LayerIs, PTL
  <2> QED
    BY <1>1, <2>1
<1>5. ASSUME NEW n \in Names, NEW from \in 0 .. Len(sessions), Owners(n, from) # {}
      PROVE  Below(n, from)' = Below(n, from)
  BY <1>1, <1>5, SameBelow
<1>6. ASSUME NEW n \in Names PROVE Layered!Seen(Layers, n, 0) \/ Base'[n] = Base[n]
  <2>1. CASE Owners(n, 0) = {}
    <3>1. ASSUME NEW j \in 1 .. Len(Layers), n \in DOMAIN Layers[j] PROVE FALSE
      <4>1. target.stack[j] \in Owners(n, 0)
        BY <1>2, <1>3, <3>1 DEF Owners, LayersAre
      <4> QED
        BY <2>1, <4>1
    <3> QED
      BY <3>1 DEF Layered!Seen
  <2>2. CASE Owners(n, 0) # {}
    BY <1>2, <1>5, <2>2 DEF Base
  <2> QED
    BY <2>1, <2>2
<1>7. ASSUME NEW i \in DOMAIN Layers
      PROVE  /\ DOMAIN Layers'[i] = DOMAIN Layers[i]
             /\ \A n \in DOMAIN Layers[i] :
                   Layered!Seen(Layers, n, i) \/ Layers'[i][n] = Layers[i][n]
  <2> DEFINE from == target.stack[i]
  <2>1. i \in 1 .. Len(target.stack) /\ from \in Ids /\ from \in 0 .. Len(sessions)
    BY <1>2, <1>3 DEF LayersAre
  <2>2. i \in 1 .. Len(target.stack') /\ target'.stack[i] = from
    BY <1>3, <1>4, <2>1 DEF LayersAre
  <2>3. DOMAIN Layers'[i] = DOMAIN Layers[i]
    BY <1>3, <1>4, <2>1, <2>2 DEF LayersAre
  <2>4. ASSUME NEW n \in DOMAIN Layers[i], ~Layered!Seen(Layers, n, i)
        PROVE  Layers'[i][n] = Layers[i][n]
    <3>1. PICK j \in i + 1 .. Len(Layers) : n \in DOMAIN Layers[j]
      BY <2>4 DEF Layered!Seen
    <3>2. n \in Names /\ j \in 1 .. Len(target.stack) /\ i < j /\ target.stack[j] \in Ids
      BY <1>3, <2>1, <3>1 DEF LayersAre
    <3>3. target.stack[j] \in Owners(n, from)
      <4>1. from < target.stack[j]
        BY <1>1, <1>3, <2>1, <3>2 DEF Stacked, LayersAre
      <4>2. n \in DOMAIN sessions[target.stack[j]].previous
        BY <1>3, <3>1, <3>2 DEF LayersAre
      <4> QED
        BY <1>2, <2>1, <3>2, <4>1, <4>2 DEF Owners
    <3>4. ASSUME NEW f, f = from PROVE Below(n, f)' = Below(n, f)
      BY <1>5, <2>1, <3>2, <3>3, <3>4
    <3>5. Layers'[i][n] = Below(n, target.stack[i])' /\ Layers[i][n] = Below(n, target.stack[i])
      BY <1>3, <1>4, <2>1, <2>2, <2>3, <2>4 DEF LayersAre
    <3> QED
      BY <2>2, <3>4, <3>5
  <2> QED
    BY <2>3, <2>4
<1> QED
  BY <1>6, <1>7 DEF Layered!Written
---------------------------------------------------------------------------
(* The stack under each step.                                                *)

LEMMA StackInit == Init => StackInv
<1> SUFFICES ASSUME Init PROVE StackInv
  OBVIOUS
<1>1. Types
  BY InitInv DEF Inv
<1>2. target.stack = <<>> /\ sessions = <<>>
  BY DEF Init
<1>3. Len(sessions) = 0 /\ DOMAIN target.stack = {} /\ Ids = {}
  BY <1>2 DEF Ids
<1>4. \A n, from : from \in 0 .. Len(sessions) => Owners(n, from) = {}
  BY <1>3 DEF Owners
<1> QED
  BY <1>1, <1>2, <1>3, <1>4 DEF StackInv, Stacked

\* A step that neither opens a session nor closes one.
LEMMA StackKept ==
    ASSUME StackInv, Types', Len(sessions') = Len(sessions), Ids' = Ids,
           target.stack' = target.stack, orderly' = orderly,
           \A s \in Ids : /\ sessions'[s].active = sessions[s].active
                          /\ sessions'[s].previous = sessions[s].previous
    PROVE  StackInv'
<1>1. \A s \in Ids' : ~Active(s)' => DOMAIN sessions'[s].previous = {}
  BY DEF StackInv, Active
<1>2. ASSUME orderly' PROVE Stacked'
  <2>1. Stacked
    BY <1>2 DEF StackInv
  <2>2. Ids = 1 .. Len(sessions) /\ Len(sessions) \in Nat
    BY DEF StackInv, Types, Ids
  <2>3. ASSUME NEW n, NEW from \in 0 .. Len(sessions)
        PROVE  Owners(n, from)' = Owners(n, from)
    BY <2>2 DEF Owners
  <2>4. \A i \in DOMAIN target.stack : target.stack[i] \in Ids
    BY <2>1, LenProperties DEF Stacked
  <2>5. \A s \in Ids : Active(s)' <=> Active(s)
    BY DEF Active
  <2>6. \A n \in Names, from \in 0 .. Len(sessions') :
           Owners(n, from)' # {} => \E x : IsFirst(x, Owners(n, from)')
    BY <2>1, <2>3 DEF Stacked
  <2> QED
    BY <2>1, <2>4, <2>5, <2>6 DEF Stacked
<1> QED
  BY <1>1, <1>2 DEF StackInv

LEMMA UseStacks ==
    ASSUME StackInv, Types', NEW o \in Options, Use(o)
    PROVE  StackInv'
<1> DEFINE s == Len(sessions) + 1
<1>1. Types /\ Len(sessions) \in Nat /\ Ids = 1 .. Len(sessions)
  BY DEF StackInv, Types, Ids
<1>2. /\ target'.stack = Append(target.stack, s) /\ orderly' = orderly
      /\ Len(sessions') = s /\ Ids' = 1 .. s
      /\ sessions'[s] = New(o) /\ New(o).active = TRUE
      /\ \A r \in Ids : sessions'[r] = sessions[r]
  <2>1. New(o).active = TRUE
    BY <1>1, NewRecord
  <2>2. target'.stack = Append(target.stack, s)
    BY DEF Use
  <2> QED
    BY <1>1, <2>1, <2>2, UseOpens
<1>3. \A r \in Ids : Active(r)' <=> Active(r)
  BY <1>2 DEF Active
<1>4. \A r \in Ids' : ~Active(r)' => DOMAIN sessions'[r].previous = {}
  <2>1. ASSUME NEW r, r = s PROVE Active(r)'
    BY <1>2, <2>1 DEF Active
  <2> QED
    BY <1>1, <1>2, <1>3, <2>1 DEF StackInv
<1>5. ASSUME orderly' PROVE Stacked'
  <2>1. Stacked
    BY <1>2, <1>5 DEF StackInv
  <2> DEFINE stack == target.stack
             k == Len(stack)
             new == target'.stack
  <2>2. /\ stack \in Seq(Ids) /\ k \in Nat /\ DOMAIN stack = 1 .. k
        /\ \A i \in 1 .. k : stack[i] \in Ids
    BY <2>1, LenProperties DEF Stacked
  <2>3. /\ new \in Seq(Ids') /\ DOMAIN new = 1 .. k + 1 /\ new[k + 1] = s
        /\ \A i \in 1 .. k : new[i] = stack[i]
    <3>1. Ids \subseteq Ids' /\ s \in Ids'
      BY <1>1, <1>2
    <3>2. stack \in Seq(Ids')
      BY <2>2, <3>1, SeqMonotonic
    <3> HIDE DEF stack, s
    <3>3. Append(stack, s) \in Seq(Ids') /\ Len(Append(stack, s)) = k + 1
          /\ Append(stack, s)[k + 1] = s
          /\ \A i \in 1 .. k : Append(stack, s)[i] = stack[i]
      BY <3>1, <3>2, AppendProperties
    <3>4. new = Append(stack, s)
      BY <1>2 DEF stack, s
    <3>5. DOMAIN new = 1 .. k + 1
      BY <3>3, <3>4, LenProperties
    <3> QED
      BY <3>3, <3>4, <3>5
  <2> HIDE DEF new, stack
  <2>4. \A i \in 1 .. k + 1 : new[i] \in Ids' /\ (i \in 1 .. k \/ (i = k + 1 /\ new[i] = s))
    BY <1>1, <1>2, <2>2, <2>3
  <2>5. ASSUME NEW i \in 1 .. k + 1, NEW r, r = new[i] PROVE Active(r)'
    <3>1. CASE i \in 1 .. k
      BY <1>3, <2>1, <2>2, <2>3, <2>5, <3>1 DEF Stacked, stack
    <3>2. CASE r = s
      BY <1>2, <3>2 DEF Active
    <3> QED
      BY <2>4, <2>5, <3>1, <3>2
  <2>6. ASSUME NEW i \in 1 .. k + 1, NEW j \in 1 .. k + 1, i < j PROVE new[i] < new[j]
    <3>1. i \in 1 .. k /\ new[i] = stack[i] /\ stack[i] \in 1 .. Len(sessions)
      BY <1>1, <2>2, <2>3, <2>6
    <3>2. CASE j \in 1 .. k
      BY <2>1, <2>2, <2>3, <2>6, <3>1, <3>2 DEF Stacked, stack
    <3>3. CASE j = k + 1
      BY <1>1, <2>3, <3>1, <3>3
    <3> QED
      BY <2>2, <3>2, <3>3
  <2>7. ASSUME NEW r \in Ids', Active(r)' PROVE \E i \in 1 .. k + 1 : new[i] = r
    <3>1. CASE r = s
      BY <2>2, <2>3, <3>1
    <3>2. CASE r \in Ids
      <4>1. PICK i \in 1 .. k : stack[i] = r
        BY <1>3, <2>1, <2>2, <2>7, <3>2 DEF Stacked, stack
      <4> QED
        BY <2>2, <2>3, <4>1
    <3> QED
      BY <1>1, <1>2, <3>1, <3>2
  <2>8. ASSUME NEW n \in Names, NEW from \in 0 .. s, Owners(n, from)' # {}
        PROVE  \E x : IsFirst(x, Owners(n, from)')
    <3>1. \A t \in Owners(n, from)' : t \in 1 .. s /\ (t = s \/ (from <= Len(sessions) /\ t \in Owners(n, from)))
      BY <1>1, <1>2 DEF Owners
    <3>2. CASE \E t \in Owners(n, from)' : t # s
      <4>1. from \in 0 .. Len(sessions) /\ Owners(n, from) # {}
        BY <1>1, <3>1, <3>2
      <4>2. PICK x : IsFirst(x, Owners(n, from))
        BY <2>1, <4>1 DEF Stacked
      <4>3. x \in Owners(n, from)' /\ x <= s
        BY <1>1, <1>2, <4>2 DEF Owners, IsFirst
      <4> QED
        BY <3>1, <4>2, <4>3 DEF IsFirst
    <3>3. CASE ~ \E t \in Owners(n, from)' : t # s
      <4>1. IsFirst(s, Owners(n, from)')
        BY <1>1, <2>8, <3>3 DEF IsFirst
      <4> QED
        BY <4>1
    <3> QED
      BY <3>2, <3>3
  <2> QED
    BY <1>2, <2>3, <2>4, <2>5, <2>6, <2>7, <2>8 DEF Stacked, new
<1> QED
  BY <1>4, <1>5 DEF StackInv
\* Closed in order, the session is the last of the stack.
LEMMA LastIsClosed ==
    ASSUME StackInv, NEW s \in Ids, Close(s), orderly'
    PROVE  /\ orderly /\ \A t \in Ids : t > s => ~Active(t)
           /\ Len(target.stack) \in Nat \ {0} /\ target.stack[Len(target.stack)] = s
           /\ target'.stack = [i \in 1 .. Len(target.stack) - 1 |-> target.stack[i]]
<1> DEFINE stack == target.stack
           k == Len(stack)
<1>1. orderly' = (orderly /\ \A t \in Ids : t > s => ~Active(t))
  BY DEF Close
<1>2. orderly /\ \A t \in Ids : t > s => ~Active(t)
  BY <1>1, Zenon
<1>3. Stacked /\ Active(s) /\ Ids = 1 .. Len(sessions) /\ Len(sessions) \in Nat
  BY <1>2 DEF StackInv, Close, Types, Ids
<1>4. k \in Nat /\ DOMAIN stack = 1 .. k /\ \A i \in 1 .. k : stack[i] \in Ids
  BY <1>3, LenProperties DEF Stacked
<1>10. /\ \A i \in 1 .. k : Active(stack[i])
       /\ \A i, j \in 1 .. k : i < j => stack[i] < stack[j]
  BY <1>3, <1>4 DEF Stacked
<1>5. PICK p \in 1 .. k : stack[p] = s
  BY <1>3, <1>4 DEF Stacked
<1>6. p = k
  <2>1. ASSUME p < k PROVE FALSE
    <3>1. k \in 1 .. k /\ stack[p] < stack[k] /\ Active(stack[k]) /\ stack[k] \in Ids
      BY <1>4, <1>5, <1>10, <2>1
    <3> QED
      BY <1>2, <1>3, <1>5, <3>1
  <2> QED
    BY <1>4, <1>5, <2>1
<1>7. k \in Nat \ {0} /\ stack[k] = s
  BY <1>4, <1>5, <1>6
<1>8. (CHOOSE i \in DOMAIN stack : stack[i] = s) = k
  <2>1. ASSUME NEW i \in 1 .. k, stack[i] = s PROVE i = k
    <3>1. ~(i < k)
      BY <1>3, <1>4, <1>7, <1>10, <2>1
    <3> QED
      BY <1>7, <3>1
  <2>2. k \in DOMAIN stack /\ stack[k] = s /\ \A i \in DOMAIN stack : stack[i] = s => i = k
    BY <1>4, <1>7, <2>1
  <2> HIDE DEF stack, k
  <2> QED
    BY <2>2
<1>9. target'.stack = [i \in 1 .. k - 1 |-> stack[i]]
  <2>1. target'.stack = [i \in 1 .. k - 1 |-> IF i < k THEN stack[i] ELSE stack[i + 1]]
    BY <1>8 DEF Close, RemoveScope
  <2> HIDE DEF stack
  <2>2. [i \in 1 .. k - 1 |-> IF i < k THEN stack[i] ELSE stack[i + 1]] = [i \in 1 .. k - 1 |-> stack[i]]
    BY <1>7
  <2> QED
    BY <2>1, <2>2
<1> QED
  BY <1>2, <1>7, <1>9

LEMMA CloseStacks ==
    ASSUME StackInv, Types', NEW s \in Ids, Close(s)
    PROVE  StackInv'
<1>1. Types /\ Len(sessions) \in Nat /\ Ids = 1 .. Len(sessions)
  BY DEF StackInv, Types, Ids
<1>2. /\ Len(sessions') = Len(sessions) /\ Ids' = Ids
      /\ sessions'[s].active = FALSE /\ DOMAIN sessions'[s].previous = {}
      /\ \A r \in Ids : r # s => sessions'[r] = sessions[r]
  BY <1>1, CloseCloses
<1>3. \A r \in Ids' : ~Active(r)' => DOMAIN sessions'[r].previous = {}
  BY <1>2 DEF StackInv, Active
<1>4. ASSUME orderly' PROVE Stacked'
  <2> DEFINE stack == target.stack
             k == Len(stack)
             new == target'.stack
  <2>1. /\ orderly /\ \A t \in Ids : t > s => ~Active(t)
        /\ k \in Nat \ {0} /\ stack[k] = s /\ new = [i \in 1 .. k - 1 |-> stack[i]]
    BY <1>4, LastIsClosed
  <2>2. Stacked
    BY <2>1 DEF StackInv
  <2>3. DOMAIN stack = 1 .. k /\ \A i \in 1 .. k : stack[i] \in Ids
    BY <2>2, LenProperties DEF Stacked
  <2>10. /\ \A i \in 1 .. k : Active(stack[i])
         /\ \A i, j \in 1 .. k : i < j => stack[i] < stack[j]
    BY <2>2, <2>3 DEF Stacked
  <2>4. ASSUME NEW i \in 1 .. k - 1 PROVE stack[i] \in Ids' /\ stack[i] < s
    BY <1>2, <2>1, <2>3, <2>10
  <2>5. new \in Seq(Ids') /\ DOMAIN new = 1 .. k - 1 /\ \A i \in 1 .. k - 1 : new[i] = stack[i]
    <3> HIDE DEF stack, new
    <3>1. new \in [1 .. k - 1 -> Ids'] /\ k - 1 \in Nat
      BY <2>1, <2>4
    <3>2. new \in Seq(Ids')
      BY <3>1, SeqOfFunction
    <3> QED
      BY <2>1, <3>2
  <2> HIDE DEF new, stack
  <2>6. ASSUME NEW i \in 1 .. k - 1, NEW r, r = new[i] PROVE Active(r)'
    <3>1. i \in 1 .. k /\ r = stack[i] /\ r \in Ids /\ r < s
      BY <1>2, <2>1, <2>4, <2>5, <2>6
    <3>2. sessions'[r] = sessions[r] /\ Active(r)
      BY <1>1, <1>2, <2>10, <3>1
    <3> QED
      BY <3>2 DEF Active
  <2>7. \A i, j \in 1 .. k - 1 : i < j => new[i] < new[j]
    BY <2>1, <2>5, <2>10
  <2>8. ASSUME NEW r \in Ids', Active(r)' PROVE \E i \in 1 .. k - 1 : new[i] = r
    <3>1. r # s /\ r \in Ids /\ Active(r)
      BY <1>2, <2>8 DEF Active
    <3>2. PICK i \in 1 .. k : stack[i] = r
      BY <2>2, <2>3, <3>1 DEF Stacked, stack
    <3>3. i \in 1 .. k - 1
      BY <2>1, <3>1, <3>2
    <3> QED
      BY <2>5, <3>2, <3>3
  <2>9. ASSUME NEW n \in Names, NEW from \in 0 .. Len(sessions), Owners(n, from)' # {}
        PROVE  \E x : IsFirst(x, Owners(n, from)')
    <3>1. \A t : t \in Owners(n, from)' => t \in Owners(n, from) /\ t # s
      BY <1>1, <1>2 DEF Owners
    <3>2. PICK x : IsFirst(x, Owners(n, from))
      BY <2>2, <2>9, <3>1 DEF Stacked
    <3>3. \A t \in Owners(n, from) : t \in Ids /\ Active(t)
      BY <1>1 DEF Owners, StackInv
    <3>4. x # s
      <4>1. PICK t : t \in Owners(n, from)'
        BY <2>9
      <4>2. t \in Owners(n, from) /\ t # s /\ x <= t /\ t \in Ids /\ ~(t > s)
        BY <2>1, <3>1, <3>2, <3>3, <4>1 DEF IsFirst
      <4> QED
        BY <1>1, <3>2, <3>3, <4>2 DEF IsFirst
    <3>5. x \in Owners(n, from)'
      BY <1>1, <1>2, <3>2, <3>4 DEF IsFirst, Owners
    <3> QED
      BY <3>1, <3>2, <3>5 DEF IsFirst
  <2> QED
    BY <1>2, <2>5, <2>6, <2>7, <2>8, <2>9 DEF Stacked, new
<1> QED
  BY <1>3, <1>4 DEF StackInv
---------------------------------------------------------------------------
(* The steps of Overlays.                                                    *)

\* Two lists of layers that agree up to k.
FunctionsAre ==
    /\ Layers = [i \in DOMAIN Layers |-> Layers[i]]
    /\ \A i \in DOMAIN Layers : Layers[i] = [n \in DOMAIN Layers[i] |-> Layers[i][n]]

LEMMA LayersAreFunctions == FunctionsAre
BY DEF FunctionsAre, Layers

LEMMA SameLayer ==
    ASSUME NEW i, NEW j, i \in DOMAIN Layers, i \in DOMAIN Layers', j = i,
           DOMAIN Layers'[i] = DOMAIN Layers[i],
           \A n \in DOMAIN Layers[i] : Layers'[i][n] = Layers[i][n]
    PROVE  Layers'[i] = Layers[i]
<1> DEFINE f == Layers'[i]
           g == Layers[i]
<1>1. f = [n \in DOMAIN f |-> f[n]] /\ g = [n \in DOMAIN g |-> g[n]]
  <2>1. FunctionsAre'
    BY LayersAreFunctions, PTL
  <2> QED
    BY <2>1, LayersAreFunctions DEF FunctionsAre
<1>2. DOMAIN f = DOMAIN g /\ \A n \in DOMAIN g : f[n] = g[n]
  OBVIOUS
<1> HIDE DEF f, g
<1>3. f = g
  BY <1>1, <1>2
<1> QED
  BY <1>3 DEF f, g

LEMMA InitMaps == Init => Layered!Init
<1> SUFFICES ASSUME Init PROVE Layered!Init
  OBVIOUS
<1>1. StackInv /\ orderly = TRUE
  BY StackInit DEF Init
<1>2. sessions = <<>> /\ target.stack = <<>> /\ \A n \in Names : target.bind[n] = Nil
  BY DEF Init
<1>3. \A n \in Names : Below(n, 0) = Nil
  <2>1. Len(sessions) = 0
    BY <1>2
  <2>2. \A n : Owners(n, 0) = {}
    BY <2>1 DEF Owners
  <2>3. Clean(Nil) = Nil
    BY DEF Clean, Nil, Value
  <2> QED
    BY <1>2, <2>2, <2>3 DEF Below
<1>4. Layers = <<>>
  BY <1>2 DEF Layers
<1> QED
  BY <1>1, <1>3, <1>4 DEF Layered!Init, Layers

\* Binding names, from outside or by a symbol, is a write.
LEMMA WriteMaps ==
    ASSUME StackInv, StackInv', orderly, orderly', Len(sessions') = Len(sessions),
           target'.stack = target.stack,
           \A s \in Ids : sessions'[s].previous = sessions[s].previous
    PROVE  Layered!Write
<1>1. Types /\ Stacked /\ Types' /\ Stacked'
  BY DEF StackInv
<1>2. LayersAre /\ LayersAre'
  <2>1. Types' /\ Stacked' => LayersAre'
    BY LayerIs, PTL
  <2> QED
    BY <1>1, <2>1, LayerIs
<1>3. Len(Layers') = Len(Layers)
  BY <1>2 DEF LayersAre
<1>4. Layered!Written(Base, Layers, Base', Layers')
  <2>1. Len(sessions) \in Nat /\ Len(target.stack) \in Nat
    BY <1>1, <1>2 DEF Types, LayersAre
  <2> QED
    BY <2>1, OnlySeenIsWritten
<1> QED
  BY <1>3, <1>4 DEF Layered!Write, Base, Layers

\* What a use hides is below it what was seen.
LEMMA UseHides ==
    ASSUME StackInv, StackInv', orderly, orderly', NEW o \in Options, Use(o), o.scope # "env",
           NEW n \in Names, NEW from \in 0 .. Len(sessions)
    PROVE  Below(n, from)' = Below(n, from)
<1> DEFINE s == Len(sessions) + 1
<1>1. /\ Types /\ Stacked /\ Types' /\ Len(sessions) \in Nat /\ Ids = 1 .. Len(sessions)
      /\ from \in Nat
  BY DEF StackInv, Types, Ids
<1>2. /\ target'.bind = BindAfter(o) /\ Len(sessions') = s
      /\ sessions'[s].previous = [m \in Installed(o) |-> target.bind[m]]
      /\ \A r \in Ids : sessions'[r] = sessions[r]
  <2>1. sessions'[s] = New(o) /\ Len(sessions') = s /\ target'.bind = BindAfter(o)
        /\ \A r \in Ids : sessions'[r] = sessions[r]
    BY <1>1, UseOpens
  <2>2. New(o).previous = [m \in Installed(o) |-> target.bind[m]]
    BY DEF New
  <2> QED
    BY <2>1, <2>2
<1>3. CASE Owners(n, from) # {}
  BY <1>1, <1>2, <1>3, SameBelow
<1>4. CASE Owners(n, from) = {}
  <2>1. Below(n, from) = Clean(target.bind[n])
    BY <1>4, NoOwner
  <2>2. \A t : t \in Owners(n, from)' <=> t = s /\ n \in Installed(o)
    BY <1>1, <1>2, <1>4 DEF Owners
  <2>3. CASE n \in Installed(o)
    <3>1. Owners(n, from)' # {} /\ First(Owners(n, from)') = s
      <4> DEFINE S == Owners(n, from)'
      <4>1. S \in SUBSET Nat /\ IsFirst(s, S) /\ S # {}
        BY <1>1, <2>2, <2>3 DEF IsFirst
      <4> HIDE DEF S
      <4>2. First(S) = s
        BY <4>1, FirstIs
      <4> QED
        BY <4>1, <4>2 DEF S
    <3> QED
      BY <1>2, <2>1, <2>3, <3>1 DEF Below
  <2>4. CASE n \notin Installed(o)
    <3>1. Owners(n, from)' = {}
      BY <2>2, <2>4
    <3>2. target'.bind[n] = target.bind[n]
      BY <1>2, <2>4 DEF BindAfter
    <3> QED
      BY <2>1, <3>1, <3>2 DEF Below
  <2> QED
    BY <2>3, <2>4
<1> QED
  BY <1>3, <1>4

\* A use opens a layer.
LEMMA UseMaps ==
    ASSUME StackInv, StackInv', orderly, orderly', NEW o \in Options, Use(o)
    PROVE  Layered!Open
<1> DEFINE s == Len(sessions) + 1
           k == Len(target.stack)
           top == Layers'[Len(Layers')]
<1>1. /\ Types /\ Stacked /\ Types' /\ Stacked' /\ Len(sessions) \in Nat
      /\ Ids = 1 .. Len(sessions)
  BY DEF StackInv, Types, Ids
<1>2. LayersAre /\ LayersAre'
  <2>1. Types' /\ Stacked' => LayersAre'
    BY LayerIs, PTL
  <2> QED
    BY <1>1, <2>1, LayerIs
<1>3. /\ Len(sessions') = s /\ sessions'[s] = New(o)
      /\ \A r \in Ids : sessions'[r] = sessions[r]
  BY <1>1, UseOpens
<1>4. /\ k \in Nat /\ Len(target.stack') = k + 1 /\ target'.stack[k + 1] = s
      /\ \A i \in 1 .. k : target'.stack[i] = target.stack[i]
  <2>1. target'.stack = Append(target.stack, s)
    BY DEF Use
  <2>2. target.stack \in Seq(Nat)
    <3>1. Ids \subseteq Nat
      BY <1>1
    <3> QED
      BY <1>1, <3>1, SeqMonotonic DEF Stacked
  <2>3. s \in Nat
    BY <1>1
  <2> HIDE DEF s
  <2> QED
    BY <2>1, <2>2, <2>3, AppendProperties, LenProperties
<1>5. Len(Layers) = k /\ Len(Layers') = k + 1
  BY <1>2, <1>4 DEF LayersAre
<1>6. CASE o.scope = "env"
  <2>1. DOMAIN top = {}
    <3>1. DOMAIN Layers'[k + 1] = DOMAIN sessions'[s].previous
      BY <1>2, <1>4 DEF LayersAre
    <3>2. DOMAIN New(o).previous = {}
      BY <1>6 DEF New
    <3> QED
      BY <1>3, <1>5, <3>1, <3>2
  <2>2. Layered!Written(Base, Layers, Base', Layers')
    BY <1>1, <1>3, <1>4, OnlySeenIsWritten
  <2> QED
    BY <1>5, <2>1, <2>2 DEF Layered!Open, Base, Layers
<1>7. CASE o.scope # "env"
  <2>1. Base' = Base
    <3>1. \A n \in Names : Below(n, 0)' = Below(n, 0)
      <4>1. 0 \in 0 .. Len(sessions)
        BY <1>1
      <4> QED
        BY <1>7, <4>1, UseHides
    <3> QED
      BY <3>1 DEF Base
  <2>2. ASSUME NEW i \in 1 .. k PROVE Layers'[i] = Layers[i]
    <3>1. /\ i \in DOMAIN Layers /\ i \in DOMAIN Layers' /\ target.stack[i] \in Ids
          /\ target.stack[i] \in 0 .. Len(sessions)
          /\ target'.stack[i] = target.stack[i] /\ i \in 1 .. Len(target'.stack)
      BY <1>1, <1>2, <1>4 DEF LayersAre
    <3>2. DOMAIN Layers'[i] = DOMAIN Layers[i] /\ DOMAIN Layers[i] \subseteq Names
      BY <1>2, <1>3, <3>1 DEF LayersAre
    <3>3. ASSUME NEW n \in DOMAIN Layers[i] PROVE Layers'[i][n] = Layers[i][n]
      <4>1. ASSUME NEW f, f = target.stack[i] PROVE Below(n, f)' = Below(n, f)
        <5>1. n \in Names /\ f \in 0 .. Len(sessions)
          BY <3>1, <3>2, <3>3, <4>1
        <5> QED
          BY <1>7, <5>1, UseHides
      <4>2. Layers'[i][n] = Below(n, target.stack[i])' /\ Layers[i][n] = Below(n, target.stack[i])
        BY <1>2, <3>1, <3>2, <3>3 DEF LayersAre
      <4> QED
        BY <3>1, <4>1, <4>2
    <3> QED
      BY <3>1, <3>2, <3>3, SameLayer
  <2>3. Layers' = Append(Layers, top)
    <3> DEFINE f == Layers
               g == Layers'
               S == {g[i] : i \in 1 .. k + 1}
    <3>1. /\ f = [i \in 1 .. k |-> f[i]] /\ g = [i \in 1 .. k + 1 |-> g[i]]
      <4>1. FunctionsAre'
        BY LayersAreFunctions, PTL
      <4>2. DOMAIN Layers = 1 .. k /\ DOMAIN Layers' = 1 .. k + 1
        BY <1>2, <1>4 DEF LayersAre
      <4> QED
        BY <4>1, <4>2, LayersAreFunctions DEF FunctionsAre
    <3>2. top = g[k + 1] /\ \A i \in 1 .. k : g[i] = f[i]
      BY <1>5, <2>2
    <3> HIDE DEF f, g, top, k
    <3>3. k \in Nat
      BY <1>4 DEF k
    <3>4. /\ \A i \in 1 .. k + 1 : g[i] \in S
          /\ \A i \in 1 .. k : g[i] \in S
          /\ g[k + 1] \in S
      BY <3>3
    <3> HIDE DEF S
    <3>5. f \in [1 .. k -> S] /\ g \in [1 .. k + 1 -> S] /\ top \in S
      BY <3>1, <3>2, <3>4
    <3>6. g = Append(f, top)
      BY <3>2, <3>3, <3>5, AppendOfFunction
    <3> QED
      BY <3>6 DEF f, g
  <2> QED
    BY <1>5, <2>1, <2>3 DEF Layered!Open, Base, Layers
<1> QED
  BY <1>6, <1>7

\* A close in order gives back exactly what its session hid.
LEMMA CloseGivesBack ==
    ASSUME StackInv, StackInv', NEW s \in Ids, Close(s), orderly',
           NEW n \in Names, NEW from \in 0 .. Len(sessions), from < s
    PROVE  Below(n, from)' = Below(n, from)
<1> DEFINE me == sessions[s]
<1>1. /\ Types /\ Stacked /\ Len(sessions) \in Nat /\ Ids = 1 .. Len(sessions)
      /\ from \in Nat /\ \A t \in Ids : t > s => ~Active(t)
  BY LastIsClosed DEF StackInv, Types, Ids
<1>2. /\ Len(sessions') = Len(sessions) /\ DOMAIN sessions'[s].previous = {}
      /\ \A r \in Ids : r # s => sessions'[r] = sessions[r]
  BY <1>1, CloseCloses
<1>3. target'.bind[n] = IF n \in DOMAIN me.previous THEN me.previous[n]
                        ELSE IF n \in me.auto_values /\ target.bind[n] = Symbol(s) THEN Nil
                        ELSE target.bind[n]
  BY DEF Close, Restored, Cleared
<1>4. Owners(n, from)' = Owners(n, from) \ {s}
  BY <1>1, <1>2 DEF Owners
<1>5. s \in Owners(n, from) <=> n \in DOMAIN me.previous
  BY <1>1 DEF Owners
<1>6. \A t \in Owners(n, from) : t \in Ids /\ t <= s
  BY <1>1 DEF Owners, StackInv
<1>7. CASE Owners(n, from) = {}
  <2>1. Below(n, from)' = Clean(target'.bind[n]) /\ Below(n, from) = Clean(target.bind[n])
    BY <1>4, <1>7 DEF Below
  <2>2. Clean(Symbol(s)) = Nil /\ Clean(Nil) = Nil
    BY DEF Clean, Symbol, Nil, Value
  <2> QED
    BY <1>3, <1>5, <1>7, <2>1, <2>2
<1>8. CASE Owners(n, from) = {s}
  <2>1. First(Owners(n, from)) = s
    <3>1. IsFirst(s, Owners(n, from)) /\ Owners(n, from) \in SUBSET Nat
      BY <1>1, <1>8 DEF IsFirst
    <3> QED
      BY <3>1, FirstIs
  <2>2. Below(n, from)' = Clean(target'.bind[n]) /\ Below(n, from) = Clean(me.previous[n])
    BY <1>4, <1>8, <2>1 DEF Below
  <2> QED
    BY <1>3, <1>5, <1>8, <2>2
<1>9. CASE Owners(n, from) # {} /\ Owners(n, from) # {s}
  <2>1. PICK x : IsFirst(x, Owners(n, from))
    BY <1>1, <1>9 DEF Stacked
  <2>2. x # s
    <3>1. PICK t \in Owners(n, from) : t # s
      BY <1>9
    <3> QED
      BY <1>1, <1>6, <2>1, <3>1 DEF IsFirst
  <2>3. First(Owners(n, from)) = x
    BY <1>1, <2>1, FirstIs, OwnersAreNat
  <2>4. Owners(n, from)' # {} /\ First(Owners(n, from)') = x
    <3> DEFINE S == Owners(n, from)'
    <3>1. S \in SUBSET Nat /\ IsFirst(x, S) /\ S # {}
      BY <1>1, <1>4, <2>1, <2>2, OwnersAreNat DEF IsFirst
    <3> HIDE DEF S
    <3>2. First(S) = x
      BY <3>1, FirstIs
    <3> QED
      BY <3>1, <3>2 DEF S
  <2>5. sessions'[x] = sessions[x]
    BY <1>2, <1>6, <2>1, <2>2 DEF IsFirst
  <2> QED
    BY <1>9, <2>3, <2>4, <2>5 DEF Below
<1> QED
  BY <1>7, <1>8, <1>9

LEMMA CloseMaps ==
    ASSUME StackInv, StackInv', NEW s \in Ids, Close(s), orderly'
    PROVE  Layered!Close
<1> DEFINE k == Len(target.stack)
<1>1. /\ orderly /\ k \in Nat \ {0} /\ target.stack[k] = s
      /\ target'.stack = [i \in 1 .. k - 1 |-> target.stack[i]]
  BY LastIsClosed
<1>2. /\ Types /\ Stacked /\ Types' /\ Stacked' /\ Len(sessions) \in Nat
      /\ Ids = 1 .. Len(sessions)
  BY <1>1 DEF StackInv, Types, Ids
<1>3. LayersAre /\ LayersAre'
  <2>1. Types' /\ Stacked' => LayersAre'
    BY LayerIs, PTL
  <2> QED
    BY <1>2, <2>1, LayerIs
<1>4. \A r \in Ids : r # s => sessions'[r] = sessions[r]
  BY <1>2, CloseCloses
<1>5. /\ DOMAIN Layers = 1 .. k /\ Len(Layers) = k
      /\ DOMAIN Layers' = 1 .. k - 1
  <2>1. Len(target'.stack) = k - 1
    <3>1. DOMAIN target'.stack = 1 .. k - 1 /\ DOMAIN target'.stack = 1 .. Len(target'.stack)
          /\ Len(target'.stack) \in Nat
      BY <1>1, <1>3 DEF LayersAre
    <3> QED
      BY <1>1, <3>1
  <2> QED
    BY <1>3, <2>1 DEF LayersAre
<1>6. Base' = Base
  <2>1. \A n \in Names : Below(n, 0)' = Below(n, 0)
    <3>1. 0 \in 0 .. Len(sessions) /\ 0 < s
      BY <1>2
    <3> QED
      BY <3>1, CloseGivesBack
  <2> QED
    BY <2>1 DEF Base
<1>7. ASSUME NEW i \in 1 .. k - 1 PROVE Layers'[i] = Layers[i]
  <2>1. /\ i \in DOMAIN Layers /\ i \in DOMAIN Layers' /\ i \in 1 .. k
        /\ target.stack[i] \in Ids /\ target.stack[i] \in 0 .. Len(sessions)
        /\ target'.stack[i] = target.stack[i] /\ i \in 1 .. Len(target'.stack)
    BY <1>1, <1>2, <1>3, <1>5 DEF LayersAre
  <2>2. target.stack[i] < s
    <3>1. /\ DOMAIN target.stack = 1 .. k
          /\ \A a, b \in DOMAIN target.stack : a < b => target.stack[a] < target.stack[b]
      BY <1>2, <1>3 DEF Stacked, LayersAre
    <3>2. i \in 1 .. k /\ k \in 1 .. k /\ i < k
      BY <1>1
    <3> QED
      BY <1>1, <3>1, <3>2
  <2>3. sessions'[target.stack[i]] = sessions[target.stack[i]]
    BY <1>2, <1>4, <2>1, <2>2
  <2>4. DOMAIN Layers'[i] = DOMAIN Layers[i] /\ DOMAIN Layers[i] \subseteq Names
    BY <1>3, <2>1, <2>3 DEF LayersAre
  <2>5. ASSUME NEW n \in DOMAIN Layers[i] PROVE Layers'[i][n] = Layers[i][n]
    <3>1. ASSUME NEW f, f = target.stack[i] PROVE Below(n, f)' = Below(n, f)
      <4>1. n \in Names /\ f \in 0 .. Len(sessions) /\ f < s
        BY <2>1, <2>2, <2>4, <2>5, <3>1
      <4> QED
        BY <4>1, CloseGivesBack
    <3>2. Layers'[i][n] = Below(n, target.stack[i])' /\ Layers[i][n] = Below(n, target.stack[i])
      BY <1>3, <2>1, <2>4, <2>5 DEF LayersAre
    <3> QED
      BY <2>1, <3>1, <3>2
  <2> QED
    BY <2>1, <2>4, <2>5, SameLayer
<1>8. Layers' = SubSeq(Layers, 1, Len(Layers) - 1)
  <2> DEFINE f == Layers
             g == Layers'
             S == {f[i] : i \in 1 .. k}
  <2>1. f = [i \in 1 .. k |-> f[i]] /\ g = [i \in 1 .. k - 1 |-> g[i]]
    <3>1. FunctionsAre'
      BY LayersAreFunctions, PTL
    <3> QED
      BY <1>5, <3>1, LayersAreFunctions DEF FunctionsAre
  <2>2. \A i \in 1 .. k - 1 : g[i] = f[i]
    BY <1>7
  <2> HIDE DEF f, g, k
  <2>3. k \in Nat \ {0}
    BY <1>1 DEF k
  <2>4. /\ \A i \in 1 .. k : f[i] \in S
        /\ \A i \in 1 .. k - 1 : f[i] \in S
    BY <2>3
  <2> HIDE DEF S
  <2>5. f \in [1 .. k -> S] /\ g \in [1 .. k - 1 -> S]
    BY <2>1, <2>2, <2>4
  <2>6. g = SubSeq(f, 1, k - 1)
    BY <2>2, <2>3, <2>5, FrontOfFunction
  <2>7. Len(f) = k
    BY <1>5 DEF f, k
  <2> QED
    BY <2>6, <2>7 DEF f, g
<1>9. Layers # <<>>
  BY <1>1, <1>5
<1> QED
  BY <1>6, <1>8, <1>9 DEF Layered!Close, Base, Layers

\* Every step is one of the layers', as long as sessions are closed in order.
LEMMA StepMaps ==
    ASSUME Inv, Inv', StackInv, Next
    PROVE  StackInv' /\ Layered!Next
<1>1. Types /\ Types' /\ orderly \in BOOLEAN /\ orderly' \in BOOLEAN
  BY DEF Inv, Types
<1>2. ASSUME NEW o \in Options, Use(o) PROVE StackInv' /\ Layered!Next
  <2>1. StackInv' /\ orderly' = orderly
    BY <1>1, <1>2, UseStacks DEF Use
  <2>2. CASE orderly
    <3>1. Layered!Open
      BY <1>2, <2>1, <2>2, UseMaps
    <3> QED
      BY <2>1, <3>1 DEF Layered!Next
  <2>3. CASE ~orderly
    <3>1. orderly' = FALSE
      BY <1>1, <2>1, <2>3
    <3> QED
      BY <2>1, <3>1 DEF Layered!Next
  <2> QED
    BY <2>2, <2>3
<1>3. ASSUME NEW s \in Ids, Close(s) PROVE StackInv' /\ Layered!Next
  <2>1. StackInv'
    BY <1>1, <1>3, CloseStacks
  <2>2. CASE orderly'
    <3>1. orderly' = orderly
      BY <1>1, <1>3, <2>2, LastIsClosed
    <3>2. Layered!Close
      BY <1>3, <2>1, <2>2, CloseMaps
    <3> QED
      BY <2>1, <3>1, <3>2 DEF Layered!Next
  <2>3. CASE ~orderly'
    <3>1. orderly' = FALSE
      BY <1>1, <2>3
    <3> QED
      BY <2>1, <3>1 DEF Layered!Next
  <2> QED
    BY <2>2, <2>3
<1>4. ASSUME Len(sessions') = Len(sessions), Ids' = Ids, target'.stack = target.stack,
             orderly' = orderly,
             \A s \in Ids : /\ sessions'[s].active = sessions[s].active
                            /\ sessions'[s].previous = sessions[s].previous
      PROVE  StackInv' /\ Layered!Next
  <2>1. StackInv'
    BY <1>1, <1>4, StackKept
  <2>2. CASE orderly
    <3>1. Layered!Write
      BY <1>4, <2>1, <2>2, WriteMaps
    <3> QED
      BY <1>4, <2>1, <3>1 DEF Layered!Next
  <2>3. CASE ~orderly
    <3>1. orderly' = FALSE
      BY <1>1, <1>4, <2>3
    <3> QED
      BY <2>1, <3>1 DEF Layered!Next
  <2> QED
    BY <2>2, <2>3
<1>5. ASSUME NEW n \in Names, Read(n) PROVE StackInv' /\ Layered!Next
  <2>1. /\ Len(sessions') = Len(sessions) /\ Ids' = Ids
        /\ \A s \in Ids : /\ sessions'[s].active = sessions[s].active
                          /\ sessions'[s].previous = sessions[s].previous
    BY <1>1, <1>5, ReadNotes
  <2>2. target'.stack = target.stack /\ orderly' = orderly
    BY <1>1, <1>5 DEF Read, Types
  <2> QED
    BY <1>4, <2>1, <2>2
<1>6. ASSUME sessions' = sessions, orderly' = orderly, target'.stack = target.stack
      PROVE  StackInv' /\ Layered!Next
  <2>1. Ids' = Ids
    BY <1>6 DEF Ids
  <2> QED
    BY <1>4, <1>6, <2>1
<1>7. ASSUME NEW o \in Options, UseRaises(o) PROVE StackInv' /\ Layered!Next
  <2>1. sessions' = sessions /\ orderly' = orderly /\ target'.stack = target.stack
    BY <1>1, <1>7 DEF UseRaises, Types
  <2> QED
    BY <1>6, <2>1
<1>8. ASSUME NEW n \in Names, NEW v \in {User, Nil}, Assign(n, v)
      PROVE  StackInv' /\ Layered!Next
  <2>1. sessions' = sessions /\ orderly' = orderly /\ target'.stack = target.stack
    BY <1>1, <1>8 DEF Assign, Types
  <2> QED
    BY <1>6, <2>1
<1> QED
  BY <1>2, <1>3, <1>5, <1>7, <1>8 DEF Next

LEMMA StutterMaps ==
    ASSUME StackInv, UNCHANGED vars
    PROVE  StackInv' /\ UNCHANGED <<Base, Layers, orderly>>
<1>1. target' = target /\ sessions' = sessions /\ orderly' = orderly
  BY DEF vars
<1>2. Types' /\ Ids' = Ids
  BY <1>1 DEF StackInv, Types, Ids
<1>3. StackInv'
  BY <1>1, <1>2, StackKept
<1>4. \A n, from : Owners(n, from)' = Owners(n, from)
  BY <1>1 DEF Owners
<1>5. \A n, from : Below(n, from)' = Below(n, from)
  BY <1>1, <1>4 DEF Below
<1>6. Base' = Base
  BY <1>5 DEF Base
<1>7. Layers' = Layers
  BY <1>1, <1>5 DEF Layers
<1> QED
  BY <1>1, <1>3, <1>6, <1>7

---------------------------------------------------------------------------
\* Sessions closed in the reverse of their order keep the promise of Overlays,
\* for any names, any calls of use() and any number of sessions: each close gives
\* back exactly what its session hid and no more, whatever was assigned, deleted
\* or read meanwhile.
THEOREM SessionsAreLayers == Spec => ClosesRestore
<1> DEFINE Both == Inv /\ StackInv
<1>1. Init => Both /\ Layered!Init
  BY InitInv, StackInit, InitMaps
<1>2. Both /\ Inv' /\ [Next]_vars
         => StackInv' /\ [Layered!Next]_<<Base, Layers, orderly>>
  BY StepMaps, StutterMaps
<1> QED
  <2>1. Spec => []Inv
    BY InvHolds
  <2> QED
    BY <1>1, <1>2, <2>1, PTL DEF Spec, ClosesRestore, Layered!Spec, Base, Layers
=============================================================================
