----------------------------- MODULE UseSession -----------------------------
(***************************************************************************)
(* use() and close() of LLBL's language sessions on one target table: the  *)
(* exports a session installs and restores, the metatable that turns every *)
(* unknown name into a symbol, the capabilities, the stack of scopes.      *)
(* Sessions are opened and closed in any order, as with_use does when its  *)
(* body leaves a session open or coroutines take turns in it, while the    *)
(* program reads and assigns the same names.  A language's exports are one *)
(* value for each name; the `__llbl_` names of the table are left out.     *)
(***************************************************************************)
EXTENDS Naturals, Sequences, FiniteSets

CONSTANTS
    Names,          \* identifiers
    Options,        \* the calls of use() that are made
    MaxSessions     \* bound on the sessions opened

ASSUME OptionsAssumption ==
    \A o \in Options :
        /\ o.exports \subseteq Names /\ o.scope \in {"permanent", "scoped", "env"}
        /\ o.override \in BOOLEAN /\ o.auto_names \in BOOLEAN

VARIABLES
    target,     \* the table: its bindings, metatable, capabilities, scope stack
    sessions,   \* every session opened, by its number
    protected,  \* whether the target's own metatable is protected
    orderly     \* history: every close was of the last session still open

vars == <<target, sessions, protected, orderly>>

Value(kind, by) == [kind |-> kind, by |-> by]
Nil       == Value("nil", 0)
User      == Value("user", 0)
Export(l) == Value("export", l)
Symbol(s)   == Value("auto", s)

Capabilities == UNION {o.provides \cup o.requires : o \in Options}

Ids == DOMAIN sessions

Init ==
    /\ target = [bind |-> [n \in Names |-> Nil], mt |-> 0,
                 caps |-> [c \in Capabilities |-> 0], stack |-> <<>>]
    /\ sessions = <<>> /\ orderly = TRUE
    /\ protected \in BOOLEAN

---------------------------------------------------------------------------
(* use.                                                                    *)

\* compose_env: the target's own bindings are inherited, then the exports.
Env(o) ==
    [n \in {m \in Names : target.bind[m] # Nil \/ m \in o.exports} |->
        IF n \in o.exports THEN Export(o.lang) ELSE target.bind[n]]

\* install_env, and the copying of a use in place: names that are free, or all.
Installed(o) == {n \in DOMAIN Env(o) : target.bind[n] = Nil \/ o.override}

BindAfter(o) ==
    [n \in Names |-> IF n \in Installed(o) THEN Env(o)[n] ELSE target.bind[n]]

\* check_requires.
HasRequired(o) == \A c \in o.requires : target.caps[c] # 0

Use(o) ==
    LET s == Len(sessions) + 1
    IN  /\ s <= MaxSessions /\ HasRequired(o)
        /\ ~(protected /\ o.auto_names)
        /\ target' = [bind  |-> BindAfter(o),
                      mt    |-> IF o.auto_names THEN s ELSE target.mt,
                      caps  |-> [c \in Capabilities |->
                                    IF c \in o.provides THEN s ELSE target.caps[c]],
                      stack |-> Append(target.stack, s)]
        /\ sessions' = Append(sessions,
               [scope |-> o.scope, active |-> TRUE, auto_values |-> {},
                previous |-> IF o.scope = "env" THEN [n \in {} |-> Nil]
                             ELSE [n \in Installed(o) |-> target.bind[n]],
                has_mt |-> o.auto_names, previous_mt |-> target.mt,
                capability_previous |-> [c \in o.provides |-> target.caps[c]]])
        /\ UNCHANGED <<protected, orderly>>

\* install_auto_names raises once the exports are in: no session is returned.
UseRaises(o) ==
    /\ HasRequired(o) /\ protected /\ o.auto_names
    /\ target' = [target EXCEPT !.bind = BindAfter(o)]
    /\ UNCHANGED <<sessions, protected, orderly>>

---------------------------------------------------------------------------
(* close.                                                                  *)

Active(s) == sessions[s].active

\* What is kept of a closed session: no later step reads what it put aside.
Dropped(me) ==
    [me EXCEPT !.active = FALSE, !.auto_values = {}, !.previous_mt = 0,
               !.previous = [n \in {} |-> Nil], !.capability_previous = [c \in DOMAIN @ |-> 0]]

\* The symbols the session made are cleared, then what it hid is put back.
Cleared(s, n) ==
    IF n \in sessions[s].auto_values /\ target.bind[n] = Symbol(s) THEN Nil ELSE target.bind[n]
RestoredUnlessNil(s, n) ==                                      \* mutant
    LET previous == sessions[s].previous
    IN  IF n \in DOMAIN previous /\ previous[n] # Nil THEN previous[n] ELSE Cleared(s, n)
RestoredOnly(s, n) ==                                           \* mutant
    LET previous == sessions[s].previous
    IN  IF n \in DOMAIN previous THEN previous[n] ELSE target.bind[n]
Restored(s, n) ==
    LET previous == sessions[s].previous
    IN  IF n \in DOMAIN previous THEN previous[n] ELSE Cleared(s, n)

PopScope(s) == SubSeq(target.stack, 1, Len(target.stack) - 1)   \* mutant
RemoveScope(s) ==
    LET stack == target.stack
        at == CHOOSE i \in DOMAIN stack : stack[i] = s
    IN  [i \in 1 .. Len(stack) - 1 |-> IF i < at THEN stack[i] ELSE stack[i + 1]]

\* A second close returns false and changes nothing.
Close(s) ==
    LET me == sessions[s]
    IN  /\ Active(s)
        /\ sessions' = [sessions EXCEPT ![s] = Dropped(me)]
        /\ target' =
             [bind  |-> [n \in Names |-> Restored(s, n)],
              mt    |-> IF target.mt = s THEN me.previous_mt ELSE target.mt,
              caps  |-> [c \in Capabilities |->
                           IF c \in DOMAIN me.capability_previous /\ target.caps[c] = s
                           THEN me.capability_previous[c] ELSE target.caps[c]],
              stack |-> RemoveScope(s)]
        /\ orderly' = (orderly /\ \A t \in Ids : t > s => ~Active(t))
        /\ UNCHANGED protected

---------------------------------------------------------------------------
(* The program.                                                            *)

\* An unknown name becomes a symbol of the session whose metatable is on.
Read(n) ==
    /\ target.bind[n] = Nil /\ target.mt # 0
    /\ target' = [target EXCEPT !.bind[n] = Symbol(target.mt)]
    /\ sessions' = [sessions EXCEPT ![target.mt].auto_values = @ \cup {n}]
    /\ UNCHANGED <<protected, orderly>>

Assign(n, v) ==
    /\ target.bind[n] # v
    /\ target' = [target EXCEPT !.bind[n] = v]
    /\ UNCHANGED <<sessions, protected, orderly>>

Next ==
    \/ \E o \in Options : Use(o) \/ UseRaises(o)
    \/ \E s \in Ids : Close(s)
    \/ \E n \in Names : Read(n) \/ \E v \in {User, Nil} : Assign(n, v)

Spec == Init /\ [][Next]_vars

---------------------------------------------------------------------------
(* Properties.                                                             *)

\* The sessions opened after `from` that put a value of n aside.
Owners(n, from) == {s \in from + 1 .. Len(sessions) : n \in DOMAIN sessions[s].previous}

First(S) == CHOOSE s \in S : \A t \in S : s <= t

\* A symbol counts as unbound.
Clean(v) == IF v.kind = "auto" THEN Nil ELSE v

\* What a name is bound to below the sessions that opened after `from`: what the
\* first of them put aside, or what is seen when none has the name.
Below(n, from) ==
    Clean(IF Owners(n, from) = {} THEN target.bind[n]
          ELSE sessions[First(Owners(n, from))].previous[n])

\* Sessions closed in the reverse of their order keep the promise of Overlays:
\* each close gives back exactly what its session hid and no more, whatever the
\* program assigned, deleted or read meanwhile.
Layered == INSTANCE Overlays WITH
    Values <- {Nil, User} \cup {Export(o.lang) : o \in Options},
    base   <- [n \in Names |-> Below(n, 0)],
    layers <- [i \in DOMAIN target.stack |->
                 [n \in DOMAIN sessions[target.stack[i]].previous |-> Below(n, target.stack[i])]]

ClosesRestore == Layered!Spec

\* Closed in order, a session leaves nothing of its own behind: no metatable
\* that makes symbols for it, no symbol, no capability.
NothingLingers ==
    orderly =>
        /\ target.mt # 0 => Active(target.mt)
        /\ \A c \in Capabilities : target.caps[c] # 0 => Active(target.caps[c])
        /\ \A n \in Names : target.bind[n].kind = "auto" => Active(target.bind[n].by)

\* In whatever order, the scope stack lists the open sessions as they were
\* opened, the newest of them has the metatable it installed, and a capability
\* it provides is its own.
ScopesAreListed ==
    /\ {target.stack[i] : i \in DOMAIN target.stack} = {s \in Ids : Active(s)}
    /\ \A i, j \in DOMAIN target.stack : i < j => target.stack[i] < target.stack[j]
    /\ \A s \in Ids :
         Active(s) /\ (\A t \in Ids : t > s => ~sessions[t].has_mt) /\ sessions[s].has_mt
            => target.mt = s
    /\ \A s \in Ids : \A c \in DOMAIN sessions[s].capability_previous :
         Active(s) /\ (\A t \in Ids : t > s => c \notin DOMAIN sessions[t].capability_previous)
            => target.caps[c] = s

=============================================================================
