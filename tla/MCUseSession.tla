---------------------------- MODULE MCUseSession ----------------------------
EXTENDS UseSession

Option(lang, exports, scope, override, auto_names, provides, requires) ==
    [lang |-> lang, exports |-> exports, scope |-> scope, override |-> override,
     auto_names |-> auto_names, provides |-> provides, requires |-> requires]

\* A use that takes the names that are free; one that overrides; one in place,
\* without symbols, that requires the capability the others provide.
MCOptions ==
    {Option(1, {"a"}, "scoped", FALSE, TRUE, {"c"}, {}),
     Option(2, {"a", "b"}, "scoped", TRUE, TRUE, {"c"}, {}),
     Option(3, {"b"}, "env", TRUE, FALSE, {}, {"c"})}

=============================================================================
