----------------------------- MODULE MCScopedRows -----------------------------
(***************************************************************************)
(* Every content of the rows and every delta over five keys.  The prefixes *)
(* nest both ways, so that one trimmed key is itself a prefixed one.       *)
(***************************************************************************)
EXTENDS ScopedRows

MCStateKey ==
    {<<"x">>, <<"app:", "x">>, <<"user:", "x">>,
     <<"app:", "user:", "x">>, <<"temp:", "app:", "x">>}
===============================================================================
