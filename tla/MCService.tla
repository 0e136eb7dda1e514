----------------------------- MODULE MCService -----------------------------
(* Instances of Service for TLC. *)
EXTENDS Service

CONSTANTS a, b, slash, bad

(* Tenants and terms with the bytes that matter: (<<a>>, <<a>>) and         *)
(* (<<b>>, <<a>>) are valid; <<a, Sep, b>> would split elsewhere.           *)
MCTenants == {<<a>>, <<b>>, <<a, Sep, b>>}
MCTerms == {<<a>>, <<b, Sep, a>>}
MCFewTenants == {<<a>>, <<b>>}
MCFewTerms == {<<a>>}

(* Nothing, or rows with no separator, no UTF-8, a value of one byte, rows  *)
(* of pairs that no request may name, and one like our own.                *)
MCForeign == {{}, {
  <<<<a>>, <<1, 0>>>>,
  <<<<bad, Sep, a>>, <<1, 0>>>>,
  <<<<b, Sep, a>>, <<1>>>>,
  <<<<slash, Sep, a>>, <<1, 0>>>>,
  <<<<a, Sep, b, Sep, a>>, <<1, 0>>>>,
  <<<<a, Sep, a>>, <<1, 0>>>>}}
MCNoForeign == {{}}
=============================================================================
