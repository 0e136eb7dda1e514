------------------------------ MODULE MCEngine ------------------------------
(***************************************************************************)
(* Small instances of Engine: two or three clients over one or two terms,  *)
(* and the terms each of them writes.                                      *)
(***************************************************************************)
EXTENDS Engine

CONSTANTS c1, c2, c3, k1, k2

(* One writer per term.                                                    *)
MCOneEach == (c1 :> {k1}) @@ (c2 :> {k2})

(* Two clients that both write the only term.                              *)
MCShared == (c1 :> {k1}) @@ (c2 :> {k1})

(* Three clients that all write it.                                        *)
MCAllShare == (c1 :> {k1}) @@ (c2 :> {k1}) @@ (c3 :> {k1})
=============================================================================
