------------------------ MODULE MCCalculatorProcess -------------------------
(***************************************************************************)
(* An instance of CalculatorProcess: an HTTP request and a call of an       *)
(* agent, all of one process's life.                                        *)
(***************************************************************************)
EXTENDS CalculatorProcess

\* Of what the HTTP server offers: every write, and a page that needs no RPC.
MCTarget == Writes \cup {<<"http", "docs">>}
=============================================================================
