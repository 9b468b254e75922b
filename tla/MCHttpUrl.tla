------------------------------- MODULE MCHttpUrl -------------------------------
(***************************************************************************)
(* URLs for TLC: every sequence of up to Length characters behind the      *)
(* prefix, and short ones without it.                                      *)
(***************************************************************************)
EXTENDS HttpUrl

CONSTANTS Length, Characters

Short(n) == UNION {[1..k -> Characters] : k \in 0..n}

AllUrls == {Prefix \o rest : rest \in Short(Length)} \cup Short(3)
================================================================================
