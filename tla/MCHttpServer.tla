----------------------------- MODULE MCHttpServer -----------------------------
(***************************************************************************)
(* Instances of HttpServer for TLC.                                        *)
(***************************************************************************)
EXTENDS HttpServer
===============================================================================
