---------------------------- MODULE MCHttpClient ----------------------------
(* A small instance of the HTTP client for TLC.                             *)
EXTENDS HttpClient

CONSTANTS request, stream1, stream2
=============================================================================
