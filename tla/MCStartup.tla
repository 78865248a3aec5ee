----------------------------- MODULE MCStartup -----------------------------
(* A small instance of Startup for TLC.                                    *)
EXTENDS Startup

(* The file sets everything; one of its variables is set already.          *)
EnvFile == <<"retries", "tls", "aws">>
============================================================================
