---------------------------- MODULE MCHttpServer ----------------------------
(***************************************************************************)
(* Clients of three requests: with and without a body, for the page of     *)
(* names, a state, a file and an unknown name, and with each kind of fault.*)
(***************************************************************************)
EXTENDS HttpServer

Request(body, line, key, root) ==
    [head |-> 2, body |-> body, line |-> line, key |-> key, root |-> root]

Good(body, key, root) == Request(body, "good", key, root)

ThreeRequests ==
    { <<Good(2, "info", FALSE), Good(0, "unknown", TRUE), Good(1, "file", FALSE)>>,
      <<Good(0, "file", FALSE), Good(2, "none", TRUE), Good(0, "info", TRUE)>>,
      <<Good(1, "info", FALSE), Request(1, "baduri", "none", FALSE), Good(0, "file", FALSE)>>,
      <<Good(0, "unknown", FALSE), Request(0, "badline", "info", FALSE), Good(0, "info", FALSE)>> }
=============================================================================
