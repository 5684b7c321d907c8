--------------------------- MODULE MCHttpSession ---------------------------
(* HttpSession with a few clients, with a line longer than the buffer and  *)
(* request and header lines longer than req[].                             *)
EXTENDS HttpSession

L(k, n) == [kind |-> k, len |-> n]

MCScripts ==
  { <<L("get11", 2), L("blank", 1), L("miss11", 3), L("close", 2), L("keep", 2), L("blank", 1),
      L("get10", 2), L("blank", 1), L("get11", 1), L("blank", 1)>>,
    <<L("get10", 2), L("other", 5), L("keep", 1), L("blank", 2), L("get11", 1), L("length", 2),
      L("length0", 1), L("blank", 1), L("get11", 2), L("chunked", 2), L("blank", 1),
      L("get11", 1), L("blank", 1)>>,
    <<L("get11", 3), L("identity", 2), L("other", 2), L("length", 2), L("blank", 1)>>,
    <<L("other", 3), L("get11", 2), L("blank", 1)>>,
    <<L("get11", 1), L("blank", 1), L("blank", 1), L("get11", 1), L("blank", 1)>>,
    <<L("get11", 1), L("other", 4), L("blank", 1), L("get10", 4), L("keep", 1), L("blank", 1),
      L("miss11", 2), L("blank", 1)>> }
=============================================================================
