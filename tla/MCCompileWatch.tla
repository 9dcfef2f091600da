--------------------------- MODULE MCCompileWatch ---------------------------
(* Both kinds of compile, over an environment whose build compiles two      *)
(* projects; one of them or the earlier compile may have an error.          *)
EXTENDS CompileWatch

OneError == Init /\ \A r, s \in bad : r = s
OneErrorSpec == OneError /\ [][Next]_vars /\ Fairness
=============================================================================
