-------------------------- MODULE MCSectionCreate --------------------------
(* Calls of create-app-section for one application which bind their sections *)
(* to one existing entity.  What calls with entities of their own can do is  *)
(* what these do without the fallback to a section alike.                    *)
EXTENDS SectionCreate

OneEntity == Init /\ reuses = Calls
OneEntitySpec == OneEntity /\ [][Next]_vars /\ Fairness
=============================================================================
