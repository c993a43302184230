------------------------------ MODULE MCJobWatch ------------------------------
(* Values for the checks of JobWatch: a row alone, or requests at the gate. *)
EXTENDS JobWatch

CONSTANTS r1, s1, s2
MCRows      == {r1}
MCRequests  == {s1, s2}
MCCompanies == {{r1}, {s1, s2}}
===============================================================================
