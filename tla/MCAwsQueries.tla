---------------------------- MODULE MCAwsQueries ----------------------------
(***************************************************************************)
(* An instance of AwsQueries with the calendar from January to April.  One  *)
(* request begins on January 1 or on January 31, the other has one window   *)
(* for each service.                                                       *)
(***************************************************************************)
EXTENDS AwsQueries

CONSTANTS r1, r2

\* January to April.
FirstDays == {1, 32, 60, 91}
Calendar == [d \in 1..120 |-> CHOOSE m \in FirstDays :
                               m <= d /\ \A n \in FirstDays : n <= d => n <= m]
Dates == [r \in {r1, r2} |->
            IF r = r1 THEN {[start |-> 1, end |-> 40], [start |-> 31, end |-> 92]}
                      ELSE {[start |-> 2, end |-> 30]}]

\* One request with everything it can do, and two that disturb each other.
Alone ==
  {[source |-> s, requests |-> {r1}, regions |-> 2, groups |-> 2, others |-> 1] :
     s \in {"reports", "services"}}
Together ==
  {[source |-> "services", requests |-> {r1, r2}, regions |-> 1, groups |-> 1,
    others |-> 0]}
Both == Alone \cup Together
=============================================================================
