--------------------------- MODULE MCEnforcement ---------------------------
(* Instances of Enforcement for TLC. *)
EXTENDS Enforcement

CONSTANTS c1, evil, imds, read, write


Denied == <<imds>>

Profile(deny, denyRules, allowRules, translates) ==
    [deny |-> deny, denyRules |-> denyRules, allowRules |-> allowRules,
     translates |-> translates, scans |-> Len(deny) > 1]

\* Profiles that differ in every list, in length and order, and one that does
\* not parse.
Written ==
    {Profile(<<evil>>, <<write>>, <<>>, TRUE),
     Profile(<<imds, evil>>, <<read, write>>, <<read>>, TRUE),
     Profile(<<imds>>, <<>>, <<>>, FALSE)}

None == [deny |-> <<>>, denyRules |-> <<>>, allowRules |-> <<>>,
         translates |-> TRUE, scans |-> FALSE]
=============================================================================
