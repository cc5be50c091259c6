------------------------------ MODULE MCCodeBoot ------------------------------
EXTENDS CodeBoot

\* Version 1 is shipped; 2 and 3 are bundles, and an image may carry 2.
MCRuntime == [v \in Versions |-> "r1"]
MCSchema == [v \in Versions |-> IF v = 1 THEN 1 ELSE v - 1]
=============================================================================
