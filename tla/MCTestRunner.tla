---------------------------- MODULE MCTestRunner ----------------------------
(***************************************************************************)
(* Instances of TestRunner for TLC: kinds of tests and ways their bodies   *)
(* end.                                                                    *)
(***************************************************************************)
EXTENDS TestRunner

Test(bounded, manners) == [enabled |-> TRUE, factory |-> "makes",
                           bounded |-> bounded, manners |-> manners]

\* Tests that never execute, beside an ordinary one.
FactoryProfiles == {Test(TRUE, "finite"),
                    [Test(TRUE, "finite") EXCEPT !.enabled = FALSE],
                    [Test(TRUE, "finite") EXCEPT !.factory = "null"],
                    [Test(TRUE, "finite") EXCEPT !.factory = "throws"]}

\* With those, tests that obey their token, with and without a deadline, and one
\* that ignores it.
RetryProfiles == FactoryProfiles \cup {Test(TRUE, "stubborn"), Test(FALSE, "cooperative"),
                                       Test(TRUE, "cooperative")}

\* Without a deadline, ending by themselves or when cancelled, and with a
\* deadline they ignore.
LivenessProfiles == {Test(FALSE, "finite"), Test(FALSE, "cooperative"),
                     Test(TRUE, "stubborn")}

Ends(kind, category) == [ending |-> [kind |-> kind, category |-> category],
                         inSetUp |-> FALSE, metadata |-> NoMetadata]

PassOrAssert == {Ends("returns", "None"), Ends("AssertionFailure", "None")}

\* A transient error, an assertion that failed in setUp, and one that a 5xx
\* answer explains.
AllKinds == {Ends("returns", "None"), Ends("forge", "NetworkFailure"),
             [Ends("AssertionFailure", "None") EXCEPT !.inSetUp = TRUE],
             [Ends("AssertionFailure", "None") EXCEPT !.metadata.serverError = TRUE]}
=============================================================================
