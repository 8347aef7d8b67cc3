----------------------------- MODULE MCHotStuff -----------------------------
(* Model checking instance of HotStuffClient. *)
EXTENDS HotStuffClient

CONSTANTS a1, a2, b1, b2, b3, b4

\* Four replicas tolerate one fault, and none once b1 is dropped; the two of
\* the other view can be lost one after the other.
MCNodes == {a1, a2, b1, b2, b3, b4}
MCViews == {{a1, a2}, {b1, b2, b3, b4}}
MCCrashable == {a1, a2, b1}
=============================================================================
