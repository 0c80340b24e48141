----------------------------- MODULE MCPatterns -----------------------------
(***************************************************************************)
(* All the services of Patterns, each with the same clients and values.    *)
(***************************************************************************)
EXTENDS Patterns

AllServices == {"aside", "through", "back", "multilevel", "invalidating",
                "two levels", "vulnerable", "mutex", "logical", "null", "breaker"}
=============================================================================
