------------------------- MODULE MCAsyncLocalStorage -------------------------
(* A small instance of AsyncLocalStorage: two requests and two services, with *)
(* the guard and the interceptor registered by forRoot, by the application,   *)
(* alone or together, and after an asynchronous guard.                        *)
EXTENDS AsyncLocalStorage, TLC

CONSTANTS first, second, own, other

MCRequests == {first, second}
MCServices == {own, other}
MCKeys     == {"ctx"}
Symmetry   == Permutations(MCRequests)

Default ==
  [useGuard |-> FALSE, useInterceptor |-> FALSE, appGuard |-> FALSE,
   appInterceptor |-> FALSE, slowGuard |-> FALSE]

MCOptions ==
  {[Default EXCEPT !.useGuard = TRUE], [Default EXCEPT !.useInterceptor = TRUE],
   [Default EXCEPT !.appGuard = TRUE, !.slowGuard = TRUE],
   [Default EXCEPT !.appGuard = TRUE, !.appInterceptor = TRUE]}

\* The guard and the interceptor, neither by forRoot.
GuardByApplication == {[Default EXCEPT !.appGuard = TRUE, !.appInterceptor = TRUE]}
=============================================================================
